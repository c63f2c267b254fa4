------------------------- MODULE RequestPoolProofs -------------------------
(***************************************************************************)
(* What the request pool guarantees whatever the number of clients,        *)
(* requests and nodes, and whatever time-outs clients ask for.             *)
(*                                                                         *)
(* The inductive invariant is about the value of the pool, so that it can  *)
(* be stated of the intermediate values that the handlers compute as well: *)
(* the sets of the tasks are what the entries say, and the list holds each *)
(* active request once, the one with the least time left first.            *)
(***************************************************************************)
EXTENDS RequestPool, Integers, FiniteSetTheorems, SequenceTheorems, TLAPS

-----------------------------------------------------------------------------
(***************************************************************************)
(* The time-ordered list of TimeSensitive, of any length: what is kept     *)
(* when entries leave it, and where an entry goes when it comes back.      *)
(***************************************************************************)
Members(s) == {s[k] : k \in DOMAIN s}

Distinct(s) == \A k, l \in DOMAIN s : s[k] = s[l] => k = l

InOrder(s, left) == \A k, l \in DOMAIN s : k <= l => left[s[k]] <= left[s[l]]

-----------------------------------------------------------------------------
(***************************************************************************)
(* A non-empty set of natural numbers has a least one, and one that is     *)
(* bounded has a greatest.                                                 *)
(***************************************************************************)
LEMMA LeastNumber ==
    ASSUME NEW K \in SUBSET Nat, K # {}
    PROVE  \E x \in K : \A y \in K : x <= y
<1> DEFINE Below == {0..x : x \in K}
<1>1. \A x \in K : 0..x \in SUBSET Nat /\ IsFiniteSet(0..x)
    BY FS_Interval
<1>2. Below \subseteq FiniteSubsetsOf(Nat) /\ Below # {}
    BY <1>1 DEF FiniteSubsetsOf
<1> HIDE DEF Below
<1>3. PICK b \in Below : \A c \in Below : <<c, b>> \notin StrictSubsetOrdering(Nat)
    BY <1>2, FS_StrictSubsetOrderingWellFounded, WFMin
<1>4. PICK x \in K : b = 0..x
    BY DEF Below
<1>5. ASSUME NEW y \in K, y < x
      PROVE  FALSE
    <2>1. 0..y \subseteq 0..x /\ x \notin 0..y /\ x \in 0..x
        BY <1>5
    <2>2. <<0..y, 0..x>> \in StrictSubsetOrdering(Nat)
        BY <2>1 DEF StrictSubsetOrdering
    <2> QED
        BY <1>3, <1>4, <2>2 DEF Below
<1> QED
    BY <1>5

LEMMA GreatestNumber ==
    ASSUME NEW n \in Nat, NEW K \in SUBSET (1..n), K # {}
    PROVE  \E x \in K : \A y \in K : y <= x
<1> DEFINE D == {n - k : k \in K}
<1>1. D \in SUBSET Nat /\ D # {}
    <2>1. \A k \in K : n - k \in Nat
        OBVIOUS
    <2> QED
        BY <2>1
<1> HIDE DEF D
<1>2. PICK d \in D : \A e \in D : d <= e
    BY <1>1, LeastNumber
<1>3. PICK x \in K : d = n - x
    BY DEF D
<1>4. \A y \in K : n - x <= n - y
    BY <1>2, <1>3 DEF D
<1> QED
    BY <1>4

-----------------------------------------------------------------------------
(* Entries that leave. *)

(***************************************************************************)
(* Counting the kept entries up to each of them numbers them, in order,    *)
(* without a gap.                                                          *)
(***************************************************************************)
LEMMA KeptCounted ==
    ASSUME NEW S, NEW s \in Seq(S), NEW R
    PROVE  /\ Cardinality(Kept(s, R)) \in Nat
           /\ \A k \in Kept(s, R) :
                 Cardinality(KeptUpTo(s, R, k)) \in 1..Cardinality(Kept(s, R))
           /\ \A k, l \in Kept(s, R) :
                 k < l => Cardinality(KeptUpTo(s, R, k)) < Cardinality(KeptUpTo(s, R, l))
           /\ \A n \in 1..Cardinality(Kept(s, R)) :
                 \E k \in Kept(s, R) : Cardinality(KeptUpTo(s, R, k)) = n
<1> DEFINE K == Kept(s, R)
           N == Cardinality(K)
           count == [k \in K |-> Cardinality(KeptUpTo(s, R, k))]
<1>1. K \subseteq 1..Len(s) /\ Len(s) \in Nat
    BY DEF Kept
<1>2. IsFiniteSet(K) /\ N \in Nat
    <2>1. IsFiniteSet(1..Len(s))
        BY <1>1, FS_Interval
    <2> QED
        BY <1>1, <2>1, FS_Subset, FS_CardinalityType
<1>3. ASSUME NEW k \in K
      PROVE  /\ KeptUpTo(s, R, k) \in SUBSET K
             /\ IsFiniteSet(KeptUpTo(s, R, k))
             /\ count[k] \in 1..N
    <2>1. KeptUpTo(s, R, k) \in SUBSET K /\ k \in KeptUpTo(s, R, k)
        BY <1>1 DEF KeptUpTo
    <2>2. /\ IsFiniteSet(KeptUpTo(s, R, k))
          /\ Cardinality(KeptUpTo(s, R, k)) <= N
        BY <1>2, <2>1, FS_Subset
    <2>3. Cardinality(KeptUpTo(s, R, k)) \in Nat /\ Cardinality(KeptUpTo(s, R, k)) # 0
        BY <2>1, <2>2, FS_CardinalityType, FS_EmptySet
    <2> QED
        BY <1>2, <2>1, <2>2, <2>3
<1>4. ASSUME NEW k \in K, NEW l \in K, k < l
      PROVE  count[k] < count[l]
    <2>1. KeptUpTo(s, R, k) \in SUBSET KeptUpTo(s, R, l)
          /\ l \in KeptUpTo(s, R, l) /\ l \notin KeptUpTo(s, R, k)
        BY <1>1, <1>4 DEF KeptUpTo
    <2>2. count[k] <= count[l] /\ count[k] # count[l]
        BY <1>3, <2>1, FS_Subset
    <2> QED
        BY <1>3, <2>2
<1>5. count \in [K -> 1..N]
    BY <1>3
<1>6. \A k, l \in K : count[k] = count[l] => k = l
    <2> SUFFICES ASSUME NEW k \in K, NEW l \in K, count[k] = count[l]
                 PROVE  k = l
        OBVIOUS
    <2>1. k \in Nat /\ l \in Nat /\ count[k] \in Nat
        BY <1>1, <1>3
    <2>2. ~(k < l) /\ ~(l < k)
        BY <1>4, <2>1
    <2> QED
        BY <2>1, <2>2
<1> HIDE DEF K, N, count
<1>7. count \in Surjection(K, 1..N)
    <2>1. count \in Injection(K, 1..N)
        BY <1>5, <1>6 DEF Injection, IsInjective
    <2>2. IsFiniteSet(1..N) /\ Cardinality(1..N) = N
        BY <1>2, FS_Interval
    <2> QED
        BY <2>1, <2>2, FS_Injection DEF N
<1>8. \A n \in 1..N : \E k \in K : count[k] = n
    BY <1>7 DEF Surjection
<1> QED
    BY <1>2, <1>3, <1>4, <1>8 DEF K, N, count

LEMMA SomeLeave ==
    ASSUME NEW S, NEW s \in Seq(S), NEW R, NEW left, Kept(s, R) # DOMAIN s
    PROVE  /\ Without(s, R) \in Seq(S)
           /\ Members(Without(s, R)) = Members(s) \ R
           /\ Distinct(s) => Distinct(Without(s, R))
           /\ InOrder(s, left) => InOrder(Without(s, R), left)
<1> DEFINE K == Kept(s, R)
           N == Cardinality(K)
           count == [k \in K |-> Cardinality(KeptUpTo(s, R, k))]
           At(n) == CHOOSE k \in K : Cardinality(KeptUpTo(s, R, k)) = n
           w == Without(s, R)
<1>1. /\ N \in Nat
      /\ count \in [K -> 1..N]
      /\ \A k, l \in K : k < l => count[k] < count[l]
      /\ \A n \in 1..N : \E k \in K : count[k] = n
    BY KeptCounted
<1>2. \A k \in K : k \in 1..Len(s) /\ s[k] \in S /\ s[k] \notin R
    BY DEF Kept
<1>3. \A n \in 1..N : At(n) \in K /\ count[At(n)] = n
    BY <1>1
<1>4. w = [n \in 1..N |-> s[At(n)]]
    BY DEF Without
<1> HIDE DEF K, N, count, At, w
<1>5. w \in Seq(S) /\ DOMAIN w = 1..N /\ \A n \in 1..N : w[n] = s[At(n)]
    BY <1>1, <1>2, <1>3, <1>4
<1>6. \A k \in K : k = At(count[k])
    <2> SUFFICES ASSUME NEW k \in K
                 PROVE  k = At(count[k])
        OBVIOUS
    <2>1. /\ count[k] \in 1..N /\ At(count[k]) \in K /\ count[At(count[k])] = count[k]
          /\ k \in 1..Len(s) /\ At(count[k]) \in 1..Len(s)
        BY <1>1, <1>2, <1>3
    <2>2. ~(k < At(count[k])) /\ ~(At(count[k]) < k)
        BY <1>1, <2>1
    <2> QED
        BY <2>1, <2>2
<1>7. Members(w) = Members(s) \ R
    <2>1. \A x \in Members(w) : x \in Members(s) \ R
        BY <1>2, <1>3, <1>5 DEF Members
    <2>2. ASSUME NEW k \in DOMAIN s, s[k] \notin R
          PROVE  s[k] \in Members(w)
        <3>1. k \in K
            BY <2>2 DEF K, Kept
        <3>2. count[k] \in 1..N /\ w[count[k]] = s[k]
            BY <1>1, <1>5, <1>6, <3>1
        <3> QED
            BY <1>5, <3>2 DEF Members
    <2> QED
        BY <2>1, <2>2 DEF Members
<1>8. \A m, n \in 1..N : m <= n => At(m) <= At(n)
    <2> SUFFICES ASSUME NEW m \in 1..N, NEW n \in 1..N, m <= n
                 PROVE  At(m) <= At(n)
        OBVIOUS
    <2>1. /\ At(m) \in K /\ At(n) \in K /\ count[At(m)] = m /\ count[At(n)] = n
          /\ At(m) \in 1..Len(s) /\ At(n) \in 1..Len(s)
        BY <1>2, <1>3
    <2>2. ~(At(n) < At(m))
        BY <1>1, <2>1
    <2> QED
        BY <2>1, <2>2
<1>9. Distinct(s) => Distinct(w)
    <2> SUFFICES ASSUME Distinct(s), NEW m \in 1..N, NEW n \in 1..N, w[m] = w[n]
                 PROVE  m = n
        BY <1>5 DEF Distinct
    <2>1. At(m) = At(n)
        BY <1>2, <1>3, <1>5 DEF Distinct
    <2> QED
        BY <1>3, <2>1
<1>10. InOrder(s, left) => InOrder(w, left)
    BY <1>2, <1>3, <1>5, <1>8 DEF InOrder
<1> QED
    BY <1>5, <1>7, <1>9, <1>10 DEF w

(***************************************************************************)
(* What is left of a list: its entries are those that were not to leave,   *)
(* none comes twice that did not before, and an ordered list stays so.     *)
(***************************************************************************)
LEMMA WithoutProperties ==
    ASSUME NEW S, NEW s \in Seq(S), NEW R, NEW left
    PROVE  /\ Without(s, R) \in Seq(S)
           /\ Members(Without(s, R)) = Members(s) \ R
           /\ Distinct(s) => Distinct(Without(s, R))
           /\ InOrder(s, left) => InOrder(Without(s, R), left)
<1>1. CASE Kept(s, R) = DOMAIN s
    <2>1. Without(s, R) = s /\ \A x \in Members(s) : x \notin R
        BY <1>1 DEF Without, Kept, Members
    <2> QED
        BY <2>1
<1> QED
    BY <1>1, SomeLeave

-----------------------------------------------------------------------------
(* Entries that come back. *)

(***************************************************************************)
(* An entry inserted by its time is the only one added, and leaves an      *)
(* ordered list ordered.                                                   *)
(***************************************************************************)
LEMMA InsertProperties ==
    ASSUME NEW S, NEW s \in Seq(S), NEW r \in S, NEW left \in [S -> Nat]
    PROVE  LET t == InsertByTime(s, r, left)
           IN  /\ t \in Seq(S)
               /\ Members(t) = Members(s) \cup {r}
               /\ Distinct(s) /\ r \notin Members(s) => Distinct(t)
               /\ InOrder(s, left) => InOrder(t, left)
<1> DEFINE n == Len(s)
           before == {k \in DOMAIN s : left[s[k]] <= left[r]}
           p == IF before = {} THEN 0 ELSE CHOOSE k \in before : \A l \in before : l <= k
           t == SubSeq(s, 1, p) \o <<r>> \o SubSeq(s, p + 1, n)
<1>1. n \in Nat /\ DOMAIN s = 1..n /\ \A k \in 1..n : s[k] \in S
    OBVIOUS
<1>2. /\ p \in 0..n
      /\ \A k \in 1..n : left[s[k]] <= left[r] => k <= p
      /\ p # 0 => left[s[p]] <= left[r]
    <2> HIDE DEF n
    <2>1. /\ before \in SUBSET (1..n)
          /\ \A k \in 1..n : left[s[k]] <= left[r] <=> k \in before
        BY <1>1
    <2> HIDE DEF before
    <2>2. CASE before = {}
        BY <1>1, <2>1, <2>2
    <2>3. CASE before # {}
        <3>1. p \in before /\ \A l \in before : l <= p
            BY <1>1, <2>1, <2>3, GreatestNumber
        <3> HIDE DEF p
        <3> QED
            BY <1>1, <2>1, <3>1
    <2> QED
        BY <2>2, <2>3
<1>3. t = InsertByTime(s, r, left)
    BY DEF InsertByTime
<1> HIDE DEF n, before, p, t
<1>4. /\ t \in Seq(S) /\ Len(t) = n + 1
      /\ \A k \in 1..p : t[k] = s[k]
      /\ t[p + 1] = r
      /\ \A k \in (p + 2)..(n + 1) : t[k] = s[k - 1]
    <2>1. /\ SubSeq(s, 1, p) \in Seq(S) /\ Len(SubSeq(s, 1, p)) = p
          /\ \A k \in 1..p : SubSeq(s, 1, p)[k] = s[k]
        BY <1>1, <1>2, SubSeqProperties DEF n
    <2>2. /\ SubSeq(s, p + 1, n) \in Seq(S) /\ Len(SubSeq(s, p + 1, n)) = n - p
          /\ \A k \in 1..(n - p) : SubSeq(s, p + 1, n)[k] = s[(p + 1) + k - 1]
        <3>1. /\ p + 1 \in Int /\ n \in Int
              /\ \A k \in (p + 1)..n : s[k] \in S
              /\ \A k \in 1..(n - p) : k \in 1..(n - (p + 1) + 1)
              /\ n - p = IF p + 1 <= n THEN n - (p + 1) + 1 ELSE 0
            BY <1>1, <1>2
        <3>2. /\ SubSeq(s, p + 1, n) \in Seq(S)
              /\ Len(SubSeq(s, p + 1, n)) = IF p + 1 <= n THEN n - (p + 1) + 1 ELSE 0
              /\ \A k \in 1..(n - (p + 1) + 1) : SubSeq(s, p + 1, n)[k] = s[(p + 1) + k - 1]
            BY <3>1, SubSeqProperties
        <3> QED
            BY <3>1, <3>2
    <2> DEFINE a == SubSeq(s, 1, p)
               b == SubSeq(s, p + 1, n)
               c == a \o <<r>>
    <2> HIDE DEF a, b
    <2>3. /\ c \in Seq(S) /\ Len(c) = p + 1 /\ c[p + 1] = r
          /\ \A k \in 1..p : c[k] = s[k]
        BY <1>2, <2>1 DEF a
    <2>4. t = c \o b
        BY DEF t, a, b
    <2> HIDE DEF c
    <2>5. /\ t \in Seq(S) /\ Len(t) = n + 1
          /\ \A k \in 1..(p + 1) : t[k] = c[k]
          /\ \A k \in (p + 2)..(n + 1) : t[k] = b[k - (p + 1)]
        <3>1. b \in Seq(S) /\ Len(b) = n - p
            BY <2>2 DEF b
        <3>2. /\ c \o b \in Seq(S) /\ Len(c \o b) = Len(c) + Len(b)
              /\ \A k \in 1..(Len(c) + Len(b)) : (c \o b)[k] = IF k <= Len(c) THEN c[k] ELSE b[k - Len(c)]
            BY <2>3, <3>1, ConcatProperties
        <3>3. /\ t \in Seq(S) /\ Len(t) = (p + 1) + (n - p)
              /\ \A k \in 1..((p + 1) + (n - p)) : t[k] = IF k <= p + 1 THEN c[k] ELSE b[k - (p + 1)]
            BY <2>3, <2>4, <3>1, <3>2, Zenon
        <3>4. /\ (p + 1) + (n - p) = n + 1
              /\ \A k \in 1..(p + 1) : k \in 1..(n + 1) /\ k <= p + 1
              /\ \A k \in (p + 2)..(n + 1) : k \in 1..(n + 1) /\ ~(k <= p + 1)
            BY <1>1, <1>2
        <3> QED
            BY <3>3, <3>4, Zenon
    <2>6. ASSUME NEW k \in (p + 2)..(n + 1)
          PROVE  b[k - (p + 1)] = s[k - 1]
        <3>1. k - (p + 1) \in 1..(n - p) /\ (p + 1) + (k - (p + 1)) - 1 = k - 1
            BY <1>1, <1>2
        <3> QED
            BY <2>2, <3>1 DEF b
    <2>7. /\ p + 1 \in 1..(p + 1)
          /\ \A k \in 1..p : k \in 1..(p + 1)
        BY <1>2
    <2> QED
        BY <2>3, <2>5, <2>6, <2>7
<1>5. Members(t) = Members(s) \cup {r}
    <2>1. DOMAIN t = 1..(n + 1) /\ \A k \in 1..(n + 1) : t[k] \in Members(t)
        BY <1>4 DEF Members
    <2>2. \A k \in 1..(n + 1) : k \in 1..p \/ k = p + 1 \/ k \in (p + 2)..(n + 1)
        BY <1>1, <1>2
    <2>3. /\ \A k \in (p + 2)..(n + 1) : k - 1 \in 1..n
          /\ \A k \in 1..p : k \in 1..n
          /\ \A k \in 1..n : s[k] \in Members(s)
        <3>1. \A k \in 1..n : s[k] \in Members(s)
            BY <1>1 DEF Members
        <3> QED
            BY <1>1, <1>2, <3>1
    <2>4. \A x \in Members(t) : x \in Members(s) \cup {r}
        <3>1. \A k \in 1..(n + 1) : t[k] \in Members(s) \cup {r}
            BY <1>4, <2>2, <2>3
        <3> QED
            BY <2>1, <3>1 DEF Members
    <2>5. ASSUME NEW k \in 1..n
          PROVE  s[k] \in Members(t)
        <3>1. CASE k <= p
            <4>1. k \in 1..p /\ k \in 1..(n + 1)
                BY <1>1, <1>2, <3>1
            <4> QED
                BY <1>4, <2>1, <4>1
        <3>2. CASE k > p
            <4>1. k + 1 \in (p + 2)..(n + 1) /\ (k + 1) - 1 = k /\ k + 1 \in 1..(n + 1)
                BY <1>1, <1>2, <3>2
            <4> QED
                BY <1>4, <2>1, <4>1
        <3> QED
            BY <1>1, <1>2, <3>1, <3>2
    <2>6. r \in Members(t)
        <3>1. p + 1 \in 1..(n + 1)
            BY <1>1, <1>2
        <3> QED
            BY <1>4, <2>1, <3>1
    <2> QED
        BY <1>1, <2>4, <2>5, <2>6 DEF Members
<1>6. Distinct(s) /\ r \notin Members(s) => Distinct(t)
    <2> DEFINE from(k) == IF k <= p THEN k ELSE k - 1
    <2> SUFFICES ASSUME Distinct(s), r \notin Members(s),
                        NEW k \in 1..(n + 1), NEW l \in 1..(n + 1), t[k] = t[l]
                 PROVE  k = l
        BY <1>4 DEF Distinct
    <2>1. \A j \in 1..n : s[j] # r
        BY <1>1 DEF Members
    <2>2. \A j \in 1..(n + 1) : j # p + 1 => from(j) \in 1..n /\ t[j] = s[from(j)]
        <3> SUFFICES ASSUME NEW j \in 1..(n + 1), j # p + 1
                     PROVE  from(j) \in 1..n /\ t[j] = s[from(j)]
            OBVIOUS
        <3>1. CASE j <= p
            <4>1. j \in 1..p /\ j \in 1..n
                BY <1>1, <1>2, <3>1
            <4> QED
                BY <1>4, <3>1, <4>1
        <3>2. CASE ~(j <= p)
            <4>1. j \in (p + 2)..(n + 1) /\ j - 1 \in 1..n
                BY <1>1, <1>2, <3>2
            <4> QED
                BY <1>4, <3>2, <4>1
        <3> QED
            BY <3>1, <3>2
    <2> HIDE DEF from
    <2>3. k # p + 1 /\ l # p + 1 => from(k) = from(l)
        BY <1>1, <2>2 DEF Distinct
    <2>4. k = p + 1 <=> l = p + 1
        BY <1>4, <2>1, <2>2
    <2> QED
        BY <1>1, <1>2, <2>3, <2>4 DEF from
<1>7. InOrder(s, left) => InOrder(t, left)
    <2> SUFFICES ASSUME InOrder(s, left), NEW k \in 1..(n + 1), NEW l \in 1..(n + 1), k <= l
                 PROVE  left[t[k]] <= left[t[l]]
        BY <1>4 DEF InOrder
    <2>1. left[r] \in Nat /\ \A j \in 1..n : left[s[j]] \in Nat
        BY <1>1
    <2>2. \A i, j \in 1..n : i <= j => left[s[i]] <= left[s[j]]
        BY <1>1 DEF InOrder
    <2>3. \A j \in 1..p : left[s[j]] <= left[r]
        BY <1>1, <1>2, <2>1, <2>2
    <2>4. \A j \in (p + 1)..n : left[r] <= left[s[j]]
        BY <1>1, <1>2, <2>1
    <2>5. CASE l <= p
        <3>1. k \in 1..p /\ l \in 1..p /\ k \in 1..n /\ l \in 1..n
            BY <1>1, <1>2, <2>5
        <3> QED
            BY <1>4, <2>2, <3>1
    <2>6. CASE l = p + 1
        <3>1. CASE k <= p
            <4>1. t[k] = s[k] /\ t[l] = r /\ left[s[k]] <= left[r]
                BY <1>2, <1>4, <2>3, <2>6, <3>1
            <4> QED
                BY <4>1
        <3>2. CASE k = p + 1
            BY <1>4, <2>1, <2>6, <3>2
        <3> QED
            BY <1>2, <2>6, <3>1, <3>2
    <2>7. CASE l > p + 1
        <3>1. l \in (p + 2)..(n + 1) /\ l - 1 \in (p + 1)..n /\ l - 1 \in 1..n
            BY <1>1, <1>2, <2>7
        <3>2. CASE k <= p
            BY <1>1, <1>2, <1>4, <2>2, <3>1, <3>2
        <3>3. CASE k = p + 1
            BY <1>4, <2>4, <3>1, <3>3
        <3>4. CASE k > p + 1
            <4>1. k \in (p + 2)..(n + 1) /\ k - 1 \in 1..n /\ k - 1 <= l - 1
                BY <1>1, <1>2, <3>1, <3>4
            <4> QED
                BY <1>4, <2>2, <3>1, <4>1
        <3> QED
            BY <1>2, <3>2, <3>3, <3>4
    <2> QED
        BY <1>2, <2>5, <2>6, <2>7
<1> QED
    BY <1>3, <1>4, <1>5, <1>6, <1>7

-----------------------------------------------------------------------------
(* The pool. *)

Pools == [info   : [ReqIds -> ReqInfo \cup {NoReq}],
          owned  : [Tasks -> SUBSET ReqIds],
          timers : Seq(ReqIds),
          left   : [ReqIds -> 0..MaxTmo]]

ActiveOf(p) == {r \in ReqIds : p.info[r] # NoReq}

OwnedRight(p) ==
    \A t \in Tasks : p.owned[t] = {r \in ActiveOf(p) : p.info[r].task = t}

Listed(p) ==
    /\ Distinct(p.timers)
    /\ Members(p.timers) = ActiveOf(p)
    /\ InOrder(p.timers, p.left)

GoodPool(p) == p \in Pools /\ OwnedRight(p) /\ Listed(p)

OwnersIn(p, C) == \A t \in Tasks : p.owned[t] # {} => t \in C

IInv ==
    /\ ClientsTypeOK
    /\ phase \in {"timers", "traffic"}
    /\ GoodPool(pool)
    /\ OwnersIn(pool, connected)

-----------------------------------------------------------------------------
(* The operations of the pool. *)

LEMMA PoolFields ==
    ASSUME NEW p \in Pools
    PROVE  /\ p.info \in [ReqIds -> ReqInfo \cup {NoReq}]
           /\ p.owned \in [Tasks -> SUBSET ReqIds]
           /\ p.timers \in Seq(ReqIds)
           /\ p.left \in [ReqIds -> 0..MaxTmo]
           /\ p.left \in [ReqIds -> Nat]
BY TmoAssumption DEF Pools

LEMMA ActiveType ==
    ASSUME NEW p \in Pools, NEW r \in ActiveOf(p)
    PROVE  /\ r \in ReqIds /\ p.info[r] \in ReqInfo
           /\ p.info[r].task \in Tasks /\ p.info[r].node \in Nodes
           /\ p.info[r].mult \in BOOLEAN /\ p.info[r].mcast \in BOOLEAN
           /\ p.info[r].tmo \in 0..MaxTmo
BY PoolFields, TmoAssumption DEF ActiveOf, ReqInfo

(***************************************************************************)
(* Releasing requests leaves a good pool without them.                     *)
(***************************************************************************)
LEMMA ClosedFields ==
    ASSUME NEW p, NEW R
    PROVE  /\ \A r \in ReqIds : /\ Closed(p, R).info[r] = IF r \in R THEN NoReq ELSE p.info[r]
                               /\ Closed(p, R).left[r] = IF r \in R THEN 0 ELSE p.left[r]
           /\ \A t \in Tasks : Closed(p, R).owned[t] = p.owned[t] \ R
           /\ Closed(p, R).timers = Without(p.timers, R)
BY DEF Closed

LEMMA ClosedActive ==
    ASSUME NEW p, NEW R
    PROVE  /\ ActiveOf(Closed(p, R)) = ActiveOf(p) \ R
           /\ \A r \in ActiveOf(p) \ R : Closed(p, R).info[r] = p.info[r]
BY ClosedFields DEF ActiveOf

LEMMA ClosedGood ==
    ASSUME NEW p, GoodPool(p), NEW R
    PROVE  GoodPool(Closed(p, R))
<1> DEFINE q == Closed(p, R)
<1>1. p \in Pools /\ OwnedRight(p) /\ Listed(p)
    BY DEF GoodPool
<1>2. /\ ActiveOf(q) = ActiveOf(p) \ R
      /\ \A r \in ActiveOf(p) \ R : q.info[r] = p.info[r]
    BY ClosedActive
<1>3. q \in Pools
    <2>1. Without(p.timers, R) \in Seq(ReqIds)
        BY <1>1, PoolFields, WithoutProperties
    <2> QED
        BY <1>1, <2>1, PoolFields, TmoAssumption DEF Closed, Pools
<1>4. OwnedRight(q)
    <2> SUFFICES ASSUME NEW t \in Tasks
                 PROVE  q.owned[t] = {r \in ActiveOf(q) : q.info[r].task = t}
        BY DEF OwnedRight
    <2>1. q.owned[t] = p.owned[t] \ R
        BY ClosedFields
    <2>2. p.owned[t] = {r \in ActiveOf(p) : p.info[r].task = t}
        BY <1>1 DEF OwnedRight
    <2> HIDE DEF q
    <2> QED
        BY <1>2, <2>1, <2>2
<1>5. Listed(q)
    <2>1. /\ Distinct(Without(p.timers, R))
          /\ Members(Without(p.timers, R)) = ActiveOf(p) \ R
          /\ InOrder(Without(p.timers, R), p.left)
          /\ Without(p.timers, R) \in Seq(ReqIds)
        BY <1>1, PoolFields, WithoutProperties DEF Listed
    <2> DEFINE w == Without(p.timers, R)
    <2> HIDE DEF w
    <2>2. \A k \in DOMAIN w : q.left[w[k]] = p.left[w[k]]
        <3>1. \A k \in DOMAIN w : w[k] \in ReqIds /\ w[k] \notin R
            BY <2>1 DEF w, Members, ActiveOf
        <3> QED
            BY <3>1, ClosedFields
    <2>3. q.timers = w
        BY ClosedFields DEF w
    <2> HIDE DEF q
    <2> QED
        BY <1>2, <2>1, <2>2, <2>3 DEF Listed, InOrder, w
<1> QED
    BY <1>3, <1>4, <1>5 DEF GoodPool

(***************************************************************************)
(* Renewing the time-out of a request puts it in its place in the list,    *)
(* whether it was in the list or not.                                      *)
(***************************************************************************)
LEMMA TouchGood ==
    ASSUME NEW p \in Pools, OwnedRight(p), NEW r \in ActiveOf(p),
           Distinct(p.timers), InOrder(p.timers, p.left),
           Members(p.timers) \ {r} = ActiveOf(p) \ {r}
    PROVE  /\ GoodPool(Touch(p, r))
           /\ Touch(p, r).info = p.info
           /\ Touch(p, r).owned = p.owned
<1> DEFINE left == [p.left EXCEPT ![r] = p.info[r].tmo]
           w == Without(p.timers, {r})
           list == InsertByTime(w, r, left)
           q == [p EXCEPT !.left = left, !.timers = list]
<1>1. /\ r \in ReqIds /\ left \in [ReqIds -> 0..MaxTmo] /\ left \in [ReqIds -> Nat]
      /\ \A s \in ReqIds : s # r => left[s] = p.left[s]
    BY ActiveType, PoolFields, TmoAssumption
<1> HIDE DEF left
<1>3. /\ w \in Seq(ReqIds) /\ Distinct(w) /\ InOrder(w, p.left)
      /\ Members(w) = ActiveOf(p) \ {r}
    BY PoolFields, WithoutProperties
<1> HIDE DEF w
<1>4. InOrder(w, left)
    <2>1. \A k \in DOMAIN w : w[k] \in ReqIds /\ w[k] # r
        BY <1>3 DEF Members
    <2> QED
        BY <1>1, <1>3, <2>1 DEF InOrder
<1>5. /\ list \in Seq(ReqIds) /\ Distinct(list) /\ InOrder(list, left)
      /\ Members(list) = ActiveOf(p)
    <2>1. /\ list \in Seq(ReqIds)
          /\ Members(list) = Members(w) \cup {r}
          /\ Distinct(w) /\ r \notin Members(w) => Distinct(list)
          /\ InOrder(w, left) => InOrder(list, left)
        BY <1>1, <1>3, InsertProperties
    <2> HIDE DEF list
    <2> QED
        BY <1>3, <1>4, <2>1
<1> HIDE DEF list
<1>6. /\ q \in Pools
      /\ q.info = p.info /\ q.owned = p.owned /\ q.timers = list /\ q.left = left
    BY <1>1, <1>5 DEF Pools
<1>7. q = Touch(p, r)
    BY DEF Touch, list, left, w
<1> HIDE DEF q
<1>8. OwnedRight(q) /\ Listed(q)
    BY <1>5, <1>6 DEF OwnedRight, Listed, ActiveOf
<1> QED
    BY <1>6, <1>7, <1>8 DEF GoodPool

(***************************************************************************)
(* A new request takes a free entry, for the task that asks.               *)
(***************************************************************************)
LEMMA OpenedGood ==
    ASSUME NEW p, GoodPool(p), NEW r \in ReqIds \ ActiveOf(p), NEW x \in ReqInfo
    PROVE  /\ GoodPool(Opened(p, r, x))
           /\ \A s \in ReqIds : Opened(p, r, x).info[s] = IF s = r THEN x ELSE p.info[s]
           /\ \A t \in Tasks : t # x.task => Opened(p, r, x).owned[t] = p.owned[t]
<1> DEFINE u == x.task
           q == [p EXCEPT !.info[r] = x, !.owned[u] = @ \cup {r}]
<1>1. p \in Pools /\ OwnedRight(p) /\ Listed(p)
    BY DEF GoodPool
<1>2. x \in ReqInfo /\ x # NoReq /\ u \in Tasks
    BY NoReqAssumption DEF ReqInfo
<1> HIDE DEF u
<1>3. /\ q \in Pools
      /\ q.info = [p.info EXCEPT ![r] = x]
      /\ q.owned = [p.owned EXCEPT ![u] = @ \cup {r}]
      /\ q.timers = p.timers /\ q.left = p.left
    <2>1. q \in Pools
        BY <1>1, <1>2 DEF Pools
    <2>2. q.info = [p.info EXCEPT ![r] = x]
        BY <1>1 DEF Pools
    <2>3. q.owned = [p.owned EXCEPT ![u] = @ \cup {r}]
        BY <1>1 DEF Pools
    <2>4. q.timers = p.timers /\ q.left = p.left
        BY <1>1 DEF Pools
    <2> HIDE DEF q
    <2> QED
        BY <2>1, <2>2, <2>3, <2>4
<1>5. /\ q.info[r] = x /\ \A s \in ReqIds : s # r => q.info[s] = p.info[s]
      /\ ActiveOf(q) = ActiveOf(p) \cup {r}
    BY <1>1, <1>2, <1>3, PoolFields DEF ActiveOf
<1>6. OwnedRight(q)
    <2> SUFFICES ASSUME NEW t \in Tasks
                 PROVE  q.owned[t] = {s \in ActiveOf(q) : q.info[s].task = t}
        BY DEF OwnedRight
    <2>1. p.owned[t] = {s \in ActiveOf(p) : p.info[s].task = t}
        BY <1>1 DEF OwnedRight
    <2>2. \A s \in ActiveOf(p) : s # r /\ q.info[s] = p.info[s]
        BY <1>5 DEF ActiveOf
    <2>3. q.owned[t] = IF t = u THEN p.owned[t] \cup {r} ELSE p.owned[t]
        <3>1. p.owned \in [Tasks -> SUBSET ReqIds]
            BY <1>1, PoolFields
        <3>2. q.owned = [p.owned EXCEPT ![u] = @ \cup {r}]
            BY <1>3
        <3> QED
            BY <3>1, <3>2
    <2> QED
        BY <1>5, <2>1, <2>2, <2>3 DEF u
<1>7. Members(q.timers) \ {r} = ActiveOf(q) \ {r}
    BY <1>1, <1>3, <1>5 DEF Listed
<1>8. r \in ActiveOf(q) /\ Distinct(q.timers) /\ InOrder(q.timers, q.left)
    BY <1>1, <1>3, <1>5 DEF Listed
<1>9. Opened(p, r, x) = Touch(q, r)
    BY DEF Opened, q, u
<1>10. GoodPool(Touch(q, r)) /\ Touch(q, r).info = q.info /\ Touch(q, r).owned = q.owned
    BY <1>3, <1>6, <1>7, <1>8, TouchGood
<1>11. \A t \in Tasks : t # u => q.owned[t] = p.owned[t]
    <2>1. p.owned \in [Tasks -> SUBSET ReqIds] /\ q.owned = [p.owned EXCEPT ![u] = @ \cup {r}]
        BY <1>1, <1>3, PoolFields
    <2> QED
        BY <2>1
<1> QED
    BY <1>5, <1>9, <1>10, <1>11 DEF u

(***************************************************************************)
(* Time that passes does not change the order of the list.                 *)
(***************************************************************************)
LEMMA AgedGood ==
    ASSUME NEW p, GoodPool(p), NEW d \in Nat
    PROVE  LET q == [p EXCEPT !.left = [r \in ReqIds |-> IF @[r] > d THEN @[r] - d ELSE 0]]
           IN  GoodPool(q) /\ q.info = p.info /\ q.owned = p.owned
<1> DEFINE left == [r \in ReqIds |-> IF p.left[r] > d THEN p.left[r] - d ELSE 0]
           q == [p EXCEPT !.left = [r \in ReqIds |-> IF @[r] > d THEN @[r] - d ELSE 0]]
<1>1. p \in Pools /\ OwnedRight(p) /\ Listed(p)
    BY DEF GoodPool
<1>2. left \in [ReqIds -> 0..MaxTmo]
    <2>1. \A r \in ReqIds : p.left[r] \in 0..MaxTmo
        BY <1>1, PoolFields
    <2> QED
        BY <2>1, TmoAssumption
<1> HIDE DEF left
<1>3. q = [p EXCEPT !.left = left]
    BY <1>1 DEF left, Pools
<1> HIDE DEF q
<1>4. /\ q \in Pools
      /\ q.info = p.info /\ q.owned = p.owned /\ q.timers = p.timers /\ q.left = left
    BY <1>1, <1>2, <1>3 DEF Pools
<1>5. InOrder(p.timers, left)
    <2>1. \A k \in DOMAIN p.timers : p.timers[k] \in ReqIds
        BY <1>1, PoolFields
    <2>2. \A r, s \in ReqIds : p.left[r] <= p.left[s] => left[r] <= left[s]
        <3>1. \A r \in ReqIds : p.left[r] \in Nat
            BY <1>1, PoolFields
        <3> QED
            BY <3>1 DEF left
    <2> QED
        BY <1>1, <2>1, <2>2 DEF Listed, InOrder
<1>6. OwnedRight(q) /\ Listed(q)
    BY <1>1, <1>4, <1>5 DEF OwnedRight, Listed, ActiveOf
<1> QED
    BY <1>4, <1>6 DEF GoodPool, q

(***************************************************************************)
(* The entry at the head of the list is an active request, and none has    *)
(* less time left.                                                         *)
(***************************************************************************)
LEMMA HeadIsOldest ==
    ASSUME NEW p, GoodPool(p), p.timers # << >>
    PROVE  /\ Head(p.timers) \in ActiveOf(p)
           /\ \A r \in ActiveOf(p) : p.left[Head(p.timers)] <= p.left[r]
<1>1. p.timers \in Seq(ReqIds) /\ Listed(p)
    BY PoolFields DEF GoodPool
<1>2. Len(p.timers) \in Nat \ {0} /\ Head(p.timers) = p.timers[1]
    BY <1>1, EmptySeq
<1>3. /\ 1 \in DOMAIN p.timers
      /\ \A k \in DOMAIN p.timers : 1 <= k
    BY <1>1, <1>2
<1>4. p.timers[1] \in ActiveOf(p)
    BY <1>1, <1>3 DEF Listed, Members
<1>5. ASSUME NEW r \in ActiveOf(p)
      PROVE  p.left[p.timers[1]] <= p.left[r]
    <2>1. PICK k \in DOMAIN p.timers : r = p.timers[k]
        BY <1>1 DEF Listed, Members
    <2> QED
        BY <1>1, <1>3, <2>1 DEF Listed, InOrder
<1> QED
    BY <1>2, <1>4, <1>5

-----------------------------------------------------------------------------
(* The shapes the actions come in. *)

(***************************************************************************)
(* removeTask, from a good pool whose owners are connected.                *)
(***************************************************************************)
LEMMA RemoveTasksStep ==
    ASSUME IInv, NEW p, GoodPool(p), OwnersIn(p, connected),
           NEW T, NEW messages, RemoveTasks(T, p, messages),
           phase' \in {"timers", "traffic"}
    PROVE  IInv'
<1>1. pool' = Closed(p, OwnedBy(p, T))
    BY DEF RemoveTasks
<1>2. connected' = connected \ T /\ dead' = dead \ T
    BY DEF RemoveTasks
<1>3. GoodPool(pool')
    BY <1>1, ClosedGood
<1>4. OwnersIn(pool', connected')
    <2> SUFFICES ASSUME NEW t \in Tasks, pool'.owned[t] # {}
                 PROVE  t \in connected'
        BY DEF OwnersIn
    <2>1. pool'.owned[t] = p.owned[t] \ OwnedBy(p, T)
        BY <1>1, ClosedFields
    <2>2. t \notin T
        BY <2>1 DEF OwnedBy
    <2>3. t \in connected
        BY <2>1 DEF OwnersIn
    <2> QED
        BY <1>2, <2>2, <2>3
<1>5. ClientsTypeOK'
    BY <1>2 DEF IInv, ClientsTypeOK
<1> QED
    BY <1>3, <1>4, <1>5 DEF IInv

LEMMA ConcludeStep ==
    ASSUME IInv, NEW p, GoodPool(p), OwnersIn(p, connected),
           NEW t, NEW messages, Conclude(t, p, messages),
           phase' \in {"timers", "traffic"}
    PROVE  IInv'
BY RemoveTasksStep DEF Conclude

LEMMA PoolUntouched ==
    ASSUME IInv, UNCHANGED <<pool, connected>>, dead' \subseteq Tasks,
           phase' \in {"timers", "traffic"}
    PROVE  IInv'
BY DEF IInv, ClientsTypeOK

(***************************************************************************)
(* A step that only renews or ends one request.                            *)
(***************************************************************************)
LEMMA ActiveIsActive ==
    /\ ActiveIds = ActiveOf(pool)
    /\ \A r \in ReqIds : Active(r) <=> r \in ActiveOf(pool)
BY DEF ActiveIds, Active, ActiveOf

LEMMA RenewedGood ==
    ASSUME NEW p, GoodPool(p), NEW r \in ActiveOf(p), OwnersIn(p, connected)
    PROVE  GoodPool(Touch(p, r)) /\ OwnersIn(Touch(p, r), connected)
<1>1. /\ p \in Pools /\ OwnedRight(p)
      /\ Distinct(p.timers) /\ InOrder(p.timers, p.left)
      /\ Members(p.timers) \ {r} = ActiveOf(p) \ {r}
    BY DEF GoodPool, Listed
<1>2. GoodPool(Touch(p, r)) /\ Touch(p, r).owned = p.owned
    BY <1>1, TouchGood
<1> QED
    BY <1>2 DEF OwnersIn

LEMMA EndedGood ==
    ASSUME NEW p, GoodPool(p), NEW R, OwnersIn(p, connected)
    PROVE  GoodPool(Closed(p, R)) /\ OwnersIn(Closed(p, R), connected)
<1>1. GoodPool(Closed(p, R))
    BY ClosedGood
<1>2. \A t \in Tasks : Closed(p, R).owned[t] = p.owned[t] \ R
    BY ClosedFields
<1> QED
    BY <1>1, <1>2 DEF OwnersIn

LEMMA OneRequestStep ==
    ASSUME IInv, NEW r \in ActiveIds,
           pool' = Touch(pool, r) \/ pool' = Closed(pool, {r}),
           UNCHANGED <<connected, dead, phase>>
    PROVE  IInv'
<1>1. GoodPool(pool') /\ OwnersIn(pool', connected)
    BY ActiveIsActive, RenewedGood, EndedGood DEF IInv
<1> QED
    BY <1>1 DEF IInv, ClientsTypeOK

-----------------------------------------------------------------------------
(* Each action preserves the invariant. *)

LEMMA ExpireOldestStep ==
    ASSUME IInv, ExpireOldest
    PROVE  IInv'
<1> DEFINE r == Head(pool.timers)
<1>1. r \in ActiveOf(pool) /\ phase' \in {"timers", "traffic"}
    BY HeadIsOldest DEF ExpireOldest, Expired, IInv
<1> HIDE DEF r
<1>2. \/ \E messages : Conclude(Owner(r), Touch(pool, r), messages)
      \/ \E messages : Conclude(Owner(r), Closed(pool, {r}), messages)
    BY DEF ExpireOldest, r
<1>3. /\ GoodPool(Touch(pool, r)) /\ OwnersIn(Touch(pool, r), connected)
      /\ GoodPool(Closed(pool, {r})) /\ OwnersIn(Closed(pool, {r}), connected)
    BY <1>1, RenewedGood, EndedGood DEF IInv
<1> QED
    BY <1>1, <1>2, <1>3, ConcludeStep

LEMMA PollReturnsStep ==
    ASSUME IInv, NEW d \in 0..MaxTmo, PollReturns(d)
    PROVE  IInv'
<1>1. /\ UNCHANGED <<connected, dead>> /\ phase' = "traffic"
      /\ pool' = [pool EXCEPT !.left = [r \in ReqIds |-> IF @[r] > d THEN @[r] - d ELSE 0]]
    BY DEF PollReturns
<1>2. d \in Nat
    BY TmoAssumption
<1>3. GoodPool(pool') /\ pool'.owned = pool.owned
    BY <1>1, <1>2, AgedGood DEF IInv
<1> QED
    BY <1>1, <1>3 DEF IInv, ClientsTypeOK, OwnersIn

LEMMA RemoveAllTasksStep ==
    ASSUME IInv, RemoveAllTasks
    PROVE  IInv'
BY RemoveTasksStep DEF RemoveAllTasks, IInv

LEMMA ConnectStep ==
    ASSUME IInv, NEW t \in Tasks, Connect(t), UNCHANGED phase
    PROVE  IInv'
<1>1. /\ pool' = Closed(pool, OwnedBy(pool, Inactive))
      /\ connected' = (connected \ Inactive) \cup {t}
      /\ dead' = dead \ Inactive
    BY DEF Connect
<1>2. GoodPool(pool')
    BY <1>1, ClosedGood DEF IInv
<1>3. OwnersIn(pool', connected')
    <2> SUFFICES ASSUME NEW u \in Tasks, pool'.owned[u] # {}
                 PROVE  u \in connected'
        BY DEF OwnersIn
    <2>1. pool'.owned[u] = pool.owned[u] \ OwnedBy(pool, Inactive)
        BY <1>1, ClosedFields
    <2>2. u \notin Inactive
        BY <2>1 DEF OwnedBy
    <2>3. u \in connected
        BY <2>1 DEF OwnersIn, IInv
    <2> QED
        BY <1>1, <2>2, <2>3
<1>4. ClientsTypeOK'
    BY <1>1 DEF IInv, ClientsTypeOK
<1> QED
    BY <1>2, <1>3, <1>4 DEF IInv

LEMMA ClampedType ==
    ASSUME NEW tmo \in AskedTmos
    PROVE  Clamped(tmo) \in MinTmo..MaxTmo
BY TmoAssumption DEF Clamped

LEMMA SendRequestStep ==
    ASSUME IInv, NEW t \in Tasks, NEW n \in Nodes, NEW name \in Names,
           NEW mult \in BOOLEAN, NEW tmo \in AskedTmos,
           SendRequest(t, n, name, mult, tmo), UNCHANGED phase
    PROVE  IInv'
<1> DEFINE x == [task |-> t, node |-> n, name |-> name, mult |-> mult,
                 mcast |-> n \in McNodes, tmo |-> Clamped(tmo)]
<1>1. PICK r \in ReqIds \ ActiveIds : Conclude(t, Opened(pool, r, x), {Request(r, n)})
    BY DEF SendRequest
<1>2. x \in ReqInfo /\ x.task = t /\ t \in connected
    <2>1. Clamped(tmo) \in MinTmo..MaxTmo
        BY ClampedType
    <2>2. (n \in McNodes) \in BOOLEAN
        OBVIOUS
    <2> QED
        BY <2>1, <2>2 DEF ReqInfo, SendRequest, Commands
<1> DEFINE p == Opened(pool, r, x)
<1> HIDE DEF x
<1>3. GoodPool(p) /\ \A u \in Tasks : u # t => p.owned[u] = pool.owned[u]
    <2>1. r \in ReqIds \ ActiveOf(pool)
        BY ActiveIsActive
    <2> QED
        BY <1>2, <2>1, OpenedGood DEF IInv
<1> HIDE DEF p
<1>4. OwnersIn(p, connected)
    BY <1>2, <1>3 DEF OwnersIn, IInv
<1>5. Conclude(t, p, {Request(r, n)}) /\ phase' \in {"timers", "traffic"}
    BY <1>1 DEF p, IInv
<1> QED
    BY <1>3, <1>4, <1>5, ConcludeStep

LEMMA HandleCancelStep ==
    ASSUME IInv, NEW t \in Tasks, NEW r \in ReqIds, HandleCancel(t, r), UNCHANGED phase
    PROVE  IInv'
<1>1. GoodPool(Closed(pool, {r})) /\ OwnersIn(Closed(pool, {r}), connected)
    BY EndedGood DEF IInv
<1>2. Conclude(t, Closed(pool, {r}), Cancels(pool, {r}))
    BY DEF HandleCancel
<1> QED
    BY <1>1, <1>2, ConcludeStep DEF IInv

LEMMA ReplyStep ==
    ASSUME IInv, NEW r \in ReqIds, NEW n, NEW name, NEW t, NEW mlt, NEW status,
           HandleAcnetReply(r, n, name, t, mlt, status), UNCHANGED phase
    PROVE  IInv'
<1>1. CASE RejectReply(r, n, name, t)
    <2>1. UNCHANGED <<pool, connected, dead>>
        BY <1>1 DEF RejectReply
    <2> QED
        BY <2>1, PoolUntouched DEF IInv, ClientsTypeOK
<1>2. CASE Matches(r, n, name, t) /\ AcceptReply(r, mlt, status)
    <2>1. r \in ActiveIds /\ UNCHANGED <<connected, dead>>
        BY <1>2 DEF Matches, AcceptReply, ActiveIds
    <2>2. pool' = Touch(pool, r) \/ pool' = Closed(pool, {r})
        BY <1>2 DEF AcceptReply
    <2> QED
        BY <2>1, <2>2, OneRequestStep
<1>3. CASE RemoveTasks(RemovedWith(t), pool, {})
    BY <1>3, RemoveTasksStep DEF IInv
<1> QED
    BY <1>1, <1>2, <1>3 DEF HandleAcnetReply

LEMMA CancelReqToNodeStep ==
    ASSUME IInv, NEW n, CancelReqToNode(n), UNCHANGED phase
    PROVE  IInv'
<1>1. PICK r : \E messages : Conclude(Owner(r), Closed(pool, {r}), messages)
    BY DEF CancelReqToNode
<1>2. GoodPool(Closed(pool, {r})) /\ OwnersIn(Closed(pool, {r}), connected)
    BY EndedGood DEF IInv
<1> QED
    BY <1>1, <1>2, ConcludeStep DEF IInv

LEMMA CommandSteps ==
    ASSUME IInv, NEW t \in Tasks, HandleClientCommand(t), UNCHANGED phase
    PROVE  IInv'
<1>1. CASE Disconnect(t) \/ DisconnectSingle(t) \/ DeliveryFails(t)
    <2>1. \E T : RemoveTasks(T, pool, {})
        BY <1>1 DEF Disconnect, DisconnectSingle, DeliveryFails
    <2> QED
        BY <2>1, RemoveTasksStep DEF IInv
<1>2. CASE Connect(t)
    BY <1>2, ConnectStep
<1>3. CASE \E n \in Nodes, name \in Names, mult \in BOOLEAN, tmo \in AskedTmos :
            SendRequest(t, n, name, mult, tmo)
    BY <1>3, SendRequestStep
<1>4. CASE \E r \in ReqIds : HandleCancel(t, r)
    BY <1>4, HandleCancelStep
<1> QED
    BY <1>1, <1>2, <1>3, <1>4 DEF HandleClientCommand

LEMMA PacketSteps ==
    ASSUME IInv, HandlePacket, UNCHANGED phase
    PROVE  IInv'
BY ReplyStep, CancelReqToNodeStep DEF HandlePacket

LEMMA InitEstablishes ==
    Init => IInv
<1> SUFFICES ASSUME Init
             PROVE  IInv
    OBVIOUS
<1>1. /\ pool.info = [r \in ReqIds |-> NoReq] /\ pool.owned = [t \in Tasks |-> {}]
      /\ pool.timers = << >> /\ pool.left = [r \in ReqIds |-> 0]
      /\ pool \in Pools
    BY TmoAssumption DEF Init, Pools
<1>2. ActiveOf(pool) = {}
    BY <1>1 DEF ActiveOf
<1>3. OwnedRight(pool) /\ OwnersIn(pool, connected)
    BY <1>1, <1>2 DEF OwnedRight, OwnersIn
<1>4. Listed(pool)
    BY <1>1, <1>2 DEF Listed, Distinct, Members, InOrder
<1> QED
    BY <1>1, <1>3, <1>4 DEF Init, ClientsInit, IInv, ClientsTypeOK, GoodPool

LEMMA NextPreserves ==
    IInv /\ [Next]_vars => IInv'
<1> SUFFICES ASSUME IInv, [Next]_vars
             PROVE  IInv'
    OBVIOUS
<1>1. CASE ExpireOldest
    BY <1>1, ExpireOldestStep
<1>2. CASE \E d \in 0..MaxTmo : PollReturns(d)
    BY <1>2, PollReturnsStep
<1>3. CASE SocketsDrained \/ UNCHANGED vars
    <2>1. /\ UNCHANGED <<pool, connected, dead>>
          /\ phase' \in {"timers", "traffic"}
        BY <1>3 DEF SocketsDrained, vars, IInv
    <2> QED
        BY <2>1, PoolUntouched DEF IInv, ClientsTypeOK
<1>4. CASE RemoveAllTasks
    BY <1>4, RemoveAllTasksStep
<1>5. CASE \E t \in Tasks : Die(t) \/ Recover(t)
    <2>1. /\ UNCHANGED <<pool, connected, phase>>
          /\ dead' \subseteq Tasks
        BY <1>5 DEF Die, Recover, ClientDies, ClientRecovers, IInv, ClientsTypeOK
    <2> QED
        BY <2>1, PoolUntouched DEF IInv
<1>6. CASE HandlePacket /\ UNCHANGED phase
    BY <1>6, PacketSteps
<1>7. CASE UNCHANGED phase /\ \E t \in Tasks : HandleClientCommand(t)
    BY <1>7, CommandSteps
<1> QED
    BY <1>1, <1>2, <1>3, <1>4, <1>5, <1>6, <1>7 DEF Next

(***************************************************************************)
(* In every reachable state the pool is good, and only connected tasks own *)
(* requests.                                                               *)
(***************************************************************************)
THEOREM Inductive ==
    Spec => []IInv
BY InitEstablishes, NextPreserves, PTL DEF Spec

THEOREM TypeCorrect ==
    Spec => []TypeOK
<1>1. IInv => TypeOK
    BY DEF IInv, TypeOK, GoodPool, Pools
<1> QED
    BY <1>1, Inductive, PTL

(***************************************************************************)
(* No request keeps a pointer to a task that is gone.                      *)
(***************************************************************************)
THEOREM OwnershipAlwaysAgrees ==
    Spec => []OwnershipAgrees
<1>1. IInv => OwnershipAgrees
    BY ActiveIsActive DEF IInv, OwnershipAgrees, GoodPool, OwnedRight, OwnersIn, Owner
<1> QED
    BY <1>1, Inductive, PTL

LEMMA ListIsExact ==
    IInv => TimersExact
<1> SUFFICES ASSUME IInv
             PROVE  TimersExact
    OBVIOUS
<1> DEFINE s == pool.timers
<1>1. s \in Seq(ReqIds) /\ Distinct(s) /\ Members(s) = ActiveIds /\ InOrder(s, pool.left)
    BY PoolFields, ActiveIsActive DEF IInv, GoodPool, Listed
<1> HIDE DEF s
<1>2. Len(s) \in Nat /\ DOMAIN s = 1..Len(s)
    BY <1>1
<1>3. s \in Bijection(1..Len(s), ActiveIds)
    <2>1. s \in [1..Len(s) -> ActiveIds]
        BY <1>1, <1>2 DEF Members
    <2>2. \A a, b \in 1..Len(s) : s[a] = s[b] => a = b
        BY <1>1, <1>2 DEF Distinct
    <2>3. \A r \in ActiveIds : \E a \in 1..Len(s) : s[a] = r
        BY <1>1, <1>2 DEF Members
    <2> QED
        BY <2>1, <2>2, <2>3 DEF Bijection, Injection, Surjection, IsInjective
<1>4. Cardinality(ActiveIds) = Len(s)
    BY <1>2, <1>3, FS_CountingElements DEF ExistsBijection
<1> QED
    BY <1>1, <1>4, Zenon DEF TimersExact, Members, InOrder, s

(***************************************************************************)
(* No active request is missing from the list of time-outs, no freed one   *)
(* is left in it, and it is in the order in which they expire, whatever    *)
(* time-outs were mixed and however they were renewed                      *)
(* (timesensitive.cpp:12-32).                                              *)
(***************************************************************************)
THEOREM TimersAlwaysExact ==
    Spec => []TimersExact
BY ListIsExact, Inductive, PTL

(***************************************************************************)
(* The loop never goes to sleep on a request that is overdue: the list is  *)
(* in the order of the time left, whatever time-outs were mixed.           *)
(***************************************************************************)
THEOREM NeverOverdue ==
    Spec => NeverSleepsOverdue
<1> DEFINE Claim == phase' # phase /\ phase = "timers" => \A r \in ActiveIds : pool.left[r] > 0
<1>1. ASSUME IInv, Next
      PROVE  Claim
    <2> SUFFICES ASSUME phase' # phase, phase = "timers", NEW r \in ActiveIds
                 PROVE  pool.left[r] > 0
        OBVIOUS
    <2>1. ~Expired
        BY <1>1 DEF Next, ExpireOldest, PollReturns, SocketsDrained, RemoveAllTasks,
                    Die, Recover
    <2>2. GoodPool(pool) /\ r \in ActiveOf(pool)
        BY <1>1, ActiveIsActive DEF IInv
    <2>3. pool.timers # << >>
        <3>1. Members(pool.timers) = ActiveOf(pool)
            BY <2>2 DEF GoodPool, Listed
        <3>2. Members(<< >>) = {}
            BY DEF Members
        <3> QED
            BY <2>2, <3>1, <3>2
    <2> DEFINE h == Head(pool.timers)
    <2>4. h \in ActiveOf(pool) /\ pool.left[h] <= pool.left[r]
        BY <2>2, <2>3, HeadIsOldest
    <2>5. pool.left[h] # 0
        BY <2>1, <2>3 DEF Expired
    <2>6. pool.left[h] \in Nat /\ pool.left[r] \in Nat
        <3>1. pool.left \in [ReqIds -> Nat]
            BY <2>2, PoolFields DEF GoodPool
        <3> HIDE DEF h
        <3> QED
            BY <2>2, <2>4, <3>1 DEF ActiveOf
    <2> HIDE DEF h
    <2> QED
        BY <2>4, <2>5, <2>6
<1>2. IInv /\ [Next]_vars => [Claim]_vars
    BY <1>1
<1> QED
    BY <1>2, Inductive, PTL DEF Spec, NeverSleepsOverdue

-----------------------------------------------------------------------------
(* What requesters and repliers are told. *)

(***************************************************************************)
(* The kinds of messages cannot be mistaken for each other.                *)
(***************************************************************************)
LEMMA MessagesApart ==
    ASSUME NEW t, NEW r, NEW mlt, NEW status, NEW s, NEW n
    PROVE  /\ Reply(t, r, mlt, status) # Cancel(s, n)
           /\ Reply(t, r, mlt, status) # Request(s, n)
<1>1. "to" \in DOMAIN Reply(t, r, mlt, status)
    BY DEF Reply
<1>2. "to" \notin DOMAIN Cancel(s, n) /\ "to" \notin DOMAIN Request(s, n)
    BY DEF Cancel, Request
<1> QED
    BY <1>1, <1>2

(***************************************************************************)
(* A request that goes with its task is cancelled at the remote node, and  *)
(* no other one goes.                                                      *)
(***************************************************************************)
LEMMA RemovalTold ==
    ASSUME NEW p, GoodPool(p), NEW T \in SUBSET Tasks, NEW messages,
           RemoveTasks(T, p, messages)
    PROVE  /\ messages \subseteq out'
           /\ \A m \in out' \ messages : \E r, n : m = Cancel(r, n)
           /\ \A r \in ReqIds \ ActiveOf(p) : ~Active(r)'
           /\ \A r \in ActiveOf(p) :
                 Active(r)' \/ ( /\ p.info[r].task \notin connected'
                                /\ Cancel(r, p.info[r].node) \in out')
<1> DEFINE R == OwnedBy(p, T)
<1>1. /\ pool' = Closed(p, R) /\ connected' = connected \ T
      /\ out' = messages \cup Cancels(p, R)
    BY DEF RemoveTasks
<1>2. \A r \in R : r \in ActiveOf(p) /\ p.info[r].task \in T
    BY DEF OwnedBy, GoodPool, OwnedRight
<1> HIDE DEF R
<1>3. \A r \in ReqIds : Active(r)' <=> r \in ActiveOf(p) \ R
    <2>1. \A r \in ReqIds : pool'.info[r] = IF r \in R THEN NoReq ELSE p.info[r]
        BY <1>1, ClosedFields
    <2> QED
        BY <2>1 DEF Active, ActiveOf
<1>4. \A r \in R : Cancel(r, p.info[r].node) \in out'
    BY <1>1 DEF Cancels
<1>5. \A m \in Cancels(p, R) : \E r, n : m = Cancel(r, n)
    BY DEF Cancels
<1>6. \A r \in ActiveOf(p) : r \in ReqIds
    BY DEF ActiveOf
<1> QED
    BY <1>1, <1>2, <1>3, <1>4, <1>5, <1>6

LEMMA ConcludeTold ==
    ASSUME ClientsTypeOK, NEW p, GoodPool(p), NEW t \in Tasks, NEW messages,
           Conclude(t, p, messages)
    PROVE  /\ messages \subseteq out'
           /\ \A m \in out' \ messages : \E r, n : m = Cancel(r, n)
           /\ \A r \in ReqIds \ ActiveOf(p) : ~Active(r)'
           /\ \A r \in ActiveOf(p) :
                 Active(r)' \/ ( /\ p.info[r].task \notin connected'
                                /\ Cancel(r, p.info[r].node) \in out')
<1>1. PICK T \in Dropped(t) : RemoveTasks(T, p, messages)
    BY DEF Conclude
<1>2. T \in SUBSET Tasks
    BY DEF Dropped, RemovedWith, ClientsTypeOK
<1> QED
    BY <1>1, <1>2, RemovalTold

RequesterKnows(r) ==
    \/ Owner(r) \in dead \cup (Tasks \ connected')
    \/ LastReply(r)
    \/ \E t \in Tasks : HandleCancel(t, r) \/ (Connect(t) /\ Owner(r) \in Inactive)

ReplierKnows(r) ==
    \/ Cancel(r, pool.info[r].node) \in out'
    \/ AnsweredInFull(r)
    \/ \E n \in KilledNodes : CancelReqToNode(n)

Told(r) == Active(r)' \/ (RequesterKnows(r) /\ ReplierKnows(r))

(***************************************************************************)
(* The request that a handler ends itself, and those that it leaves alone. *)
(***************************************************************************)
LEMMA OthersTold ==
    ASSUME IInv, NEW p, GoodPool(p), NEW t \in Tasks, NEW messages,
           Conclude(t, p, messages),
           NEW r \in ActiveIds, r \in ActiveOf(p), p.info[r] = pool.info[r]
    PROVE  Told(r)
<1>1. Active(r)' \/ (Owner(r) \notin connected' /\ Cancel(r, pool.info[r].node) \in out')
    BY ConcludeTold DEF IInv, Owner
<1>2. Owner(r) \in Tasks
    BY ActiveIsActive, ActiveType DEF IInv, GoodPool, Owner
<1> QED
    BY <1>1, <1>2 DEF Told, RequesterKnows, ReplierKnows

LEMMA ClosedTold ==
    ASSUME IInv, NEW h, NEW t \in Tasks, NEW messages,
           Conclude(t, Closed(pool, {h}), messages), NEW r \in ActiveIds, r # h
    PROVE  Told(r)
<1> DEFINE p == Closed(pool, {h})
<1>1. r \in ActiveOf(p) /\ p.info[r] = pool.info[r] /\ GoodPool(p)
    BY ActiveIsActive, ClosedActive, ClosedGood DEF IInv
<1> HIDE DEF p
<1>2. Conclude(t, p, messages)
    BY DEF p
<1> QED
    BY <1>1, <1>2, OthersTold

LEMMA RemovedTold ==
    ASSUME IInv, NEW T \in SUBSET Tasks, NEW messages, RemoveTasks(T, pool, messages),
           NEW r \in ActiveIds
    PROVE  Told(r)
<1>1. Active(r)' \/ (Owner(r) \notin connected' /\ Cancel(r, pool.info[r].node) \in out')
    BY RemovalTold, ActiveIsActive DEF IInv, Owner
<1>2. Owner(r) \in Tasks
    BY ActiveIsActive, ActiveType DEF IInv, GoodPool, Owner
<1> QED
    BY <1>1, <1>2 DEF Told, RequesterKnows, ReplierKnows

(***************************************************************************)
(* A last reply, among the messages of the step.                           *)
(***************************************************************************)
LEMMA ErrorIsLast ==
    ASSUME NEW r, Reply(Owner(r), r, FALSE, "error") \in out'
    PROVE  LastReply(r)
<1>1. "error" \in Statuses \ {"pend"} /\ FALSE \in BOOLEAN
    BY DEF Statuses
<1> QED
    BY <1>1 DEF LastReply

LEMMA ExpireTold ==
    ASSUME IInv, ExpireOldest, NEW r \in ActiveIds
    PROVE  Told(r)
<1> DEFINE h == Head(pool.timers)
<1>1. h \in ActiveOf(pool)
    BY HeadIsOldest DEF ExpireOldest, Expired, IInv
<1>2. \/ Conclude(Owner(h), Touch(pool, h), {Reply(Owner(h), h, TRUE, "pend")})
      \/ Conclude(Owner(h), Closed(pool, {h}),
                  {Reply(Owner(h), h, FALSE, "error")} \cup Cancels(pool, {h}))
    BY DEF ExpireOldest
<1> HIDE DEF h
<1>3. Owner(h) \in Tasks
    BY <1>1, ActiveType DEF IInv, GoodPool, Owner
<1>4. CASE Conclude(Owner(h), Touch(pool, h), {Reply(Owner(h), h, TRUE, "pend")})
    <2> DEFINE p == Touch(pool, h)
    <2>1. GoodPool(p) /\ p.info = pool.info
        BY <1>1, TouchGood DEF IInv, GoodPool, Listed
    <2> HIDE DEF p
    <2>2. r \in ActiveOf(p) /\ p.info[r] = pool.info[r]
        BY <2>1, ActiveIsActive DEF ActiveOf
    <2>3. Conclude(Owner(h), p, {Reply(Owner(h), h, TRUE, "pend")})
        BY <1>4 DEF p
    <2> QED
        BY <1>3, <2>1, <2>2, <2>3, OthersTold
<1>5. CASE Conclude(Owner(h), Closed(pool, {h}),
                    {Reply(Owner(h), h, FALSE, "error")} \cup Cancels(pool, {h}))
    <2>1. CASE r # h
        BY <1>3, <1>5, <2>1, ClosedTold
    <2>2. CASE r = h
        <3>1. {Reply(Owner(h), h, FALSE, "error")} \cup Cancels(pool, {h}) \subseteq out'
            BY <1>3, <1>5, ConcludeTold, ClosedGood DEF IInv
        <3>2. Cancel(h, pool.info[h].node) \in out'
            BY <3>1 DEF Cancels
        <3>3. LastReply(r)
            BY <2>2, <3>1, ErrorIsLast
        <3> QED
            BY <2>2, <3>2, <3>3 DEF Told, RequesterKnows, ReplierKnows
    <2> QED
        BY <2>1, <2>2
<1> QED
    BY <1>2, <1>4, <1>5

LEMMA CommandTold ==
    ASSUME IInv, NEW t \in Tasks, HandleClientCommand(t), NEW r \in ActiveIds
    PROVE  Told(r)
<1>1. CASE Connect(t)
    <2> DEFINE R == OwnedBy(pool, Inactive)
    <2>1. pool' = Closed(pool, R) /\ out' = Cancels(pool, R)
        BY <1>1 DEF Connect
    <2>2. CASE r \notin R
        <3>1. Active(r)'
            BY <2>1, <2>2, ClosedFields DEF Active, ActiveIds
        <3> QED
            BY <3>1 DEF Told
    <2>3. CASE r \in R
        <3>1. Cancel(r, pool.info[r].node) \in out'
            BY <2>1, <2>3 DEF Cancels
        <3>2. Inactive \subseteq Tasks
            BY DEF Inactive, RemovedWith, IInv, ClientsTypeOK
        <3>3. Owner(r) \in Inactive
            BY <2>3, <3>2 DEF OwnedBy, IInv, GoodPool, OwnedRight, Owner
        <3> QED
            BY <1>1, <3>1, <3>3 DEF Told, RequesterKnows, ReplierKnows
    <2> QED
        BY <2>2, <2>3
<1>2. CASE Disconnect(t) \/ DisconnectSingle(t) \/ DeliveryFails(t)
    <2>1. \E T \in SUBSET Tasks : RemoveTasks(T, pool, {})
        BY <1>2 DEF Disconnect, DisconnectSingle, DeliveryFails, RemovedWith, IInv, ClientsTypeOK
    <2> QED
        BY <2>1, RemovedTold
<1>3. CASE \E n \in Nodes, name \in Names, mult \in BOOLEAN, tmo \in AskedTmos :
            SendRequest(t, n, name, mult, tmo)
    <2>1. PICK n \in Nodes, name \in Names, mult \in BOOLEAN, tmo \in AskedTmos :
            SendRequest(t, n, name, mult, tmo)
        BY <1>3
    <2> DEFINE x == [task |-> t, node |-> n, name |-> name, mult |-> mult,
                     mcast |-> n \in McNodes, tmo |-> Clamped(tmo)]
    <2>2. PICK s \in ReqIds \ ActiveIds : Conclude(t, Opened(pool, s, x), {Request(s, n)})
        BY <2>1 DEF SendRequest
    <2>3. x \in ReqInfo
        <3>1. Clamped(tmo) \in MinTmo..MaxTmo /\ (n \in McNodes) \in BOOLEAN
            BY ClampedType
        <3> QED
            BY <3>1 DEF ReqInfo
    <2> HIDE DEF x
    <2> DEFINE p == Opened(pool, s, x)
    <2>4. GoodPool(p) /\ \A q \in ReqIds : p.info[q] = IF q = s THEN x ELSE pool.info[q]
        BY <2>3, ActiveIsActive, OpenedGood DEF IInv
    <2>5. Conclude(t, p, {Request(s, n)})
        BY <2>2
    <2> HIDE DEF p
    <2>6. r \in ActiveOf(p) /\ p.info[r] = pool.info[r]
        BY <2>4, ActiveIsActive DEF ActiveOf
    <2> QED
        BY <2>4, <2>5, <2>6, OthersTold
<1>4. CASE \E s \in ReqIds : HandleCancel(t, s)
    <2>1. PICK s \in ReqIds : HandleCancel(t, s)
        BY <1>4
    <2>2. Conclude(t, Closed(pool, {s}), Cancels(pool, {s}))
        BY <2>1 DEF HandleCancel
    <2>3. CASE r # s
        BY <2>2, <2>3, ClosedTold
    <2>4. CASE r = s
        <3>1. Cancels(pool, {s}) \subseteq out'
            BY <2>2, ConcludeTold, ClosedGood DEF IInv
        <3>2. Cancel(r, pool.info[r].node) \in out'
            BY <2>4, <3>1 DEF Cancels
        <3> QED
            BY <2>1, <2>4, <3>2 DEF Told, RequesterKnows, ReplierKnows
    <2> QED
        BY <2>3, <2>4
<1> QED
    BY <1>1, <1>2, <1>3, <1>4 DEF HandleClientCommand

(***************************************************************************)
(* The rules of handleAcnetReply leave neither side in the dark.           *)
(***************************************************************************)
LEMMA ReplyTold ==
    ASSUME IInv, NEW s \in ReqIds, NEW n \in Senders, NEW name \in Names, NEW t \in Tasks,
           NEW mlt \in BOOLEAN, NEW status \in Statuses,
           HandleAcnetReply(s, n, name, t, mlt, status), NEW r \in ActiveIds
    PROVE  Told(r)
<1>1. r \in ReqIds /\ pool.info[r] # NoReq
    BY DEF ActiveIds, Active
<1>2. CASE pool' = pool
    BY <1>1, <1>2 DEF Told, Active
<1>3. CASE RemoveTasks(RemovedWith(t), pool, {})
    <2>1. RemovedWith(t) \in SUBSET Tasks
        BY DEF RemovedWith, IInv, ClientsTypeOK
    <2> QED
        BY <1>3, <2>1, RemovedTold
<1>4. CASE s \in ActiveIds /\ pool' = Touch(pool, s)
    <2>1. pool'.info = pool.info
        BY <1>4, ActiveIsActive, TouchGood DEF IInv, GoodPool, Listed
    <2> QED
        BY <1>1, <2>1 DEF Told, Active
<1>5. CASE pool' = Closed(pool, {s}) /\ r # s
    <2>1. pool'.info[r] = pool.info[r]
        BY <1>1, <1>5, ClosedFields
    <2> QED
        BY <1>1, <2>1 DEF Told, Active
<1>6. CASE /\ pool' = Closed(pool, {s}) /\ r = s
           /\ Matches(r, n, name, t) /\ AcceptReply(r, mlt, status)
    <2> DEFINE A == pool.info[r].mult
               B == pool.info[r].mcast
               C == IsEMR(mlt, status)
    <2>1. A \in BOOLEAN /\ B \in BOOLEAN /\ C \in BOOLEAN
        BY ActiveIsActive, ActiveType DEF IInv, GoodPool, IsEMR
    <2>2. Cancels(pool, {r}) = {Cancel(r, pool.info[r].node)}
        BY DEF Cancels
    <2>3. ~B /\ (C \/ (~A /\ Owner(r) \in dead)) => AnsweredInFull(r)
        BY <1>6 DEF AnsweredInFull
    <2>4. CASE /\ status # "pend" /\ Closes(A, B, C)
               /\ out' = {ClientHeader(r, mlt, status)} \cup
                          (IF Closes(A, B, C) /\ CancelsToo(A, B, C)
                           THEN Cancels(pool, {r}) ELSE {})
        <3>1. LastReply(r)
            <4>1. CASE ~(A /\ C)
                <5>1. ~A
                    BY <2>1, <2>4, <4>1 DEF Closes
                <5>2. Reply(Owner(r), r, mlt, status) \in out'
                    BY <2>4, <4>1 DEF ClientHeader
                <5> QED
                    BY <2>4, <5>1, <5>2 DEF LastReply
            <4>2. CASE A /\ C
                <5>1. ~B
                    BY <2>1, <2>4, <4>2 DEF Closes
                <5> DEFINE last == IF status = "success" THEN "endmult" ELSE status
                <5>2. Reply(Owner(r), r, FALSE, last) \in out'
                    BY <2>4, <4>2, <5>1 DEF ClientHeader
                <5>3. last \in Statuses \ {"pend"}
                    BY <2>4 DEF Statuses
                <5> QED
                    BY <5>2, <5>3 DEF LastReply
            <4> QED
                BY <4>1, <4>2
        <3>2. ReplierKnows(r)
            BY <2>1, <2>2, <2>3, <2>4 DEF Closes, CancelsToo, ReplierKnows
        <3> QED
            BY <3>1, <3>2 DEF Told, RequesterKnows
    <2>5. CASE /\ Owner(r) \in dead
               /\ out' = IF A \/ B THEN Cancels(pool, {r}) ELSE {}
        <3>1. ReplierKnows(r)
            BY <2>1, <2>2, <2>3, <2>5 DEF ReplierKnows
        <3> QED
            BY <2>5, <3>1 DEF Told, RequesterKnows
    <2>6. CASE pool' = Touch(pool, r)
        BY <1>4, <1>6, <2>6
    <2> QED
        BY <1>6, <2>4, <2>5, <2>6 DEF AcceptReply
<1>7. \/ pool' = pool \/ RemoveTasks(RemovedWith(t), pool, {})
      \/ /\ Matches(s, n, name, t) /\ AcceptReply(s, mlt, status)
         /\ pool' = Touch(pool, s) \/ pool' = Closed(pool, {s})
    BY DEF HandleAcnetReply, RejectReply, AcceptReply
<1>8. Matches(s, n, name, t) => s \in ActiveIds
    BY DEF Matches, ActiveIds
<1> QED
    BY <1>2, <1>3, <1>4, <1>5, <1>6, <1>7, <1>8

LEMMA KilledTold ==
    ASSUME IInv, NEW n \in KilledNodes, CancelReqToNode(n), NEW r \in ActiveIds
    PROVE  Told(r)
<1>1. PICK s \in ActiveIds :
        Conclude(Owner(s), Closed(pool, {s}), {Reply(Owner(s), s, FALSE, "error")})
    BY DEF CancelReqToNode
<1>2. Owner(s) \in Tasks
    BY ActiveIsActive, ActiveType DEF IInv, GoodPool, Owner
<1>3. CASE r # s
    BY <1>1, <1>2, <1>3, ClosedTold
<1>4. CASE r = s
    <2>1. {Reply(Owner(s), s, FALSE, "error")} \subseteq out'
        BY <1>1, <1>2, ConcludeTold, ClosedGood DEF IInv
    <2>2. LastReply(r)
        BY <1>4, <2>1, ErrorIsLast
    <2> QED
        BY <2>2 DEF Told, RequesterKnows, ReplierKnows
<1> QED
    BY <1>3, <1>4

LEMMA NextTold ==
    ASSUME IInv, Next, NEW r \in ActiveIds
    PROVE  Told(r)
<1>1. r \in ReqIds /\ pool.info[r] # NoReq
    BY DEF ActiveIds, Active
<1>2. CASE ExpireOldest
    BY <1>2, ExpireTold
<1>3. CASE pool'.info = pool.info
    BY <1>1, <1>3 DEF Told, Active
<1>4. CASE \E d \in 0..MaxTmo : PollReturns(d)
    BY <1>3, <1>4, TmoAssumption, AgedGood DEF PollReturns, IInv
<1>5. CASE SocketsDrained \/ \E t \in Tasks : Die(t) \/ Recover(t)
    BY <1>3, <1>5 DEF SocketsDrained, Die, Recover
<1>6. CASE RemoveAllTasks
    BY <1>6, RemovedTold DEF RemoveAllTasks, IInv, ClientsTypeOK
<1>7. CASE HandlePacket
    BY <1>7, ReplyTold, KilledTold DEF HandlePacket
<1>8. CASE \E t \in Tasks : HandleClientCommand(t)
    BY <1>8, CommandTold
<1> QED
    BY <1>2, <1>4, <1>5, <1>6, <1>7, <1>8 DEF Next

(***************************************************************************)
(* No client waits for a reply to a request that is over.                  *)
(***************************************************************************)
THEOREM RequesterAlwaysTold ==
    Spec => RequesterTold
<1> DEFINE Claim(r) == \/ Active(r)'
                       \/ Owner(r) \in dead \cup (Tasks \ connected')
                       \/ LastReply(r)
                       \/ \E t \in Tasks :
                             HandleCancel(t, r) \/ (Connect(t) /\ Owner(r) \in Inactive)
<1>1. ASSUME IInv, Next, NEW r \in ActiveIds
      PROVE  Claim(r)
    <2>1. Told(r)
        BY <1>1, NextTold
    <2> QED
        BY <2>1 DEF Told, RequesterKnows
<1>2. IInv /\ [Next]_vars => [\A r \in ActiveIds : Claim(r)]_vars
    <2> HIDE DEF Claim
    <2> QED
        BY <1>1
<1> QED
    BY <1>2, Inductive, PTL DEF Spec, RequesterTold

(***************************************************************************)
(* No node goes on answering a request that is over, for want of a CANCEL. *)
(***************************************************************************)
THEOREM ReplierAlwaysTold ==
    Spec => ReplierTold
<1> DEFINE Claim(r) == \/ Active(r)'
                       \/ Cancel(r, pool.info[r].node) \in out'
                       \/ AnsweredInFull(r)
                       \/ \E n \in KilledNodes : CancelReqToNode(n)
<1>1. ASSUME IInv, Next, NEW r \in ActiveIds
      PROVE  Claim(r)
    <2>1. Told(r)
        BY <1>1, NextTold
    <2> QED
        BY <2>1 DEF Told, ReplierKnows
<1>2. IInv /\ [Next]_vars => [\A r \in ActiveIds : Claim(r)]_vars
    <2> HIDE DEF Claim
    <2> QED
        BY <1>1
<1> QED
    BY <1>2, Inductive, PTL DEF Spec, ReplierTold

-----------------------------------------------------------------------------
(* What a requester reads in the header of a reply. *)

(***************************************************************************)
(* A step that concludes with messages none of which is a reply to `r',    *)
(* sends none, and one from a pool that has `r' keeps it as long as its    *)
(* owner is connected.                                                     *)
(***************************************************************************)
LEMMA ReplyAmongMessages ==
    ASSUME IInv, NEW p, GoodPool(p), NEW t \in Tasks, NEW messages,
           Conclude(t, p, messages), NEW r, NEW mlt, NEW status,
           Reply(Owner(r), r, mlt, status) \in out'
    PROVE  Reply(Owner(r), r, mlt, status) \in messages
BY ConcludeTold, MessagesApart DEF IInv

LEMMA ReplyNotCancel ==
    ASSUME NEW p, NEW R, NEW t, NEW r, NEW mlt, NEW status
    PROVE  Reply(t, r, mlt, status) \notin Cancels(p, R)
BY MessagesApart DEF Cancels

LEMMA SameReply ==
    ASSUME NEW t, NEW r, NEW mlt, NEW status, NEW u, NEW s, NEW m, NEW st,
           Reply(t, r, mlt, status) = Reply(u, s, m, st)
    PROVE  r = s /\ mlt = m /\ status = st
BY DEF Reply

Truth(r, mlt) == Owner(r) \in connected' => (mlt <=> Active(r)')

LEMMA ExpireTruth ==
    ASSUME IInv, ExpireOldest, NEW r \in ActiveIds, pool.info[r].mult,
           NEW mlt \in BOOLEAN, NEW status, Reply(Owner(r), r, mlt, status) \in out'
    PROVE  Truth(r, mlt)
<1> DEFINE h == Head(pool.timers)
           p == Touch(pool, h)
           pends == {Reply(Owner(h), h, TRUE, "pend")}
           q == Closed(pool, {h})
           ends == {Reply(Owner(h), h, FALSE, "error")} \cup Cancels(pool, {h})
<1>1. h \in ActiveOf(pool)
    BY HeadIsOldest DEF ExpireOldest, Expired, IInv
<1>2. \/ Conclude(Owner(h), p, pends)
      \/ Conclude(Owner(h), q, ends) /\ ~pool.info[h].mult
    BY DEF ExpireOldest
<1> HIDE DEF h
<1>3. Owner(h) \in Tasks
    BY <1>1, ActiveType DEF IInv, GoodPool, Owner
<1>4. GoodPool(p) /\ p.info = pool.info /\ GoodPool(q)
    BY <1>1, TouchGood, ClosedGood DEF IInv, GoodPool, Listed
<1> HIDE DEF p, q
<1>5. CASE Conclude(Owner(h), p, pends)
    <2>1. Reply(Owner(r), r, mlt, status) \in pends
        BY <1>3, <1>4, <1>5, ReplyAmongMessages
    <2>2. r = h /\ mlt = TRUE
        BY <2>1 DEF Reply
    <2>3. r \in ActiveOf(p) /\ p.info[r].task = Owner(r)
        BY <1>4, ActiveIsActive DEF ActiveOf, Owner
    <2>4. Active(r)' \/ Owner(r) \notin connected'
        BY <1>3, <1>4, <1>5, <2>3, ConcludeTold DEF IInv
    <2> QED
        BY <2>2, <2>4 DEF Truth
<1>6. CASE Conclude(Owner(h), q, ends) /\ ~pool.info[h].mult
    <2>1. Reply(Owner(r), r, mlt, status) \in ends
        BY <1>3, <1>4, <1>6, ReplyAmongMessages
    <2>2. Reply(Owner(r), r, mlt, status) = Reply(Owner(h), h, FALSE, "error")
        BY <2>1, ReplyNotCancel
    <2>3. r = h
        BY <2>2 DEF Reply
    <2> QED
        BY <1>6, <2>3
<1> QED
    BY <1>2, <1>5, <1>6

LEMMA CommandTruth ==
    ASSUME IInv, NEW t \in Tasks, HandleClientCommand(t), NEW r \in ActiveIds,
           NEW mlt \in BOOLEAN, NEW status
    PROVE  Reply(Owner(r), r, mlt, status) \notin out'
<1> DEFINE m == Reply(Owner(r), r, mlt, status)
<1> SUFFICES m \notin out'
    OBVIOUS
<1>1. \A p, R : m \notin Cancels(p, R)
    BY ReplyNotCancel
<1>2. \A s, n : m # Request(s, n)
    BY MessagesApart
<1> HIDE DEF m
<1>3. CASE Connect(t) \/ Disconnect(t) \/ DisconnectSingle(t) \/ DeliveryFails(t)
    BY <1>1, <1>3 DEF Connect, Disconnect, DisconnectSingle, DeliveryFails, RemoveTasks
<1>4. CASE \E n \in Nodes, name \in Names, mult \in BOOLEAN, tmo \in AskedTmos :
            SendRequest(t, n, name, mult, tmo)
    <2>1. PICK p, s, n, T : RemoveTasks(T, p, {Request(s, n)})
        BY <1>4 DEF SendRequest, Conclude
    <2> QED
        BY <1>1, <1>2, <2>1 DEF RemoveTasks
<1>5. CASE \E s \in ReqIds : HandleCancel(t, s)
    <2>1. PICK p, s, T : RemoveTasks(T, p, Cancels(pool, {s}))
        BY <1>5 DEF HandleCancel, Conclude
    <2> QED
        BY <1>1, <2>1 DEF RemoveTasks
<1> QED
    BY <1>3, <1>4, <1>5 DEF HandleClientCommand, m

(***************************************************************************)
(* The header that handleAcnetReply makes up says what becomes of the      *)
(* request in the same step.                                               *)
(***************************************************************************)
LEMMA ReplyTruth ==
    ASSUME IInv, NEW s \in ReqIds, NEW n \in Senders, NEW name \in Names, NEW t \in Tasks,
           NEW rmlt \in BOOLEAN, NEW rstatus \in Statuses,
           HandleAcnetReply(s, n, name, t, rmlt, rstatus),
           NEW r \in ActiveIds, pool.info[r].mult,
           NEW mlt \in BOOLEAN, NEW status, Reply(Owner(r), r, mlt, status) \in out'
    PROVE  Truth(r, mlt)
<1> DEFINE m == Reply(Owner(r), r, mlt, status)
           A == pool.info[s].mult
           B == pool.info[s].mcast
           C == IsEMR(rmlt, rstatus)
<1>1. (\A p, R : m \notin Cancels(p, R)) /\ \A q, k : m # Cancel(q, k)
    BY ReplyNotCancel, MessagesApart
<1>2. m \in out'
    OBVIOUS
<1> HIDE DEF m
<1>3. /\ Matches(s, n, name, t) /\ out' # {}
      /\ pool' = IF Closes(A, B, C) THEN Closed(pool, {s}) ELSE Touch(pool, s)
      /\ m = ClientHeader(s, rmlt, rstatus)
    BY <1>1, <1>2 DEF HandleAcnetReply, RejectReply, AcceptReply, RemoveTasks
<1>4. r = s /\ mlt = (IF A /\ C THEN B ELSE rmlt)
    <2>1. s \in ActiveOf(pool)
        BY <1>3, ActiveIsActive DEF Matches
    <2>2. A \in BOOLEAN /\ B \in BOOLEAN /\ C \in BOOLEAN
        BY <2>1, ActiveType DEF IInv, GoodPool, IsEMR
    <2>3. \/ ~(A /\ C) /\ \E st : m = Reply(Owner(s), s, rmlt, st)
          \/ A /\ C /\ B /\ \E st : m = Reply(Owner(s), s, TRUE, st)
          \/ A /\ C /\ ~B /\ \E st : m = Reply(Owner(s), s, FALSE, st)
        BY <1>3 DEF ClientHeader
    <2>4. ASSUME NEW x, NEW st, m = Reply(Owner(s), s, x, st)
          PROVE  r = s /\ mlt = x
        BY <2>4, SameReply DEF m
    <2> QED
        BY <2>2, <2>3, <2>4
<1>5. s \in ActiveOf(pool) /\ A
    BY <1>4, ActiveIsActive
<1>6. Active(r)' <=> ~Closes(A, B, C)
    <2>1. CASE Closes(A, B, C)
        BY <1>3, <1>4, <2>1, ClosedFields DEF Active
    <2>2. CASE ~Closes(A, B, C)
        <3>1. pool'.info = pool.info
            BY <1>3, <1>5, <2>2, TouchGood DEF IInv, GoodPool, Listed
        <3> QED
            BY <1>4, <1>5, <2>2, <3>1, ActiveIsActive DEF Active
    <2> QED
        BY <2>1, <2>2
<1>7. B \in BOOLEAN /\ (~C => rmlt)
    BY <1>5, ActiveType DEF IInv, GoodPool, IsEMR
<1> QED
    BY <1>4, <1>5, <1>6, <1>7 DEF Truth, Closes

LEMMA KilledTruth ==
    ASSUME IInv, NEW n \in KilledNodes, CancelReqToNode(n), NEW r \in ActiveIds,
           NEW mlt \in BOOLEAN, NEW status, Reply(Owner(r), r, mlt, status) \in out'
    PROVE  Truth(r, mlt)
<1>1. PICK s \in ActiveIds :
        Conclude(Owner(s), Closed(pool, {s}), {Reply(Owner(s), s, FALSE, "error")})
    BY DEF CancelReqToNode
<1>2. Owner(s) \in Tasks /\ s \in ActiveOf(pool) /\ GoodPool(Closed(pool, {s}))
    BY ActiveIsActive, ActiveType, ClosedGood DEF IInv, GoodPool, Owner
<1> DEFINE p == Closed(pool, {s})
           messages == {Reply(Owner(s), s, FALSE, "error")}
<1>3. r = s /\ mlt = FALSE
    <2>1. GoodPool(p) /\ Conclude(Owner(s), p, messages)
        BY <1>1, <1>2
    <2>2. ASSUME Reply(Owner(r), r, mlt, status) \in messages
          PROVE  r = s /\ mlt = FALSE
        BY <2>2 DEF Reply
    <2> HIDE DEF p, messages
    <2>3. Reply(Owner(r), r, mlt, status) \in messages
        BY <1>2, <2>1, ReplyAmongMessages
    <2> QED
        BY <2>2, <2>3
<1>4. s \in ReqIds \ ActiveOf(Closed(pool, {s}))
    BY <1>2, ClosedActive DEF ActiveOf
<1>5. ~Active(s)'
    BY <1>1, <1>2, <1>4, ConcludeTold DEF IInv
<1> QED
    BY <1>3, <1>5 DEF Truth

(***************************************************************************)
(* A client is never told that more replies follow when none can, nor that *)
(* its request is over while it is still open.                             *)
(***************************************************************************)
THEOREM HeaderAlwaysTellsTruth ==
    Spec => HeaderTellsTruth
<1> DEFINE Claim(r, mlt, status) ==
              /\ pool.info[r].mult
              /\ Reply(Owner(r), r, mlt, status) \in out'
              /\ Owner(r) \in connected'
              => (mlt <=> Active(r)')
<1>1. ASSUME IInv, Next, NEW r \in ActiveIds, NEW mlt \in BOOLEAN, NEW status \in Statuses
      PROVE  Claim(r, mlt, status)
    <2> SUFFICES ASSUME pool.info[r].mult, Reply(Owner(r), r, mlt, status) \in out'
                 PROVE  Truth(r, mlt)
        BY DEF Truth
    <2>1. CASE ExpireOldest
        BY <1>1, <2>1, ExpireTruth
    <2>2. CASE out' = {}
        BY <2>2
    <2>3. CASE RemoveAllTasks
        BY <2>3 DEF RemoveAllTasks, RemoveTasks, Truth, IInv, ClientsTypeOK,
                    OwnersIn, Owner
    <2>4. CASE HandlePacket
        <3>1. CASE \E n \in KilledNodes : CancelReqToNode(n)
            BY <1>1, <3>1, KilledTruth
        <3>2. CASE \E s \in ReqIds, n \in Senders, name \in Names, t \in Tasks,
                      m \in BOOLEAN, st \in Statuses : HandleAcnetReply(s, n, name, t, m, st)
            BY <1>1, <3>2, ReplyTruth
        <3> QED
            BY <2>4, <3>1, <3>2 DEF HandlePacket
    <2>5. CASE \E t \in Tasks : HandleClientCommand(t)
        BY <1>1, <2>5, CommandTruth
    <2> QED
        BY <1>1, <2>1, <2>2, <2>3, <2>4, <2>5
        DEF Next, PollReturns, SocketsDrained, Die, Recover
<1>2. IInv /\ [Next]_vars =>
        [\A r \in ActiveIds, mlt \in BOOLEAN, status \in Statuses : Claim(r, mlt, status)]_vars
    <2> HIDE DEF Claim
    <2> QED
        BY <1>1
<1> QED
    BY <1>2, Inductive, PTL DEF Spec, HeaderTellsTruth
=============================================================================
