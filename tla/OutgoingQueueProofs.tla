-------------------------- MODULE OutgoingQueueProofs --------------------------
(***************************************************************************)
(* The packet being filled for a node is always the last one on the queue  *)
(* for it, and the queue implements OutgoingSpec, for any nodes, messages  *)
(* and packet size.  The lemmas on FlattenSeq come first; the proofs of    *)
(* TcpProxy use them too.                                                  *)
(***************************************************************************)
EXTENDS OutgoingQueue, Integers, FiniteSetTheorems, SequenceTheorems, TLAPS

(***************************************************************************)
(* A buffer is queued at most once, and a node outside the table, whose    *)
(* pointer cannot be reset, has no packet being filled.                    *)
(***************************************************************************)
QueuedOnce ==
    \A i, j \in DOMAIN outgoing : outgoing[i] = outgoing[j] => i = j

UnknownHasNone == \A n \in Nodes : n \notin known => partial[n] = NoBuf

IInv == TypeOK /\ QueuedOnce /\ UnknownHasNone /\ PartialIsLast

-----------------------------------------------------------------------------
(* Sequences of sequences laid end to end: what is queued in packets, as   *)
(* the sequence of its messages.  FlattenSeq is a recursive function of    *)
(* the positions.  That there is such a function is shown for each number  *)
(* of positions; induction is over sets of numbers.                        *)

LEMMA LeastNumber ==
    ASSUME NEW K \in SUBSET Nat, K # {}
    PROVE  \E x \in K : \A y \in K : x <= y
<1> DEFINE Below == {0..x : x \in K}
<1>1. \A x \in K : 0..x \in SUBSET Nat /\ IsFiniteSet(0..x)
    BY FS_Interval
<1>2. Below \subseteq FiniteSubsetsOf(Nat) /\ Below # {}
    BY <1>1 DEF FiniteSubsetsOf
<1> HIDE DEF Below
<1>3. PICK b \in Below : \A c \in Below : <<c, b>> \notin StrictSubsetOrdering(Nat)
    BY <1>2, FS_StrictSubsetOrderingWellFounded, WFMin
<1>4. PICK x \in K : b = 0..x
    BY DEF Below
<1>5. ASSUME NEW y \in K, y < x
      PROVE  FALSE
    <2>1. 0..y \subseteq 0..x /\ x \notin 0..y /\ x \in 0..x
        BY <1>5
    <2>2. <<0..y, 0..x>> \in StrictSubsetOrdering(Nat)
        BY <2>1 DEF StrictSubsetOrdering
    <2> QED
        BY <1>3, <1>4, <2>2 DEF Below
<1> QED
    BY <1>5

(***************************************************************************)
(* Induction over a set: one that holds 0, and the successor of each of    *)
(* its members, holds every natural number.                                *)
(***************************************************************************)
LEMMA SetInduction ==
    ASSUME NEW K, 0 \in K, \A k \in K \cap Nat : k + 1 \in K
    PROVE  \A n \in Nat : n \in K
<1> SUFFICES ASSUME Nat \ K # {}
             PROVE  FALSE
    OBVIOUS
<1>1. PICK x \in Nat \ K : \A y \in Nat \ K : x <= y
    BY LeastNumber
<1>2. x # 0 /\ x - 1 \in Nat /\ x - 1 \notin Nat \ K
    BY <1>1
<1> QED
    BY <1>1, <1>2

(***************************************************************************)
(* The recursive function of FlattenSeq.                                   *)
(***************************************************************************)
Lays(s, F, n) ==
    \A i \in 1..n : F[i] = IF i = 1 THEN s[i] ELSE F[i - 1] \o s[i]

LEMMA LaysAt ==
    ASSUME NEW s, NEW F, NEW n, NEW i \in 1..n, Lays(s, F, n)
    PROVE  F[i] = IF i = 1 THEN s[i] ELSE F[i - 1] \o s[i]
BY Zenon DEF Lays

LEMMA Laid ==
    ASSUME NEW S, NEW s \in Seq(Seq(S)), NEW n \in Nat, n <= Len(s)
    PROVE  \E F \in [1..n -> Seq(S)] : Lays(s, F, n)
<1> DEFINE K == {k \in Nat : k <= Len(s) => \E F \in [1..k -> Seq(S)] : Lays(s, F, k)}
<1>1. 0 \in K
    <2>1. Lays(s, [i \in 1..0 |-> <<>>], 0) /\ [i \in 1..0 |-> <<>>] \in [1..0 -> Seq(S)]
        BY DEF Lays
    <2> QED
        BY <2>1
<1>2. ASSUME NEW k \in K, k + 1 <= Len(s)
      PROVE  \E F \in [1..(k + 1) -> Seq(S)] : Lays(s, F, k + 1)
    <2>1. k \in Nat /\ k <= Len(s)
        BY <1>2
    <2>2. PICK G \in [1..k -> Seq(S)] : Lays(s, G, k)
        BY <1>2, <2>1
    <2>3. s[k + 1] \in Seq(S)
        BY <1>2, <2>1
    <2> DEFINE x == IF k = 0 THEN s[k + 1] ELSE G[k] \o s[k + 1]
               F == [i \in 1..(k + 1) |-> IF i <= k THEN G[i] ELSE x]
    <2>4. x \in Seq(S)
        <3>1. k # 0 => G[k] \in Seq(S)
            BY <2>1
        <3> QED
            BY <2>3, <3>1, ConcatProperties
    <2>5. F \in [1..(k + 1) -> Seq(S)]
        BY <2>1, <2>4
    <2>6. Lays(s, F, k + 1)
        <3> SUFFICES ASSUME NEW i \in 1..(k + 1)
                     PROVE  F[i] = IF i = 1 THEN s[i] ELSE F[i - 1] \o s[i]
            BY DEF Lays
        <3>1. CASE i <= k
            <4>1. F[i] = G[i] /\ (i # 1 => F[i - 1] = G[i - 1])
                BY <2>1, <3>1
            <4>2. G[i] = IF i = 1 THEN s[i] ELSE G[i - 1] \o s[i]
                <5>1. i \in 1..k
                    BY <2>1, <3>1
                <5> QED
                    BY <2>2, <5>1, Zenon DEF Lays
            <4> QED
                BY <4>1, <4>2
        <3>2. CASE i = k + 1
            BY <2>1, <3>2
        <3> QED
            BY <2>1, <3>1, <3>2
    <2> QED
        BY <2>5, <2>6
<1>3. \A k \in K \cap Nat : k + 1 \in K
    BY <1>2
<1> HIDE DEF K
<1>4. n \in K
    BY <1>1, <1>3, SetInduction
<1> QED
    BY <1>4 DEF K

Agree(s, t, n) == \A i \in 1..n : s[i] = t[i]

LEMMA LaidOnce ==
    ASSUME NEW s, NEW t, NEW F, NEW G, NEW n \in Nat,
           Agree(s, t, n), Lays(s, F, n), Lays(t, G, n)
    PROVE  Agree(F, G, n)
<1> DEFINE K == {k \in Nat : k \in 1..n => F[k] = G[k]}
<1>1. 0 \in K
    OBVIOUS
<1>2. ASSUME NEW k \in K, k + 1 \in 1..n
      PROVE  F[k + 1] = G[k + 1]
    <2>1. k \in Nat /\ (k = 0 \/ k \in 1..n) /\ s[k + 1] = t[k + 1]
        BY <1>2 DEF Agree
    <2>2. /\ F[k + 1] = IF k + 1 = 1 THEN s[k + 1] ELSE F[k + 1 - 1] \o s[k + 1]
          /\ G[k + 1] = IF k + 1 = 1 THEN t[k + 1] ELSE G[k + 1 - 1] \o t[k + 1]
        BY <1>2 DEF Lays
    <2>3. k + 1 - 1 = k
        BY <2>1
    <2> QED
        BY <1>2, <2>1, <2>2, <2>3
<1>3. \A k \in K \cap Nat : k + 1 \in K
    BY <1>2
<1> HIDE DEF K
<1>4. \A k \in Nat : k \in K
    BY <1>1, <1>3, SetInduction
<1> QED
    BY <1>4 DEF K, Agree

LEMMA FlattenIsLaid ==
    ASSUME NEW S, NEW s \in Seq(Seq(S)), s # <<>>
    PROVE  \E F \in [1..Len(s) -> Seq(S)] :
               Lays(s, F, Len(s)) /\ FlattenSeq(s) = F[Len(s)]
<1>1. Len(s) \in Nat \ {0}
    OBVIOUS
<1> DEFINE Body(f) == [i \in 1..Len(s) |-> IF i = 1 THEN s[i] ELSE f[i - 1] \o s[i]]
           flatten == CHOOSE f : f = Body(f)
<1>2. FlattenSeq(s) = flatten[Len(s)]
    BY <1>1 DEF FlattenSeq
<1>3. PICK F \in [1..Len(s) -> Seq(S)] : Lays(s, F, Len(s))
    BY <1>1, Laid, SMTT(20)
<1>4. F = Body(F)
    BY <1>3 DEF Lays
<1>5. flatten = Body(flatten)
    BY <1>4
<1> HIDE DEF flatten
<1>6. Lays(s, flatten, Len(s)) /\ flatten = [i \in 1..Len(s) |-> flatten[i]]
    BY <1>5 DEF Lays
<1> HIDE DEF Body
<1>7. \A i \in 1..Len(s) : flatten[i] = F[i]
    <2>1. Len(s) \in Nat /\ Agree(s, s, Len(s))
        BY <1>1 DEF Agree
    <2>2. Lays(s, flatten, Len(s)) /\ Lays(s, F, Len(s))
        BY <1>3, <1>6
    <2>3. Agree(flatten, F, Len(s))
        BY <2>1, <2>2, LaidOnce, Zenon
    <2> QED
        BY <2>3 DEF Agree
<1>8. flatten \in [1..Len(s) -> Seq(S)]
    BY <1>6, <1>7
<1> QED
    BY <1>2, <1>6, <1>8

-----------------------------------------------------------------------------
(* What is used of FlattenSeq. *)

LEMMA FlattenEmpty ==
    FlattenSeq(<<>>) = <<>>
BY DEF FlattenSeq

LEMMA FlattenType ==
    ASSUME NEW S, NEW s \in Seq(Seq(S))
    PROVE  FlattenSeq(s) \in Seq(S)
<1>1. CASE s = <<>>
    <2>1. FlattenSeq(s) = <<>>
        BY <1>1, FlattenEmpty
    <2>2. <<>> \in Seq(S)
        BY EmptySeq
    <2> QED
        BY <2>1, <2>2
<1>2. CASE s # <<>>
    <2>1. Len(s) \in 1..Len(s)
        BY <1>2
    <2>2. PICK F \in [1..Len(s) -> Seq(S)] : FlattenSeq(s) = F[Len(s)]
        BY <1>2, FlattenIsLaid
    <2>3. F[Len(s)] \in Seq(S)
        BY <2>1
    <2> QED
        BY <2>2, <2>3
<1> QED
    BY <1>1, <1>2

LEMMA FlattenAppend ==
    ASSUME NEW S, NEW s \in Seq(Seq(S)), NEW x \in Seq(S)
    PROVE  FlattenSeq(Append(s, x)) = FlattenSeq(s) \o x
<1> DEFINE t == Append(s, x)
           n == Len(s)
<1>1. /\ n \in Nat /\ t \in Seq(Seq(S)) /\ t # <<>> /\ Len(t) = n + 1
      /\ t[n + 1] = x /\ \A i \in 1..n : t[i] = s[i]
    BY AppendProperties
<1> HIDE DEF t, n
<1>2. PICK G \in [1..(n + 1) -> Seq(S)] : Lays(t, G, n + 1) /\ FlattenSeq(t) = G[n + 1]
    BY <1>1, FlattenIsLaid
<1>3. G[n + 1] = IF n + 1 = 1 THEN x ELSE G[n + 1 - 1] \o x
    <2>1. n + 1 \in 1..(n + 1)
        BY <1>1
    <2>2. G[n + 1] = IF n + 1 = 1 THEN t[n + 1] ELSE G[n + 1 - 1] \o t[n + 1]
        <3>1. Lays(t, G, n + 1)
            BY <1>2, Zenon
        <3> DEFINE m == n + 1
        <3>2. m \in 1..m /\ Lays(t, G, m)
            BY <2>1, <3>1
        <3> HIDE DEF m
        <3>3. G[m] = IF m = 1 THEN t[m] ELSE G[m - 1] \o t[m]
            BY <3>2, LaysAt, Zenon
        <3> QED
            BY <1>1, <3>3 DEF m
    <2>3. t[n + 1] = x
        BY <1>1
    <2> QED
        BY <2>2, <2>3, Zenon
<1>4. CASE n = 0
    <2>1. s = <<>>
        BY <1>4 DEF n
    <2>2. FlattenSeq(t) = x
        BY <1>2, <1>3, <1>4
    <2> QED
        BY <2>1, <2>2, FlattenEmpty, ConcatEmptySeq DEF t
<1>5. CASE n # 0
    <2>1. s # <<>> /\ n \in 1..n
        BY <1>1, <1>5 DEF n
    <2>2. PICK F \in [1..n -> Seq(S)] : Lays(s, F, n) /\ FlattenSeq(s) = F[n]
        BY <2>1, FlattenIsLaid DEF n
    <2>3. Lays(t, G, n)
        <3>1. \A i \in 1..n : i \in 1..(n + 1)
            BY <1>1
        <3> QED
            BY <1>2, <3>1, Zenon DEF Lays
    <2>4. G[n] = F[n]
        <3>1. n \in Nat /\ Agree(t, s, n)
            BY <1>1 DEF Agree
        <3>2. Agree(G, F, n)
            BY <2>2, <2>3, <3>1, LaidOnce, Zenon
        <3> QED
            BY <2>1, <3>2 DEF Agree
    <2>5. G[n + 1] = G[n] \o x
        <3>1. n + 1 # 1 /\ n + 1 - 1 = n
            BY <1>1, <1>5
        <3> QED
            BY <1>3, <3>1, Zenon
    <2> QED
        BY <1>2, <2>2, <2>4, <2>5 DEF t
<1> QED
    BY <1>4, <1>5

(***************************************************************************)
(* Any sequence that is not empty is another one with an element appended. *)
(***************************************************************************)
LEMMA LastApart ==
    ASSUME NEW T, NEW t \in Seq(T), NEW k \in Nat, Len(t) = k + 1
    PROVE  /\ SubSeq(t, 1, k) \in Seq(T) /\ Len(SubSeq(t, 1, k)) = k
           /\ t[k + 1] \in T
           /\ t = Append(SubSeq(t, 1, k), t[k + 1])
<1> DEFINE f == SubSeq(t, 1, k)
<1>1. f \in Seq(T) /\ Len(f) = k /\ \A i \in 1..k : f[i] = t[i]
    OBVIOUS
<1>2. t[k + 1] \in T
    OBVIOUS
<1> HIDE DEF f
<1>3. /\ Append(f, t[k + 1]) \in Seq(T) /\ Len(Append(f, t[k + 1])) = k + 1
      /\ \A i \in 1..(k + 1) : Append(f, t[k + 1])[i] = t[i]
    BY <1>1, <1>2, AppendProperties
<1>4. t = Append(f, t[k + 1])
    BY <1>3, SeqEqual
<1> QED
    BY <1>1, <1>2, <1>4 DEF f

LEMMA FlattenConcat ==
    ASSUME NEW S, NEW s \in Seq(Seq(S)), NEW t \in Seq(Seq(S))
    PROVE  FlattenSeq(s \o t) = FlattenSeq(s) \o FlattenSeq(t)
<1> DEFINE K == {k \in Nat : \A u \in Seq(Seq(S)) :
                     Len(u) = k => FlattenSeq(s \o u) = FlattenSeq(s) \o FlattenSeq(u)}
<1>1. 0 \in K
    <2> SUFFICES ASSUME NEW u \in Seq(Seq(S)), Len(u) = 0
                 PROVE  FlattenSeq(s \o u) = FlattenSeq(s) \o FlattenSeq(u)
        OBVIOUS
    <2>1. u = <<>>
        OBVIOUS
    <2> QED
        BY <2>1, FlattenEmpty, FlattenType, ConcatEmptySeq
<1>2. ASSUME NEW k \in K, NEW u \in Seq(Seq(S)), Len(u) = k + 1
      PROVE  FlattenSeq(s \o u) = FlattenSeq(s) \o FlattenSeq(u)
    <2> DEFINE f == SubSeq(u, 1, k)
               x == u[k + 1]
    <2>1. k \in Nat
        OBVIOUS
    <2>2. f \in Seq(Seq(S)) /\ Len(f) = k /\ x \in Seq(S) /\ u = Append(f, x)
        BY <1>2, <2>1, LastApart
    <2>3. FlattenSeq(s \o f) = FlattenSeq(s) \o FlattenSeq(f)
        BY <2>2
    <2> HIDE DEF f, x
    <2>4. s \o u = Append(s \o f, x) /\ s \o f \in Seq(Seq(S))
        <3>1. s \o Append(f, x) = Append(s \o f, x)
            BY <2>2, SMTT(20)
        <3> QED
            BY <2>2, <3>1, ConcatProperties
    <2>5. FlattenSeq(s \o u) = (FlattenSeq(s) \o FlattenSeq(f)) \o x
        <3> DEFINE v == s \o f
        <3>1. v \in Seq(Seq(S)) /\ x \in Seq(S)
            BY <2>2, <2>4
        <3> HIDE DEF v
        <3>2. FlattenSeq(Append(v, x)) = FlattenSeq(v) \o x
            BY <3>1, FlattenAppend
        <3> QED
            BY <2>3, <2>4, <3>2, Zenon DEF v
    <2>6. FlattenSeq(u) = FlattenSeq(f) \o x
        BY <2>2, FlattenAppend
    <2>7. FlattenSeq(s) \in Seq(S) /\ FlattenSeq(f) \in Seq(S)
        BY <2>2, FlattenType
    <2>8. (FlattenSeq(s) \o FlattenSeq(f)) \o x = FlattenSeq(s) \o (FlattenSeq(f) \o x)
        <3> DEFINE a == FlattenSeq(s)
                   b == FlattenSeq(f)
        <3>1. a \in Seq(S) /\ b \in Seq(S) /\ x \in Seq(S)
            BY <2>2, <2>7
        <3> HIDE DEF a, b
        <3>2. (a \o b) \o x = a \o (b \o x)
            BY <3>1, ConcatAssociative, SMTT(20)
        <3> QED
            BY <3>2, Zenon DEF a, b
    <2> QED
        BY <2>5, <2>6, <2>8, Zenon
<1>3. \A k \in K \cap Nat : k + 1 \in K
    <2> TAKE k \in K \cap Nat
    <2>1. k + 1 \in Nat
        OBVIOUS
    <2>2. \A u \in Seq(Seq(S)) :
             Len(u) = k + 1 => FlattenSeq(s \o u) = FlattenSeq(s) \o FlattenSeq(u)
        BY <1>2, Zenon
    <2> QED
        BY <2>1, <2>2, Zenon
<1> HIDE DEF K
<1>4. Len(t) \in K
    <2>1. Len(t) \in Nat
        OBVIOUS
    <2> QED
        BY <1>1, <1>3, <2>1, SetInduction
<1> QED
    BY <1>4 DEF K

LEMMA FlattenOne ==
    ASSUME NEW S, NEW x \in Seq(S)
    PROVE  FlattenSeq(<<x>>) = x
<1>1. Append(<<>>, x) = <<x>> /\ <<>> \in Seq(Seq(S)) /\ <<>> \o x = x
    BY ConcatEmptySeq
<1> QED
    BY <1>1, FlattenAppend, FlattenEmpty

LEMMA FlattenNothing ==
    ASSUME NEW S, NEW s \in Seq(Seq(S)), \A i \in 1..Len(s) : s[i] = <<>>
    PROVE  FlattenSeq(s) = <<>>
<1> DEFINE K == {k \in Nat : \A u \in Seq(Seq(S)) :
                     Len(u) = k /\ (\A i \in 1..k : u[i] = <<>>) => FlattenSeq(u) = <<>>}
<1>1. 0 \in K
    <2>1. \A u \in Seq(Seq(S)) : Len(u) = 0 => u = <<>>
        OBVIOUS
    <2> QED
        BY <2>1, FlattenEmpty
<1>2. ASSUME NEW k \in K, NEW u \in Seq(Seq(S)), Len(u) = k + 1,
             \A i \in 1..(k + 1) : u[i] = <<>>
      PROVE  FlattenSeq(u) = <<>>
    <2> DEFINE f == SubSeq(u, 1, k)
    <2>1. k \in Nat /\ u[k + 1] = <<>> /\ <<>> \in Seq(S)
        BY <1>2
    <2>2. f \in Seq(Seq(S)) /\ Len(f) = k /\ u = Append(f, <<>>)
        BY <1>2, <2>1, LastApart
    <2>3. \A i \in 1..k : f[i] = <<>>
        BY <1>2, <2>1
    <2>4. FlattenSeq(f) = <<>>
        BY <2>2, <2>3
    <2> HIDE DEF f
    <2>5. FlattenSeq(u) = <<>> \o <<>>
        BY <2>1, <2>2, <2>4, FlattenAppend
    <2> QED
        BY <2>1, <2>5, ConcatEmptySeq
<1>3. \A k \in K \cap Nat : k + 1 \in K
    BY <1>2, SMTT(20)
<1> HIDE DEF K
<1>4. Len(s) \in K
    <2>1. Len(s) \in Nat
        OBVIOUS
    <2> QED
        BY <1>1, <1>3, <2>1, SetInduction
<1> QED
    BY <1>4 DEF K

-----------------------------------------------------------------------------
(* A sequence in two parts. *)

LEMMA Parts ==
    ASSUME NEW T, NEW s \in Seq(T), NEW k \in 0..Len(s)
    PROVE  /\ SubSeq(s, 1, k) \in Seq(T) /\ Len(SubSeq(s, 1, k)) = k
           /\ \A i \in 1..k : SubSeq(s, 1, k)[i] = s[i]
           /\ SubSeq(s, k + 1, Len(s)) \in Seq(T)
           /\ Len(SubSeq(s, k + 1, Len(s))) = Len(s) - k
           /\ \A i \in 1..(Len(s) - k) : SubSeq(s, k + 1, Len(s))[i] = s[i + k]
           /\ s = SubSeq(s, 1, k) \o SubSeq(s, k + 1, Len(s))
<1>1. PICK n \in Nat : n = Len(s)
    OBVIOUS
<1>2. k \in Nat /\ k <= n
    BY <1>1
<1> DEFINE a == SubSeq(s, 1, k)
           b == SubSeq(s, k + 1, n)
<1>3. a \in Seq(T) /\ Len(a) = k /\ \A i \in 1..k : a[i] = s[i]
    BY <1>1, <1>2
<1>4. b \in Seq(T) /\ Len(b) = n - k /\ \A i \in 1..(n - k) : b[i] = s[i + k]
    BY <1>1, <1>2
<1> HIDE DEF a, b
<1>5. /\ a \o b \in Seq(T) /\ Len(a \o b) = n
      /\ \A i \in 1..n : (a \o b)[i] = s[i]
    <2>1. a \o b \in Seq(T) /\ Len(a \o b) = k + (n - k)
        BY <1>3, <1>4, ConcatProperties
    <2>2. ASSUME NEW i \in 1..n
          PROVE  (a \o b)[i] = s[i]
        <3>1. (a \o b)[i] = IF i <= k THEN a[i] ELSE b[i - k]
            BY <1>2, <1>3, <1>4, ConcatProperties
        <3>2. CASE i <= k
            BY <1>2, <1>3, <3>1, <3>2
        <3>3. CASE ~(i <= k)
            <4>1. i - k \in 1..(n - k) /\ (i - k) + k = i
                BY <1>2, <3>3
            <4> QED
                BY <1>4, <3>1, <3>3, <4>1
        <3> QED
            BY <3>2, <3>3
    <2> QED
        BY <1>2, <2>1, <2>2
<1>6. s = a \o b
    BY <1>1, <1>5, SeqEqual
<1> QED
    BY <1>1, <1>3, <1>4, <1>6 DEF a, b

LEMMA ConcatThenRest ==
    ASSUME NEW T, NEW a \in Seq(T), NEW b \in Seq(T)
    PROVE  Len(a) \in 0..Len(a \o b) /\ b = SubSeq(a \o b, Len(a) + 1, Len(a \o b))
<1>1. PICK k \in Nat, l \in Nat : k = Len(a) /\ l = Len(b)
    OBVIOUS
<1>2. /\ a \o b \in Seq(T) /\ Len(a \o b) = k + l /\ k \in 0..(k + l)
      /\ \A i \in 1..(k + l) : (a \o b)[i] = IF i <= k THEN a[i] ELSE b[i - k]
    BY <1>1, ConcatProperties
<1> DEFINE s == a \o b
           r == SubSeq(s, k + 1, k + l)
<1>3. s \in Seq(T) /\ Len(s) = k + l
    BY <1>2
<1> HIDE DEF s
<1>4. r \in Seq(T) /\ Len(r) = (k + l) - k /\ \A i \in 1..((k + l) - k) : r[i] = s[i + k]
    <2>1. k \in 0..Len(s)
        BY <1>2, <1>3
    <2>2. /\ SubSeq(s, k + 1, Len(s)) \in Seq(T)
          /\ Len(SubSeq(s, k + 1, Len(s))) = Len(s) - k
          /\ \A i \in 1..(Len(s) - k) : SubSeq(s, k + 1, Len(s))[i] = s[i + k]
        BY <1>3, <2>1, Parts
    <2> QED
        BY <1>3, <2>2
<1>5. \A i \in 1..l : r[i] = b[i]
    <2> TAKE i \in 1..l
    <2>1. i \in 1..((k + l) - k) /\ i + k \in 1..(k + l) /\ ~(i + k <= k) /\ (i + k) - k = i
        OBVIOUS
    <2>2. r[i] = s[i + k] /\ s[i + k] = b[(i + k) - k]
        BY <1>2, <1>4, <2>1 DEF s
    <2> QED
        BY <2>1, <2>2
<1> HIDE DEF r
<1>6. r = b
    BY <1>1, <1>4, <1>5, SeqEqual
<1> QED
    BY <1>1, <1>2, <1>6 DEF r, s

(***************************************************************************)
(* What is added to the last part that holds anything is added at the end. *)
(***************************************************************************)
LEMMA FlattenAppendAt ==
    ASSUME NEW S, NEW s \in Seq(Seq(S)), NEW x \in S, NEW k \in 1..Len(s),
           \A j \in 1..Len(s) : j > k => s[j] = <<>>
    PROVE  FlattenSeq([s EXCEPT ![k] = Append(s[k], x)]) = Append(FlattenSeq(s), x)
<1> DEFINE t == [s EXCEPT ![k] = Append(s[k], x)]
<1>1. PICK n \in Nat : n = Len(s)
    OBVIOUS
<1>2. k \in 1..n /\ k - 1 \in Nat /\ (k - 1) + 1 = k /\ k \in 0..n
    BY <1>1
<1>3. s[k] \in Seq(S) /\ Append(s[k], x) \in Seq(S)
    BY AppendProperties
<1>4. t \in Seq(Seq(S)) /\ Len(t) = n /\ t[k] = Append(s[k], x)
      /\ \A i \in 1..n : i # k => t[i] = s[i]
    BY <1>1, <1>2, <1>3, ExceptSeq
<1> HIDE DEF t
<1> DEFINE a(u) == SubSeq(u, 1, k)
           b(u) == SubSeq(u, k + 1, n)
           c(u) == SubSeq(a(u), 1, k - 1)
<1>5. ASSUME NEW u \in Seq(Seq(S)), Len(u) = n, \A i \in 1..n : i > k => u[i] = <<>>
      PROVE  /\ c(u) \in Seq(Seq(S)) /\ Len(c(u)) = k - 1
             /\ \A i \in 1..(k - 1) : c(u)[i] = u[i]
             /\ FlattenSeq(c(u)) \in Seq(S)
             /\ FlattenSeq(u) = FlattenSeq(c(u)) \o u[k]
    <2>1. /\ a(u) \in Seq(Seq(S)) /\ Len(a(u)) = k
          /\ \A i \in 1..k : a(u)[i] = u[i]
          /\ b(u) \in Seq(Seq(S)) /\ Len(b(u)) = n - k
          /\ \A i \in 1..(n - k) : b(u)[i] = u[i + k]
          /\ u = a(u) \o b(u)
        BY <1>2, <1>5, Parts
    <2>2. \A i \in 1..Len(b(u)) : b(u)[i] = <<>>
        <3>1. \A i \in 1..(n - k) : i + k \in 1..n /\ i + k > k
            BY <1>2
        <3> QED
            BY <1>5, <2>1, <3>1
    <2> HIDE DEF a, b
    <2>3. FlattenSeq(b(u)) = <<>>
        BY <2>1, <2>2, FlattenNothing
    <2>4. FlattenSeq(u) = FlattenSeq(a(u)) \o FlattenSeq(b(u))
        <3>1. FlattenSeq(a(u) \o b(u)) = FlattenSeq(a(u)) \o FlattenSeq(b(u))
            BY <2>1, FlattenConcat
        <3> QED
            BY <2>1, <3>1, Zenon
    <2>5. FlattenSeq(a(u)) \in Seq(S)
        BY <2>1, FlattenType
    <2>6. FlattenSeq(u) = FlattenSeq(a(u))
        <3>1. FlattenSeq(a(u)) \o <<>> = FlattenSeq(a(u))
            BY <2>5, ConcatEmptySeq
        <3> QED
            BY <2>3, <2>4, <3>1, Zenon
    <2>7. /\ c(u) \in Seq(Seq(S)) /\ Len(c(u)) = k - 1 /\ a(u)[k] \in Seq(S)
          /\ a(u) = Append(c(u), a(u)[k])
        BY <1>2, <2>1, LastApart, SMTT(20)
    <2>8. \A i \in 1..(k - 1) : c(u)[i] = a(u)[i]
        BY <1>2, <2>1
    <2> HIDE DEF c
    <2>9. \A i \in 1..(k - 1) : c(u)[i] = u[i]
        BY <1>2, <2>1, <2>8
    <2>10. FlattenSeq(Append(c(u), a(u)[k])) = FlattenSeq(c(u)) \o a(u)[k]
        BY <2>7, FlattenAppend
    <2>11. a(u)[k] = u[k]
        BY <1>2, <2>1
    <2>12. FlattenSeq(u) = FlattenSeq(c(u)) \o u[k]
        BY <2>6, <2>7, <2>10, <2>11, Zenon
    <2> QED
        BY <2>7, <2>9, <2>12, FlattenType
<1> HIDE DEF c
<1>6. \A i \in 1..n : i > k => s[i] = <<>> /\ t[i] = <<>>
    <2> SUFFICES ASSUME NEW i \in 1..n, i > k
                 PROVE  s[i] = <<>> /\ t[i] = <<>>
        OBVIOUS
    <2>1. i # k
        BY <1>2
    <2> QED
        BY <1>1, <1>4, <2>1
<1>7. c(t) = c(s)
    <2>1. /\ c(s) \in Seq(Seq(S)) /\ Len(c(s)) = k - 1
          /\ \A i \in 1..(k - 1) : c(s)[i] = s[i]
        BY <1>1, <1>5, <1>6
    <2>2. /\ c(t) \in Seq(Seq(S)) /\ Len(c(t)) = k - 1
          /\ \A i \in 1..(k - 1) : c(t)[i] = t[i]
        BY <1>4, <1>5, <1>6
    <2>3. \A i \in 1..(k - 1) : c(t)[i] = c(s)[i]
        <3> TAKE i \in 1..(k - 1)
        <3>1. i \in 1..n /\ i # k
            BY <1>2
        <3>2. c(t)[i] = t[i] /\ c(s)[i] = s[i] /\ t[i] = s[i]
            BY <1>4, <2>1, <2>2, <3>1
        <3> QED
            BY <3>2, Zenon
    <2> QED
        BY <2>1, <2>2, <2>3, SeqEqual
<1>8. FlattenSeq(s) = FlattenSeq(c(s)) \o s[k] /\ FlattenSeq(c(s)) \in Seq(S)
    BY <1>1, <1>5, <1>6
<1>9. FlattenSeq(t) = FlattenSeq(c(s)) \o Append(s[k], x)
    BY <1>4, <1>5, <1>6, <1>7
<1>10. FlattenSeq(c(s)) \o Append(s[k], x) = Append(FlattenSeq(c(s)) \o s[k], x)
    BY <1>3, <1>8
<1> QED
    BY <1>8, <1>9, <1>10, Zenon DEF t

-----------------------------------------------------------------------------
(* Packets. *)

LEMMA PaddedNat ==
    ASSUME NEW m \in Msgs
    PROVE  Padded(Size[m]) \in Nat
<1>1. Size[m] \in Nat
    BY SizeAssumption
<1> QED
    BY <1>1 DEF Padded

(***************************************************************************)
(* A message is only added where it fits, so a packet never outgrows its   *)
(* buffer, and it stays a packet for the same node.                        *)
(***************************************************************************)
LEMMA AddedFits ==
    ASSUME NEW p \in Packet, NEW m \in Msgs, Fits(p, m)
    PROVE  AddData(p, m) \in Packet /\ AddData(p, m).tgt = p.tgt
<1>1. /\ p.total \in Nat /\ p.total <= CAPACITY /\ p.msgs \in Seq(Msgs)
      /\ p.tgt \in Nodes \cup {NoNode}
    BY SizeAssumption DEF Packet
<1>2. HDR \in Nat /\ CAPACITY \in Nat /\ Padded(Size[m]) \in Nat
    BY PaddedNat, SizeAssumption
<1>3. p.total + HDR + Padded(Size[m]) \in 0..CAPACITY
    BY <1>1, <1>2 DEF Fits
<1>4. Append(p.msgs, m) \in Seq(Msgs)
    BY <1>1
<1> QED
    BY <1>1, <1>3, <1>4 DEF AddData, Packet

LEMMA EmptyPacket ==
    ASSUME NEW n \in Nodes \cup {NoNode}
    PROVE  NewPacket(n) \in Packet /\ NewPacket(n).tgt = n
BY SizeAssumption, EmptySeq DEF NewPacket, Packet

LEMMA FirstFits ==
    ASSUME NEW n \in Nodes, NEW m \in Msgs
    PROVE  AddData(NewPacket(n), m) \in Packet /\ AddData(NewPacket(n), m).tgt = n
<1>1. Fits(NewPacket(n), m)
    BY PaddedNat, SizeAssumption, UserSizeAssumption DEF Fits, NewPacket
<1> QED
    BY <1>1, EmptyPacket, AddedFits

LEMMA FreedIsPacket == Freed \in Packet
BY EmptyPacket DEF Freed

-----------------------------------------------------------------------------
(* The steps. *)

(***************************************************************************)
(* Filling a packet changes neither the queue nor any packet's target.     *)
(***************************************************************************)
LEMMA FillKeeps ==
    ASSUME IInv, NEW n \in Nodes, NEW m \in Msgs, FillPacket(n, m)
    PROVE  IInv'
<1> DEFINE b == PartialBuffer(n)
<1>1. b \in Bufs
    BY DEF FillPacket, Queued, ToSet, IInv, TypeOK
<1>2. packet[b] \in Packet
    BY <1>1 DEF IInv, TypeOK
<1>3. packet' = [packet EXCEPT ![b] = AddData(packet[b], m)]
    BY DEF FillPacket
<1>4. AddData(packet[b], m) \in Packet /\ AddData(packet[b], m).tgt = packet[b].tgt
    BY <1>2, AddedFits DEF FillPacket
<1> HIDE DEF b
<1>5. packet' \in [Bufs -> Packet]
    BY <1>1, <1>3, <1>4 DEF IInv, TypeOK
<1>6. \A c \in Bufs : Target(c)' = Target(c)
    BY <1>1, <1>3, <1>4 DEF IInv, TypeOK, Target
<1>7. \A i \in DOMAIN outgoing : outgoing[i] \in Bufs
    BY DEF IInv, TypeOK
<1>8. UNCHANGED <<known, partial, outgoing>> /\ wire' = <<>>
    BY DEF FillPacket
<1>9. TypeOK'
    BY <1>5, <1>8, EmptySeq DEF IInv, TypeOK
<1>10. PartialIsLast'
    BY <1>6, <1>7, <1>8 DEF IInv, PartialIsLast, Target
<1> QED
    BY <1>8, <1>9, <1>10 DEF IInv, QueuedOnce, UnknownHasNone

(***************************************************************************)
(* A new packet goes to the end of the queue, and becomes the one that is  *)
(* being filled for its node if that is in the table.                      *)
(***************************************************************************)
LEMMA StartKeeps ==
    ASSUME IInv, NEW n \in Nodes, NEW m \in Msgs, NEW b \in Bufs, StartPacket(n, m, b)
    PROVE  IInv'
<1>0. PICK L \in Nat : L = Len(outgoing)
    BY LenProperties DEF IInv, TypeOK
<1>1. /\ outgoing \in Seq(Bufs) /\ DOMAIN outgoing = 1..L
      /\ \A i \in 1..L : outgoing[i] \in Bufs \ {b}
    BY <1>0, LenProperties DEF StartPacket, Queued, ToSet, IInv, TypeOK
<1>2. /\ outgoing' \in Seq(Bufs) /\ DOMAIN outgoing' = 1..(L + 1)
      /\ outgoing'[L + 1] = b
      /\ \A i \in 1..L : outgoing'[i] = outgoing[i]
    BY <1>0, <1>1, AppendProperties, LenProperties DEF StartPacket
<1>3. /\ packet' \in [Bufs -> Packet]
      /\ Target(b)' = n
      /\ \A c \in Bufs \ {b} : Target(c)' = Target(c)
    <2>1. packet' = [packet EXCEPT ![b] = AddData(NewPacket(n), m)]
        BY DEF StartPacket
    <2>2. AddData(NewPacket(n), m) \in Packet /\ AddData(NewPacket(n), m).tgt = n
        BY FirstFits
    <2> QED
        BY <2>1, <2>2 DEF IInv, TypeOK, Target
<1>4. /\ partial' \in [Nodes -> Bufs \cup {NoBuf}]
      /\ \A l \in Nodes \ {n} : partial'[l] = partial[l]
      /\ n \in known => partial'[n] = b
      /\ n \notin known => partial'[n] = partial[n]
    BY DEF StartPacket, SetPartialBuffer, IInv, TypeOK
<1>5. known' = known /\ wire' = <<>>
    BY DEF StartPacket
<1>6. TypeOK'
    BY <1>2, <1>3, <1>4, <1>5, EmptySeq DEF IInv, TypeOK
<1>7. QueuedOnce'
    <2> SUFFICES ASSUME NEW i \in 1..(L + 1), NEW j \in 1..(L + 1), outgoing'[i] = outgoing'[j]
                 PROVE  i = j
        BY <1>2 DEF QueuedOnce
    <2>1. CASE i = L + 1 \/ j = L + 1
        BY <1>1, <1>2, <2>1
    <2>2. CASE i \in 1..L /\ j \in 1..L
        BY <1>1, <1>2, <2>2 DEF IInv, QueuedOnce
    <2> QED
        BY <2>1, <2>2
<1>8. UnknownHasNone'
    BY <1>4, <1>5 DEF IInv, UnknownHasNone
<1>9. PartialIsLast'
    <2> SUFFICES ASSUME NEW l \in Nodes, partial'[l] # NoBuf
                 PROVE  \E i \in 1..(L + 1) :
                           /\ outgoing'[i] = partial'[l]
                           /\ Target(outgoing[i])' = l
                           /\ \A j \in 1..(L + 1) : Target(outgoing[j])' = l => j <= i
        BY <1>2 DEF PartialIsLast
    <2>1. CASE l = n
        <3>1. partial'[l] = b
            BY <1>4, <2>1 DEF IInv, UnknownHasNone
        <3>2. Target(outgoing[L + 1])' = l
            BY <1>2, <1>3, <2>1 DEF Target
        <3> QED
            BY <1>1, <1>2, <2>1, <3>1, <3>2
    <2>2. CASE l # n
        <3>1. PICK i \in 1..L :
                 /\ outgoing[i] = partial[l]
                 /\ Target(outgoing[i]) = l
                 /\ \A j \in 1..L : Target(outgoing[j]) = l => j <= i
            BY <1>1, <1>4, <2>2 DEF IInv, PartialIsLast
        <3>2. \A j \in 1..L : Target(outgoing[j])' = Target(outgoing[j])
            BY <1>1, <1>2, <1>3 DEF Target
        <3>3. Target(outgoing[L + 1])' # l
            BY <1>2, <1>3, <2>2 DEF Target
        <3> QED
            BY <1>1, <1>2, <1>4, <2>2, <3>1, <3>2, <3>3
    <2> QED
        BY <2>1, <2>2
<1> QED
    BY <1>6, <1>7, <1>8, <1>9 DEF IInv

(***************************************************************************)
(* The first k packets leave.  A pointer to one of them is reset, because  *)
(* its node is in the table; the packets that stay move up.                *)
(***************************************************************************)
LEMMA SendKeeps ==
    ASSUME IInv, NEW k \in 0..Len(outgoing), NEW Accepted \in SUBSET (1..k),
           SendPackets(k, Accepted)
    PROVE  IInv'
<1> DEFINE L == Len(outgoing)
           Gone == {outgoing[i] : i \in 1..k}
<1>1. /\ outgoing \in Seq(Bufs) /\ L \in Nat /\ k \in Nat /\ k <= L
      /\ DOMAIN outgoing = 1..L
      /\ \A i \in 1..L : outgoing[i] \in Bufs
    BY DEF IInv, TypeOK
<1>2. outgoing' = SubSeq(outgoing, k + 1, L)
    BY DEF SendPackets
<1>3. /\ outgoing' \in Seq(Bufs) /\ DOMAIN outgoing' = 1..(L - k)
      /\ \A i \in 1..(L - k) : outgoing'[i] = outgoing[i + k]
    <2>1. \A i \in (k + 1)..L : outgoing[i] \in Bufs
        BY <1>1
    <2> HIDE DEF L
    <2>2. /\ SubSeq(outgoing, k + 1, L) \in Seq(Bufs)
          /\ Len(SubSeq(outgoing, k + 1, L)) = IF k + 1 <= L THEN L - (k + 1) + 1 ELSE 0
          /\ \A i \in 1..(L - (k + 1) + 1) :
                SubSeq(outgoing, k + 1, L)[i] = outgoing[(k + 1) + i - 1]
        BY <1>1, <2>1, SubSeqProperties
    <2>3. Len(outgoing') = L - k
        BY <1>1, <1>2, <2>2
    <2>4. \A i \in 1..(L - k) : (k + 1) + i - 1 = i + k /\ i \in 1..(L - (k + 1) + 1)
        BY <1>1
    <2> QED
        BY <1>2, <2>2, <2>3, <2>4, LenProperties
<1>4. \A i \in (k + 1)..L : outgoing[i] \in Bufs \ Gone
    BY <1>1 DEF IInv, QueuedOnce
<1>5. packet' = [b \in Bufs |-> IF b \in Gone THEN Freed ELSE packet[b]]
    BY DEF SendPackets
<1>6. /\ packet' \in [Bufs -> Packet]
      /\ \A b \in Bufs \ Gone : Target(b)' = Target(b)
    BY <1>5, FreedIsPacket DEF IInv, TypeOK, Target
<1>7. wire' \in Seq(Packet)
    <2>1. wire' = [i \in 1..k |-> IF i \in Accepted THEN packet[outgoing[i]] ELSE Freed]
        BY DEF SendPackets
    <2>2. \A i \in 1..k : packet[outgoing[i]] \in Packet
        BY <1>1 DEF IInv, TypeOK
    <2> QED
        BY <1>1, <2>1, <2>2, FreedIsPacket, IsASeq
<1>8. partial' = [n \in Nodes |->
                     IF n \in known /\ partial[n] \in Gone /\ Target(partial[n]) = n
                     THEN NoBuf ELSE partial[n]]
    BY DEF SendPackets, Disassociated
<1>9. known' = known
    BY DEF SendPackets
<1> HIDE DEF L, Gone
<1>10. TypeOK'
    BY <1>3, <1>6, <1>7, <1>8, <1>9 DEF IInv, TypeOK
<1>11. QueuedOnce'
    <2> SUFFICES ASSUME NEW i \in 1..(L - k), NEW j \in 1..(L - k), outgoing'[i] = outgoing'[j]
                 PROVE  i = j
        BY <1>3 DEF QueuedOnce
    <2>1. i + k \in 1..L /\ j + k \in 1..L
        BY <1>1
    <2>2. i + k = j + k
        BY <1>1, <1>3, <2>1 DEF IInv, QueuedOnce
    <2> QED
        BY <1>1, <2>2
<1>12. UnknownHasNone'
    BY <1>8, <1>9 DEF IInv, UnknownHasNone
<1>13. PartialIsLast'
    <2> SUFFICES ASSUME NEW n \in Nodes, partial'[n] # NoBuf
                 PROVE  \E i \in 1..(L - k) :
                           /\ outgoing'[i] = partial'[n]
                           /\ Target(outgoing[i])' = n
                           /\ \A j \in 1..(L - k) : Target(outgoing[j])' = n => j <= i
        BY <1>3 DEF PartialIsLast
    <2>1. partial'[n] = partial[n] /\ partial[n] # NoBuf
        BY <1>8
    <2>2. PICK i \in 1..L :
             /\ outgoing[i] = partial[n]
             /\ Target(outgoing[i]) = n
             /\ \A j \in 1..L : Target(outgoing[j]) = n => j <= i
        BY <1>1, <2>1 DEF IInv, PartialIsLast
    <2>3. n \in known
        BY <2>1 DEF IInv, UnknownHasNone
    <2>4. outgoing[i] \notin Gone
        BY <1>8, <2>1, <2>2, <2>3
    <2>5. i \in (k + 1)..L
        BY <1>1, <2>2, <2>4 DEF Gone
    <2>6. i - k \in 1..(L - k) /\ (i - k) + k = i
        BY <1>1, <2>5
    <2>7. outgoing'[i - k] = partial'[n]
        BY <1>3, <2>1, <2>2, <2>6
    <2>8. \A j \in 1..(L - k) : j + k \in (k + 1)..L
        BY <1>1
    <2>9. \A j \in 1..(L - k) : Target(outgoing[j])' = Target(outgoing[j + k])
        BY <1>3, <1>4, <1>6, <2>8 DEF Target
    <2>10. Target(outgoing[i - k])' = n
        BY <2>2, <2>6, <2>9
    <2>11. \A j \in 1..(L - k) : Target(outgoing[j])' = n => j <= i - k
        <3> TAKE j \in 1..(L - k)
        <3> HAVE Target(outgoing[j])' = n
        <3>1. j + k \in 1..L /\ Target(outgoing[j + k]) = n
            BY <1>1, <2>8, <2>9
        <3>2. j + k <= i
            BY <2>2, <3>1
        <3> QED
            BY <1>1, <3>2
    <2> QED
        BY <2>6, <2>7, <2>10, <2>11
<1> QED
    BY <1>10, <1>11, <1>12, <1>13 DEF IInv

-----------------------------------------------------------------------------
LEMMA Initially == Init => IInv
BY EmptySeq, FreedIsPacket DEF Init, IInv, TypeOK, QueuedOnce, UnknownHasNone, PartialIsLast

(***************************************************************************)
(* Nodes come and go, but none goes while a packet is being filled for it. *)
(***************************************************************************)
LEMMA Step == IInv /\ [Next]_vars => IInv'
<1> SUFFICES ASSUME IInv, [Next]_vars PROVE IInv'
    OBVIOUS
<1> USE DEF IInv, TypeOK, QueuedOnce, UnknownHasNone, PartialIsLast, Target
<1>1. ASSUME NEW n \in Nodes, NEW m \in Msgs, SendDataToNetwork(n, m)
      PROVE  IInv'
    <2>1. CASE FillPacket(n, m)
        BY <2>1, FillKeeps
    <2>2. CASE \E b \in Bufs : StartPacket(n, m, b)
        BY <2>2, StartKeeps
    <2>3. CASE LoseMessage
        BY <2>3, EmptySeq DEF LoseMessage
    <2> QED
        BY <1>1, <2>1, <2>2, <2>3 DEF SendDataToNetwork
<1>2. CASE SendPendingPackets
    BY <1>2, SendKeeps DEF SendPendingPackets
<1>3. ASSUME NEW n \in Nodes, InsertNode(n)
      PROVE  IInv'
    BY <1>3, EmptySeq DEF InsertNode
<1>4. ASSUME NEW n \in Nodes, partial[n] = NoBuf, EraseNode(n)
      PROVE  IInv'
    BY <1>4, EmptySeq DEF EraseNode
<1>5. CASE UNCHANGED vars
    BY <1>5 DEF vars
<1> QED
    BY <1>1, <1>2, <1>3, <1>4, <1>5 DEF Next

LEMMA Inductive == Spec => []IInv
BY Initially, Step, PTL DEF Spec

(***************************************************************************)
(* No packet outgrows its buffer, for any lengths of messages that fit an  *)
(* empty one.                                                              *)
(***************************************************************************)
THEOREM TypeCorrect == Spec => []TypeOK
<1>1. IInv => TypeOK
    BY DEF IInv
<1> QED
    BY <1>1, Inductive, PTL

(***************************************************************************)
(* As long as no node is erased while a packet is being filled for it, the *)
(* packet being filled for a node is queued, and is the last one for it.   *)
(***************************************************************************)
THEOREM PartialAlwaysLast == Spec => []PartialIsLast
<1>1. IInv => PartialIsLast
    BY DEF IInv
<1> QED
    BY <1>1, Inductive, PTL
-----------------------------------------------------------------------------
(* The channels: what is queued for a node, packet by packet. *)

Held(n) ==
    [i \in DOMAIN outgoing |->
        IF packet[outgoing[i]].tgt = n THEN packet[outgoing[i]].msgs ELSE <<>>]

Chan == [n \in Nodes |-> Contents([i \in DOMAIN outgoing |-> packet[outgoing[i]]], n)]
Sent == [n \in Nodes |-> Contents(wire, n)]

LEMMA HeldIsQueued ==
    IInv => \A n \in Nodes : /\ Held(n) \in Seq(Seq(Msgs))
                             /\ Len(Held(n)) = Len(outgoing)
                             /\ \A i \in 1..Len(outgoing) :
                                   Held(n)[i] = IF Target(outgoing[i]) = n
                                                THEN packet[outgoing[i]].msgs ELSE <<>>
                             /\ Chan[n] = FlattenSeq(Held(n))
                             /\ Chan[n] \in Seq(Msgs)
<1> SUFFICES ASSUME IInv, NEW n \in Nodes
             PROVE  /\ Held(n) \in Seq(Seq(Msgs))
                    /\ Len(Held(n)) = Len(outgoing)
                    /\ \A i \in 1..Len(outgoing) :
                          Held(n)[i] = IF Target(outgoing[i]) = n
                                       THEN packet[outgoing[i]].msgs ELSE <<>>
                    /\ Chan[n] = FlattenSeq(Held(n))
                    /\ Chan[n] \in Seq(Msgs)
    OBVIOUS
<1>1. PICK L \in Nat : L = Len(outgoing) /\ DOMAIN outgoing = 1..L
    BY LenProperties DEF IInv, TypeOK
<1>2. \A i \in 1..L : packet[outgoing[i]].msgs \in Seq(Msgs)
    BY <1>1 DEF IInv, TypeOK, Packet
<1>3. /\ Held(n) = [i \in 1..L |-> IF packet[outgoing[i]].tgt = n
                                   THEN packet[outgoing[i]].msgs ELSE <<>>]
      /\ \A i \in 1..L : (IF packet[outgoing[i]].tgt = n
                          THEN packet[outgoing[i]].msgs ELSE <<>>) \in Seq(Msgs)
    BY <1>1, <1>2, EmptySeq DEF Held
<1>4. Held(n) \in Seq(Seq(Msgs)) /\ Len(Held(n)) = L
    BY <1>3, IsASeq, LenProperties
<1>5. Chan[n] = FlattenSeq(Held(n))
    <2>1. Chan[n] = Contents([i \in 1..L |-> packet[outgoing[i]]], n)
        BY <1>1 DEF Chan
    <2>2. [i \in DOMAIN [j \in 1..L |-> packet[outgoing[j]]] |->
              IF [j \in 1..L |-> packet[outgoing[j]]][i].tgt = n
              THEN [j \in 1..L |-> packet[outgoing[j]]][i].msgs ELSE <<>>] = Held(n)
        BY <1>3
    <2> QED
        BY <2>1, <2>2, Zenon DEF Contents
<1>6. Chan[n] \in Seq(Msgs)
    BY <1>4, <1>5, FlattenType
<1> QED
    BY <1>1, <1>3, <1>4, <1>5, <1>6 DEF Target

LEMMA HeldIsQueuedNext ==
    IInv' => (\A n \in Nodes : /\ Held(n) \in Seq(Seq(Msgs))
                               /\ Len(Held(n)) = Len(outgoing)
                               /\ \A i \in 1..Len(outgoing) :
                                     Held(n)[i] = IF Target(outgoing[i]) = n
                                                  THEN packet[outgoing[i]].msgs ELSE <<>>
                               /\ Chan[n] = FlattenSeq(Held(n))
                               /\ Chan[n] \in Seq(Msgs))'
BY HeldIsQueued, PTL

LEMMA NothingContained ==
    \A n \in Nodes : Contents(<<>>, n) = <<>>
<1> TAKE n \in Nodes
<1> DEFINE f == [i \in DOMAIN <<>> |-> IF <<>>[i].tgt = n THEN <<>>[i].msgs ELSE <<>>]
<1>1. DOMAIN <<>> = {}
    OBVIOUS
<1>2. f = <<>>
    BY <1>1
<1> QED
    BY <1>2, FlattenEmpty DEF Contents

(***************************************************************************)
(* A step that hands nothing to the kernel, with or without a new message. *)
(***************************************************************************)
LEMMA QuietStep ==
    ASSUME wire' = <<>>
    PROVE  /\ Chan' = Chan => Abstract!Idle
           /\ \A n \in Nodes, m \in Msgs :
                 Chan' = [Chan EXCEPT ![n] = Append(@, m)] => Abstract!Put(n, m)
<1>1. Sent' = [n \in Nodes |-> <<>>]
    BY NothingContained DEF Sent
<1> QED
    BY <1>1 DEF Chan, Sent, Abstract!Idle, Abstract!Put, Abstract!Nothing

LEMMA PutStep ==
    ASSUME IInv, IInv', NEW n \in Nodes, NEW m \in Msgs, wire' = <<>>,
           \A l \in Nodes \ {n} : Chan'[l] = Chan[l],
           Chan'[n] = Append(Chan[n], m)
    PROVE  Abstract!Put(n, m)
<1>1. Chan' = [Chan EXCEPT ![n] = Append(Chan[n], m)]
    BY DEF Chan
<1> QED
    BY <1>1, QuietStep

(***************************************************************************)
(* What is added to the packet being filled for a node is added behind     *)
(* everything that is queued for it.                                       *)
(***************************************************************************)
LEMMA FillPuts ==
    ASSUME IInv, IInv', NEW n \in Nodes, NEW m \in Msgs, FillPacket(n, m)
    PROVE  Abstract!Put(n, m)
<1> DEFINE b == PartialBuffer(n)
<1>1. /\ b \in Bufs /\ b # NoBuf
      /\ packet' = [packet EXCEPT ![b] = AddData(packet[b], m)]
      /\ outgoing' = outgoing /\ wire' = <<>>
    BY NullAssumption DEF FillPacket, Queued, ToSet, IInv, TypeOK
<1>2. b = partial[n]
    BY <1>1 DEF PartialBuffer
<1>3. PICK L \in Nat : L = Len(outgoing) /\ DOMAIN outgoing = 1..L
    BY LenProperties DEF IInv, TypeOK
<1> HIDE DEF b
<1>4. PICK k \in 1..L : /\ outgoing[k] = b
                        /\ Target(b) = n
                        /\ \A j \in 1..L : Target(outgoing[j]) = n => j <= k
    BY <1>1, <1>2, <1>3 DEF IInv, PartialIsLast
<1>5. /\ AddData(packet[b], m).tgt = n
      /\ AddData(packet[b], m).msgs = Append(packet[b].msgs, m)
    BY <1>4 DEF AddData, Target
<1>6. \A j \in 1..L : outgoing[j] \in Bufs /\ (j # k => outgoing[j] # b)
    <2> TAKE j \in 1..L
    <2>1. outgoing[j] \in Bufs
        BY <1>3 DEF IInv, TypeOK
    <2>2. outgoing[j] = outgoing[k] => j = k
        BY <1>3 DEF IInv, QueuedOnce
    <2> QED
        BY <1>4, <2>1, <2>2
<1>7. /\ \A j \in 1..L : j # k => packet'[outgoing[j]] = packet[outgoing[j]]
      /\ packet'[b] = AddData(packet[b], m)
    BY <1>1, <1>6 DEF IInv, TypeOK
<1>8. ASSUME NEW l \in Nodes \ {n}
      PROVE  Chan'[l] = Chan[l]
    <2>1. /\ Held(l) \in Seq(Seq(Msgs)) /\ Len(Held(l)) = L
          /\ \A i \in 1..L : Held(l)[i] = IF Target(outgoing[i]) = l
                                          THEN packet[outgoing[i]].msgs ELSE <<>>
          /\ Chan[l] = FlattenSeq(Held(l))
        BY <1>3, HeldIsQueued
    <2>2. /\ Held(l)' \in Seq(Seq(Msgs)) /\ Len(Held(l)') = L
          /\ \A i \in 1..L : Held(l)'[i] = IF Target(outgoing[i])' = l
                                           THEN packet'[outgoing[i]].msgs ELSE <<>>
          /\ Chan'[l] = FlattenSeq(Held(l)')
        BY <1>1, <1>3, HeldIsQueuedNext
    <2>3. \A i \in 1..L : Held(l)'[i] = Held(l)[i]
        <3> TAKE i \in 1..L
        <3>1. CASE i = k
            <4>1. Target(outgoing[i]) = n /\ Target(outgoing[i])' = n
                BY <1>1, <1>4, <1>5, <1>7, <3>1 DEF Target
            <4> QED
                BY <2>1, <2>2, <4>1
        <3>2. CASE i # k
            <4>1. /\ packet'[outgoing[i]] = packet[outgoing[i]]
                  /\ Target(outgoing[i])' = Target(outgoing[i])
                BY <1>1, <1>7, <3>2 DEF Target
            <4> QED
                BY <2>1, <2>2, <4>1
        <3> QED
            BY <3>1, <3>2
    <2>4. Held(l)' = Held(l)
        BY <2>1, <2>2, <2>3, SeqEqual
    <2> QED
        BY <2>1, <2>2, <2>4
<1>9. Chan'[n] = Append(Chan[n], m)
    <2>1. /\ Held(n) \in Seq(Seq(Msgs)) /\ Len(Held(n)) = L
          /\ \A i \in 1..L : Held(n)[i] = IF Target(outgoing[i]) = n
                                          THEN packet[outgoing[i]].msgs ELSE <<>>
          /\ Chan[n] = FlattenSeq(Held(n))
        BY <1>3, HeldIsQueued
    <2>2. /\ Held(n)' \in Seq(Seq(Msgs)) /\ Len(Held(n)') = L
          /\ \A i \in 1..L : Held(n)'[i] = IF Target(outgoing[i])' = n
                                           THEN packet'[outgoing[i]].msgs ELSE <<>>
          /\ Chan'[n] = FlattenSeq(Held(n)')
        BY <1>1, <1>3, HeldIsQueuedNext
    <2>3. \A i \in 1..L : Held(n)'[i] = IF i = k THEN Append(Held(n)[k], m) ELSE Held(n)[i]
        <3> TAKE i \in 1..L
        <3>1. CASE i = k
            <4>1. Target(outgoing[i]) = n /\ Target(outgoing[i])' = n
                BY <1>1, <1>4, <1>5, <1>7, <3>1 DEF Target
            <4>2. Held(n)[k] = packet[b].msgs /\ Held(n)'[k] = AddData(packet[b], m).msgs
                BY <1>4, <1>7, <2>1, <2>2, <3>1, <4>1
            <4> QED
                BY <1>5, <3>1, <4>2
        <3>2. CASE i # k
            <4>1. /\ packet'[outgoing[i]] = packet[outgoing[i]]
                  /\ Target(outgoing[i])' = Target(outgoing[i])
                BY <1>1, <1>7, <3>2 DEF Target
            <4> QED
                BY <2>1, <2>2, <3>2, <4>1
        <3> QED
            BY <3>1, <3>2
    <2> DEFINE h == Held(n)
               g == Held(n)'
    <2>4. /\ h \in Seq(Seq(Msgs)) /\ Len(h) = L
          /\ \A j \in 1..L : j > k => h[j] = <<>>
        BY <1>4, <2>1
    <2>5. /\ g \in Seq(Seq(Msgs)) /\ Len(g) = L
          /\ \A i \in 1..L : g[i] = IF i = k THEN Append(h[k], m) ELSE h[i]
        BY <2>2, <2>3
    <2> HIDE DEF h, g
    <2>6. g = [h EXCEPT ![k] = Append(h[k], m)]
        <3>1. h[k] \in Seq(Msgs) /\ Append(h[k], m) \in Seq(Msgs)
            BY <2>4, AppendProperties
        <3>2. /\ [h EXCEPT ![k] = Append(h[k], m)] \in Seq(Seq(Msgs))
              /\ Len([h EXCEPT ![k] = Append(h[k], m)]) = L
              /\ \A i \in 1..L : [h EXCEPT ![k] = Append(h[k], m)][i]
                                   = IF i = k THEN Append(h[k], m) ELSE h[i]
            BY <2>4, <3>1, ExceptSeq
        <3> QED
            BY <2>5, <3>2, SeqEqual
    <2>7. FlattenSeq(g) = Append(FlattenSeq(h), m)
        BY <2>4, <2>6, FlattenAppendAt
    <2> QED
        BY <2>1, <2>2, <2>7 DEF h, g
<1> QED
    BY <1>1, <1>8, <1>9, PutStep

(***************************************************************************)
(* A new packet goes behind everything that is queued.                     *)
(***************************************************************************)
LEMMA StartPuts ==
    ASSUME IInv, IInv', NEW n \in Nodes, NEW m \in Msgs, NEW b \in Bufs,
           StartPacket(n, m, b)
    PROVE  Abstract!Put(n, m)
<1>1. PICK L \in Nat : L = Len(outgoing) /\ DOMAIN outgoing = 1..L
    BY LenProperties DEF IInv, TypeOK
<1>2. /\ wire' = <<>> /\ Len(outgoing') = L + 1 /\ outgoing'[L + 1] = b
      /\ \A i \in 1..L : outgoing'[i] = outgoing[i] /\ outgoing[i] \in Bufs \ {b}
    <2>1. outgoing \in Seq(Bufs) /\ outgoing' = Append(outgoing, b) /\ wire' = <<>>
        BY DEF StartPacket, IInv, TypeOK
    <2>2. \A i \in 1..L : outgoing[i] \in Bufs \ {b}
        BY <1>1, LenProperties DEF StartPacket, Queued, ToSet, IInv, TypeOK
    <2> QED
        BY <1>1, <2>1, <2>2, AppendProperties
<1>3. /\ packet'[b].tgt = n /\ packet'[b].msgs = <<m>>
      /\ \A c \in Bufs \ {b} : packet'[c] = packet[c]
    BY DEF StartPacket, AddData, NewPacket, IInv, TypeOK
<1>4. ASSUME NEW l \in Nodes
      PROVE  Chan'[l] = Chan[l] \o (IF l = n THEN <<m>> ELSE <<>>)
    <2> DEFINE x == IF l = n THEN <<m>> ELSE <<>>
               h == Held(l)
               g == Held(l)'
    <2>1. /\ h \in Seq(Seq(Msgs)) /\ Len(h) = L
          /\ \A i \in 1..L : h[i] = IF Target(outgoing[i]) = l
                                    THEN packet[outgoing[i]].msgs ELSE <<>>
          /\ Chan[l] = FlattenSeq(h)
        BY <1>1, HeldIsQueued
    <2>2. /\ g \in Seq(Seq(Msgs)) /\ Len(g) = L + 1
          /\ \A i \in 1..(L + 1) : g[i] = IF Target(outgoing[i])' = l
                                          THEN packet'[outgoing'[i]].msgs ELSE <<>>
          /\ Chan'[l] = FlattenSeq(g)
        BY <1>2, HeldIsQueuedNext
    <2>3. x \in Seq(Msgs)
        OBVIOUS
    <2>4. g[L + 1] = x
        <3>1. L + 1 \in 1..(L + 1) /\ Target(outgoing[L + 1])' = n
            BY <1>2, <1>3 DEF Target
        <3> QED
            BY <1>2, <1>3, <2>2, <3>1
    <2>5. \A i \in 1..L : g[i] = h[i]
        <3> TAKE i \in 1..L
        <3>1. i \in 1..(L + 1) /\ outgoing'[i] = outgoing[i] /\ outgoing[i] \in Bufs \ {b}
            BY <1>2
        <3>2. Target(outgoing[i])' = Target(outgoing[i])
              /\ packet'[outgoing'[i]] = packet[outgoing[i]]
            BY <1>3, <3>1 DEF Target
        <3> QED
            BY <2>1, <2>2, <3>1, <3>2
    <2> HIDE DEF x, h, g
    <2>6. /\ Append(h, x) \in Seq(Seq(Msgs)) /\ Len(Append(h, x)) = L + 1
          /\ \A i \in 1..(L + 1) : g[i] = Append(h, x)[i]
        BY <2>1, <2>3, <2>4, <2>5, AppendProperties
    <2>7. g = Append(h, x)
        BY <2>2, <2>6, SeqEqual
    <2>8. FlattenSeq(g) = FlattenSeq(h) \o x
        BY <2>1, <2>3, <2>7, FlattenAppend
    <2> QED
        BY <2>1, <2>2, <2>8 DEF x
<1>5. \A l \in Nodes : Chan[l] \in Seq(Msgs)
    BY HeldIsQueued
<1>6. \A l \in Nodes \ {n} : Chan'[l] = Chan[l]
    BY <1>4, <1>5, ConcatEmptySeq
<1>7. Chan'[n] = Append(Chan[n], m)
    <2> DEFINE c == Chan[n]
    <2>1. c \in Seq(Msgs) /\ Chan'[n] = c \o <<m>>
        BY <1>4, <1>5
    <2> HIDE DEF c
    <2>2. c \o <<m>> = Append(c, m)
        BY <2>1
    <2> QED
        BY <2>1, <2>2 DEF c
<1> QED
    BY <1>2, <1>6, <1>7, PutStep
-----------------------------------------------------------------------------
(* What the kernel takes is among what leaves the channel, in order. *)

LEMMA EmbedsLonger ==
    ASSUME NEW S, NEW s \in Seq(S), NEW a \in Seq(S), NEW b \in Seq(S),
           Abstract!Embeds(s, a, Len(a))
    PROVE  Abstract!Embeds(s, a \o b, Len(a))
<1>1. PICK L \in Nat : L = Len(a)
    OBVIOUS
<1>2. \A i \in 1..L : (a \o b)[i] = a[i]
    BY <1>1, ConcatProperties
<1>3. PICK at \in [DOMAIN s -> 1..L] :
         /\ \A i \in DOMAIN s : s[i] = a[at[i]]
         /\ \A i, j \in DOMAIN s : i < j => at[i] < at[j]
    BY <1>1 DEF Abstract!Embeds
<1>4. \A i \in DOMAIN s : s[i] = (a \o b)[at[i]]
    BY <1>2, <1>3
<1> QED
    BY <1>1, <1>3, <1>4 DEF Abstract!Embeds

LEMMA EmbedsMore ==
    ASSUME NEW S, NEW s \in Seq(S), NEW a \in Seq(S), NEW z \in Seq(S), NEW x \in Seq(S),
           z = x \/ z = <<>>, Abstract!Embeds(s, a, Len(a))
    PROVE  Abstract!Embeds(s \o z, a \o x, Len(a \o x))
<1>1. PICK p \in Nat, q \in Nat, k \in Nat, l \in Nat :
         p = Len(s) /\ q = Len(z) /\ k = Len(a) /\ l = Len(x)
    OBVIOUS
<1>2. /\ s \o z \in Seq(S) /\ Len(s \o z) = p + q /\ DOMAIN (s \o z) = 1..(p + q)
      /\ \A i \in 1..(p + q) : (s \o z)[i] = IF i <= p THEN s[i] ELSE z[i - p]
    BY <1>1, ConcatProperties, LenProperties
<1>3. /\ Len(a \o x) = k + l
      /\ \A i \in 1..(k + l) : (a \o x)[i] = IF i <= k THEN a[i] ELSE x[i - k]
    BY <1>1, ConcatProperties
<1>4. PICK at \in [1..p -> 1..k] :
         /\ \A i \in 1..p : s[i] = a[at[i]]
         /\ \A i, j \in 1..p : i < j => at[i] < at[j]
    <2>1. DOMAIN s = 1..p
        BY <1>1, LenProperties
    <2>2. PICK at \in [DOMAIN s -> 1..Len(a)] :
             /\ \A i \in DOMAIN s : s[i] = a[at[i]]
             /\ \A i, j \in DOMAIN s : i < j => at[i] < at[j]
        BY Zenon DEF Abstract!Embeds
    <2>3. at \in [1..p -> 1..k]
        BY <1>1, <2>1, <2>2
    <2> QED
        BY <2>1, <2>2, <2>3
<1>5. q = 0 \/ (q = l /\ \A i \in 1..q : z[i] = x[i])
    BY <1>1
<1> DEFINE to == [i \in 1..(p + q) |-> IF i <= p THEN at[i] ELSE k + (i - p)]
<1>6. ASSUME NEW i \in 1..(p + q)
      PROVE  to[i] \in 1..(k + l) /\ (s \o z)[i] = (a \o x)[to[i]]
    <2>1. CASE i <= p
        <3>1. i \in 1..p /\ to[i] = at[i] /\ at[i] \in 1..k
            BY <1>4, <2>1
        <3>2. at[i] \in 1..(k + l) /\ at[i] <= k
            BY <3>1
        <3> QED
            BY <1>2, <1>3, <1>4, <2>1, <3>1, <3>2
    <2>2. CASE ~(i <= p)
        <3>1. i - p \in 1..q /\ to[i] = k + (i - p)
            BY <2>2
        <3>2. q = l /\ z[i - p] = x[i - p]
            BY <1>5, <3>1
        <3>3. to[i] \in 1..(k + l) /\ ~(to[i] <= k) /\ to[i] - k = i - p
            BY <3>1, <3>2
        <3> QED
            BY <1>2, <1>3, <2>2, <3>2, <3>3
    <2> QED
        BY <2>1, <2>2
<1>7. ASSUME NEW i \in 1..(p + q), NEW j \in 1..(p + q), i < j
      PROVE  to[i] < to[j]
    <2>1. CASE j <= p
        <3>1. i \in 1..p /\ j \in 1..p /\ to[i] = at[i] /\ to[j] = at[j]
            BY <1>7, <2>1
        <3> QED
            BY <1>4, <1>7, <3>1
    <2>2. CASE i <= p /\ ~(j <= p)
        <3>1. i \in 1..p /\ to[i] = at[i] /\ at[i] \in 1..k /\ to[j] = k + (j - p)
            BY <1>4, <2>2
        <3> QED
            BY <2>2, <3>1
    <2>3. CASE ~(i <= p)
        BY <1>7, <2>3
    <2> QED
        BY <1>7, <2>1, <2>2, <2>3
<1>8. to \in [1..(p + q) -> 1..(k + l)]
    BY <1>6
<1> HIDE DEF to
<1> QED
    BY <1>2, <1>3, <1>6, <1>7, <1>8 DEF Abstract!Embeds

LEMMA EmbedsFlatten ==
    ASSUME NEW S, NEW c \in Seq(Seq(S)), NEW w \in Seq(Seq(S)), Len(w) = Len(c),
           \A i \in 1..Len(c) : w[i] = c[i] \/ w[i] = <<>>
    PROVE  Abstract!Embeds(FlattenSeq(w), FlattenSeq(c), Len(FlattenSeq(c)))
<1> DEFINE Some(d, v, k) ==
               Len(d) = k /\ Len(v) = k /\ \A i \in 1..k : v[i] = d[i] \/ v[i] = <<>>
           E(d, v) == Abstract!Embeds(FlattenSeq(v), FlattenSeq(d), Len(FlattenSeq(d)))
           K == {k \in Nat : \A d \in Seq(Seq(S)) : \A v \in Seq(Seq(S)) :
                                 Some(d, v, k) => E(d, v)}
<1>1. 0 \in K
    <2> SUFFICES ASSUME NEW d \in Seq(Seq(S)), NEW v \in Seq(Seq(S)), Some(d, v, 0)
                 PROVE  E(d, v)
        OBVIOUS
    <2>1. d = <<>> /\ v = <<>>
        OBVIOUS
    <2>2. FlattenSeq(d) = <<>> /\ FlattenSeq(v) = <<>>
        BY <2>1, FlattenEmpty
    <2>3. Abstract!Embeds(<<>>, <<>>, 0)
        <3>1. DOMAIN <<>> = {} /\ <<>> \in [{} -> 1..0]
            OBVIOUS
        <3> QED
            BY <3>1 DEF Abstract!Embeds
    <2>4. Len(<<>>) = 0
        OBVIOUS
    <2> QED
        BY <2>2, <2>3, <2>4, Zenon
<1>2. ASSUME NEW k \in K, NEW d \in Seq(Seq(S)), NEW v \in Seq(Seq(S)), Some(d, v, k + 1)
      PROVE  E(d, v)
    <2> DEFINE e == SubSeq(d, 1, k)
               u == SubSeq(v, 1, k)
               x == d[k + 1]
               z == v[k + 1]
    <2>1. k \in Nat /\ k + 1 \in 1..(k + 1)
        OBVIOUS
    <2>2. /\ e \in Seq(Seq(S)) /\ Len(e) = k /\ x \in Seq(S) /\ d = Append(e, x)
          /\ u \in Seq(Seq(S)) /\ Len(u) = k /\ z \in Seq(S) /\ v = Append(u, z)
        BY <1>2, <2>1, LastApart
    <2>3. z = x \/ z = <<>>
        BY <1>2, <2>1
    <2>4. \A i \in 1..k : e[i] = d[i] /\ u[i] = v[i]
        BY <1>2, <2>1
    <2>5. Some(e, u, k)
        BY <1>2, <2>1, <2>2, <2>4
    <2>6. E(e, u)
        BY <2>2, <2>5
    <2> HIDE DEF e, u, x, z
    <2> DEFINE fe == FlattenSeq(e)
               fu == FlattenSeq(u)
    <2>7. fe \in Seq(S) /\ fu \in Seq(S) /\ Abstract!Embeds(fu, fe, Len(fe))
        BY <2>2, <2>6, FlattenType
    <2>8. FlattenSeq(d) = fe \o x /\ FlattenSeq(v) = fu \o z
        BY <2>2, FlattenAppend
    <2> HIDE DEF fe, fu
    <2>9. Abstract!Embeds(fu \o z, fe \o x, Len(fe \o x))
        BY <2>2, <2>3, <2>7, EmbedsMore
    <2> QED
        BY <2>8, <2>9, Zenon
<1>3. \A k \in K \cap Nat : k + 1 \in K
    <2> TAKE k \in K \cap Nat
    <2>1. k + 1 \in Nat
        OBVIOUS
    <2>2. \A d \in Seq(Seq(S)) : \A v \in Seq(Seq(S)) : Some(d, v, k + 1) => E(d, v)
        BY <1>2, Zenon
    <2> QED
        BY <2>1, <2>2, Zenon
<1>4. Some(c, w, Len(c)) /\ Len(c) \in Nat
    OBVIOUS
<1> HIDE DEF K
<1>5. Len(c) \in K
    BY <1>1, <1>3, <1>4, SetInduction
<1> HIDE DEF Some, E
<1>6. E(c, w)
    BY <1>4, <1>5, Zenon DEF K
<1> QED
    BY <1>6, Zenon DEF E

LEMMA SendFlushes ==
    ASSUME IInv, IInv', NEW k \in 0..Len(outgoing), NEW Accepted \in SUBSET (1..k),
           SendPackets(k, Accepted)
    PROVE  Abstract!Flush
<1>1. PICK L \in Nat : L = Len(outgoing) /\ DOMAIN outgoing = 1..L
    BY LenProperties DEF IInv, TypeOK
<1>2. k \in Nat /\ k <= L /\ k \in 0..L
    BY <1>1
<1> DEFINE Gone == {outgoing[i] : i \in 1..k}
<1>3. /\ outgoing \in Seq(Bufs) /\ packet \in [Bufs -> Packet]
      /\ \A i \in 1..L : outgoing[i] \in Bufs
    BY <1>1 DEF IInv, TypeOK
<1>4. /\ Len(outgoing') = L - k
      /\ \A i \in 1..(L - k) : outgoing'[i] = outgoing[i + k]
    <2>1. outgoing' = SubSeq(outgoing, k + 1, L)
        BY <1>1 DEF SendPackets
    <2> QED
        BY <1>1, <1>2, <1>3, <2>1, Parts
<1>5. \A i \in (k + 1)..L : packet'[outgoing[i]] = packet[outgoing[i]]
    <2> TAKE i \in (k + 1)..L
    <2>1. outgoing[i] \in Bufs /\ \A j \in 1..k : outgoing[j] # outgoing[i]
        BY <1>1, <1>2, <1>3 DEF IInv, QueuedOnce
    <2>2. packet' = [b \in Bufs |-> IF b \in Gone THEN Freed ELSE packet[b]]
        BY DEF SendPackets
    <2> QED
        BY <2>1, <2>2
<1>6. wire' = [i \in 1..k |-> IF i \in Accepted THEN packet[outgoing[i]] ELSE Freed]
    BY DEF SendPackets
<1>7. ASSUME NEW n \in Nodes
      PROVE  /\ Chan[n] \in Seq(Msgs) /\ Chan'[n] \in Seq(Msgs) /\ Sent'[n] \in Seq(Msgs)
             /\ \E l \in 0..Len(Chan[n]) :
                   /\ Chan'[n] = SubSeq(Chan[n], l + 1, Len(Chan[n]))
                   /\ Abstract!Embeds(Sent'[n], Chan[n], l)
    <2> DEFINE h == Held(n)
               g == Held(n)'
               c == SubSeq(h, 1, k)
               d == SubSeq(h, k + 1, L)
               w == [i \in 1..k |-> IF wire'[i].tgt = n THEN wire'[i].msgs ELSE <<>>]
    <2>1. /\ h \in Seq(Seq(Msgs)) /\ Len(h) = L
          /\ \A i \in 1..L : h[i] = IF Target(outgoing[i]) = n
                                    THEN packet[outgoing[i]].msgs ELSE <<>>
          /\ Chan[n] = FlattenSeq(h) /\ Chan[n] \in Seq(Msgs)
        BY <1>1, HeldIsQueued
    <2>2. /\ g \in Seq(Seq(Msgs)) /\ Len(g) = L - k
          /\ \A i \in 1..(L - k) : g[i] = IF Target(outgoing[i])' = n
                                          THEN packet'[outgoing'[i]].msgs ELSE <<>>
          /\ Chan'[n] = FlattenSeq(g) /\ Chan'[n] \in Seq(Msgs)
        BY <1>4, HeldIsQueuedNext
    <2> HIDE DEF h, g
    <2>3. /\ c \in Seq(Seq(Msgs)) /\ Len(c) = k /\ \A i \in 1..k : c[i] = h[i]
          /\ d \in Seq(Seq(Msgs)) /\ Len(d) = L - k
          /\ \A i \in 1..(L - k) : d[i] = h[i + k]
          /\ h = c \o d
        <3>1. k \in 0..Len(h)
            BY <1>2, <2>1
        <3>2. Len(h) = L
            BY <2>1
        <3>3. /\ SubSeq(h, 1, k) \in Seq(Seq(Msgs)) /\ Len(SubSeq(h, 1, k)) = k
              /\ \A i \in 1..k : SubSeq(h, 1, k)[i] = h[i]
              /\ SubSeq(h, k + 1, Len(h)) \in Seq(Seq(Msgs))
              /\ Len(SubSeq(h, k + 1, Len(h))) = Len(h) - k
              /\ \A i \in 1..(Len(h) - k) : SubSeq(h, k + 1, Len(h))[i] = h[i + k]
              /\ h = SubSeq(h, 1, k) \o SubSeq(h, k + 1, Len(h))
            BY <2>1, <3>1, Parts
        <3> QED
            BY <3>2, <3>3, Zenon
    <2>4. g = d
        <3>1. ASSUME NEW i \in 1..(L - k)
              PROVE  g[i] = d[i]
            <4>1. i + k \in (k + 1)..L /\ i + k \in 1..L
                BY <1>2
            <4>2. outgoing'[i] = outgoing[i + k]
                BY <1>4
            <4>3. packet'[outgoing[i + k]] = packet[outgoing[i + k]]
                BY <1>5, <4>1
            <4>4. Target(outgoing[i])' = Target(outgoing[i + k])
                BY <4>2, <4>3 DEF Target
            <4>5. h[i + k] = IF Target(outgoing[i + k]) = n
                             THEN packet[outgoing[i + k]].msgs ELSE <<>>
                BY <2>1, <4>1
            <4> QED
                BY <2>2, <2>3, <4>2, <4>3, <4>4, <4>5
        <3> HIDE DEF d
        <3> QED
            BY <2>2, <2>3, <3>1, SeqEqual
    <2>5. ASSUME NEW i \in 1..k
          PROVE  w[i] = c[i] \/ w[i] = <<>>
        <3>1. i \in 1..L /\ h[i] = IF Target(outgoing[i]) = n
                                   THEN packet[outgoing[i]].msgs ELSE <<>>
            BY <1>2, <2>1
        <3>2. CASE i \in Accepted
            BY <1>6, <2>3, <3>1, <3>2 DEF Target
        <3>3. CASE i \notin Accepted
            <4>1. wire'[i].tgt # n
                BY <1>6, <3>3, NullAssumption DEF Freed, NewPacket
            <4> QED
                BY <4>1
        <3> QED
            BY <3>2, <3>3
    <2>6. w \in Seq(Seq(Msgs)) /\ Len(w) = k
        <3>1. \A i \in 1..k : w[i] \in Seq(Msgs)
            <4>1. \A i \in 1..k : c[i] \in Seq(Msgs)
                BY <2>3
            <4>2. <<>> \in Seq(Msgs)
                BY EmptySeq
            <4> HIDE DEF c, w
            <4> QED
                BY <2>5, <4>1, <4>2
        <3> QED
            BY <1>2, <3>1, IsASeq, LenProperties
    <2>7. Sent'[n] = FlattenSeq(w)
        <3>1. DOMAIN wire' = 1..k
            BY <1>6
        <3>2. Sent'[n] = Contents(wire', n)
            BY DEF Sent
        <3> QED
            BY <3>1, <3>2, Zenon DEF Contents
    <2> HIDE DEF c, d, w
    <2> DEFINE a == FlattenSeq(c)
               b == FlattenSeq(d)
               s == FlattenSeq(w)
    <2>8. a \in Seq(Msgs) /\ b \in Seq(Msgs) /\ s \in Seq(Msgs)
        BY <2>3, <2>6, FlattenType
    <2>9. Chan[n] = a \o b
        BY <2>1, <2>3, FlattenConcat
    <2>10. Abstract!Embeds(s, a, Len(a))
        BY <2>3, <2>5, <2>6, EmbedsFlatten
    <2> HIDE DEF a, b, s
    <2>11. Abstract!Embeds(s, a \o b, Len(a))
        BY <2>8, <2>10, EmbedsLonger
    <2>12. Len(a) \in 0..Len(a \o b) /\ b = SubSeq(a \o b, Len(a) + 1, Len(a \o b))
        BY <2>8, ConcatThenRest
    <2>13. Chan'[n] = b /\ Sent'[n] = s
        BY <2>2, <2>4, <2>7 DEF b, s
    <2> QED
        BY <2>1, <2>2, <2>8, <2>9, <2>11, <2>12, <2>13
<1>8. /\ Chan' = [n \in Nodes |-> Chan'[n]] /\ Sent' = [n \in Nodes |-> Sent'[n]]
    BY DEF Chan, Sent
<1>9. Chan' \in [Nodes -> Seq(Msgs)] /\ Sent' \in [Nodes -> Seq(Msgs)]
    BY <1>7, <1>8
<1>10. \A n \in Nodes : \E l \in 0..Len(Chan[n]) :
          /\ Chan'[n] = SubSeq(Chan[n], l + 1, Len(Chan[n]))
          /\ Abstract!Embeds(Sent'[n], Chan[n], l)
    BY <1>7
<1> QED
    BY <1>9, <1>10, Zenon DEF Chan, Sent, Abstract!Flush, Abstract!Leave

-----------------------------------------------------------------------------
LEMMA InitiallyRefines == Init => Abstract!Init
<1> SUFFICES ASSUME Init PROVE Abstract!Init
    OBVIOUS
<1>1. outgoing = <<>> /\ wire = <<>>
    BY DEF Init
<1>2. [i \in DOMAIN outgoing |-> packet[outgoing[i]]] = <<>>
    <2>1. DOMAIN outgoing = {}
        BY <1>1
    <2> QED
        BY <2>1
<1> QED
    BY <1>1, <1>2, NothingContained DEF Abstract!Init, Abstract!Nothing

LEMMA IdleRefines ==
    ASSUME wire' = <<>>, UNCHANGED <<outgoing, packet>>
    PROVE  Abstract!Idle
<1>1. Chan' = Chan
    BY DEF Chan
<1> QED
    BY <1>1, QuietStep

LEMMA StepRefines == IInv /\ IInv' /\ [Next]_vars => [Abstract!Next]_(Abstract!vars)
<1> SUFFICES ASSUME IInv, IInv', [Next]_vars
             PROVE  [Abstract!Next]_(Abstract!vars)
    OBVIOUS
<1>1. ASSUME NEW n \in Nodes, NEW m \in Msgs, SendDataToNetwork(n, m)
      PROVE  Abstract!Next
    <2>1. CASE FillPacket(n, m)
        BY <2>1, FillPuts DEF Abstract!Next
    <2>2. ASSUME NEW b \in Bufs, StartPacket(n, m, b)
          PROVE  Abstract!Next
        BY <2>2, StartPuts DEF Abstract!Next
    <2>3. CASE LoseMessage
        BY <2>3, IdleRefines DEF LoseMessage, Abstract!Next
    <2> QED
        BY <1>1, <2>1, <2>2, <2>3 DEF SendDataToNetwork
<1>2. CASE SendPendingPackets
    BY <1>2, SendFlushes DEF SendPendingPackets, Abstract!Next
<1>3. ASSUME NEW n \in Nodes, InsertNode(n) \/ EraseNode(n)
      PROVE  Abstract!Next
    BY <1>3, IdleRefines DEF InsertNode, EraseNode, Abstract!Next
<1>4. CASE UNCHANGED vars
    BY <1>4 DEF vars, Abstract!vars
<1> QED
    BY <1>1, <1>2, <1>3, <1>4 DEF Next

(***************************************************************************)
(* Whatever is batched into packets, whatever sendto refuses and whatever  *)
(* is discarded, messages for one node leave in the order in which they    *)
(* were sent, each at most once: the queue implements a channel for each   *)
(* node, for any nodes, messages, packet size and number of packets.       *)
(***************************************************************************)
THEOREM QueueIsAChannel == Spec => Implements
<1>1. Init => Abstract!Init
    BY InitiallyRefines
<1>2. IInv /\ IInv' /\ [Next]_vars => [Abstract!Next]_(Abstract!vars)
    BY StepRefines
<1> QED
    BY <1>1, <1>2, Inductive, PTL DEF Spec, Implements, Abstract!Spec
================================================================================
