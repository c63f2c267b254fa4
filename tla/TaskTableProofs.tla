--------------------------- MODULE TaskTableProofs ---------------------------
(***************************************************************************)
(* What the task table guarantees for any clients, names, identifiers and  *)
(* multicast groups.                                                       *)
(*                                                                         *)
(* As for the request pool, the inductive invariant is about the value of  *)
(* the pool, so that it can be stated of the values a handler goes through *)
(* on its way: removing, deleting, entering and renaming each take a good  *)
(* pool to a good pool.                                                    *)
(***************************************************************************)
EXTENDS TaskTable, FiniteSetTheorems, TLAPS

Pools == [table   : [Ids -> Tasks \cup {NoTask}],
          active  : SUBSET [name : Names, task : Tasks],
          info    : [Tasks -> TaskInfo \cup {NoInfo}],
          removed : Seq(Tasks),
          refs    : [Groups -> Nat]]

(***************************************************************************)
(* The two tables hold the same tasks, each where it says it is.           *)
(***************************************************************************)
Placed(p) ==
    \A t \in Connected(p) :
        /\ p.info[t] \in TaskInfo
        /\ \A i \in Ids : p.table[i] = t <=> i = p.info[t].id

Mapped(p) == p.active = {Entry(p.info[t].name, t) : t \in Connected(p)}

Owned(p) ==
    \A t, u \in Connected(p) :
        t # u /\ p.info[t].name = p.info[u].name =>
            /\ GroupOf[p.info[t].name] # NoGroup
            /\ p.info[t].port # p.info[u].port

(***************************************************************************)
(* The list of removed tasks holds the objects that are not connected.     *)
(***************************************************************************)
Waiting(p) ==
    /\ IsInjective(p.removed)
    /\ ToSet(p.removed) = Allocated(p) \ Connected(p)
    /\ Connected(p) \subseteq Allocated(p)

MembersOf(p, g) == {t \in Allocated(p) : p.info[t].group = g}

Counted(p) ==
    /\ \A g \in Groups : p.refs[g] = Cardinality(MembersOf(p, g))
    /\ \A t \in Connected(p) : GroupOf[p.info[t].name] \in {NoGroup, p.info[t].group}

GoodPool(p) ==
    p \in Pools /\ Placed(p) /\ Mapped(p) /\ Owned(p) /\ Waiting(p) /\ Counted(p)

(***************************************************************************)
(* A client that may not connect because its name is in use competes with  *)
(* a client that is alive: a dead one never keeps a name.                  *)
(***************************************************************************)
InUseIsTrue ==
    \A n \in Names : ack = Answer(n, "name_in_use") => TasksNamed(pool, n) \ dead # {}

IInv ==
    /\ GoodPool(pool)
    /\ dead \subseteq Allocated(pool)
    /\ ack \in [name : Names \cup {NoTask}, status : Statuses]
    /\ InUseIsTrue

-----------------------------------------------------------------------------
(* Numbers and lists of tasks. *)

(***************************************************************************)
(* A non-empty set of natural numbers has a least one.                     *)
(***************************************************************************)
LEMMA LeastNumber ==
    ASSUME NEW K \in SUBSET Nat, K # {}
    PROVE  \E x \in K : \A y \in K : x <= y
<1> DEFINE Below == {0..x : x \in K}
<1>1. \A x \in K : 0..x \in SUBSET Nat /\ IsFiniteSet(0..x)
    BY FS_Interval
<1>2. Below \subseteq FiniteSubsetsOf(Nat) /\ Below # {}
    BY <1>1 DEF FiniteSubsetsOf
<1> HIDE DEF Below
<1>3. PICK b \in Below : \A c \in Below : <<c, b>> \notin StrictSubsetOrdering(Nat)
    BY <1>2, FS_StrictSubsetOrderingWellFounded, WFMin
<1>4. PICK x \in K : b = 0..x
    BY DEF Below
<1>5. ASSUME NEW y \in K, y < x
      PROVE  FALSE
    <2>1. 0..y \subseteq 0..x /\ x \notin 0..y /\ x \in 0..x
        BY <1>5
    <2>2. <<0..y, 0..x>> \in StrictSubsetOrdering(Nat)
        BY <2>1 DEF StrictSubsetOrdering
    <2> QED
        BY <1>3, <1>4, <2>2 DEF Below
<1> QED
    BY <1>5

LEMMA SetListed ==
    ASSUME NEW S, IsFiniteSet(S)
    PROVE  SetToSeq(S) \in Seq(S) /\ ToSet(SetToSeq(S)) = S /\ IsInjective(SetToSeq(S))
<1> DEFINE n == Cardinality(S)
           f == SetToSeq(S)
<1>1. n \in Nat /\ \E h \in [1..n -> S] : IsInjective(h)
    BY FS_CardinalityType DEF ExistsBijection, Bijection, Injection, IsInjective
<1>2. f \in [1..n -> S] /\ IsInjective(f)
    BY <1>1 DEF SetToSeq
<1>3. f \in Injection(1..n, S)
    BY <1>2 DEF Injection, IsInjective
<1>4. IsFiniteSet(1..n) /\ Cardinality(1..n) = n
    BY <1>1, FS_Interval
<1>5. f \in Surjection(1..n, S)
    BY <1>3, <1>4, FS_Injection
<1> HIDE DEF f, n
<1>6. f \in Seq(S) /\ DOMAIN f = 1..n
    BY <1>1, <1>2
<1>7. ToSet(f) = S
    BY <1>2, <1>5, <1>6 DEF ToSet, Surjection
<1> QED
    BY <1>2, <1>6, <1>7 DEF f

LEMMA ListsJoined ==
    ASSUME NEW S, NEW s \in Seq(S), NEW u \in Seq(S), IsInjective(s), IsInjective(u),
           ToSet(s) \cap ToSet(u) = {}
    PROVE  s \o u \in Seq(S) /\ ToSet(s \o u) = ToSet(s) \cup ToSet(u) /\ IsInjective(s \o u)
<1> DEFINE w == s \o u
<1>1. /\ w \in Seq(S) /\ Len(s) \in Nat /\ Len(u) \in Nat
      /\ DOMAIN s = 1..Len(s) /\ DOMAIN u = 1..Len(u)
      /\ DOMAIN w = 1..(Len(s) + Len(u))
      /\ \A k \in 1..Len(s) : w[k] = s[k]
      /\ \A k \in 1..Len(u) : w[Len(s) + k] = u[k]
    OBVIOUS
<1> HIDE DEF w
<1>2. \A k \in DOMAIN w : \/ k \in DOMAIN s /\ w[k] = s[k]
                          \/ k - Len(s) \in DOMAIN u /\ w[k] = u[k - Len(s)]
    <2> SUFFICES ASSUME NEW k \in DOMAIN w
                 PROVE  \/ k \in DOMAIN s /\ w[k] = s[k]
                        \/ k - Len(s) \in DOMAIN u /\ w[k] = u[k - Len(s)]
        OBVIOUS
    <2>1. CASE k <= Len(s)
        BY <1>1, <2>1
    <2>2. CASE k > Len(s)
        <3>1. k - Len(s) \in 1..Len(u) /\ k = Len(s) + (k - Len(s))
            BY <1>1, <2>2
        <3> QED
            BY <1>1, <3>1
    <2> QED
        BY <1>1, <2>1, <2>2
<1>3. ToSet(w) = ToSet(s) \cup ToSet(u)
    <2>1. ToSet(w) \subseteq ToSet(s) \cup ToSet(u)
        BY <1>2 DEF ToSet
    <2>2. \A k \in DOMAIN s : k \in DOMAIN w /\ w[k] = s[k]
        BY <1>1
    <2>3. \A k \in DOMAIN u : Len(s) + k \in DOMAIN w /\ w[Len(s) + k] = u[k]
        BY <1>1
    <2>4. ToSet(s) \subseteq ToSet(w) /\ ToSet(u) \subseteq ToSet(w)
        BY <2>2, <2>3 DEF ToSet
    <2> QED
        BY <2>1, <2>4
<1>4. \A k \in DOMAIN s, l \in DOMAIN u : s[k] # u[l]
    BY DEF ToSet
<1>5. ASSUME NEW k \in DOMAIN w, NEW l \in DOMAIN w, w[k] = w[l]
      PROVE  k = l
    <2>1. k \in Int /\ l \in Int
        BY <1>1
    <2> QED
        BY <1>1, <1>2, <1>4, <1>5, <2>1 DEF IsInjective
<1> QED
    BY <1>1, <1>3, <1>5 DEF IsInjective, w

-----------------------------------------------------------------------------
(* The operations of the pool. *)

LEMMA PoolFields ==
    ASSUME NEW p \in Pools
    PROVE  /\ p.table \in [Ids -> Tasks \cup {NoTask}]
           /\ p.active \in SUBSET [name : Names, task : Tasks]
           /\ p.info \in [Tasks -> TaskInfo \cup {NoInfo}]
           /\ p.removed \in Seq(Tasks)
           /\ p.refs \in [Groups -> Nat]
           /\ Connected(p) \in SUBSET Tasks
           /\ Allocated(p) \in SUBSET Tasks
BY DEF Pools, Connected, Allocated

LEMMA InfoFields ==
    ASSUME NEW i \in TaskInfo
    PROVE  /\ i.name \in Names /\ i.port \in Ports /\ i.id \in Ids
           /\ i.group \in Groups \cup {NoGroup}
BY DEF TaskInfo

LEMMA EntryFields ==
    ASSUME NEW n, NEW t
    PROVE  Entry(n, t).name = n /\ Entry(n, t).task = t
BY DEF Entry

(***************************************************************************)
(* The entries of the map under a name are those of the connected tasks    *)
(* that have it.                                                           *)
(***************************************************************************)
LEMMA NamedTasks ==
    ASSUME NEW p, Mapped(p), NEW n
    PROVE  TasksNamed(p, n) = {t \in Connected(p) : p.info[t].name = n}
BY EntryFields DEF Mapped, TasksNamed

(***************************************************************************)
(* What removeOnlyThisTask takes from the map is the entry of the task it  *)
(* is called for: no other task has its name and its port.                 *)
(***************************************************************************)
LEMMA EntriesRemoved ==
    ASSUME NEW p, Mapped(p), Owned(p), NEW T \in SUBSET Connected(p)
    PROVE  {e \in p.active : ~\E t \in T : e.task \in GetTask(p, p.info[t].name, p.info[t].port)
                                            /\ e.name = p.info[t].name}
              = {Entry(p.info[u].name, u) : u \in Connected(p) \ T}
<1>1. ASSUME NEW u \in Connected(p)
      PROVE  (\E t \in T : u \in GetTask(p, p.info[t].name, p.info[t].port)
                             /\ p.info[u].name = p.info[t].name)
                <=> u \in T
    BY NamedTasks DEF GetTask, Owned
<1>2. ASSUME NEW e \in p.active
      PROVE  \E u \in Connected(p) : e.task = u /\ e.name = p.info[u].name
                                     /\ e = Entry(p.info[u].name, u)
    BY EntryFields DEF Mapped
<1> QED
    BY <1>1, <1>2, EntryFields DEF Mapped

LEMMA RemoveOnlyFields ==
    ASSUME NEW p, GoodPool(p), NEW T \in SUBSET Connected(p)
    PROVE  /\ RemoveOnly(p, T) \in Pools
           /\ RemoveOnly(p, T).table = [i \in Ids |-> IF p.table[i] \in T THEN NoTask ELSE p.table[i]]
           /\ RemoveOnly(p, T).active = {Entry(p.info[u].name, u) : u \in Connected(p) \ T}
           /\ RemoveOnly(p, T).info = p.info
           /\ RemoveOnly(p, T).removed = p.removed \o SetToSeq(T)
           /\ RemoveOnly(p, T).refs = p.refs
<1> DEFINE table == [i \in Ids |-> IF p.table[i] \in T THEN NoTask ELSE p.table[i]]
           active == {e \in p.active :
                        ~\E t \in T : e.task \in GetTask(p, p.info[t].name, p.info[t].port)
                                      /\ e.name = p.info[t].name}
           removed == p.removed \o SetToSeq(T)
<1>1. RemoveOnly(p, T) = [p EXCEPT !.table = table, !.active = active, !.removed = removed]
    BY DEF RemoveOnly
<1>2. p \in Pools /\ T \in SUBSET Tasks /\ IsFiniteSet(T)
    BY PoolFields, HeapAssumption, FS_Subset DEF GoodPool
<1>3. table \in [Ids -> Tasks \cup {NoTask}]
    BY <1>2, PoolFields
<1>4. active \in SUBSET [name : Names, task : Tasks]
    BY <1>2, PoolFields
<1>5. removed \in Seq(Tasks)
    BY <1>2, PoolFields, SetListed
<1>6. active = {Entry(p.info[u].name, u) : u \in Connected(p) \ T}
    BY EntriesRemoved DEF GoodPool
<1> HIDE DEF table, active, removed
<1> QED
    BY <1>1, <1>2, <1>3, <1>4, <1>5, <1>6 DEF Pools, table, removed

(***************************************************************************)
(* Removing connected tasks leaves a good pool, with their objects still   *)
(* there.                                                                  *)
(***************************************************************************)
LEMMA RemoveOnlyGood ==
    ASSUME NEW p, GoodPool(p), NEW T \in SUBSET Connected(p)
    PROVE  /\ GoodPool(RemoveOnly(p, T))
           /\ Connected(RemoveOnly(p, T)) = Connected(p) \ T
           /\ Allocated(RemoveOnly(p, T)) = Allocated(p)
           /\ RemoveOnly(p, T).info = p.info
<1> DEFINE q == RemoveOnly(p, T)
<1>1. /\ q \in Pools
      /\ q.table = [i \in Ids |-> IF p.table[i] \in T THEN NoTask ELSE p.table[i]]
      /\ q.active = {Entry(p.info[u].name, u) : u \in Connected(p) \ T}
      /\ q.info = p.info
      /\ q.removed = p.removed \o SetToSeq(T)
      /\ q.refs = p.refs
    BY RemoveOnlyFields
<1> HIDE DEF q
<1>2. /\ p \in Pools /\ Placed(p) /\ Owned(p) /\ Waiting(p) /\ Counted(p)
      /\ T \in SUBSET Tasks /\ IsFiniteSet(T)
    BY PoolFields, HeapAssumption, FS_Subset DEF GoodPool
<1>3. Connected(q) = Connected(p) \ T
    BY <1>1, <1>2, NullAssumption DEF Connected
<1>4. Allocated(q) = Allocated(p)
    BY <1>1 DEF Allocated
<1>5. Placed(q)
    <2>1. \A t \in Connected(p) \ T, i \in Ids : q.table[i] = t <=> p.table[i] = t
        BY <1>1, <1>2, NullAssumption DEF Connected
    <2> QED
        BY <1>1, <1>2, <1>3, <2>1 DEF Placed
<1>6. Mapped(q)
    BY <1>1, <1>3 DEF Mapped
<1>7. Owned(q)
    BY <1>1, <1>2, <1>3 DEF Owned
<1>8. Waiting(q)
    <2>1. SetToSeq(T) \in Seq(Tasks) /\ ToSet(SetToSeq(T)) = T /\ IsInjective(SetToSeq(T))
        BY <1>2, SetListed
    <2>2. p.removed \in Seq(Tasks) /\ IsInjective(p.removed)
          /\ ToSet(p.removed) = Allocated(p) \ Connected(p)
        BY <1>2, PoolFields DEF Waiting
    <2>3. IsInjective(q.removed) /\ ToSet(q.removed) = ToSet(p.removed) \cup T
        BY <1>1, <2>1, <2>2, ListsJoined
    <2> QED
        BY <1>2, <1>3, <1>4, <2>2, <2>3 DEF Waiting
<1>9. Counted(q)
    BY <1>1, <1>2, <1>3, <1>4 DEF Counted, MembersOf
<1> QED
    BY <1>1, <1>3, <1>4, <1>5, <1>6, <1>7, <1>8, <1>9 DEF GoodPool, q

(***************************************************************************)
(* Two disjoint finite sets have as many elements as both together.        *)
(***************************************************************************)
LEMMA CountParts ==
    ASSUME NEW A, IsFiniteSet(A), NEW B \in SUBSET A
    PROVE  /\ Cardinality(A) \in Nat /\ Cardinality(B) \in Nat /\ Cardinality(A \ B) \in Nat
           /\ Cardinality(A) = Cardinality(B) + Cardinality(A \ B)
<1>1. IsFiniteSet(B) /\ IsFiniteSet(A \ B)
    BY FS_Subset
<1>2. B \cup (A \ B) = A /\ B \cap (A \ B) = {}
    OBVIOUS
<1>3. Cardinality(A) = Cardinality(B) + Cardinality(A \ B) - Cardinality({})
    BY <1>1, <1>2, FS_Union
<1> QED
    BY <1>1, <1>3, FS_CardinalityType, FS_EmptySet

LEMMA MembersFinite ==
    ASSUME NEW p, NEW g
    PROVE  IsFiniteSet(MembersOf(p, g)) /\ Cardinality(MembersOf(p, g)) \in Nat
<1>1. MembersOf(p, g) \in SUBSET Tasks
    BY DEF MembersOf, Allocated
<1> QED
    BY <1>1, HeapAssumption, FS_Subset, FS_CardinalityType

LEMMA DeleteRemovedFields ==
    ASSUME NEW p, GoodPool(p)
    PROVE  /\ DeleteRemoved(p) \in Pools
           /\ DeleteRemoved(p).table = p.table
           /\ DeleteRemoved(p).active = p.active
           /\ \A t \in Tasks : DeleteRemoved(p).info[t] =
                 IF t \in Allocated(p) \ Connected(p) THEN NoInfo ELSE p.info[t]
           /\ DeleteRemoved(p).removed = <<>>
           /\ \A g \in Groups : DeleteRemoved(p).refs[g] =
                 Cardinality({t \in MembersOf(p, g) : t \in Connected(p)})
<1> DEFINE T == ToSet(p.removed)
           G == [t \in T |-> p.info[t].group]
           info == [t \in Tasks |-> IF t \in T THEN NoInfo ELSE p.info[t]]
           refs == Dropped(p.refs, G)
<1>1. DeleteRemoved(p) = [p EXCEPT !.info = info, !.refs = refs, !.removed = <<>>]
    BY DEF DeleteRemoved
<1>2. /\ p \in Pools /\ T = Allocated(p) \ Connected(p)
      /\ Connected(p) \subseteq Allocated(p)
    BY DEF GoodPool, Waiting
<1>3. info \in [Tasks -> TaskInfo \cup {NoInfo}]
    BY <1>2, PoolFields
<1>4. ASSUME NEW g \in Groups
      PROVE  /\ refs[g] = Cardinality({t \in MembersOf(p, g) : t \in Connected(p)})
             /\ refs[g] \in Nat
    <2> DEFINE A == MembersOf(p, g)
               B == {t \in DOMAIN G : G[t] = g}
               n == Cardinality(B)
    <2>1. B \in SUBSET A /\ A \ B = {t \in A : t \in Connected(p)}
        BY <1>2 DEF MembersOf
    <2>2. IsFiniteSet(A) /\ p.refs[g] = Cardinality(A)
        BY MembersFinite DEF GoodPool, Counted
    <2>3. refs[g] = IF n < p.refs[g] THEN p.refs[g] - n ELSE 0
        BY DEF Dropped
    <2> HIDE DEF A, B, refs
    <2>4. /\ n \in Nat /\ Cardinality(A) \in Nat /\ Cardinality(A \ B) \in Nat
          /\ Cardinality(A) = n + Cardinality(A \ B)
        BY <2>1, <2>2, CountParts
    <2>5. refs[g] = Cardinality(A \ B)
        BY <2>2, <2>3, <2>4
    <2> QED
        BY <2>1, <2>4, <2>5 DEF A
<1>5. refs \in [Groups -> Nat]
    <2>1. refs = [g \in Groups |-> refs[g]]
        BY DEF Dropped
    <2> QED
        BY <1>4, <2>1
<1>6. <<>> \in Seq(Tasks)
    OBVIOUS
<1> HIDE DEF info, refs
<1>7. /\ DeleteRemoved(p) \in Pools
      /\ DeleteRemoved(p).table = p.table
      /\ DeleteRemoved(p).active = p.active
      /\ DeleteRemoved(p).info = info
      /\ DeleteRemoved(p).removed = <<>>
      /\ DeleteRemoved(p).refs = refs
    BY <1>1, <1>2, <1>3, <1>5, <1>6 DEF Pools
<1> QED
    BY <1>2, <1>4, <1>7 DEF info

(***************************************************************************)
(* Deleting the removed tasks leaves the objects that are connected, and   *)
(* the groups that these are members of.                                   *)
(***************************************************************************)
LEMMA DeleteRemovedGood ==
    ASSUME NEW p, GoodPool(p)
    PROVE  /\ GoodPool(DeleteRemoved(p))
           /\ Connected(DeleteRemoved(p)) = Connected(p)
           /\ Allocated(DeleteRemoved(p)) = Connected(p)
           /\ \A t \in Connected(p) : DeleteRemoved(p).info[t] = p.info[t]
<1> DEFINE q == DeleteRemoved(p)
<1>1. /\ q \in Pools /\ q.table = p.table /\ q.active = p.active /\ q.removed = <<>>
      /\ \A t \in Tasks : q.info[t] =
            IF t \in Allocated(p) \ Connected(p) THEN NoInfo ELSE p.info[t]
      /\ \A g \in Groups : q.refs[g] = Cardinality({t \in MembersOf(p, g) : t \in Connected(p)})
    BY DeleteRemovedFields
<1> HIDE DEF q
<1>2. /\ p \in Pools /\ Placed(p) /\ Mapped(p) /\ Owned(p) /\ Waiting(p) /\ Counted(p)
      /\ Connected(p) \in SUBSET Tasks
    BY PoolFields DEF GoodPool
<1>3. Connected(q) = Connected(p)
    BY <1>1 DEF Connected
<1>4. \A t \in Connected(p) : q.info[t] = p.info[t]
    BY <1>1, <1>2
<1>5. Allocated(q) = Connected(p)
    BY <1>1, <1>2 DEF Allocated, Waiting
<1>6. Placed(q)
    BY <1>1, <1>2, <1>3, <1>4 DEF Placed
<1>7. Mapped(q)
    BY <1>1, <1>2, <1>3, <1>4 DEF Mapped
<1>8. Owned(q)
    BY <1>2, <1>3, <1>4 DEF Owned
<1>9. Waiting(q)
    BY <1>1, <1>3, <1>5 DEF Waiting, IsInjective, ToSet
<1>10. Counted(q)
    <2>1. \A g : MembersOf(q, g) = {t \in MembersOf(p, g) : t \in Connected(p)}
        BY <1>2, <1>4, <1>5 DEF MembersOf, Waiting
    <2> QED
        BY <1>1, <1>2, <1>3, <1>4, <2>1 DEF Counted
<1> QED
    BY <1>1, <1>3, <1>4, <1>5, <1>6, <1>7, <1>8, <1>9, <1>10 DEF GoodPool, q

LEMMA RemovedConnected ==
    ASSUME NEW p, NEW t \in Connected(p)
    PROVE  t \in RemovedWith(p, t) /\ RemovedWith(p, t) \in SUBSET Connected(p)
BY DEF RemovedWith

LEMMA RemoveInactiveGood ==
    ASSUME NEW p, GoodPool(p)
    PROVE  /\ GoodPool(RemoveInactive(p))
           /\ Connected(RemoveInactive(p)) =
                 Connected(p) \ UNION {RemovedWith(p, t) : t \in Connected(p) \cap dead}
           /\ Allocated(RemoveInactive(p)) = Connected(RemoveInactive(p))
           /\ Connected(RemoveInactive(p)) \cap dead = {}
<1> DEFINE T == UNION {RemovedWith(p, t) : t \in Connected(p) \cap dead}
           q == RemoveOnly(p, T)
<1>1. T \in SUBSET Connected(p) /\ Connected(p) \cap dead \subseteq T
    BY RemovedConnected
<1>2. RemoveInactive(p) = DeleteRemoved(q)
    BY DEF RemoveInactive
<1> HIDE DEF T
<1>3. GoodPool(q) /\ Connected(q) = Connected(p) \ T
    BY <1>1, RemoveOnlyGood
<1> HIDE DEF q
<1>4. /\ GoodPool(DeleteRemoved(q)) /\ Connected(DeleteRemoved(q)) = Connected(q)
      /\ Allocated(DeleteRemoved(q)) = Connected(q)
    BY <1>3, DeleteRemovedGood
<1> QED
    BY <1>1, <1>2, <1>3, <1>4 DEF T

LEMMA RemoveTaskGood ==
    ASSUME NEW p, GoodPool(p), NEW t \in Connected(p)
    PROVE  /\ GoodPool(RemoveTask(p, t))
           /\ Connected(RemoveTask(p, t)) = Connected(p) \ RemovedWith(p, t)
           /\ Allocated(RemoveTask(p, t)) = Allocated(p)
BY RemovedConnected, RemoveOnlyGood DEF RemoveTask

LEMMA EnterFields ==
    ASSUME NEW p \in Pools, NEW t \in Tasks, NEW i \in TaskInfo
    PROVE  /\ Enter(p, t, i) \in Pools
           /\ Enter(p, t, i).table = [p.table EXCEPT ![i.id] = t]
           /\ Enter(p, t, i).active = p.active \cup {Entry(i.name, t)}
           /\ Enter(p, t, i).info = [p.info EXCEPT ![t] = i]
           /\ Enter(p, t, i).removed = p.removed
           /\ Enter(p, t, i).refs = [g \in Groups |-> IF g = i.group THEN p.refs[g] + 1 ELSE p.refs[g]]
<1> DEFINE table == [p.table EXCEPT ![i.id] = t]
           active == p.active \cup {Entry(i.name, t)}
           info == [p.info EXCEPT ![t] = i]
           refs == [g \in Groups |-> IF g = i.group THEN p.refs[g] + 1 ELSE p.refs[g]]
<1>1. Enter(p, t, i) = [p EXCEPT !.table = table, !.active = active, !.info = info, !.refs = refs]
    BY DEF Enter, Pools
<1>2. table \in [Ids -> Tasks \cup {NoTask}]
    BY PoolFields
<1>3. active \in SUBSET [name : Names, task : Tasks]
    BY PoolFields, InfoFields DEF Entry
<1>4. info \in [Tasks -> TaskInfo \cup {NoInfo}]
    BY PoolFields
<1>5. refs \in [Groups -> Nat]
    BY PoolFields
<1> HIDE DEF table, active, info, refs
<1> QED
    BY <1>1, <1>2, <1>3, <1>4, <1>5 DEF Pools, table, active, info, refs

(***************************************************************************)
(* A new object enters the tables under a free identifier, and a name and  *)
(* port that are not in use, as a member of the group of that name.        *)
(***************************************************************************)
LEMMA EnterGood ==
    ASSUME NEW p, GoodPool(p), NEW t \in Tasks \ Allocated(p), NEW i \in TaskInfo,
           p.table[i.id] = NoTask, i.group = GroupOf[i.name],
           GetTask(p, i.name, i.port) = {}, ~Taken(p, i.name)
    PROVE  /\ GoodPool(Enter(p, t, i))
           /\ Connected(Enter(p, t, i)) = Connected(p) \cup {t}
           /\ Allocated(Enter(p, t, i)) = Allocated(p) \cup {t}
           /\ Enter(p, t, i).info[t] = i
           /\ \A u \in Connected(p) : Enter(p, t, i).info[u] = p.info[u]
<1> DEFINE q == Enter(p, t, i)
<1>1. /\ q \in Pools /\ q.table = [p.table EXCEPT ![i.id] = t]
      /\ q.active = p.active \cup {Entry(i.name, t)}
      /\ q.info = [p.info EXCEPT ![t] = i]
      /\ q.removed = p.removed
      /\ q.refs = [g \in Groups |-> IF g = i.group THEN p.refs[g] + 1 ELSE p.refs[g]]
    BY EnterFields DEF GoodPool
<1> HIDE DEF q
<1>2. /\ p \in Pools /\ Placed(p) /\ Mapped(p) /\ Owned(p) /\ Waiting(p) /\ Counted(p)
      /\ Connected(p) \in SUBSET Tasks /\ Connected(p) \subseteq Allocated(p)
    BY PoolFields DEF GoodPool, Waiting
<1>3. /\ i.name \in Names /\ i.id \in Ids /\ i # NoInfo /\ t # NoTask
      /\ p.table \in [Ids -> Tasks \cup {NoTask}] /\ p.info \in [Tasks -> TaskInfo \cup {NoInfo}]
    BY <1>2, InfoFields, PoolFields, NullAssumption, NoInfoAssumption
<1>4. /\ q.table[i.id] = t /\ \A j \in Ids : j # i.id => q.table[j] = p.table[j]
      /\ q.info[t] = i /\ \A u \in Tasks : u # t => q.info[u] = p.info[u]
    BY <1>1, <1>3
<1>5. Connected(q) = Connected(p) \cup {t}
    BY <1>3, <1>4, NullAssumption DEF Connected
<1>6. Allocated(q) = Allocated(p) \cup {t}
    BY <1>3, <1>4 DEF Allocated
<1>7. Placed(q)
    <2>1. t \notin Connected(p) /\ \A j \in Ids : p.table[j] # t
        BY <1>2, <1>3 DEF Connected
    <2>2. \A j \in Ids : q.table[j] = t <=> j = q.info[t].id
        BY <1>4, <2>1
    <2>3. \A u \in Connected(p), j \in Ids : q.table[j] = u <=> j = q.info[u].id
        BY <1>2, <1>3, <1>4, <2>1, NullAssumption DEF Placed
    <2>4. \A u \in Connected(q) : q.info[u] \in TaskInfo
        BY <1>2, <1>4, <1>5 DEF Placed
    <2> QED
        BY <1>5, <2>2, <2>3, <2>4 DEF Placed
<1>8. Mapped(q)
    <2>1. \A u \in Connected(p) : Entry(q.info[u].name, u) = Entry(p.info[u].name, u)
        BY <1>2, <1>4
    <2>2. Entry(q.info[t].name, t) = Entry(i.name, t)
        BY <1>4
    <2> QED
        BY <1>1, <1>2, <1>5, <2>1, <2>2 DEF Mapped
<1>9. Owned(q)
    <2>1. \A u \in Connected(p) : p.info[u].name = i.name =>
              GroupOf[i.name] # NoGroup /\ p.info[u].port # i.port
        BY <1>2, NamedTasks DEF GetTask, Taken
    <2>2. \A u \in Connected(p) : q.info[u] = p.info[u] /\ u # t
        BY <1>2, <1>4
    <2> QED
        BY <1>2, <1>4, <1>5, <2>1, <2>2 DEF Owned
<1>10. Waiting(q)
    BY <1>1, <1>2, <1>5, <1>6 DEF Waiting
<1>11. Counted(q)
    <2>1. ASSUME NEW g \in Groups
          PROVE  q.refs[g] = Cardinality(MembersOf(q, g))
        <3> DEFINE A == MembersOf(p, g)
        <3>1. IsFiniteSet(A) /\ Cardinality(A) \in Nat /\ t \notin A
              /\ p.refs[g] = Cardinality(A)
            <4>1. p.refs[g] = Cardinality(A)
                BY <1>2 DEF Counted
            <4>2. t \notin A
                BY DEF MembersOf
            <4> QED
                BY <4>1, <4>2, MembersFinite
        <3>2. MembersOf(q, g) = IF g = i.group THEN A \cup {t} ELSE A
            BY <1>2, <1>4, <1>6 DEF MembersOf, Allocated
        <3>3. q.refs[g] = IF g = i.group THEN Cardinality(A) + 1 ELSE Cardinality(A)
            BY <1>1, <3>1
        <3> HIDE DEF A
        <3>4. Cardinality(A \cup {t}) = Cardinality(A) + 1
            BY <3>1, FS_AddElement
        <3>5. CASE g = i.group
            <4>1. MembersOf(q, g) = A \cup {t}
                BY <3>2, <3>5
            <4> QED
                BY <3>3, <3>4, <3>5, <4>1
        <3>6. CASE g # i.group
            <4>1. MembersOf(q, g) = A
                BY <3>2, <3>6
            <4> QED
                BY <3>3, <3>6, <4>1
        <3> QED
            BY <3>5, <3>6
    <2>2. \A u \in Connected(q) : GroupOf[q.info[u].name] \in {NoGroup, q.info[u].group}
        BY <1>2, <1>4, <1>5 DEF Counted
    <2> QED
        BY <2>1, <2>2 DEF Counted
<1>12. \A u \in Connected(p) : q.info[u] = p.info[u]
    BY <1>2, <1>4
<1> QED
    BY <1>1, <1>4, <1>5, <1>6, <1>7, <1>8, <1>9, <1>10, <1>11, <1>12 DEF GoodPool, q

LEMMA RenamedFields ==
    ASSUME NEW p \in Pools, NEW t \in Allocated(p), NEW n \in Names
    PROVE  /\ Renamed(p, t, n) \in Pools
           /\ Renamed(p, t, n).table = p.table
           /\ Renamed(p, t, n).active = (p.active \ {Entry(p.info[t].name, t)}) \cup {Entry(n, t)}
           /\ Renamed(p, t, n).info = [p.info EXCEPT ![t].name = n]
           /\ Renamed(p, t, n).removed = p.removed
           /\ Renamed(p, t, n).refs = p.refs
<1> DEFINE active == (p.active \ {Entry(p.info[t].name, t)}) \cup {Entry(n, t)}
           info == [p.info EXCEPT ![t].name = n]
<1>1. Renamed(p, t, n) = [p EXCEPT !.active = active, !.info = info]
    BY DEF Renamed, Pools
<1>2. active \in SUBSET [name : Names, task : Tasks]
    BY PoolFields DEF Entry
<1>3. info \in [Tasks -> TaskInfo \cup {NoInfo}]
    <2>1. t \in Tasks /\ p.info[t] \in TaskInfo
        BY PoolFields DEF Allocated
    <2> QED
        BY <2>1, PoolFields DEF TaskInfo
<1> HIDE DEF active, info
<1> QED
    BY <1>1, <1>2, <1>3 DEF Pools, active, info

(***************************************************************************)
(* A connected task takes a name that no task has and that is no group's.  *)
(***************************************************************************)
LEMMA RenamedGood ==
    ASSUME NEW p, GoodPool(p), NEW t \in Connected(p), NEW n \in Names,
           TasksNamed(p, n) = {}, GroupOf[n] = NoGroup
    PROVE  /\ GoodPool(Renamed(p, t, n))
           /\ Connected(Renamed(p, t, n)) = Connected(p)
           /\ Allocated(Renamed(p, t, n)) = Allocated(p)
           /\ \A u \in Connected(p) : Renamed(p, t, n).info[u].port = p.info[u].port
<1> DEFINE q == Renamed(p, t, n)
<1>1. /\ p \in Pools /\ Placed(p) /\ Mapped(p) /\ Owned(p) /\ Waiting(p) /\ Counted(p)
      /\ Connected(p) \in SUBSET Tasks /\ Connected(p) \subseteq Allocated(p) /\ t \in Allocated(p)
    BY PoolFields DEF GoodPool, Waiting
<1>2. /\ q \in Pools /\ q.table = p.table
      /\ q.active = (p.active \ {Entry(p.info[t].name, t)}) \cup {Entry(n, t)}
      /\ q.info = [p.info EXCEPT ![t].name = n]
      /\ q.removed = p.removed /\ q.refs = p.refs
    BY <1>1, RenamedFields
<1> HIDE DEF q
<1>3. /\ \A u \in Tasks : u # t => q.info[u] = p.info[u]
      /\ q.info[t] \in TaskInfo /\ q.info[t].name = n
      /\ q.info[t].port = p.info[t].port /\ q.info[t].id = p.info[t].id
      /\ q.info[t].group = p.info[t].group
    BY <1>1, <1>2, PoolFields DEF Placed, TaskInfo
<1>4. Connected(q) = Connected(p)
    BY <1>2 DEF Connected
<1>5. Allocated(q) = Allocated(p)
    BY <1>1, <1>3, NoInfoAssumption DEF Allocated
<1>6. Placed(q)
    BY <1>1, <1>2, <1>3, <1>4 DEF Placed
<1>7. Mapped(q)
    <2>1. \A e \in p.active : e = Entry(e.name, e.task) /\ e.task \in Connected(p)
                              /\ e.name = p.info[e.task].name
        BY <1>1, EntryFields DEF Mapped
    <2>2. p.active \ {Entry(p.info[t].name, t)} = {Entry(q.info[u].name, u) : u \in Connected(p) \ {t}}
        BY <1>1, <1>3, <2>1, EntryFields DEF Mapped
    <2> QED
        BY <1>2, <1>3, <1>4, <2>2 DEF Mapped
<1>8. Owned(q)
    <2>1. \A u \in Connected(p) : p.info[u].name # n
        BY <1>1, NamedTasks
    <2> QED
        BY <1>1, <1>3, <1>4, <2>1 DEF Owned
<1>9. Waiting(q)
    BY <1>1, <1>2, <1>4, <1>5 DEF Waiting
<1>10. Counted(q)
    <2>1. \A g : MembersOf(q, g) = MembersOf(p, g)
        BY <1>1, <1>3, <1>5 DEF MembersOf, Allocated
    <2> QED
        BY <1>1, <1>2, <1>3, <1>4, <2>1 DEF Counted
<1> QED
    BY <1>1, <1>2, <1>3, <1>4, <1>5, <1>6, <1>7, <1>8, <1>9, <1>10 DEF GoodPool, q

-----------------------------------------------------------------------------
(* The steps. *)

(***************************************************************************)
(* Task `u' is `t' or one of its process.                                  *)
(***************************************************************************)
Related(t, u) == u = t \/ (ProcessOf(pool, t) # NoPid /\ ProcessOf(pool, u) = ProcessOf(pool, t))

Cause(t) == \E u \in Connected(pool) : Related(t, u) /\ (u \in dead \/ Disconnects(u))

(***************************************************************************)
(* What every step does to the pool: it is good, objects that are gone     *)
(* are nobody's, and the tasks that left had a cause.                      *)
(***************************************************************************)
SoundStep ==
    /\ GoodPool(pool')
    /\ dead' \subseteq Allocated(pool')
    /\ \A t \in Connected(pool) \ Connected(pool') : Cause(t)

(***************************************************************************)
(* The tasks that go with `u' are related to it, wherever the handler      *)
(* stands when it removes them.                                            *)
(***************************************************************************)
LEMMA RemovedRelated ==
    ASSUME NEW p, Connected(p) \subseteq Connected(pool),
           \A t \in Connected(p) : p.info[t].port = pool.info[t].port,
           NEW u \in Connected(p), NEW t \in RemovedWith(p, u)
    PROVE  Related(t, u)
BY DEF RemovedWith, Related, ProcessOf

LEMMA ConcludeSound ==
    ASSUME IInv, NEW p, GoodPool(p), Allocated(p) = Allocated(pool),
           Connected(p) \subseteq Connected(pool),
           \A v \in Connected(p) : p.info[v].port = pool.info[v].port,
           \A v \in Connected(pool) \ Connected(p) : Cause(v),
           NEW t \in Connected(p), Conclude(p, t), UNCHANGED dead
    PROVE  SoundStep
<1>1. CASE pool' = p
    BY <1>1 DEF SoundStep, IInv
<1>2. CASE t \in dead /\ pool' = RemoveTask(p, t)
    <2>1. /\ GoodPool(pool') /\ Allocated(pool') = Allocated(pool)
          /\ Connected(pool') = Connected(p) \ RemovedWith(p, t)
        BY <1>2, RemoveTaskGood
    <2>2. \A v \in RemovedWith(p, t) : Cause(v)
        BY <1>2, RemovedRelated DEF Cause
    <2> QED
        BY <2>1, <2>2 DEF SoundStep, IInv
<1> QED
    BY <1>1, <1>2 DEF Conclude

(***************************************************************************)
(* Removing tasks that are related to one that is dead or disconnects.     *)
(***************************************************************************)
LEMMA RemovalSound ==
    ASSUME IInv, NEW T \in SUBSET Connected(pool), pool' = RemoveOnly(pool, T),
           UNCHANGED dead, \A t \in T : Cause(t)
    PROVE  SoundStep
<1>1. /\ GoodPool(pool') /\ Connected(pool') = Connected(pool) \ T
      /\ Allocated(pool') = Allocated(pool)
    BY RemoveOnlyGood DEF IInv
<1> QED
    BY <1>1 DEF SoundStep, IInv

LEMMA TaskRemovalSound ==
    ASSUME IInv, NEW t \in Connected(pool), pool' = RemoveTask(pool, t),
           UNCHANGED dead, t \in dead \/ Disconnects(t)
    PROVE  SoundStep
<1>1. RemovedWith(pool, t) \in SUBSET Connected(pool)
    BY RemovedConnected
<1>2. \A v \in RemovedWith(pool, t) : Related(v, t)
    BY RemovedRelated
<1> QED
    BY <1>1, <1>2, RemovalSound DEF RemoveTask, Cause

(***************************************************************************)
(* removeInactiveTasks, alone or at the head of a connect.                 *)
(***************************************************************************)
LEMMA InactiveCaused ==
    ASSUME IInv
    PROVE  /\ GoodPool(RemoveInactive(pool))
           /\ Allocated(RemoveInactive(pool)) = Connected(RemoveInactive(pool))
           /\ Connected(RemoveInactive(pool)) \cap dead = {}
           /\ \A t \in Connected(pool) \ Connected(RemoveInactive(pool)) : Cause(t)
<1>1. /\ GoodPool(RemoveInactive(pool))
      /\ Connected(RemoveInactive(pool)) =
            Connected(pool) \ UNION {RemovedWith(pool, t) : t \in Connected(pool) \cap dead}
      /\ Allocated(RemoveInactive(pool)) = Connected(RemoveInactive(pool))
      /\ Connected(RemoveInactive(pool)) \cap dead = {}
    BY RemoveInactiveGood DEF IInv
<1>2. ASSUME NEW u \in Connected(pool) \cap dead, NEW t \in RemovedWith(pool, u)
      PROVE  Cause(t)
    <2>1. Related(t, u)
        BY RemovedRelated
    <2> QED
        BY <2>1 DEF Cause
<1> QED
    BY <1>1, <1>2

LEMMA LeastFree ==
    ASSUME NEW p, NEW From \in {ShortIds, ExtIds}, FreeIds(p, From) # {}
    PROVE  FirstId(p, From) \in Ids /\ p.table[FirstId(p, From)] = NoTask
<1>1. FreeIds(p, From) \in SUBSET Ids /\ FreeIds(p, From) \in SUBSET Nat
    BY IdsAssumption DEF FreeIds, Ids
<1>2. \E i \in FreeIds(p, From) : \A j \in FreeIds(p, From) : i <= j
    BY <1>1, LeastNumber
<1>3. FirstId(p, From) \in FreeIds(p, From)
    BY <1>2 DEF FirstId
<1> QED
    BY <1>1, <1>3 DEF FreeIds

LEMMA ConnectSound ==
    ASSUME IInv, NEW n \in Names, NEW port \in Ports, NEW From \in {ShortIds, ExtIds},
           HandleConnect(n, port, From)
    PROVE  /\ SoundStep
           /\ ack' \in [name : Names \cup {NoTask}, status : Statuses]
           /\ \A m \in Names : ack' = Answer(m, "name_in_use") =>
                  TasksNamed(pool', m) \ dead' # {}
<1> DEFINE p == RemoveInactive(pool)
<1>1. /\ GoodPool(p) /\ Allocated(p) = Connected(p) /\ Connected(p) \cap dead = {}
      /\ \A t \in Connected(pool) \ Connected(p) : Cause(t)
    BY InactiveCaused
<1> HIDE DEF p
<1>2. dead' = dead \cap Allocated(p)
    BY DEF HandleConnect, p
<1>3. CASE /\ pool' = p
           /\ \/ ack' = Answer(n, "success")
              \/ ack' = Answer(n, "nlm")
              \/ ack' = Answer(n, "name_in_use") /\ Taken(p, n)
    <2>1. SoundStep
        BY <1>1, <1>2, <1>3 DEF SoundStep
    <2>2. ack' \in [name : Names \cup {NoTask}, status : Statuses]
        BY <1>3 DEF Answer, Statuses
    <2>3. ASSUME NEW m \in Names, ack' = Answer(m, "name_in_use")
          PROVE  TasksNamed(pool', m) \ dead' # {}
        <3>1. m = n /\ Taken(p, n)
            BY <1>3, <2>3 DEF Answer
        <3>2. TasksNamed(p, n) # {} /\ TasksNamed(p, n) \subseteq Connected(p)
            BY <1>1, <3>1, NamedTasks DEF Taken, GoodPool
        <3> QED
            BY <1>1, <1>2, <1>3, <3>1, <3>2
    <2> QED
        BY <2>1, <2>2, <2>3
<1>4. ASSUME NEW t \in Tasks \ Allocated(p), FreeIds(p, From) # {},
             GetTask(p, n, port) = {}, ~Taken(p, n),
             pool' = Enter(p, t, [name |-> n, port |-> port, id |-> FirstId(p, From),
                                  group |-> GroupOf[n]]),
             ack' = Answer(n, "success")
      PROVE  /\ SoundStep
             /\ ack' \in [name : Names \cup {NoTask}, status : Statuses]
             /\ \A m \in Names : ack' # Answer(m, "name_in_use")
    <2> DEFINE i == [name |-> n, port |-> port, id |-> FirstId(p, From), group |-> GroupOf[n]]
    <2>1. i \in TaskInfo /\ p.table[i.id] = NoTask
        BY <1>4, LeastFree, NamesAssumption DEF TaskInfo
    <2>2. i.group = GroupOf[i.name] /\ i.name = n /\ i.port = port
        OBVIOUS
    <2>3. /\ pool' = Enter(p, t, i)
          /\ GetTask(p, i.name, i.port) = {} /\ ~Taken(p, i.name)
        BY <1>4
    <2> HIDE DEF i
    <2>4. /\ GoodPool(pool') /\ Connected(pool') = Connected(p) \cup {t}
          /\ Allocated(pool') = Allocated(p) \cup {t}
        <3>1. /\ GoodPool(Enter(p, t, i))
              /\ Connected(Enter(p, t, i)) = Connected(p) \cup {t}
              /\ Allocated(Enter(p, t, i)) = Allocated(p) \cup {t}
            BY <1>1, <2>1, <2>2, <2>3, EnterGood
        <3> QED
            BY <2>3, <3>1
    <2>5. SoundStep
        BY <1>1, <1>2, <2>4 DEF SoundStep
    <2> QED
        BY <1>4, <2>5 DEF Answer, Statuses
<1> QED
    BY <1>3, <1>4 DEF HandleConnect, p

LEMMA RenameSound ==
    ASSUME IInv, NEW t \in Tasks, NEW n \in Names, HandleRenameTask(t, n)
    PROVE  SoundStep
<1> DEFINE T == UNION {RemovedWith(pool, u) : u \in TasksNamed(pool, n)}
           p == RemoveOnly(pool, T)
<1>1. t \in Connected(pool) /\ UNCHANGED dead
    BY DEF HandleRenameTask, Commands
<1>2. CASE Conclude(pool, t)
    BY <1>1, <1>2, ConcludeSound DEF IInv
<1>3. CASE /\ ~InUse(n)
           /\ \/ t \in Connected(p) /\ Conclude(Renamed(p, t, n), t)
              \/ pool' = p
    <2>1. TasksNamed(pool, n) = {u \in Connected(pool) : pool.info[u].name = n}
        BY NamedTasks DEF IInv, GoodPool
    <2>2. GroupOf[n] = NoGroup /\ TasksNamed(pool, n) \subseteq dead \cap Connected(pool)
        BY <1>3, <2>1 DEF InUse
    <2>3. T \in SUBSET Connected(pool) /\ TasksNamed(pool, n) \subseteq T
        BY <2>2, RemovedConnected
    <2>4. ASSUME NEW u \in TasksNamed(pool, n), NEW v \in RemovedWith(pool, u)
          PROVE  Cause(v)
        <3>1. Related(v, u)
            BY <2>2, RemovedRelated
        <3> QED
            BY <2>2, <3>1 DEF Cause
    <2>5. \A v \in T : Cause(v)
        BY <2>4
    <2> HIDE DEF T
    <2>6. /\ GoodPool(p) /\ Connected(p) = Connected(pool) \ T
          /\ Allocated(p) = Allocated(pool) /\ p.info = pool.info
        BY <2>3, RemoveOnlyGood DEF IInv
    <2>7. CASE pool' = p
        BY <1>1, <2>3, <2>5, <2>7, RemovalSound
    <2>8. CASE t \in Connected(p) /\ Conclude(Renamed(p, t, n), t)
        <3> HIDE DEF p
        <3>1. TasksNamed(p, n) = {}
            BY <2>1, <2>3, <2>6, NamedTasks DEF GoodPool
        <3> DEFINE q == Renamed(p, t, n)
        <3>2. /\ GoodPool(q) /\ Connected(q) = Connected(p) /\ Allocated(q) = Allocated(p)
              /\ \A u \in Connected(p) : q.info[u].port = p.info[u].port
            BY <2>2, <2>6, <2>8, <3>1, RenamedGood
        <3>3. Conclude(q, t) /\ t \in Connected(q)
            BY <2>8, <3>2
        <3> HIDE DEF q
        <3> QED
            BY <1>1, <2>5, <2>6, <3>2, <3>3, ConcludeSound
    <2> QED
        BY <1>3, <2>7, <2>8
<1> QED
    BY <1>2, <1>3 DEF HandleRenameTask

LEMMA DeadStepSound ==
    ASSUME IInv, UNCHANGED pool, dead' \subseteq dead \cup Connected(pool)
    PROVE  SoundStep
BY DEF SoundStep, IInv, GoodPool, Waiting

LEMMA OtherSound ==
    ASSUME IInv, Next,
           ~\E n \in Names, port \in Ports, From \in {ShortIds, ExtIds} : HandleConnect(n, port, From)
    PROVE  SoundStep /\ ack' = NoAnswer
<1>1. CASE \E t \in Tasks : HandleDisconnect(t)
    <2>1. PICK t \in Tasks : HandleDisconnect(t)
        BY <1>1
    <2> QED
        BY <2>1, TaskRemovalSound DEF HandleDisconnect, Commands, Disconnects
<1>2. CASE \E t \in Tasks : HandleDisconnectSingle(t)
    <2>1. PICK t \in Tasks : HandleDisconnectSingle(t)
        BY <1>2
    <2>2. Cause(t) /\ {t} \in SUBSET Connected(pool)
        BY <2>1 DEF HandleDisconnectSingle, Commands, Disconnects, Cause, Related
    <2>3. pool' = RemoveOnly(pool, {t}) /\ UNCHANGED dead /\ ack' = NoAnswer
        BY <2>1 DEF HandleDisconnectSingle
    <2> QED
        BY <2>2, <2>3, RemovalSound
<1>3. CASE \E t \in Tasks : HandleOther(t)
    BY <1>3, ConcludeSound DEF HandleOther, Commands, IInv
<1>4. CASE \E t \in Tasks, n \in Names : HandleRenameTask(t, n)
    BY <1>4, RenameSound DEF HandleRenameTask
<1>5. CASE \E t \in Tasks : LoseTask(t)
    BY <1>5, TaskRemovalSound DEF LoseTask
<1>6. CASE RemoveAllTasks
    <2>1. \A t \in Connected(pool) : Cause(t)
        BY <1>6 DEF Cause, Related, Disconnects
    <2>2. pool' = RemoveOnly(pool, Connected(pool)) /\ UNCHANGED dead /\ ack' = NoAnswer
        BY <1>6 DEF RemoveAllTasks
    <2> QED
        BY <2>1, <2>2, RemovalSound
<1>7. CASE ReportTasks
    <2>1. pool' = RemoveInactive(pool) /\ dead' \subseteq Allocated(pool') /\ ack' = NoAnswer
        BY <1>7 DEF ReportTasks
    <2> QED
        BY <2>1, InactiveCaused DEF SoundStep
<1>8. CASE \E pid \in Pids : ProcessExits(pid)
    BY <1>8, DeadStepSound DEF ProcessExits
<1>9. CASE \E t \in Tasks : ClientStalls(t)
    BY <1>9, DeadStepSound DEF ClientStalls
<1>10. CASE \E t \in Tasks : ClientRecovers(t)
    BY <1>10, DeadStepSound DEF ClientRecovers
<1> QED
    BY <1>1, <1>2, <1>3, <1>4, <1>5, <1>6, <1>7, <1>8, <1>9, <1>10 DEF Next

-----------------------------------------------------------------------------
(* The inductive invariant. *)

LEMMA InitEstablishes ==
    Init => IInv
<1> SUFFICES ASSUME Init
             PROVE  IInv
    OBVIOUS
<1>1. pool \in Pools
    BY DEF Init, Pools
<1>2. /\ Connected(pool) = {} /\ Allocated(pool) = {} /\ dead = {}
      /\ pool.active = {} /\ pool.removed = <<>> /\ \A g \in Groups : pool.refs[g] = 0
    BY NullAssumption DEF Init, Connected, Allocated
<1>3. Waiting(pool)
    BY <1>2 DEF Waiting, IsInjective, ToSet
<1>4. Counted(pool)
    <2>1. \A g : MembersOf(pool, g) = {}
        BY <1>2 DEF MembersOf
    <2> QED
        BY <1>2, <2>1, FS_EmptySet DEF Counted
<1>5. ack = NoAnswer /\ NoAnswer \in [name : Names \cup {NoTask}, status : Statuses]
    BY DEF Init, NoAnswer, Statuses
<1>6. InUseIsTrue
    BY <1>5 DEF InUseIsTrue, NoAnswer, Answer
<1> QED
    BY <1>1, <1>2, <1>3, <1>4, <1>5, <1>6 DEF IInv, GoodPool, Placed, Mapped, Owned

LEMMA NextSound ==
    ASSUME IInv, Next
    PROVE  IInv' /\ SoundStep
<1>1. CASE \E n \in Names, port \in Ports, From \in {ShortIds, ExtIds} :
             HandleConnect(n, port, From)
    BY <1>1, ConnectSound DEF IInv, SoundStep, InUseIsTrue
<1>2. CASE ~\E n \in Names, port \in Ports, From \in {ShortIds, ExtIds} :
              HandleConnect(n, port, From)
    <2>1. SoundStep /\ ack' = NoAnswer
        BY <1>2, OtherSound
    <2>2. ack' \in [name : Names \cup {NoTask}, status : Statuses] /\ InUseIsTrue'
        BY <2>1 DEF NoAnswer, Answer, Statuses, InUseIsTrue
    <2> QED
        BY <2>1, <2>2 DEF IInv, SoundStep
<1> QED
    BY <1>1, <1>2

THEOREM Inductive ==
    Spec => []IInv
<1>1. IInv /\ [Next]_vars => IInv'
    <2>1. IInv /\ UNCHANGED vars => IInv'
        BY DEF vars, IInv, InUseIsTrue
    <2> QED
        BY <2>1, NextSound
<1> QED
    BY <1>1, InitEstablishes, PTL DEF Spec

-----------------------------------------------------------------------------
(* What the clients may rely on. *)

THEOREM TypeCorrect ==
    Spec => []TypeOK
<1>1. IInv => TypeOK
    BY DEF IInv, TypeOK, GoodPool, Pools
<1> QED
    BY <1>1, Inductive, PTL

(***************************************************************************)
(* The table and the map always hold the same tasks: removing a task finds *)
(* it in the map, and a name that is no group's has one owner.             *)
(***************************************************************************)
THEOREM TablesAlwaysAgree ==
    Spec => []TablesAgree
<1>1. IInv => TablesAgree
    <2> SUFFICES ASSUME IInv
                 PROVE  TablesAgree
        OBVIOUS
    <2>1. /\ Placed(pool) /\ Mapped(pool) /\ Owned(pool)
          /\ Connected(pool) \subseteq Allocated(pool)
        BY DEF IInv, GoodPool, Waiting
    <2>2. \A e \in pool.active : e.task \in Connected(pool) /\ e.name = pool.info[e.task].name
        BY <2>1, EntryFields DEF Mapped
    <2>3. \A t \in Connected(pool) : Entry(pool.info[t].name, t) \in pool.active
        BY <2>1 DEF Mapped
    <2> QED
        BY <2>1, <2>2, <2>3 DEF TablesAgree, NamesOwned, Placed, Owned
<1> QED
    BY <1>1, Inductive, PTL

(***************************************************************************)
(* No object is deleted twice, or while the table has it, and none is      *)
(* lost.                                                                   *)
(***************************************************************************)
THEOREM AlwaysDeletedOnce ==
    Spec => []DeletedOnce
<1>1. IInv => DeletedOnce
    BY DEF IInv, GoodPool, Waiting, DeletedOnce
<1> QED
    BY <1>1, Inductive, PTL

(***************************************************************************)
(* The daemon is a member of a group as long as an object that joined it   *)
(* is there.                                                               *)
(***************************************************************************)
THEOREM GroupsAlwaysCounted ==
    Spec => []GroupsCounted
<1>1. IInv => GroupsCounted
    BY DEF IInv, GoodPool, Counted, MembersOf, GroupsCounted
<1> QED
    BY <1>1, Inductive, PTL

(***************************************************************************)
(* A dead client never keeps a name from one that connects.                *)
(***************************************************************************)
THEOREM InUseAlwaysTrue ==
    Spec => []InUseIsTrue
<1>1. IInv => InUseIsTrue
    BY DEF IInv
<1> QED
    BY <1>1, Inductive, PTL

(***************************************************************************)
(* No client loses its task because another one came, left or died, except *)
(* another task of its own process.                                        *)
(***************************************************************************)
THEOREM AlwaysLeavesForCause ==
    Spec => LeavesForCause
<1> DEFINE Claim(t) == \E u \in Connected(pool) :
              /\ u = t \/ (ProcessOf(pool, t) # NoPid /\ ProcessOf(pool, u) = ProcessOf(pool, t))
              /\ u \in dead \/ Disconnects(u)
<1>1. ASSUME IInv, Next, NEW t \in Connected(pool) \ Connected(pool')
      PROVE  Claim(t)
    BY <1>1, NextSound DEF SoundStep, Cause, Related
<1>2. IInv /\ [Next]_vars => [\A t \in Connected(pool) \ Connected(pool') : Claim(t)]_vars
    <2> HIDE DEF Claim
    <2> QED
        BY <1>1
<1> QED
    BY <1>2, Inductive, PTL DEF Spec, LeavesForCause

-----------------------------------------------------------------------------
(* What the rest of the daemon sees of the clients: TaskTable implements   *)
(* ClientsSpec.  Connected tasks have different keys, so that what is done *)
(* to a set of tasks is done to the set of their keys.                     *)

Leaving(p) == UNION {RemovedWith(p, t) : t \in Connected(p) \cap dead}

LEMMA KeyFields ==
    ASSUME NEW p, GoodPool(p), NEW t \in Connected(p)
    PROVE  /\ KeyOf(p, t) \in Keys
           /\ KeyOf(p, t)[1] = p.info[t].name /\ KeyOf(p, t)[2] = p.info[t].port
BY InfoFields DEF GoodPool, Placed, KeyOf, Keys

LEMMA KeysApart ==
    ASSUME NEW p, GoodPool(p), NEW t \in Connected(p), NEW u \in Connected(p),
           KeyOf(p, t) = KeyOf(p, u)
    PROVE  t = u
BY KeyFields DEF GoodPool, Owned

LEMMA KeysLess ==
    ASSUME NEW p, GoodPool(p), NEW T \in SUBSET Connected(p), NEW U \in SUBSET Connected(p)
    PROVE  KeysOf(p, T \ U) = KeysOf(p, T) \ KeysOf(p, U)
<1>1. ASSUME NEW t \in T
      PROVE  KeyOf(p, t) \in KeysOf(p, U) <=> t \in U
    BY KeysApart DEF KeysOf
<1> QED
    BY <1>1 DEF KeysOf

LEMMA KeysSubset ==
    ASSUME NEW p, NEW T, NEW U \in SUBSET T
    PROVE  KeysOf(p, U) \subseteq KeysOf(p, T)
BY DEF KeysOf

LEMMA SameKeys ==
    ASSUME NEW p, NEW q, NEW T, \A t \in T : q.info[t] = p.info[t]
    PROVE  KeysOf(q, T) = KeysOf(p, T)
BY DEF KeysOf, KeyOf

(***************************************************************************)
(* A task is dead, and goes with others, if its key is and does.           *)
(***************************************************************************)
LEMMA KeyDead ==
    ASSUME NEW p, GoodPool(p), NEW t \in Connected(p)
    PROVE  KeyOf(p, t) \in KeysOf(p, Connected(p) \cap dead) <=> t \in dead
BY KeysApart DEF KeysOf

LEMMA KeyProcess ==
    ASSUME NEW p, GoodPool(p), NEW t \in Connected(p)
    PROVE  [c \in Keys |-> PidOf[c[2]]][KeyOf(p, t)] = ProcessOf(p, t)
BY KeyFields DEF ProcessOf

LEMMA RemovedKeys ==
    ASSUME IInv, NEW t \in Connected(pool)
    PROVE  KeysOf(pool, RemovedWith(pool, t)) = Abstract!RemovedWith(KeyOf(pool, t))
<1>1. GoodPool(pool)
    BY DEF IInv
<1>2. \A u \in Connected(pool) :
          [c \in Keys |-> PidOf[c[2]]][KeyOf(pool, u)] = ProcessOf(pool, u)
    BY <1>1, KeyProcess
<1> QED
    BY <1>2 DEF RemovedWith, Abstract!RemovedWith, KeysOf

LEMMA UnionKeys ==
    ASSUME IInv, NEW S \in SUBSET Connected(pool)
    PROVE  /\ UNION {RemovedWith(pool, t) : t \in S} \in SUBSET Connected(pool)
           /\ S \subseteq UNION {RemovedWith(pool, t) : t \in S}
           /\ KeysOf(pool, UNION {RemovedWith(pool, t) : t \in S})
                = UNION {Abstract!RemovedWith(c) : c \in KeysOf(pool, S)}
<1>1. \A t \in S : t \in RemovedWith(pool, t) /\ RemovedWith(pool, t) \in SUBSET Connected(pool)
    BY RemovedConnected
<1>2. KeysOf(pool, UNION {RemovedWith(pool, t) : t \in S})
        = UNION {KeysOf(pool, RemovedWith(pool, t)) : t \in S}
    BY DEF KeysOf
<1>3. \A t \in S : KeysOf(pool, RemovedWith(pool, t)) = Abstract!RemovedWith(KeyOf(pool, t))
    BY RemovedKeys
<1>4. KeysOf(pool, S) = {KeyOf(pool, t) : t \in S}
    BY DEF KeysOf
<1>5. UNION {Abstract!RemovedWith(c) : c \in KeysOf(pool, S)}
        = UNION {KeysOf(pool, RemovedWith(pool, t)) : t \in S}
    BY <1>3, <1>4
<1> QED
    BY <1>1, <1>2, <1>5

LEMMA LeavingKeys ==
    ASSUME IInv
    PROVE  /\ Leaving(pool) \in SUBSET Connected(pool)
           /\ KeysOf(pool, Leaving(pool)) = Abstract!Inactive
           /\ Connected(pool) \cap dead \subseteq Leaving(pool)
<1> DEFINE D == Connected(pool) \cap dead
<1>1. KeysOf(pool, Connected(pool)) \cap KeysOf(pool, D) = KeysOf(pool, D)
    BY KeysSubset
<1>2. Abstract!Inactive = UNION {Abstract!RemovedWith(c) : c \in KeysOf(pool, D)}
    BY <1>1 DEF Abstract!Inactive
<1>3. D \in SUBSET Connected(pool) /\ Leaving(pool) = UNION {RemovedWith(pool, t) : t \in D}
    BY DEF Leaving
<1> HIDE DEF D
<1> QED
    BY <1>2, <1>3, UnionKeys DEF D

(***************************************************************************)
(* The abstract step when a set of tasks goes.                             *)
(***************************************************************************)
LEMMA RemoveKeys ==
    ASSUME IInv, NEW T \in SUBSET Connected(pool),
           Connected(pool') = Connected(pool) \ T,
           \A t \in Connected(pool) \ T : pool'.info[t] = pool.info[t],
           Connected(pool') \cap dead' = (Connected(pool) \cap dead) \ T
    PROVE  Abstract!Remove(KeysOf(pool, T))
<1> DEFINE A == Connected(pool)
           D == Connected(pool) \cap dead
<1>1. GoodPool(pool)
    BY DEF IInv
<1>2. KeysOf(pool', Connected(pool')) = KeysOf(pool, A) \ KeysOf(pool, T)
    BY <1>1, SameKeys, KeysLess
<1>3. KeysOf(pool', Connected(pool') \cap dead') = KeysOf(pool, D) \ KeysOf(pool, T)
    <2>1. KeysOf(pool', D \ T) = KeysOf(pool, D \ T)
        BY SameKeys
    <2>2. D \in SUBSET Connected(pool) /\ Connected(pool') \cap dead' = D \ T
        OBVIOUS
    <2> HIDE DEF D
    <2>3. KeysOf(pool, D \ T) = KeysOf(pool, D) \ KeysOf(pool, T)
        BY <1>1, <2>2, KeysLess
    <2> QED
        BY <2>1, <2>2, <2>3
<1> QED
    BY <1>2, <1>3 DEF Abstract!Remove

LEMMA RemovalRefines ==
    ASSUME IInv, NEW T \in SUBSET Connected(pool), pool' = RemoveOnly(pool, T), UNCHANGED dead
    PROVE  Abstract!Remove(KeysOf(pool, T))
<1>1. GoodPool(pool)
    BY DEF IInv
<1>2. Connected(pool') = Connected(pool) \ T /\ pool'.info = pool.info
    BY <1>1, RemoveOnlyGood
<1> QED
    BY <1>2, RemoveKeys

LEMMA TaskRemovalRefines ==
    ASSUME IInv, NEW t \in Connected(pool), pool' = RemoveTask(pool, t), UNCHANGED dead
    PROVE  Abstract!Remove(Abstract!RemovedWith(KeyOf(pool, t)))
<1>1. RemovedWith(pool, t) \in SUBSET Connected(pool)
    BY RemovedConnected
<1> QED
    BY <1>1, RemovalRefines, RemovedKeys DEF RemoveTask

(***************************************************************************)
(* A client that commands, and what a message to it may cost, are the same *)
(* on both sides.                                                          *)
(***************************************************************************)
LEMMA CommandKeys ==
    ASSUME IInv, NEW t, Commands(t)
    PROVE  /\ t \in Connected(pool) /\ KeyOf(pool, t) \in Keys
           /\ Abstract!Commands(KeyOf(pool, t))
<1>1. GoodPool(pool) /\ t \in Connected(pool) /\ (t \in dead => ProcessOf(pool, t) # NoPid)
    BY DEF IInv, Commands
<1>2. KeyOf(pool, t) \in Keys /\ KeyOf(pool, t) \in KeysOf(pool, Connected(pool))
    BY <1>1, KeyFields DEF KeysOf
<1> QED
    BY <1>1, <1>2, KeyDead, KeyProcess DEF Abstract!Commands

LEMMA DroppedKeys ==
    ASSUME IInv, NEW t \in Connected(pool)
    PROVE  /\ {} \in Abstract!Dropped(KeyOf(pool, t))
           /\ t \in dead => Abstract!RemovedWith(KeyOf(pool, t)) \in Abstract!Dropped(KeyOf(pool, t))
<1>1. GoodPool(pool)
    BY DEF IInv
<1> QED
    BY <1>1, KeyDead DEF Abstract!Dropped

LEMMA OtherRefines ==
    ASSUME IInv, NEW t, Commands(t), Conclude(pool, t), UNCHANGED dead
    PROVE  Abstract!Command(KeyOf(pool, t))
<1>1. t \in Connected(pool) /\ Abstract!Commands(KeyOf(pool, t))
    BY CommandKeys
<1>2. CASE UNCHANGED pool
    <2>1. Abstract!Remove({})
        BY <1>2 DEF Abstract!Remove
    <2> QED
        BY <1>1, <2>1, DroppedKeys DEF Abstract!Command
<1>3. CASE t \in dead /\ pool' = RemoveTask(pool, t)
    <2>1. Abstract!Remove(Abstract!RemovedWith(KeyOf(pool, t)))
        BY <1>1, <1>3, TaskRemovalRefines
    <2> QED
        BY <1>1, <1>3, <2>1, DroppedKeys DEF Abstract!Command
<1> QED
    BY <1>2, <1>3 DEF Conclude

LEMMA DisconnectRefines ==
    ASSUME IInv, NEW t, HandleDisconnect(t) \/ HandleDisconnectSingle(t)
    PROVE  t \in Connected(pool) /\ Abstract!Command(KeyOf(pool, t))
<1>1. Commands(t) /\ UNCHANGED dead
    BY DEF HandleDisconnect, HandleDisconnectSingle
<1>2. t \in Connected(pool) /\ Abstract!Commands(KeyOf(pool, t))
    BY <1>1, CommandKeys
<1>3. CASE HandleDisconnect(t)
    <2>1. Abstract!Remove(Abstract!RemovedWith(KeyOf(pool, t)))
        BY <1>2, <1>3, TaskRemovalRefines DEF HandleDisconnect
    <2> QED
        BY <1>2, <2>1 DEF Abstract!Command
<1>4. CASE HandleDisconnectSingle(t)
    <2>1. Abstract!Remove(KeysOf(pool, {t})) /\ KeysOf(pool, {t}) = {KeyOf(pool, t)}
        BY <1>2, <1>4, RemovalRefines DEF HandleDisconnectSingle, KeysOf
    <2> QED
        BY <1>2, <2>1 DEF Abstract!Command
<1> QED
    BY <1>3, <1>4

(***************************************************************************)
(* Clients that have died since the last connect are out of the way of     *)
(* this one.                                                               *)
(***************************************************************************)
LEMMA InactiveKeys ==
    ASSUME IInv
    PROVE  LET p == RemoveInactive(pool) IN
           /\ GoodPool(p) /\ Allocated(p) = Connected(p) /\ Connected(p) \cap dead = {}
           /\ Connected(p) = Connected(pool) \ Leaving(pool)
           /\ \A t \in Connected(p) : p.info[t] = pool.info[t]
           /\ KeysOf(p, Connected(p)) = KeysOf(pool, Connected(pool)) \ Abstract!Inactive
           /\ KeysOf(pool, Connected(pool) \cap dead) \ Abstract!Inactive = {}
<1> DEFINE p == RemoveInactive(pool)
           q == RemoveOnly(pool, Leaving(pool))
<1>1. GoodPool(pool) /\ Leaving(pool) \in SUBSET Connected(pool)
      /\ KeysOf(pool, Leaving(pool)) = Abstract!Inactive
      /\ Connected(pool) \cap dead \subseteq Leaving(pool)
    BY LeavingKeys DEF IInv
<1>2. /\ GoodPool(p) /\ Allocated(p) = Connected(p) /\ Connected(p) \cap dead = {}
      /\ Connected(p) = Connected(pool) \ Leaving(pool)
    BY <1>1, RemoveInactiveGood DEF Leaving
<1>3. p = DeleteRemoved(q)
    BY DEF RemoveInactive, Leaving
<1> HIDE DEF p
<1>4. GoodPool(q) /\ Connected(q) = Connected(p) /\ q.info = pool.info
    BY <1>1, <1>2, RemoveOnlyGood
<1> HIDE DEF q
<1>5. \A t \in Connected(p) : p.info[t] = pool.info[t]
    BY <1>3, <1>4, DeleteRemovedGood
<1>6. KeysOf(p, Connected(p)) = KeysOf(pool, Connected(pool)) \ Abstract!Inactive
    <2>1. KeysOf(p, Connected(p)) = KeysOf(pool, Connected(pool) \ Leaving(pool))
        BY <1>2, <1>5, SameKeys
    <2> QED
        BY <1>1, <2>1, KeysLess
<1>7. KeysOf(pool, Connected(pool) \cap dead) \subseteq Abstract!Inactive
    BY <1>1, KeysSubset
<1> QED
    BY <1>2, <1>5, <1>6, <1>7 DEF p

LEMMA SweepRefines ==
    ASSUME IInv, pool' = RemoveInactive(pool), dead' \subseteq dead
    PROVE  Abstract!Remove(Abstract!Inactive)
<1>1. /\ Connected(pool') \cap dead = {}
      /\ KeysOf(pool', Connected(pool')) = KeysOf(pool, Connected(pool)) \ Abstract!Inactive
      /\ KeysOf(pool, Connected(pool) \cap dead) \ Abstract!Inactive = {}
    BY InactiveKeys
<1>2. KeysOf(pool', Connected(pool') \cap dead') = {}
    BY <1>1 DEF KeysOf
<1> QED
    BY <1>1, <1>2 DEF Abstract!Remove

(***************************************************************************)
(* The owners of a name are the keys of the tasks that have it.            *)
(***************************************************************************)
LEMMA OwnersKeys ==
    ASSUME NEW p, GoodPool(p), NEW n
    PROVE  Abstract!Owners(KeysOf(p, Connected(p)), n) = KeysOf(p, TasksNamed(p, n))
<1>1. TasksNamed(p, n) = {t \in Connected(p) : p.info[t].name = n}
    BY NamedTasks DEF GoodPool
<1>2. \A t \in Connected(p) : KeyOf(p, t) \in Keys /\ KeyOf(p, t)[1] = p.info[t].name
    BY KeyFields
<1> QED
    BY <1>1, <1>2 DEF Abstract!Owners, KeysOf

LEMMA ConnectRefines ==
    ASSUME IInv, NEW n \in Names, NEW port \in Ports, NEW From \in {ShortIds, ExtIds},
           HandleConnect(n, port, From)
    PROVE  Abstract!Connect(<<n, port>>)
<1> DEFINE p == RemoveInactive(pool)
           c == <<n, port>>
           Alive == KeysOf(pool, Connected(pool)) \ Abstract!Inactive
           NameIs == [k \in Keys |-> k[1]]
           Groupish == {m \in Names : GroupOf[m] # NoGroup}
           Refused == n \notin Groupish /\ Abstract!Owners(Alive, n) \ {c} # {}
           New(t) == [name |-> n, port |-> port, id |-> FirstId(p, From), group |-> GroupOf[n]]
<1>1. /\ GoodPool(p) /\ Allocated(p) = Connected(p) /\ Connected(p) \cap dead = {}
      /\ KeysOf(p, Connected(p)) = Alive
      /\ KeysOf(pool, Connected(pool) \cap dead) \ Abstract!Inactive = {}
    BY InactiveKeys
<1>2. /\ dead' = dead \cap Allocated(p)
      /\ \/ GetTask(p, n, port) # {} /\ pool' = p /\ ack' = Answer(n, "success")
         \/ GetTask(p, n, port) = {} /\ pool' = p /\ ack' = Answer(n, "nlm")
         \/ /\ GetTask(p, n, port) = {} /\ Taken(p, n)
            /\ pool' = p /\ ack' = Answer(n, "name_in_use")
         \/ /\ GetTask(p, n, port) = {} /\ ~Taken(p, n) /\ FreeIds(p, From) # {}
            /\ \E t \in Tasks \ Allocated(p) : pool' = Enter(p, t, New(t))
            /\ ack' = Answer(n, "success")
    BY DEF HandleConnect
<1> HIDE DEF p
<1>3. c \in Keys /\ NameIs[c] = n
    BY DEF Keys
<1>4. TasksNamed(p, n) = {t \in Connected(p) : p.info[t].name = n}
    BY <1>1, NamedTasks DEF GoodPool
<1>5. Abstract!Owners(Alive, n) = KeysOf(p, TasksNamed(p, n))
    BY <1>1, OwnersKeys
<1>6. \A t \in Connected(p) : KeyOf(p, t) = c <=> t \in GetTask(p, n, port)
    BY <1>4 DEF GetTask, KeyOf
<1>7. c \in Alive <=> GetTask(p, n, port) # {}
    <2>1. GetTask(p, n, port) \subseteq Connected(p)
        BY <1>4 DEF GetTask
    <2> QED
        BY <1>1, <1>6, <2>1 DEF KeysOf
<1>8. ASSUME GetTask(p, n, port) = {}
      PROVE  Refused <=> Taken(p, n)
    <2>1. Abstract!Owners(Alive, n) \ {c} = KeysOf(p, TasksNamed(p, n))
        BY <1>4, <1>5, <1>6, <1>8 DEF KeysOf
    <2> HIDE DEF Alive
    <2> QED
        BY <2>1 DEF KeysOf, Taken
<1>9. ASSUME GetTask(p, n, port) # {}
      PROVE  ~Refused
    <2>1. PICK t \in TasksNamed(p, n) : p.info[t].port = port
        BY <1>9 DEF GetTask
    <2>2. ASSUME n \notin Groupish, NEW u \in TasksNamed(p, n)
          PROVE  u = t
        BY <1>1, <1>4, <2>1, <2>2 DEF GoodPool, Owned
    <2>3. n \notin Groupish => KeysOf(p, TasksNamed(p, n)) = {c}
        BY <1>4, <1>6, <2>1, <2>2 DEF KeysOf, GetTask
    <2> HIDE DEF Alive
    <2> QED
        BY <1>5, <2>3
<1>10. ASSUME pool' = p
       PROVE  Abstract!Remove(Abstract!Inactive)
    BY <1>2, <1>10, SweepRefines DEF p
<1>11. CASE GetTask(p, n, port) # {} /\ pool' = p /\ ack' = Answer(n, "success")
    <2>1. c \in Alive /\ ~Refused /\ Abstract!Remove(Abstract!Inactive)
        BY <1>7, <1>9, <1>10, <1>11
    <2>2. ack' = Abstract!Answer(n, "success")
        BY <1>11 DEF Answer, Abstract!Answer
    <2> QED
        BY <1>3, <2>1, <2>2 DEF Abstract!Connect, Abstract!Remove
<1>12. CASE GetTask(p, n, port) = {} /\ pool' = p /\ ack' = Answer(n, "nlm")
    <2>1. c \notin Alive /\ Abstract!Remove(Abstract!Inactive)
        BY <1>7, <1>10, <1>12
    <2>2. ack' = Abstract!Answer(n, "nlm")
        BY <1>12 DEF Answer, Abstract!Answer
    <2> QED
        BY <1>3, <2>1, <2>2 DEF Abstract!Connect
<1>13. CASE /\ GetTask(p, n, port) = {} /\ Taken(p, n)
            /\ pool' = p /\ ack' = Answer(n, "name_in_use")
    <2>1. Refused /\ Abstract!Remove(Abstract!Inactive)
        BY <1>8, <1>10, <1>13
    <2>2. ack' = Abstract!Answer(n, "name_in_use")
        BY <1>13 DEF Answer, Abstract!Answer
    <2> QED
        BY <1>3, <2>1, <2>2 DEF Abstract!Connect
<1>14. ASSUME GetTask(p, n, port) = {}, ~Taken(p, n), FreeIds(p, From) # {},
              NEW t \in Tasks \ Allocated(p), pool' = Enter(p, t, New(t)),
              ack' = Answer(n, "success")
       PROVE  Abstract!Connect(c)
    <2> DEFINE i == New(t)
    <2>1. i \in TaskInfo /\ p.table[i.id] = NoTask
        BY <1>14, LeastFree, NamesAssumption DEF TaskInfo
    <2>2. i.group = GroupOf[i.name] /\ i.name = n /\ i.port = port
        OBVIOUS
    <2>3. pool' = Enter(p, t, i)
        BY <1>14
    <2> HIDE DEF i
    <2>4. Connected(pool') = Connected(p) \cup {t}
        BY <1>1, <1>14, <2>1, <2>2, <2>3, EnterGood
    <2>5. pool'.info[t] = i /\ \A u \in Connected(p) : pool'.info[u] = p.info[u]
        <3>1. /\ Enter(p, t, i).info[t] = i
              /\ \A u \in Connected(p) : Enter(p, t, i).info[u] = p.info[u]
            <4>1. t \in Tasks \ Allocated(p)
                BY <1>14
            <4>2. GetTask(p, i.name, i.port) = {} /\ ~Taken(p, i.name)
                BY <1>14, <2>2
            <4> QED
                BY <1>1, <2>1, <2>2, <4>1, <4>2, EnterGood
        <3> QED
            BY <2>3, <3>1
    <2>6. KeyOf(pool', t) = c /\ \A u \in Connected(p) : KeyOf(pool', u) = KeyOf(p, u)
        BY <2>2, <2>5 DEF KeyOf
    <2>7. KeysOf(pool', Connected(pool')) = KeysOf(p, Connected(p)) \cup {c}
        BY <2>4, <2>6 DEF KeysOf
    <2>8. Connected(pool') \cap dead' = {}
        BY <1>1, <1>2, <1>14, <2>4
    <2>9. KeysOf(pool', Connected(pool') \cap dead')
            = KeysOf(pool, Connected(pool) \cap dead) \ Abstract!Inactive
        BY <1>1, <2>8 DEF KeysOf
    <2>10. ~Refused
        BY <1>8, <1>14
    <2>11. ack' = Abstract!Answer(n, "success")
        BY <1>14 DEF Answer, Abstract!Answer
    <2> QED
        BY <1>1, <1>3, <2>7, <2>9, <2>10, <2>11 DEF Abstract!Connect
<1> QED
    BY <1>2, <1>11, <1>12, <1>13, <1>14

(***************************************************************************)
(* Of the tasks of R, `t' has a new key.                                   *)
(***************************************************************************)
LEMMA MovedKeys ==
    ASSUME IInv, NEW t \in Connected(pool), NEW e, NEW R \in SUBSET Connected(pool),
           NEW q, \A u \in R : u # t => q.info[u] = pool.info[u], t \in R => KeyOf(q, t) = e
    PROVE  KeysOf(q, R) = Abstract!Moved(KeysOf(pool, R), KeyOf(pool, t), e)
<1>1. ASSUME NEW u \in R
      PROVE  KeyOf(q, u) = IF KeyOf(pool, u) = KeyOf(pool, t) THEN e ELSE KeyOf(pool, u)
    <2>1. KeyOf(pool, u) = KeyOf(pool, t) <=> u = t
        BY KeysApart DEF IInv
    <2>2. u # t => KeyOf(q, u) = KeyOf(pool, u)
        BY DEF KeyOf
    <2> QED
        BY <2>1, <2>2
<1> QED
    BY <1>1 DEF Abstract!Moved, KeysOf

(***************************************************************************)
(* The tasks of the process of `t' that removeTask finds after a rename.   *)
(***************************************************************************)
LEMMA RemovedAfter ==
    ASSUME NEW q, NEW T, Connected(q) = Connected(pool) \ T,
           \A u \in Connected(q) : ProcessOf(q, u) = ProcessOf(pool, u),
           NEW t \in Connected(q)
    PROVE  RemovedWith(q, t) = RemovedWith(pool, t) \ T
BY DEF RemovedWith

LEMMA RenameRefines ==
    ASSUME IInv, NEW t \in Tasks, NEW n \in Names, HandleRenameTask(t, n)
    PROVE  /\ KeyOf(pool, t) \in Keys
           /\ \/ Abstract!Command(KeyOf(pool, t))
              \/ \E e \in Keys : Abstract!Rename(KeyOf(pool, t), e)
<1> DEFINE S == TasksNamed(pool, n)
           T == UNION {RemovedWith(pool, u) : u \in S}
           p == RemoveOnly(pool, T)
           c == KeyOf(pool, t)
           e == <<n, pool.info[t].port>>
           PortIs == [k \in Keys |-> k[2]]
           NameIs == [k \in Keys |-> k[1]]
           Groupish == {m \in Names : GroupOf[m] # NoGroup}
           A == KeysOf(pool, Connected(pool))
           D == KeysOf(pool, Connected(pool) \cap dead)
<1>1. /\ t \in Connected(pool) /\ c \in Keys /\ Abstract!Commands(c)
      /\ Commands(t) /\ UNCHANGED dead /\ GoodPool(pool)
    BY CommandKeys DEF HandleRenameTask, IInv
<1>2. CASE Conclude(pool, t)
    BY <1>1, <1>2, OtherRefines
<1>3. CASE /\ ~InUse(n)
           /\ \/ t \in Connected(p) /\ Conclude(Renamed(p, t, n), t)
              \/ t \notin Connected(p) /\ pool' = p
    <2>1. S = {u \in Connected(pool) : pool.info[u].name = n}
        BY <1>1, NamedTasks DEF GoodPool
    <2>2. GroupOf[n] = NoGroup /\ S \subseteq dead /\ S \in SUBSET Connected(pool)
        BY <1>3, <2>1 DEF InUse
    <2>3. Abstract!Owners(A, n) = KeysOf(pool, S)
        BY <1>1, OwnersKeys
    <2> HIDE DEF S
    <2>4. /\ T \in SUBSET Connected(pool) /\ S \subseteq T
          /\ KeysOf(pool, T) = UNION {Abstract!RemovedWith(u) : u \in Abstract!Owners(A, n)}
        BY <2>2, <2>3, UnionKeys
    <2> HIDE DEF T
    <2>5. /\ GoodPool(p) /\ Connected(p) = Connected(pool) \ T /\ p.info = pool.info
          /\ Allocated(p) = Allocated(pool)
        BY <1>1, <2>4, RemoveOnlyGood
    <2>6. /\ e \in Keys /\ NameIs[e] = n /\ PortIs[e] = PortIs[c] /\ n \notin Groupish
        <3>1. pool.info[t].port \in Ports
            BY <1>1, InfoFields DEF GoodPool, Placed
        <3>2. PortIs[c] = pool.info[t].port
            BY <1>1, KeyFields
        <3> QED
            BY <2>2, <3>1, <3>2 DEF Keys
    <2>7. Abstract!Owners(A, n) \subseteq D
        BY <2>2, <2>3 DEF KeysOf
    <2>8. c \in KeysOf(pool, T) <=> t \in T
        BY <1>1, <2>4, KeysApart DEF KeysOf
    <2>9. CASE t \notin Connected(p) /\ pool' = p
        <3>1. Abstract!Remove(KeysOf(pool, T)) /\ c \in KeysOf(pool, T)
            BY <1>1, <2>4, <2>5, <2>8, <2>9, RemovalRefines
        <3> HIDE DEF A, D, c, e
        <3>2. Abstract!Rename(c, e)
            BY <1>1, <2>4, <2>6, <2>7, <3>1 DEF Abstract!Rename, A, D
        <3> QED
            BY <1>1, <2>6, <3>2 DEF c
    <2>10. CASE t \in Connected(p) /\ Conclude(Renamed(p, t, n), t)
        <3> DEFINE q == Renamed(p, t, n)
        <3> HIDE DEF p
        <3>1. TasksNamed(p, n) = {}
            BY <2>1, <2>4, <2>5, NamedTasks DEF GoodPool
        <3>2. /\ GoodPool(q) /\ Connected(q) = Connected(p)
              /\ \A u \in Connected(p) : q.info[u].port = p.info[u].port
            BY <2>2, <2>5, <2>10, <3>1, RenamedGood
        <3>3. /\ \A u \in Connected(p) : u # t => q.info[u] = p.info[u]
              /\ KeyOf(q, t) = e
            <4>1. p \in Pools /\ p.info \in [Tasks -> TaskInfo \cup {NoInfo}] /\ t \in Allocated(p)
                  /\ Connected(p) \in SUBSET Tasks
                BY <2>5, <2>10, PoolFields DEF GoodPool, Waiting
            <4>2. q.info = [p.info EXCEPT ![t].name = n]
                BY <4>1, RenamedFields
            <4>3. p.info[t] \in TaskInfo
                BY <2>5, <2>10 DEF GoodPool, Placed
            <4>4. q.info[t].name = n
                BY <4>1, <4>2, <4>3 DEF TaskInfo
            <4>5. q.info[t].port = pool.info[t].port
                BY <2>5, <2>10, <3>2
            <4> QED
                BY <4>1, <4>2, <4>4, <4>5 DEF KeyOf
        <3>4. Conclude(q, t) /\ t \in Connected(q)
            BY <2>10, <3>2
        <3> HIDE DEF q
        <3>5. PICK W \in Abstract!Dropped(c), X \in SUBSET Connected(pool) :
                  /\ KeysOf(pool, X) = KeysOf(pool, T) \cup W
                  /\ Connected(pool') = Connected(pool) \ X
                  /\ \A u \in Connected(pool) : pool'.info[u] = q.info[u]
            <4>1. CASE pool' = q
                <5>1. {} \in Abstract!Dropped(c)
                    BY <1>1, DroppedKeys
                <5> QED
                    BY <2>4, <2>5, <3>2, <4>1, <5>1
            <4>2. CASE t \in dead /\ pool' = RemoveTask(q, t)
                <5> DEFINE X == T \cup RemovedWith(pool, t)
                <5>1. RemovedWith(q, t) = RemovedWith(pool, t) \ T
                    BY <2>5, <3>2, <3>4, RemovedAfter DEF ProcessOf
                <5>2. RemovedWith(pool, t) \in SUBSET Connected(pool)
                      /\ RemovedWith(q, t) \in SUBSET Connected(q)
                    BY <1>1, <3>4, RemovedConnected
                <5>3. /\ Connected(pool') = Connected(q) \ RemovedWith(q, t)
                      /\ pool'.info = q.info
                    BY <3>2, <4>2, <5>2, RemoveOnlyGood DEF RemoveTask
                <5>4. X \in SUBSET Connected(pool) /\ Connected(pool') = Connected(pool) \ X
                    BY <2>4, <2>5, <3>2, <5>1, <5>2, <5>3
                <5>5. KeysOf(pool, X) = KeysOf(pool, T) \cup Abstract!RemovedWith(c)
                    <6>1. KeysOf(pool, RemovedWith(pool, t)) = Abstract!RemovedWith(c)
                        BY <1>1, RemovedKeys
                    <6> QED
                        BY <6>1 DEF KeysOf
                <5>6. Abstract!RemovedWith(c) \in Abstract!Dropped(c)
                    BY <1>1, <4>2, DroppedKeys
                <5> QED
                    BY <5>3, <5>4, <5>5, <5>6
            <4> QED
                BY <3>4, <4>1, <4>2 DEF Conclude
        <3> DEFINE XK == KeysOf(pool, T) \cup W
        <3>6. /\ \A u \in Connected(pool) \ X : u # t => pool'.info[u] = pool.info[u]
              /\ t \notin X => KeyOf(pool', t) = e
            <4>1. T \subseteq X
                BY <1>1, <2>4, <3>5, KeysApart DEF KeysOf
            <4> QED
                BY <1>1, <2>5, <3>3, <3>5, <4>1 DEF KeyOf
        <3>7. ASSUME NEW U \in SUBSET Connected(pool)
              PROVE  KeysOf(pool', U \ X) = Abstract!Moved(KeysOf(pool, U) \ XK, c, e)
            <4> DEFINE R == U \ X
            <4>1. R \in SUBSET Connected(pool) /\ KeysOf(pool, R) = KeysOf(pool, U) \ XK
                BY <1>1, <3>5, KeysLess
            <4>2. /\ \A u \in R : u # t => pool'.info[u] = pool.info[u]
                  /\ t \in R => KeyOf(pool', t) = e
                BY <3>6, <4>1
            <4> HIDE DEF R, XK, e
            <4>3. KeysOf(pool', R) = Abstract!Moved(KeysOf(pool, R), c, e)
                BY <1>1, <4>1, <4>2, MovedKeys
            <4> QED
                BY <4>1, <4>3 DEF R
        <3>8. /\ KeysOf(pool', Connected(pool')) = Abstract!Moved(A \ XK, c, e)
              /\ KeysOf(pool', Connected(pool') \cap dead') = Abstract!Moved(D \ XK, c, e)
            <4>1. Connected(pool') \cap dead' = (Connected(pool) \cap dead) \ X
                BY <1>1, <3>5
            <4> QED
                BY <3>5, <3>7, <4>1
        <3>9. c \notin KeysOf(pool, T)
            BY <2>5, <2>8, <2>10
        <3> HIDE DEF A, D, c, e
        <3>10. Abstract!Rename(c, e)
            BY <1>1, <2>4, <2>6, <2>7, <3>5, <3>8, <3>9 DEF Abstract!Rename, A, D
        <3> QED
            BY <1>1, <2>6, <3>10 DEF c
    <2> QED
        BY <1>3, <2>9, <2>10
<1> QED
    BY <1>2, <1>3 DEF HandleRenameTask

(***************************************************************************)
(* A client dies or recovers: its key does.                                *)
(***************************************************************************)
LEMMA DiesRefines ==
    ASSUME IInv, NEW T \in SUBSET Connected(pool), UNCHANGED pool, dead' = dead \cup T
    PROVE  /\ KeysOf(pool', Connected(pool')) = KeysOf(pool, Connected(pool))
           /\ KeysOf(pool', Connected(pool') \cap dead')
                = KeysOf(pool, Connected(pool) \cap dead) \cup KeysOf(pool, T)
<1>1. Connected(pool') \cap dead' = (Connected(pool) \cap dead) \cup T
    OBVIOUS
<1> QED
    BY <1>1 DEF KeysOf

LEMMA StallRefines ==
    ASSUME IInv, NEW t \in Tasks, ClientStalls(t)
    PROVE  KeyOf(pool, t) \in Keys /\ Abstract!ClientDies(KeyOf(pool, t))
<1>1. /\ GoodPool(pool) /\ t \in Connected(pool) \ dead /\ UNCHANGED pool /\ dead' = dead \cup {t}
    BY DEF IInv, ClientStalls
<1>2. KeyOf(pool, t) \in Keys /\ KeyOf(pool, t) \in KeysOf(pool, Connected(pool))
      /\ KeyOf(pool, t) \notin KeysOf(pool, Connected(pool) \cap dead)
      /\ KeysOf(pool, {t}) = {KeyOf(pool, t)}
    BY <1>1, KeyFields, KeyDead DEF KeysOf
<1> QED
    BY <1>1, <1>2, DiesRefines DEF Abstract!ClientDies

LEMMA RecoverRefines ==
    ASSUME IInv, NEW t \in Tasks, ClientRecovers(t)
    PROVE  KeyOf(pool, t) \in Keys /\ Abstract!ClientRecovers(KeyOf(pool, t))
<1> DEFINE D == Connected(pool) \cap dead
<1>1. /\ GoodPool(pool) /\ t \in D /\ UNCHANGED pool /\ dead' = dead \ {t}
    BY DEF IInv, ClientRecovers
<1>2. KeyOf(pool, t) \in Keys /\ KeyOf(pool, t) \in KeysOf(pool, Connected(pool))
      /\ KeyOf(pool, t) \in KeysOf(pool, D) /\ KeysOf(pool, {t}) = {KeyOf(pool, t)}
    BY <1>1, KeyFields DEF KeysOf
<1>3. Connected(pool') \cap dead' = D \ {t}
    BY <1>1
<1>4. D \in SUBSET Connected(pool) /\ {t} \in SUBSET Connected(pool)
    BY <1>1
<1> HIDE DEF D
<1>5. KeysOf(pool, D \ {t}) = KeysOf(pool, D) \ {KeyOf(pool, t)}
    BY <1>1, <1>2, <1>4, KeysLess
<1> QED
    BY <1>1, <1>2, <1>3, <1>5 DEF Abstract!ClientRecovers, D

LEMMA ExitRefines ==
    ASSUME IInv, NEW pid \in Pids, ProcessExits(pid)
    PROVE  Abstract!Idle \/ \E c \in Keys : Abstract!ProcessExits(c)
<1> DEFINE T == {t \in Connected(pool) : ProcessOf(pool, t) = pid}
           A == KeysOf(pool, Connected(pool))
           PidIs == [k \in Keys |-> PidOf[k[2]]]
<1>1. GoodPool(pool) /\ UNCHANGED pool /\ dead' = dead \cup T /\ pid # NoPid
    BY DEF IInv, ProcessExits, Pids
<1>2. KeysOf(pool, T) = {c \in A : PidIs[c] = pid} /\ A \subseteq Keys
    BY <1>1, KeyProcess, KeyFields DEF KeysOf
<1>3. T \in SUBSET Connected(pool)
    OBVIOUS
<1> HIDE DEF T
<1>4. /\ KeysOf(pool', Connected(pool')) = A
      /\ KeysOf(pool', Connected(pool') \cap dead')
            = KeysOf(pool, Connected(pool) \cap dead) \cup KeysOf(pool, T)
    BY <1>1, <1>3, DiesRefines
<1>5. CASE KeysOf(pool, T) = {}
    BY <1>4, <1>5 DEF Abstract!Idle
<1>6. CASE KeysOf(pool, T) # {}
    <2>1. PICK c \in A : c \in Keys /\ PidIs[c] = pid
        BY <1>2, <1>6
    <2> HIDE DEF A
    <2>2. Abstract!ProcessExits(c)
        BY <1>1, <1>2, <1>4, <2>1 DEF Abstract!ProcessExits, A
    <2> QED
        BY <2>1, <2>2
<1> QED
    BY <1>5, <1>6

-----------------------------------------------------------------------------
LEMMA InitiallyRefines ==
    Init => Abstract!Init
<1> SUFFICES ASSUME Init
             PROVE  Abstract!Init
    OBVIOUS
<1>1. Connected(pool) = {} /\ ack = NoAnswer
    BY NullAssumption DEF Init, Connected
<1> QED
    BY <1>1 DEF Abstract!Init, Abstract!ClientsInit, KeysOf

LEMMA StepRefines ==
    ASSUME IInv, Next
    PROVE  Abstract!Next
<1>1. CASE \E n \in Names, port \in Ports, From \in {ShortIds, ExtIds} :
             HandleConnect(n, port, From)
    <2>1. PICK n \in Names, port \in Ports, From \in {ShortIds, ExtIds} :
              HandleConnect(n, port, From)
        BY <1>1
    <2>2. Abstract!Connect(<<n, port>>) /\ <<n, port>> \in Keys
        BY <2>1, ConnectRefines DEF Keys
    <2> QED
        BY <2>2 DEF Abstract!Next
<1>2. CASE ~\E n \in Names, port \in Ports, From \in {ShortIds, ExtIds} :
              HandleConnect(n, port, From)
    <2>1. ack' = NoAnswer
        BY <1>2, OtherSound
    <2>2. \A t \in Connected(pool) : KeyOf(pool, t) \in Keys
        BY KeyFields DEF IInv
    <2> SUFFICES Abstract!Change
        BY <2>1 DEF Abstract!Next
    <2>3. CASE \E t \in Tasks : HandleDisconnect(t) \/ HandleDisconnectSingle(t)
        BY <2>2, <2>3, DisconnectRefines DEF Abstract!Change
    <2>4. CASE \E t \in Tasks : HandleOther(t)
        <3>1. PICK t \in Tasks : Commands(t) /\ Conclude(pool, t) /\ UNCHANGED dead
            BY <2>4 DEF HandleOther
        <3>2. KeyOf(pool, t) \in Keys /\ Abstract!Command(KeyOf(pool, t))
            BY <3>1, CommandKeys, OtherRefines
        <3> QED
            BY <3>2 DEF Abstract!Change
    <2>5. CASE \E t \in Tasks, n \in Names : HandleRenameTask(t, n)
        BY <2>5, RenameRefines DEF Abstract!Change
    <2>6. CASE \E t \in Tasks : LoseTask(t)
        <3>1. PICK t \in Tasks : t \in Connected(pool) \cap dead
                                 /\ pool' = RemoveTask(pool, t) /\ UNCHANGED dead
            BY <2>6 DEF LoseTask
        <3>2. Abstract!Remove(Abstract!RemovedWith(KeyOf(pool, t)))
            BY <3>1, TaskRemovalRefines
        <3>3. Abstract!Lose(KeyOf(pool, t))
            BY <3>1, <3>2 DEF Abstract!Lose, KeysOf
        <3> QED
            BY <2>2, <3>1, <3>3 DEF Abstract!Change
    <2>7. CASE RemoveAllTasks
        <3>1. Abstract!Remove(KeysOf(pool, Connected(pool)))
            BY <2>7, RemovalRefines DEF RemoveAllTasks
        <3> QED
            BY <3>1 DEF Abstract!Change, Abstract!RemoveAll
    <2>8. CASE ReportTasks
        <3>1. Abstract!Remove(Abstract!Inactive)
            BY <2>8, SweepRefines DEF ReportTasks
        <3> QED
            BY <3>1 DEF Abstract!Change, Abstract!Sweep
    <2>9. CASE \E pid \in Pids : ProcessExits(pid)
        BY <2>9, ExitRefines DEF Abstract!Change
    <2>10. CASE \E t \in Tasks : ClientStalls(t)
        BY <2>10, StallRefines DEF Abstract!Change
    <2>11. CASE \E t \in Tasks : ClientRecovers(t)
        BY <2>11, RecoverRefines DEF Abstract!Change
    <2> QED
        BY <1>2, <2>3, <2>4, <2>5, <2>6, <2>7, <2>8, <2>9, <2>10, <2>11 DEF Next
<1> QED
    BY <1>1, <1>2

(***************************************************************************)
(* Whatever happens to identifiers, objects, the map and groups, what the  *)
(* rest of the daemon sees of its clients is as ClientsSpec has it.        *)
(***************************************************************************)
THEOREM TableIsOfClients ==
    Spec => Implements
<1>1. Init => Abstract!Init
    BY InitiallyRefines
<1>2. IInv /\ [Next]_vars => [Abstract!Next]_(Abstract!vars)
    <2>1. IInv /\ UNCHANGED vars => UNCHANGED Abstract!vars
        BY DEF vars, Abstract!vars
    <2> QED
        BY <2>1, StepRefines
<1> QED
    BY <1>1, <1>2, Inductive, PTL DEF Spec, Implements, Abstract!Spec
=============================================================================
