--------------------------- MODULE DispatchProofs ---------------------------
(***************************************************************************)
(* Which task pool and which node what comes from the network is taken to, *)
(* whatever the node table goes through, for any nodes, names, addresses,  *)
(* packets and tables.                                                     *)
(*                                                                         *)
(* The inductive invariants are about a value of the daemon's tables, so   *)
(* that they can be stated of the values a handler goes through on its     *)
(* way: each entry of a table takes good tables to good ones, and so does  *)
(* each part of a handler.                                                 *)
(*                                                                         *)
(* Work for a node that moves is ended because a node in use, once known,  *)
(* stays known (UnusedUnknown, Drops), so that some update saw it move.    *)
(* Replies are found because each is in the pool of its server node or in  *)
(* that of the host (Placed), where its request has no other (Single), and *)
(* because neither the names of our nodes nor which of them is our node by *)
(* default change under a reply: both come from entries that agree with    *)
(* each other (OwnKnown, Named, Steady).                                   *)
(***************************************************************************)
EXTENDS Dispatch, FiniteSetTheorems, SequenceTheorems, TLAPS

Requests == [slot : Slots, node : Nodes, addr : Addrs \cup {NoAddr}]

Replies == [slot : Slots, client : Nodes \cup {Blank}, id : ReqIds, server : Nodes \cup {Blank}]

Daemons ==
    [name   : [Nodes -> Names \cup {Illegal}],
     addr   : [Nodes -> Addrs \cup {NoAddr}],
     myNode : Nodes \cup {Blank},
     myIp   : Addrs \cup {NoAddr},
     loaded : BOOLEAN,
     pools  : [Names -> Nodes \cup {Blank}],
     listening : SUBSET Names,
     reqs   : [Names -> SUBSET Requests],
     rpys   : [Names -> SUBSET Replies]]

LEMMA ParametersAre ==
    /\ Nodes \subseteq Nat /\ Blank \notin Nodes /\ McNode \in Nodes
    /\ {HostName, TempName, "MCAST"} \subseteq Names
    /\ Illegal \notin Names /\ NoName \notin Names /\ Illegal # NoName
    /\ MyAddr \in Addrs /\ McAddr \in Addrs /\ NoAddr \notin Addrs
    /\ Packets \subseteq Headers /\ Answers \subseteq Headers
    /\ Asked \subseteq Nodes /\ ReqIds \subseteq Nat /\ Slots \subseteq Nat
    /\ Writes \subseteq Seq(Updates) /\ Changes \subseteq Updates
BY NodesAssumption, NamesAssumption, AddrsAssumption, PacketsAssumption, SlotsAssumption,
   UpdatesAssumption
   DEF Blank, Illegal, NoName

-----------------------------------------------------------------------------
(* Induction over numbers. *)

LEMMA LeastNumber ==
    ASSUME NEW K \in SUBSET Nat, K # {}
    PROVE  \E x \in K : \A y \in K : x <= y
<1> DEFINE Below == {0..x : x \in K}
<1>1. \A x \in K : 0..x \in SUBSET Nat /\ IsFiniteSet(0..x)
    BY FS_Interval
<1>2. Below \subseteq FiniteSubsetsOf(Nat) /\ Below # {}
    BY <1>1 DEF FiniteSubsetsOf
<1> HIDE DEF Below
<1>3. PICK b \in Below : \A c \in Below : <<c, b>> \notin StrictSubsetOrdering(Nat)
    BY <1>2, FS_StrictSubsetOrderingWellFounded, WFMin
<1>4. PICK x \in K : b = 0..x
    BY DEF Below
<1>5. ASSUME NEW y \in K, y < x
      PROVE  FALSE
    <2>1. 0..y \subseteq 0..x /\ x \notin 0..y /\ x \in 0..x
        BY <1>5
    <2>2. <<0..y, 0..x>> \in StrictSubsetOrdering(Nat)
        BY <2>1 DEF StrictSubsetOrdering
    <2> QED
        BY <1>3, <1>4, <2>2 DEF Below
<1> QED
    BY <1>5

(***************************************************************************)
(* Induction over a set: one that holds 0, and the successor of each of    *)
(* its members, holds every natural number.                                *)
(***************************************************************************)
LEMMA SetInduction ==
    ASSUME NEW K, 0 \in K, \A k \in K \cap Nat : k + 1 \in K
    PROVE  \A n \in Nat : n \in K
<1> SUFFICES ASSUME Nat \ K # {}
             PROVE  FALSE
    OBVIOUS
<1>1. PICK x \in Nat \ K : \A y \in Nat \ K : x <= y
    BY LeastNumber
<1>2. x # 0 /\ x - 1 \in Nat /\ x - 1 \notin Nat \ K
    BY <1>1
<1> QED
    BY <1>1, <1>2

-----------------------------------------------------------------------------
(* A step of the daemon that leaves the node table alone, and adds nothing *)
(* to the pools.                                                           *)

SameNodes(s, t) ==
    t.name = s.name /\ t.addr = s.addr /\ t.myNode = s.myNode /\ t.myIp = s.myIp

FewerRequests(s, t) == \A p \in Names : t.reqs[p] \subseteq s.reqs[p]

FewerReplies(s, t) == \A p \in Names : t.rpys[p] \subseteq s.rpys[p]

FewerWork(s, t) == FewerRequests(s, t) /\ FewerReplies(s, t)

MorePools(s, t) == \A p \in Names : s.pools[p] # Blank => t.pools[p] # Blank

Keeps(s, t) == t \in Daemons /\ SameNodes(s, t) /\ FewerWork(s, t) /\ MorePools(s, t)

LEMMA KeepsAll ==
    ASSUME NEW s \in Daemons
    PROVE  Keeps(s, s)
BY DEF Keeps, SameNodes, FewerWork, FewerRequests, FewerReplies, MorePools

LEMMA KeepsOn ==
    ASSUME NEW s, NEW t, NEW u, Keeps(s, t), Keeps(t, u)
    PROVE  Keeps(s, u)
<1>1. SameNodes(s, u)
    BY DEF Keeps, SameNodes
<1>2. FewerWork(s, u)
    BY DEF Keeps, FewerWork, FewerRequests, FewerReplies
<1>3. MorePools(s, u)
    BY DEF Keeps, MorePools
<1> QED
    BY <1>1, <1>2, <1>3 DEF Keeps

LEMMA WithPoolKeeps ==
    ASSUME NEW s \in Daemons, NEW n
    PROVE  Keeps(s, WithPool(s, n))
<1> USE ParametersAre
<1>1. CASE PoolOf(s, n) \in Names \ Pools(s)
    <2>1. n \in Nodes /\ s.name[n] \in Names
        BY <1>1 DEF PoolOf, Known, Daemons
    <2> DEFINE t == [s EXCEPT !.pools[s.name[n]] = n]
    <2>2. WithPool(s, n) = t
        BY <1>1 DEF WithPool
    <2>3. t \in Daemons
        BY <2>1 DEF Daemons
    <2>4. /\ SameNodes(s, t) /\ t.rpys = s.rpys /\ t.reqs = s.reqs
          /\ \A p \in Names : t.pools[p] = IF p = s.name[n] THEN n ELSE s.pools[p]
        BY <2>1 DEF Daemons, SameNodes
    <2>5. FewerWork(s, t)
        BY <2>4 DEF FewerWork, FewerRequests, FewerReplies
    <2>6. MorePools(s, t)
        BY <2>1, <2>4 DEF MorePools
    <2> QED
        BY <2>2, <2>3, <2>4, <2>5, <2>6 DEF Keeps
<1>2. CASE ~(PoolOf(s, n) \in Names \ Pools(s))
    BY <1>2, KeepsAll DEF WithPool
<1> QED
    BY <1>1, <1>2

(***************************************************************************)
(* The work for a node, and that each pool which has some loses some.      *)
(***************************************************************************)
EndsWork(s, t, n) ==
    \A p \in Names : /\ LosesOne(RequestsTo(s, p, n), t.reqs[p])
                     /\ LosesOne(RepliesTo(s, p, n), t.rpys[p])

LEMMA FirstIsSome ==
    ASSUME NEW R, R # {}, \A r \in R : r.slot \in Slots
    PROVE  FirstOf(R, 1) # {}
<1> DEFINE K == {r.slot : r \in R}
<1>1. K \in SUBSET Nat /\ K # {}
    BY ParametersAre
<1>2. PICK x \in K : \A y \in K : x <= y
    BY <1>1, LeastNumber
<1>3. PICK r \in R : r.slot = x
    BY <1>2
<1>4. \A q \in R : q.slot \in Nat /\ r.slot <= q.slot
    BY <1>1, <1>2, <1>3
<1>5. {q \in R : q.slot < r.slot} = {}
    BY <1>3, <1>4
<1>6. Cardinality({q \in R : q.slot < r.slot}) < 1
    BY <1>5, FS_EmptySet
<1> QED
    BY <1>3, <1>6 DEF FirstOf

LEMMA CancelToNodeKeeps ==
    ASSUME NEW s \in Daemons, NEW n \in Nodes, NEW times
    PROVE  /\ Keeps(s, CancelToNode(s, n, times))
           /\ CancelToNode(s, n, times).pools = s.pools
           /\ \A p \in Names :
                  /\ CancelToNode(s, n, times).reqs[p] = s.reqs[p] \ FirstOf(RequestsTo(s, p, n), times)
                  /\ CancelToNode(s, n, times).rpys[p] = s.rpys[p] \ FirstOf(RepliesTo(s, p, n), times)
<1> DEFINE t == CancelToNode(s, n, times)
           asked_of == [p \in Names |-> FirstOf(RequestsTo(s, p, n), times)]
           owed == [p \in Names |-> FirstOf(RepliesTo(s, p, n), times)]
<1>1. t = [s EXCEPT !.reqs = [p \in Names |-> s.reqs[p] \ asked_of[p]],
                    !.rpys = [p \in Names |-> s.rpys[p] \ owed[p]]]
    BY DEF CancelToNode
<1> HIDE DEF asked_of, owed, t
<1>2. /\ t.reqs = [p \in Names |-> s.reqs[p] \ asked_of[p]]
      /\ t.rpys = [p \in Names |-> s.rpys[p] \ owed[p]]
      /\ SameNodes(s, t) /\ t.pools = s.pools /\ t.listening = s.listening /\ t.loaded = s.loaded
    BY <1>1 DEF Daemons, SameNodes
<1>3. t.reqs \in [Names -> SUBSET Requests]
    BY <1>2 DEF Daemons
<1>4. t.rpys \in [Names -> SUBSET Replies]
    BY <1>2 DEF Daemons
<1>5. t \in Daemons
    BY <1>1, <1>2, <1>3, <1>4 DEF Daemons, SameNodes
<1>6. FewerWork(s, t)
    BY <1>2 DEF FewerWork, FewerRequests, FewerReplies, Daemons
<1>7. MorePools(s, t)
    BY <1>2 DEF MorePools
<1> QED
    BY <1>2, <1>5, <1>6, <1>7 DEF Keeps, t, asked_of, owed

LEMMA CancelToNodeEnds ==
    ASSUME NEW s \in Daemons, NEW n \in Nodes
    PROVE  EndsWork(s, CancelToNode(s, n, 1), n)
<1> SUFFICES ASSUME NEW p \in Names
             PROVE  /\ LosesOne(RequestsTo(s, p, n), CancelToNode(s, n, 1).reqs[p])
                    /\ LosesOne(RepliesTo(s, p, n), CancelToNode(s, n, 1).rpys[p])
    BY DEF EndsWork
<1>1. /\ CancelToNode(s, n, 1).reqs[p] = s.reqs[p] \ FirstOf(RequestsTo(s, p, n), 1)
      /\ CancelToNode(s, n, 1).rpys[p] = s.rpys[p] \ FirstOf(RepliesTo(s, p, n), 1)
    BY CancelToNodeKeeps
<1>2. \A R : FirstOf(R, 1) \subseteq R
    BY DEF FirstOf
<1>3. \A r \in RequestsTo(s, p, n) \cup RepliesTo(s, p, n) : r.slot \in Slots
    BY DEF RequestsTo, RepliesTo, Daemons, Requests, Replies
<1>4. LosesOne(RequestsTo(s, p, n), CancelToNode(s, n, 1).reqs[p])
    BY <1>1, <1>2, <1>3, FirstIsSome DEF LosesOne
<1>5. LosesOne(RepliesTo(s, p, n), CancelToNode(s, n, 1).rpys[p])
    BY <1>1, <1>2, <1>3, FirstIsSome DEF LosesOne
<1> QED
    BY <1>4, <1>5

-----------------------------------------------------------------------------
(* An entry of the node table. *)

Erases(s, n, name, a) == NewName(s, name, a) = NoName /\ a = NoAddr

(***************************************************************************)
(* What updateAddr makes of the entry, and of our node.                    *)
(***************************************************************************)
Entered(s, t, n, name, a) ==
    /\ \A m \in Nodes \ {n} : t.name[m] = s.name[m] /\ t.addr[m] = s.addr[m]
    /\ t.name[n] = IF Erases(s, n, name, a) THEN Illegal
                   ELSE IF NewName(s, name, a) = NoName THEN s.name[n] ELSE NewName(s, name, a)
    /\ t.addr[n] = IF a = NoAddr THEN s.addr[n] ELSE a
    /\ t.myNode = IF a = s.myIp /\ (s.myNode = Blank \/ NewName(s, name, a) = HostName)
                  THEN n ELSE s.myNode
    /\ t.myIp = s.myIp

(***************************************************************************)
(* Work for the node is cancelled when its address changes.                *)
(***************************************************************************)
Cancels(s, t, n, name, a) ==
    Known(s, n) /\ s.addr[n] # a /\ ~Erases(s, n, name, a) => EndsWork(s, t, n)

LEMMA NewNameType ==
    ASSUME NEW s, NEW a, NEW name \in Names \cup {NoName, Illegal}
    PROVE  NewName(s, name, a) \in Names \cup {NoName}
BY ParametersAre DEF NewName

LEMMA WithMyNodeIs ==
    ASSUME NEW s \in Daemons, NEW n \in Nodes, NEW name, NEW a
    PROVE  /\ WithMyNode(s, n, name, a) \in Daemons
           /\ WithMyNode(s, n, name, a).myNode =
                  IF a = s.myIp /\ (s.myNode = Blank \/ name = HostName) THEN n ELSE s.myNode
           /\ WithMyNode(s, n, name, a).name = s.name /\ WithMyNode(s, n, name, a).addr = s.addr
           /\ WithMyNode(s, n, name, a).myIp = s.myIp
           /\ WithMyNode(s, n, name, a).rpys = s.rpys /\ WithMyNode(s, n, name, a).reqs = s.reqs
           /\ WithMyNode(s, n, name, a).pools = s.pools
BY DEF WithMyNode, Daemons

LEMMA UpdateIs ==
    ASSUME NEW s \in Daemons, NEW n \in Nodes, NEW name \in Names \cup {NoName, Illegal},
           NEW a \in Addrs \cup {NoAddr}
    PROVE  /\ Update(s, n, name, a) \in Daemons
           /\ Update(s, n, name, a).name =
                  [s.name EXCEPT ![n] = IF name = NoName THEN s.name[n] ELSE name]
           /\ Update(s, n, name, a).addr =
                  [s.addr EXCEPT ![n] = IF a = NoAddr THEN s.addr[n] ELSE a]
           /\ Update(s, n, name, a).myNode = s.myNode /\ Update(s, n, name, a).myIp = s.myIp
           /\ Update(s, n, name, a).rpys = s.rpys /\ Update(s, n, name, a).reqs = s.reqs
           /\ Update(s, n, name, a).pools = s.pools
<1> DEFINE x == IF name = NoName THEN s.name[n] ELSE name
           y == IF a = NoAddr THEN s.addr[n] ELSE a
<1>1. x \in Names \cup {Illegal} /\ y \in Addrs \cup {NoAddr}
    BY DEF Daemons
<1>2. Update(s, n, name, a) =
          [s EXCEPT !.name = [s.name EXCEPT ![n] = x], !.addr = [s.addr EXCEPT ![n] = y]]
    BY DEF Update
<1> HIDE DEF x, y
<1>3. /\ [s.name EXCEPT ![n] = x] \in [Nodes -> Names \cup {Illegal}]
      /\ [s.addr EXCEPT ![n] = y] \in [Nodes -> Addrs \cup {NoAddr}]
    BY <1>1 DEF Daemons
<1>4. Update(s, n, name, a) \in Daemons
    BY <1>2, <1>3 DEF Daemons
<1> QED
    BY <1>2, <1>4 DEF Daemons, x, y

LEMMA UpdateAddrIs ==
    ASSUME NEW s \in Daemons, NEW n \in Nodes,
           NEW name \in Names \cup {NoName, Illegal}, NEW a \in Addrs \cup {NoAddr}
    PROVE  /\ UpdateAddr(s, n, name, a) \in Daemons
           /\ Entered(s, UpdateAddr(s, n, name, a), n, name, a)
           /\ Cancels(s, UpdateAddr(s, n, name, a), n, name, a)
           /\ FewerWork(s, UpdateAddr(s, n, name, a))
           /\ UpdateAddr(s, n, name, a).pools = s.pools
<1> DEFINE nm == NewName(s, name, a)
           t == WithMyNode(s, n, nm, a)
           u == IF Known(t, n) /\ t.addr[n] # a THEN CancelToNode(t, n, 1) ELSE t
           v == UpdateAddr(s, n, name, a)
<1>1. n # Blank /\ nm \in Names \cup {NoName}
    BY ParametersAre, NewNameType
<1>2. v = IF nm = NoName /\ a = NoAddr THEN Update(t, n, Illegal, NoAddr)
          ELSE Update(u, n, nm, a)
    BY <1>1 DEF UpdateAddr
<1>3. /\ t \in Daemons /\ t.name = s.name /\ t.addr = s.addr /\ t.myIp = s.myIp
      /\ t.rpys = s.rpys /\ t.reqs = s.reqs /\ t.pools = s.pools
      /\ t.myNode = IF a = s.myIp /\ (s.myNode = Blank \/ nm = HostName) THEN n ELSE s.myNode
    BY WithMyNodeIs
<1> HIDE DEF nm, t
<1>4. /\ u \in Daemons /\ SameNodes(t, u) /\ FewerWork(t, u) /\ u.pools = t.pools
      /\ Known(t, n) /\ t.addr[n] # a => EndsWork(t, u, n)
    BY <1>3, CancelToNodeKeeps, CancelToNodeEnds, KeepsAll DEF Keeps
<1> HIDE DEF u, v
<1>5. CASE nm = NoName /\ a = NoAddr
    <2>1. v = Update(t, n, Illegal, NoAddr) /\ Erases(s, n, name, a)
        BY <1>2, <1>5 DEF Erases, nm
    <2>2. /\ v \in Daemons /\ v.name = [s.name EXCEPT ![n] = Illegal]
          /\ v.addr = [s.addr EXCEPT ![n] = s.addr[n]]
          /\ v.myNode = t.myNode /\ v.myIp = t.myIp /\ v.rpys = s.rpys /\ v.reqs = s.reqs
          /\ v.pools = s.pools
        BY <1>3, <2>1, UpdateIs, ParametersAre
    <2>3. Entered(s, v, n, name, a)
        BY <1>3, <1>5, <2>1, <2>2 DEF Entered, Daemons, nm
    <2>4. FewerWork(s, v)
        BY <2>2 DEF FewerWork, FewerRequests, FewerReplies
    <2>5. Cancels(s, v, n, name, a)
        BY <2>1 DEF Cancels
    <2> QED
        BY <2>2, <2>3, <2>4, <2>5 DEF v
<1>6. CASE ~(nm = NoName /\ a = NoAddr)
    <2>1. v = Update(u, n, nm, a) /\ ~Erases(s, n, name, a)
        BY <1>2, <1>6 DEF Erases, nm
    <2>2. /\ v \in Daemons
          /\ v.name = [s.name EXCEPT ![n] = IF nm = NoName THEN s.name[n] ELSE nm]
          /\ v.addr = [s.addr EXCEPT ![n] = IF a = NoAddr THEN s.addr[n] ELSE a]
          /\ v.myNode = t.myNode /\ v.myIp = t.myIp /\ v.rpys = u.rpys /\ v.reqs = u.reqs
          /\ v.pools = s.pools
        <3>1. n \in Nodes /\ a \in Addrs \cup {NoAddr} /\ n # Blank
            BY <1>1, ParametersAre
        <3>2. /\ u \in Daemons /\ u.name = s.name /\ u.addr = s.addr
              /\ u.myNode = t.myNode /\ u.myIp = t.myIp /\ u.pools = s.pools
            BY <1>3, <1>4 DEF SameNodes
        <3>3. /\ v \in Daemons
              /\ v.name = [u.name EXCEPT ![n] = IF nm = NoName THEN u.name[n] ELSE nm]
              /\ v.addr = [u.addr EXCEPT ![n] = IF a = NoAddr THEN u.addr[n] ELSE a]
              /\ v.myNode = u.myNode /\ v.myIp = u.myIp /\ v.rpys = u.rpys /\ v.reqs = u.reqs
              /\ v.pools = u.pools
            BY <1>1, <2>1, <3>1, <3>2, UpdateIs
        <3> QED
            BY <3>2, <3>3
    <2>3. Entered(s, v, n, name, a)
        BY <1>3, <2>1, <2>2 DEF Entered, Daemons, nm
    <2>4. FewerWork(s, v)
        BY <1>3, <1>4, <2>2 DEF FewerWork, FewerRequests, FewerReplies
    <2>5. Cancels(s, v, n, name, a)
        BY <1>3, <1>4, <2>1, <2>2 DEF Cancels, Known, EndsWork, RequestsTo, RepliesTo
    <2> QED
        BY <2>2, <2>3, <2>4, <2>5 DEF v
<1> QED
    BY <1>5, <1>6

(***************************************************************************)
(* The states between the entries of a write.                              *)
(***************************************************************************)
Written(F, s, write, n) ==
    /\ F[0] = s
    /\ \A k \in 1..n : F[k] = UpdateAddr(F[k - 1], write[k].node, write[k].name, write[k].addr)

LEMMA WriteTableIs ==
    ASSUME NEW T, NEW write \in Seq(T), NEW s
    PROVE  \E F : Written(F, s, write, Len(write)) /\ WriteTable(s, write) = F[Len(write)]
<1> DEFINE Body(f, n) ==
               [k \in 0..n |-> IF k = 0 THEN s
                               ELSE UpdateAddr(f[k - 1],
                                                         write[k].node, write[k].name, write[k].addr)]
           K == {n \in Nat : \E f : f = Body(f, n)}
<1>1. 0 \in K
    <2>1. [k \in 0..0 |-> s] = Body([k \in 0..0 |-> s], 0)
        OBVIOUS
    <2> QED
        BY <2>1
<1>2. ASSUME NEW n \in K \cap Nat
      PROVE  n + 1 \in K
    <2>1. PICK f : f = Body(f, n)
        OBVIOUS
    <2> DEFINE x == UpdateAddr(f[n], write[n + 1].node, write[n + 1].name, write[n + 1].addr)
               g == [k \in 0..(n + 1) |-> IF k <= n THEN f[k] ELSE x]
    <2>2. \A k \in 0..n : f[k] = IF k = 0 THEN s
                                 ELSE UpdateAddr(f[k - 1],
                                                           write[k].node, write[k].name, write[k].addr)
        BY <2>1, Zenon
    <2>3. \A k \in 0..(n + 1) :
              g[k] = IF k = 0 THEN s
                     ELSE UpdateAddr(g[k - 1], write[k].node, write[k].name, write[k].addr)
        <3> TAKE k \in 0..(n + 1)
        <3>1. CASE k <= n
            <4>1. k \in 0..n /\ g[k] = f[k] /\ (k # 0 => g[k - 1] = f[k - 1])
                BY <3>1
            <4> QED
                BY <2>2, <4>1
        <3>2. CASE ~(k <= n)
            BY <3>2
        <3> QED
            BY <3>1, <3>2
    <2>4. g = Body(g, n + 1)
        BY <2>3, Zenon
    <2>5. n + 1 \in Nat
        OBVIOUS
    <2> HIDE DEF g
    <2> QED
        BY <2>4, <2>5, Zenon
<1> HIDE DEF K
<1>3. Len(write) \in K
    BY <1>1, <1>2, SetInduction
<1> DEFINE F == CHOOSE f : f = Body(f, Len(write))
<1>4. F = Body(F, Len(write))
    BY <1>3 DEF K
<1>5. WriteTable(s, write) = F[Len(write)]
    BY DEF WriteTable
<1> HIDE DEF F
<1>6. \A k \in 0..Len(write) :
          F[k] = IF k = 0 THEN s
                 ELSE UpdateAddr(F[k - 1], write[k].node, write[k].name, write[k].addr)
    BY <1>4, Zenon
<1>7. Written(F, s, write, Len(write))
    BY <1>6 DEF Written
<1> QED
    BY <1>5, <1>7

-----------------------------------------------------------------------------
(* Packets. *)

(***************************************************************************)
(* A node is entered provisionally when the table has not arrived and the  *)
(* node is not known.                                                      *)
(***************************************************************************)
Provisional(s, t, n, a) ==
    /\ n # Blank /\ ~Known(s, n)
    /\ t = UpdateAddr(s, n, Illegal, a)

LEMMA IpAddressIs ==
    ASSUME NEW s, NEW n, NEW def, NEW temp
    PROVE  \/ IpAddress(s, n, def, temp).s = s
           \/ temp /\ ~s.loaded /\ Provisional(s, IpAddress(s, n, def, temp).s, n, def)
BY DEF IpAddress, AddsTemporarily, Provisional

(***************************************************************************)
(* The states that the node of the client, and that of the server, leave   *)
(* behind.                                                                 *)
(***************************************************************************)
LEMMA AdmitIs ==
    ASSUME NEW pkt, NEW temp
    PROVE  \E b :
               /\ b = d \/ (temp /\ ~d.loaded /\ Provisional(d, b, pkt.client, pkt.ip))
               /\ \/ Admit(pkt, temp).s = b
                  \/ temp /\ ~b.loaded /\ Provisional(b, Admit(pkt, temp).s, pkt.server, b.myIp)
<1> DEFINE c == IpAddress(d, pkt.client, pkt.ip, temp)
           v == IpAddress(c.s, pkt.server, c.s.myIp, temp)
<1>1. Admit(pkt, temp).s \in {c.s, v.s}
    BY DEF Admit
<1>2. c.s = d \/ (temp /\ ~d.loaded /\ Provisional(d, c.s, pkt.client, pkt.ip))
    BY IpAddressIs
<1>3. v.s = c.s \/ (temp /\ ~c.s.loaded /\ Provisional(c.s, v.s, pkt.server, c.s.myIp))
    BY IpAddressIs
<1> HIDE DEF c, v
<1> QED
    BY <1>1, <1>2, <1>3

LEMMA RouteKeeps ==
    ASSUME NEW s \in Daemons, NEW mcast, NEW server, NEW T
    PROVE  Keeps(s, Route(s, mcast, server, T).s)
<1> DEFINE t == WithPool(s, server)
<1>1. Keeps(s, s) /\ Keeps(s, t)
    BY KeepsAll, WithPoolKeeps
<1>2. Keeps(t, WithPool(t, t.myNode))
    BY <1>1, WithPoolKeeps DEF Keeps
<1>3. Keeps(s, WithPool(t, t.myNode))
    BY <1>1, <1>2, KeepsOn
<1>4. Route(s, mcast, server, T).s \in {s, t, WithPool(t, t.myNode)}
    BY DEF Route
<1> HIDE DEF t
<1> QED
    BY <1>1, <1>3, <1>4

LEMMA CancelPoolsKeeps ==
    ASSUME NEW s \in Daemons, NEW mcast, NEW client, NEW id, NEW server
    PROVE  Keeps(s, CancelPools(s, mcast, client, id, server).s)
<1> DEFINE t == WithPool(s, server)
<1>1. Keeps(s, s) /\ Keeps(s, t)
    BY KeepsAll, WithPoolKeeps
<1>2. Keeps(t, WithPool(t, t.myNode))
    BY <1>1, WithPoolKeeps DEF Keeps
<1>3. Keeps(s, WithPool(t, t.myNode))
    BY <1>1, <1>2, KeepsOn
<1>4. CancelPools(s, mcast, client, id, server).s \in {s, t, WithPool(t, t.myNode)}
    BY DEF CancelPools
<1> HIDE DEF t
<1> QED
    BY <1>1, <1>3, <1>4

-----------------------------------------------------------------------------
(* The handlers, as far as they leave the node table alone. *)

LEMMA FirstIs ==
    ASSUME NEW S \in SUBSET Nodes
    PROVE  FirstOr(S) \in Nodes \cup {Blank}
<1>1. CASE S = {}
    BY <1>1 DEF FirstOr
<1>2. CASE S # {}
    <2>1. S \in SUBSET Nat
        BY ParametersAre
    <2>2. \E n \in S : \A m \in S : n <= m
        BY <1>2, <2>1, LeastNumber
    <2>3. Lowest(S) \in S
        BY <2>2 DEF Lowest
    <2> QED
        BY <1>2, <2>3 DEF FirstOr
<1> QED
    BY <1>1, <1>2

LEMMA AdmitNode ==
    ASSUME NEW pkt \in Headers, NEW temp
    PROVE  /\ Admit(pkt, temp).client \in Nodes \cup {Blank}
           /\ pkt.client # Blank => Admit(pkt, temp).client = pkt.client
<1> DEFINE c == IpAddress(d, pkt.client, pkt.ip, temp)
<1>1. Admit(pkt, temp).client = c.node
    BY DEF Admit
<1>2. AddrLookup(d, pkt.ip) \in Nodes \cup {Blank}
    BY FirstIs DEF AddrLookup
<1>3. pkt.client \in Nodes \cup {Blank}
    BY DEF Headers
<1>4. c.node \in Nodes \cup {Blank} /\ (pkt.client # Blank => c.node = pkt.client)
    BY <1>2, <1>3 DEF IpAddress
<1> QED
    BY <1>1, <1>4

(***************************************************************************)
(* A request that is taken adds a reply to the pools it is routed to.      *)
(***************************************************************************)
IsReplyTo(r, pkt, id, mult) ==
    r.client = Admit(pkt, ~mult).client /\ r.id = id /\ r.server = pkt.server

Routed(pkt, mult) ==
    Route(Admit(pkt, ~mult).s, Admit(pkt, ~mult).mcast, pkt.server, Admit(pkt, ~mult).s.listening)

Takes(s, pkt, id, mult) ==
    /\ Admit(pkt, ~mult).ok /\ s.loaded
    /\ d' \in Daemons /\ SameNodes(s, d') /\ FewerRequests(s, d') /\ MorePools(s, d')
    /\ \A p \in Names : \A r \in d'.rpys[p] :
           r \in s.rpys[p] \/ (p \in Routed(pkt, mult).pools /\ IsReplyTo(r, pkt, id, mult))
    /\ \A p \in Names : Routed(pkt, mult).s.pools[p] = d'.pools[p]

LEMMA RequestTakes ==
    ASSUME NEW pkt \in Headers, NEW id \in ReqIds, NEW mult,
           NEW s \in Daemons, s = Admit(pkt, ~mult).s,
           HandleAcnetRequest(pkt, id, mult)
    PROVE  d' = s \/ Takes(s, pkt, id, mult)
<1> DEFINE a == Admit(pkt, ~mult)
           route == Routed(pkt, mult)
<1>1. CASE ~a.ok \/ ~s.loaded
    BY <1>1 DEF HandleAcnetRequest
<1>2. CASE a.ok /\ s.loaded
    <2> DEFINE t == route.s
               takers == {p \in route.pools \cap t.listening : Free(t.rpys[p]) # {}}
               Reply(x) == [slot |-> x, client |-> a.client, id |-> id, server |-> pkt.server]
    <2>1. PICK slot \in [takers -> Slots] :
              d' = [t EXCEPT !.rpys =
                       [p \in Names |-> IF p \in takers THEN @[p] \cup {Reply(slot[p])} ELSE @[p]]]
        BY <1>2 DEF HandleAcnetRequest, Routed
    <2>2. \A x \in Slots : Reply(x) \in Replies /\ IsReplyTo(Reply(x), pkt, id, mult)
        BY AdmitNode DEF IsReplyTo, Replies, Headers
    <2>3. Keeps(s, t)
        BY RouteKeeps DEF Routed
    <2> DEFINE added == [p \in Names |-> IF p \in takers THEN {Reply(slot[p])} ELSE {}]
    <2>4. t \in Daemons /\ SameNodes(s, t) /\ FewerWork(s, t) /\ MorePools(s, t)
        BY <2>3 DEF Keeps
    <2>5. \A p \in takers : slot[p] \in Slots /\ p \in route.pools
        BY <2>1
    <2>6. \A p \in Names : \A r \in added[p] :
              r \in Replies /\ p \in route.pools /\ IsReplyTo(r, pkt, id, mult)
        BY <2>2, <2>5
    <2>7. d' = [t EXCEPT !.rpys = [p \in Names |-> t.rpys[p] \cup added[p]]]
        <3>1. \A p \in Names : (IF p \in takers THEN t.rpys[p] \cup {Reply(slot[p])} ELSE t.rpys[p])
                               = t.rpys[p] \cup added[p]
            OBVIOUS
        <3> QED
            BY <2>1, <3>1, Zenon
    <2> HIDE DEF t, added, takers
    <2>8. \A p \in Names : added[p] \subseteq Replies
        BY <2>6
    <2>9. /\ d' \in Daemons /\ SameNodes(t, d') /\ d'.pools = t.pools /\ d'.reqs = t.reqs
          /\ \A p \in Names : d'.rpys[p] = t.rpys[p] \cup added[p]
        BY <2>4, <2>7, <2>8 DEF Daemons, SameNodes
    <2>10. SameNodes(s, d') /\ FewerRequests(s, d') /\ MorePools(s, d')
        BY <2>4, <2>9 DEF SameNodes, FewerWork, FewerRequests, MorePools
    <2>11. \A p \in Names : \A r \in d'.rpys[p] :
               r \in s.rpys[p] \/ (p \in route.pools /\ IsReplyTo(r, pkt, id, mult))
        BY <2>4, <2>6, <2>9 DEF FewerWork, FewerReplies
    <2> QED
        BY <1>2, <2>9, <2>10, <2>11 DEF Takes, t
<1> QED
    BY <1>1, <1>2

LEMMA CancelKeeps ==
    ASSUME NEW pkt, NEW id, Admit(pkt, FALSE).s \in Daemons,
           HandleAcnetCancel(pkt, id)
    PROVE  Keeps(Admit(pkt, FALSE).s, d')
<1> DEFINE a == Admit(pkt, FALSE)
           route == CancelPools(a.s, a.mcast, a.client, id, pkt.server)
           t == route.s
           left == [p \in Names |-> IF p \in route.pools
                                        THEN {r \in t.rpys[p] : r.client # a.client \/ r.id # id}
                                        ELSE t.rpys[p]]
<1>1. Keeps(a.s, t)
    BY CancelPoolsKeeps
<1>2. d' = [t EXCEPT !.rpys = left]
    BY DEF HandleAcnetCancel
<1>3. \A p \in Names : left[p] \subseteq t.rpys[p]
    OBVIOUS
<1>4. left = [p \in Names |-> left[p]]
    OBVIOUS
<1> HIDE DEF left, t
<1>5. t \in Daemons
    BY <1>1 DEF Keeps
<1>6. left \in [Names -> SUBSET Replies]
    BY <1>3, <1>4, <1>5 DEF Daemons
<1>7. Keeps(t, d')
    BY <1>2, <1>3, <1>5, <1>6
    DEF Keeps, SameNodes, FewerWork, FewerRequests, FewerReplies, MorePools, Daemons
<1> QED
    BY <1>1, <1>7, KeepsOn

LEMMA ReplyKeeps ==
    ASSUME NEW pkt \in Headers, Admit(pkt, FALSE).s \in Daemons,
           HandleAcnetReply(pkt)
    PROVE  Keeps(Admit(pkt, FALSE).s, d')
<1> DEFINE a == Admit(pkt, FALSE)
           t == WithPool(a.s, a.client)
           p == PoolOf(a.s, a.client)
<1>1. Keeps(a.s, t) /\ t \in Daemons
    BY WithPoolKeeps DEF Keeps
<1>2. \/ d' = t
      \/ p # NoName /\ \E r : d' = [t EXCEPT !.reqs[p] = t.reqs[p] \ {r}]
    BY DEF HandleAcnetReply
<1>3. p # NoName => p \in Names
    BY DEF PoolOf, Known, Daemons
<1> HIDE DEF t, p
<1>4. Keeps(t, d')
    <2>1. CASE d' = t
        BY <1>1, <2>1, KeepsAll
    <2>2. CASE p \in Names /\ \E r : d' = [t EXCEPT !.reqs[p] = t.reqs[p] \ {r}]
        <3>1. PICK r : d' = [t EXCEPT !.reqs[p] = t.reqs[p] \ {r}]
            BY <2>2
        <3> DEFINE left == t.reqs[p] \ {r}
        <3>2. left \subseteq t.reqs[p] /\ left \subseteq Requests
            BY <1>1, <2>2 DEF Daemons
        <3>3. d' = [t EXCEPT !.reqs[p] = left]
            BY <3>1
        <3> HIDE DEF left
        <3> QED
            BY <1>1, <2>2, <3>2, <3>3
            DEF Keeps, SameNodes, FewerWork, FewerRequests, FewerReplies, MorePools, Daemons
    <2> QED
        BY <1>2, <1>3, <2>1, <2>2
<1> QED
    BY <1>1, <1>4, KeepsOn

(***************************************************************************)
(* What clients do, apart from AddNode and sending requests.               *)
(***************************************************************************)
LEMMA ConnectKeeps ==
    ASSUME d \in Daemons, NEW name, Connect(name)
    PROVE  Keeps(d, d')
<1> DEFINE t == WithPoolFor(d, name)
           p == PoolFor(d, name)
<1>1. Keeps(d, t) /\ t \in Daemons
    BY WithPoolKeeps, KeepsAll DEF WithPoolFor, Keeps
<1>2. d' = [t EXCEPT !.listening = t.listening \cup {p}] /\ p # NoName
    BY DEF Connect
<1>3. p \in Names
    BY <1>2 DEF PoolFor, Pools, PoolOf, Known, Daemons
<1> HIDE DEF t, p
<1>4. Keeps(t, d')
    BY <1>1, <1>2, <1>3
    DEF Keeps, SameNodes, FewerWork, FewerRequests, FewerReplies, MorePools, Daemons
<1> QED
    BY <1>1, <1>4, KeepsOn

LEMMA DisconnectKeeps ==
    ASSUME d \in Daemons, NEW p \in Names, Disconnect(p)
    PROVE  Keeps(d, d')
BY DEF Disconnect, Keeps, SameNodes, FewerWork, FewerRequests, FewerReplies, MorePools, Daemons

LEMMA EndRequestKeeps ==
    ASSUME d \in Daemons, NEW p \in Names, NEW r, EndRequest(p, r)
    PROVE  Keeps(d, d')
BY DEF EndRequest, Keeps, SameNodes, FewerWork, FewerRequests, FewerReplies, MorePools, Daemons

LEMMA SendLastReplyKeeps ==
    ASSUME d \in Daemons, NEW p \in Names, NEW r, SendLastReply(p, r)
    PROVE  Keeps(d, d')
BY DEF SendLastReply, Keeps, SameNodes, FewerWork, FewerRequests, FewerReplies, MorePools, Daemons

-----------------------------------------------------------------------------
(* A node that moves. *)

(***************************************************************************)
(* A node in use stays in the table, and each pool that has work for it    *)
(* loses some if its address changes.                                      *)
(***************************************************************************)
Drops(s, t) ==
    \A n \in Nodes : Known(s, n) =>
        Known(t, n) /\ (t.addr[n] # s.addr[n] => EndsWork(s, t, n))

UnusedUnknown(s) == s \in Daemons /\ \A n \in Erased : ~Known(s, n)

Moved(s, t) == UnusedUnknown(t) /\ FewerWork(s, t) /\ Drops(s, t)

LEMMA MovedAll ==
    ASSUME NEW s, UnusedUnknown(s)
    PROVE  Moved(s, s)
BY DEF Moved, FewerWork, FewerRequests, FewerReplies, Drops

LEMMA MovedOn ==
    ASSUME NEW s, NEW t, NEW u, Moved(s, t), Moved(t, u)
    PROVE  Moved(s, u)
<1>1. FewerRequests(s, t) /\ FewerReplies(s, t) /\ FewerRequests(t, u) /\ FewerReplies(t, u)
    BY DEF Moved, FewerWork
<1>2. FewerWork(s, u)
    BY <1>1 DEF FewerWork, FewerRequests, FewerReplies
<1>3. ASSUME NEW n \in Nodes, Known(s, n)
      PROVE  Known(u, n) /\ (u.addr[n] # s.addr[n] => EndsWork(s, u, n))
    <2>1. /\ Known(t, n) /\ (t.addr[n] # s.addr[n] => EndsWork(s, t, n))
          /\ Known(u, n) /\ (u.addr[n] # t.addr[n] => EndsWork(t, u, n))
        BY <1>3 DEF Moved, Drops
    <2>2. EndsWork(s, t, n) => EndsWork(s, u, n)
        BY <1>1 DEF EndsWork, LosesOne, FewerRequests, FewerReplies
    <2>3. EndsWork(t, u, n) => EndsWork(s, u, n)
        <3> SUFFICES ASSUME EndsWork(t, u, n), NEW p \in Names
                     PROVE  /\ LosesOne(RequestsTo(s, p, n), u.reqs[p])
                            /\ LosesOne(RepliesTo(s, p, n), u.rpys[p])
            BY DEF EndsWork
        <3>1. u.reqs[p] \subseteq t.reqs[p] /\ t.reqs[p] \subseteq s.reqs[p]
              /\ u.rpys[p] \subseteq t.rpys[p] /\ t.rpys[p] \subseteq s.rpys[p]
            BY <1>1 DEF FewerRequests, FewerReplies
        <3>2. LosesOne(RequestsTo(t, p, n), u.reqs[p]) /\ LosesOne(RepliesTo(t, p, n), u.rpys[p])
            BY DEF EndsWork
        <3> QED
            BY <3>1, <3>2 DEF LosesOne, RequestsTo, RepliesTo
    <2> QED
        BY <2>1, <2>2, <2>3
<1> QED
    BY <1>2, <1>3 DEF Moved, Drops

LEMMA KeepsMoved ==
    ASSUME NEW s, NEW t, UnusedUnknown(s), Keeps(s, t)
    PROVE  Moved(s, t)
BY DEF Moved, UnusedUnknown, Keeps, SameNodes, Drops, Known

LEMMA UpdateMoved ==
    ASSUME NEW s, UnusedUnknown(s), NEW n \in Nodes \cup {Blank},
           NEW name \in Names \cup {NoName, Illegal}, NEW a \in Addrs \cup {NoAddr},
           n # Blank => (n \in Erased <=> name = NoName /\ a = NoAddr)
    PROVE  Moved(s, UpdateAddr(s, n, name, a))
<1> DEFINE t == UpdateAddr(s, n, name, a)
<1>1. CASE n = Blank
    BY <1>1, MovedAll DEF UpdateAddr
<1>2. CASE n # Blank
    <2>1. s \in Daemons /\ n \in Nodes
        BY <1>2 DEF UnusedUnknown
    <2>2. /\ t \in Daemons /\ Entered(s, t, n, name, a) /\ Cancels(s, t, n, name, a)
          /\ FewerWork(s, t)
        BY <2>1, UpdateAddrIs
    <2> HIDE DEF t
    <2>3. Erases(s, n, name, a) <=> n \in Erased
        BY <1>2, ParametersAre DEF Erases, NewName
    <2>4. NewName(s, name, a) \in Names \cup {NoName} /\ Illegal \notin Names /\ Illegal # NoName
        BY NewNameType, ParametersAre
    <2>5. \A m \in Nodes \ {n} : (Known(t, m) <=> Known(s, m)) /\ t.addr[m] = s.addr[m]
        BY <2>2 DEF Entered, Known
    <2>6. n \in Erased => ~Known(t, n)
        BY <2>2, <2>3 DEF Entered, Known
    <2>7. ASSUME Known(s, n)
          PROVE  Known(t, n) /\ (t.addr[n] # s.addr[n] => EndsWork(s, t, n))
        <3>1. ~Erases(s, n, name, a)
            BY <2>3, <2>7 DEF UnusedUnknown
        <3>2. Known(t, n)
            BY <2>1, <2>2, <2>4, <2>7, <3>1 DEF Entered, Known
        <3>3. t.addr[n] # s.addr[n] => s.addr[n] # a
            BY <2>2 DEF Entered
        <3> QED
            BY <2>2, <2>7, <3>1, <3>2, <3>3 DEF Cancels
    <2>8. Drops(s, t)
        BY <2>5, <2>7 DEF Drops
    <2>9. \A m \in Erased : ~Known(t, m)
        BY <2>5, <2>6 DEF UnusedUnknown, Known
    <2> QED
        BY <2>2, <2>8, <2>9 DEF Moved, UnusedUnknown, t
<1> QED
    BY <1>1, <1>2

LEMMA ProvisionalMoved ==
    ASSUME NEW s, UnusedUnknown(s), NEW n \in Nodes \cup {Blank}, n \notin Erased,
           NEW a \in Addrs \cup {NoAddr}, NEW t, Provisional(s, t, n, a)
    PROVE  /\ Moved(s, t)
           /\ \A m \in Nodes : Known(s, m) => Known(t, m) /\ t.addr[m] = s.addr[m]
<1>1. Illegal # NoName
    BY ParametersAre
<1>2. t = UpdateAddr(s, n, Illegal, a) /\ n \in Nodes /\ ~Known(s, n) /\ s \in Daemons
    BY DEF Provisional, UnusedUnknown
<1>3. Moved(s, t)
    BY <1>1, <1>2, UpdateMoved
<1>4. Entered(s, t, n, Illegal, a)
    BY <1>2, UpdateAddrIs
<1> QED
    BY <1>2, <1>3, <1>4 DEF Entered, Known

(***************************************************************************)
(* Looking up the nodes of a header moves none that is known.              *)
(***************************************************************************)
LEMMA AdmitMoved ==
    ASSUME OnlyUnusedErased, UnusedUnknown(d), NEW pkt \in Packets, NEW temp
    PROVE  /\ Moved(d, Admit(pkt, temp).s)
           /\ \A m \in Nodes : Known(d, m) =>
                  Known(Admit(pkt, temp).s, m) /\ Admit(pkt, temp).s.addr[m] = d.addr[m]
<1>1. PICK b : /\ b = d \/ Provisional(d, b, pkt.client, pkt.ip)
               /\ \/ Admit(pkt, temp).s = b
                  \/ Provisional(b, Admit(pkt, temp).s, pkt.server, b.myIp)
    BY AdmitIs
<1>2. pkt.client \in Nodes \cup {Blank} /\ pkt.server \in Nodes \cup {Blank} /\ pkt.ip \in Addrs
    BY ParametersAre DEF Headers
<1>3. pkt.client \notin Erased /\ pkt.server \notin Erased
    BY DEF OnlyUnusedErased
<1>4. Moved(d, b) /\ \A m \in Nodes : Known(d, m) => Known(b, m) /\ b.addr[m] = d.addr[m]
    BY <1>1, <1>2, <1>3, MovedAll, ProvisionalMoved
<1>5. UnusedUnknown(b) /\ b.myIp \in Addrs \cup {NoAddr}
    BY <1>4 DEF Moved, UnusedUnknown, Daemons
<1> DEFINE s == Admit(pkt, temp).s
<1> HIDE DEF s
<1>6. s = b \/ Provisional(b, s, pkt.server, b.myIp)
    BY <1>1 DEF s
<1>7. Moved(b, s) /\ \A m \in Nodes : Known(b, m) => Known(s, m) /\ s.addr[m] = b.addr[m]
    BY <1>2, <1>3, <1>5, <1>6, MovedAll, ProvisionalMoved
<1>8. Moved(d, s)
    BY <1>4, <1>7, MovedOn
<1> QED
    BY <1>4, <1>7, <1>8 DEF s

LEMMA EntryErases ==
    ASSUME OnlyUnusedErased, NEW e \in Entries, e.node # Blank
    PROVE  e.node \in Erased <=> e.name = NoName /\ e.addr = NoAddr
BY DEF OnlyUnusedErased, Erased, Erasing

LEMMA EntryIs ==
    ASSUME NEW write \in Writes \cup {<<c>> : c \in Changes}
    PROVE  /\ write \in Seq(Updates)
           /\ \A k \in 1..Len(write) : write[k] \in Entries /\ write[k] \in Updates
<1>1. CASE write \in Writes
    <2>1. write \in Seq(Updates)
        BY <1>1, ParametersAre
    <2>2. \A k \in 1..Len(write) : write[k] \in Range(write) /\ write[k] \in Updates
        BY <2>1 DEF Range
    <2> QED
        BY <1>1, <2>1, <2>2 DEF Entries
<1>2. CASE write \in {<<c>> : c \in Changes}
    <2>1. PICK c \in Changes : write = <<c>>
        BY <1>2
    <2>2. c \in Updates
        BY ParametersAre
    <2> QED
        BY <2>1, <2>2 DEF Entries
<1> QED
    BY <1>1, <1>2

LEMMA WriteMoved ==
    ASSUME OnlyUnusedErased, NEW write \in Writes, NEW s, UnusedUnknown(s)
    PROVE  Moved(s, WriteTable(s, write))
<1>1. /\ write \in Seq(Updates)
      /\ \A k \in 1..Len(write) : write[k] \in Entries /\ write[k] \in Updates
    BY EntryIs
<1>2. PICK F : Written(F, s, write, Len(write)) /\ WriteTable(s, write) = F[Len(write)]
    BY <1>1, WriteTableIs
<1> DEFINE K == {k \in Nat : k <= Len(write) => Moved(s, F[k])}
<1>3. 0 \in K
    BY <1>2, MovedAll DEF Written
<1>4. ASSUME NEW k \in K \cap Nat, k + 1 <= Len(write)
      PROVE  Moved(s, F[k + 1])
    <2>1. k + 1 \in 1..Len(write) /\ Moved(s, F[k])
        BY <1>1, <1>4
    <2> DEFINE e == write[k + 1]
    <2>2. F[k + 1] = UpdateAddr(F[k], e.node, e.name, e.addr)
        BY <1>2, <2>1 DEF Written
    <2>3. e \in Entries /\ e \in Updates
        BY <1>1, <2>1
    <2> HIDE DEF e
    <2>4. /\ e.node \in Nodes \cup {Blank} /\ e.name \in Names \cup {NoName, Illegal}
          /\ e.addr \in Addrs \cup {NoAddr}
          /\ e.node # Blank => (e.node \in Erased <=> e.name = NoName /\ e.addr = NoAddr)
        BY <2>3, EntryErases DEF Updates
    <2>5. Moved(F[k], F[k + 1])
        BY <2>1, <2>2, <2>4, UpdateMoved DEF Moved
    <2> QED
        BY <2>1, <2>5, MovedOn
<1>5. \A k \in K \cap Nat : k + 1 \in K
    BY <1>4
<1>6. Len(write) \in Nat
    BY <1>1
<1> HIDE DEF K
<1>7. Len(write) \in K
    BY <1>3, <1>5, <1>6, SetInduction
<1> QED
    BY <1>2, <1>6, <1>7 DEF K

LEMMA LoadedKeeps ==
    ASSUME NEW s \in Daemons
    PROVE  Keeps(s, Loaded(s))
BY DEF Loaded, Keeps, SameNodes, FewerWork, FewerRequests, FewerReplies,
       MorePools, Daemons

LEMMA TableHandlerMoved ==
    ASSUME OnlyUnusedErased, NEW write \in Writes \cup {<<>>}, NEW s, UnusedUnknown(s)
    PROVE  Moved(s, IpNodeTableHandler(s, write))
<1>1. s \in Daemons
    BY DEF UnusedUnknown
<1> QED
    BY <1>1, LoadedKeeps, KeepsMoved, WriteMoved DEF IpNodeTableHandler

LEMMA StartUnknown ==
    ASSUME OnlyUnusedErased, Init
    PROVE  UnusedUnknown(d) /\ \A p \in Names : d.reqs[p] = {}
<1>1. PICK standAlone \in BOOLEAN :
          d = [name   |-> [n \in Nodes |-> IF n = McNode THEN "MCAST" ELSE Illegal],
               addr   |-> [n \in Nodes |-> IF n = McNode THEN McAddr ELSE NoAddr],
               myNode |-> Blank, myIp |-> MyAddr, loaded |-> standAlone,
               pools  |-> [p \in Names |-> Blank], listening |-> {},
               reqs   |-> [p \in Names |-> {}],
               rpys   |-> [p \in Names |-> {}]]
    BY DEF Init
<1>2. d \in Daemons
    BY <1>1, ParametersAre DEF Daemons
<1>3. \A n \in Erased : ~Known(d, n)
    BY <1>1 DEF OnlyUnusedErased, Known
<1> QED
    BY <1>1, <1>2, <1>3 DEF UnusedUnknown

(***************************************************************************)
(* What a step makes of the daemon, unless a client sends a request.       *)
(***************************************************************************)
Steps(s, t) == UnusedUnknown(t) /\ Drops(s, t) /\ FewerRequests(s, t)

LEMMA MovedSteps ==
    ASSUME NEW s, NEW t, Moved(s, t)
    PROVE  Steps(s, t)
BY DEF Moved, Steps, FewerWork

LEMMA PacketsStep ==
    ASSUME OnlyUnusedErased, UnusedUnknown(d), HandleAcnetPacket
    PROVE  Steps(d, d')
<1>1. \A pkt \in Packets \cup Answers : pkt \in Headers
    BY ParametersAre
<1>2. ASSUME NEW pkt \in Packets, NEW temp
      PROVE  /\ Moved(d, Admit(pkt, temp).s)
             /\ UnusedUnknown(Admit(pkt, temp).s) /\ Admit(pkt, temp).s \in Daemons
    BY <1>2, AdmitMoved DEF Moved, UnusedUnknown
<1>3. ASSUME NEW pkt \in Answers, HandleAcnetReply(pkt)
      PROVE  Steps(d, d')
    <2>1. Admit(pkt, FALSE).s = d /\ d \in Daemons
        BY AdmitIs DEF UnusedUnknown
    <2>2. Keeps(d, d')
        BY <1>1, <1>3, <2>1, ReplyKeeps
    <2> QED
        BY <2>2, KeepsMoved, MovedSteps
<1>4. ASSUME NEW pkt \in Packets, NEW id \in ReqIds, NEW mult \in BOOLEAN,
             HandleAcnetRequest(pkt, id, mult)
      PROVE  Steps(d, d')
    <2> DEFINE s == Admit(pkt, ~mult).s
    <2>1. /\ s \in Daemons /\ UnusedUnknown(s) /\ Moved(d, s)
          /\ \A m \in Nodes : Known(d, m) => Known(s, m) /\ s.addr[m] = d.addr[m]
        BY <1>2, AdmitMoved
    <2>2. d' = s \/ Takes(s, pkt, id, mult)
        BY <1>1, <1>4, <2>1, RequestTakes
    <2> HIDE DEF s
    <2>3. CASE d' = s
        BY <2>1, <2>3, MovedSteps
    <2>4. CASE Takes(s, pkt, id, mult)
        <3>1. d' \in Daemons /\ SameNodes(s, d') /\ FewerRequests(s, d')
            BY <2>4 DEF Takes
        <3>2. \A m : Known(d', m) <=> Known(s, m)
            BY <3>1 DEF SameNodes, Known
        <3>3. UnusedUnknown(d')
            BY <2>1, <3>1, <3>2 DEF UnusedUnknown
        <3>4. Drops(d, d')
            BY <2>1, <3>1, <3>2 DEF Drops, SameNodes
        <3>5. FewerRequests(d, d')
            BY <2>1, <3>1 DEF Moved, FewerWork, FewerRequests
        <3> QED
            BY <3>3, <3>4, <3>5 DEF Steps
    <2> QED
        BY <2>2, <2>3, <2>4
<1>5. ASSUME NEW pkt \in Packets, NEW id \in ReqIds, HandleAcnetCancel(pkt, id)
      PROVE  Steps(d, d')
    <2> DEFINE s == Admit(pkt, FALSE).s
    <2>1. Moved(d, s) /\ UnusedUnknown(s) /\ s \in Daemons
        BY <1>2
    <2>2. Keeps(s, d')
        BY <1>5, <2>1, CancelKeeps
    <2> HIDE DEF s
    <2>3. Moved(d, d')
        BY <2>1, <2>2, KeepsMoved, MovedOn
    <2> QED
        BY <2>3, MovedSteps
<1>6. ASSUME NEW pkt \in Packets, NEW write \in Writes \cup {<<>>}, HandleNodeTable(pkt, write)
      PROVE  Steps(d, d')
    <2> DEFINE a == Admit(pkt, TRUE)
               s == a.s
               t == Route(a.s, a.mcast, pkt.server, Names).s
    <2>1. Moved(d, s) /\ UnusedUnknown(s) /\ s \in Daemons
        BY <1>2
    <2>2. Moved(s, t)
        BY <2>1, RouteKeeps, KeepsMoved
    <2>3. d' \in {s, IpNodeTableHandler(s, write), IpNodeTableHandler(t, write), t}
        BY <1>6 DEF HandleNodeTable
    <2> HIDE DEF s, t
    <2>4. Moved(d, t) /\ UnusedUnknown(t)
        BY <2>1, <2>2, MovedOn DEF Moved
    <2>5. Moved(d, IpNodeTableHandler(s, write)) /\ Moved(d, IpNodeTableHandler(t, write))
        BY <2>1, <2>4, TableHandlerMoved, MovedOn
    <2> QED
        BY <2>1, <2>3, <2>4, <2>5, MovedSteps
<1>7. ASSUME NEW pkt \in Packets, NEW n \in Nodes, KillerMessage(pkt, n)
      PROVE  Steps(d, d')
    <2> DEFINE s == Admit(pkt, FALSE).s
    <2>1. Moved(d, s) /\ UnusedUnknown(s) /\ s \in Daemons
        BY <1>2
    <2>2. \E times : d' = CancelToNode(s, n, times)
        BY <1>7 DEF KillerMessage
    <2> HIDE DEF s
    <2>3. Keeps(s, d')
        BY <2>1, <2>2, CancelToNodeKeeps
    <2>4. Moved(d, d')
        BY <2>1, <2>3, KeepsMoved, MovedOn
    <2> QED
        BY <2>4, MovedSteps
<1> QED
    BY <1>3, <1>4, <1>5, <1>6, <1>7 DEF HandleAcnetPacket

LEMMA AddNodeMoved ==
    ASSUME OnlyUnusedErased, UnusedUnknown(d), NEW c \in Changes,
           AddNode(c.node, c.name, c.addr)
    PROVE  Moved(d, d')
<1>1. c \in Updates /\ c \in Entries
    BY ParametersAre DEF Entries
<1>2. /\ c.node \in Nodes \cup {Blank} /\ c.name \in Names \cup {NoName, Illegal}
      /\ c.addr \in Addrs \cup {NoAddr}
      /\ c.node # Blank => (c.node \in Erased <=> c.name = NoName /\ c.addr = NoAddr)
    BY <1>1, EntryErases DEF Updates
<1> DEFINE s == IF c.name = HostName THEN [d EXCEPT !.myIp = c.addr] ELSE d
<1>3. /\ s \in Daemons /\ s.name = d.name /\ s.addr = d.addr
      /\ s.reqs = d.reqs /\ s.rpys = d.rpys
    BY <1>2 DEF UnusedUnknown, Daemons
<1>4. d' = Loaded(s) \/ d' = UpdateAddr(s, c.node, c.name, c.addr)
    BY DEF AddNode
<1> HIDE DEF s
<1>5. Moved(d, s) /\ UnusedUnknown(s)
    BY <1>3 DEF Moved, UnusedUnknown, Known, FewerWork, FewerRequests, FewerReplies, Drops
<1>6. Moved(s, d')
    BY <1>2, <1>3, <1>4, <1>5, LoadedKeeps, KeepsMoved, UpdateMoved
<1> QED
    BY <1>5, <1>6, MovedOn

LEMMA SendRequestIs ==
    ASSUME d \in Daemons, NEW p \in Names, NEW n \in Nodes, SendRequest(p, n)
    PROVE  /\ d' \in Daemons /\ SameNodes(d, d') /\ d'.rpys = d.rpys /\ d'.pools = d.pools
           /\ \A q \in Names : \A r \in d'.reqs[q] :
                  r \in d.reqs[q] \/ (r.node = n /\ r.addr = d.addr[n])
<1>1. PICK x \in Free(d.reqs[p]) :
          d' = [d EXCEPT !.reqs[p] = d.reqs[p] \cup {[slot |-> x, node |-> n, addr |-> d.addr[n]]}]
    BY DEF SendRequest
<1> DEFINE new == [slot |-> x, node |-> n, addr |-> d.addr[n]]
<1>2. new \in Requests /\ new.node = n /\ new.addr = d.addr[n]
    BY <1>1 DEF Free, Requests, Daemons
<1>3. d' = [d EXCEPT !.reqs[p] = d.reqs[p] \cup {new}]
    BY <1>1
<1> HIDE DEF new
<1>4. d' \in Daemons /\ SameNodes(d, d') /\ d'.rpys = d.rpys /\ d'.pools = d.pools
    BY <1>2, <1>3 DEF Daemons, SameNodes
<1>5. \A q \in Names : d'.reqs[q] = IF q = p THEN d.reqs[p] \cup {new} ELSE d.reqs[q]
    BY <1>3 DEF Daemons
<1> QED
    BY <1>2, <1>4, <1>5

LEMMA ClientsStep ==
    ASSUME OnlyUnusedErased, UnusedUnknown(d), HandleClientCommand
    PROVE  \/ Steps(d, d')
           \/ /\ UnusedUnknown(d') /\ Drops(d, d')
              /\ \E p \in Names, n \in Asked : SendRequest(p, n)
<1>1. d \in Daemons
    BY DEF UnusedUnknown
<1>2. ASSUME NEW name, Connect(name)
      PROVE  Steps(d, d')
    BY <1>1, <1>2, ConnectKeeps, KeepsMoved, MovedSteps
<1>3. ASSUME NEW p \in Names, Disconnect(p)
      PROVE  Steps(d, d')
    BY <1>1, <1>3, DisconnectKeeps, KeepsMoved, MovedSteps
<1>4. ASSUME NEW p \in Names, NEW r, EndRequest(p, r)
      PROVE  Steps(d, d')
    BY <1>1, <1>4, EndRequestKeeps, KeepsMoved, MovedSteps
<1>5. ASSUME NEW p \in Names, NEW r, SendLastReply(p, r)
      PROVE  Steps(d, d')
    BY <1>1, <1>5, SendLastReplyKeeps, KeepsMoved, MovedSteps
<1>6. ASSUME NEW p \in Names, NEW n \in Asked, SendRequest(p, n)
      PROVE  UnusedUnknown(d') /\ Drops(d, d')
    <2>1. d' \in Daemons /\ SameNodes(d, d')
        BY <1>1, <1>6, SendRequestIs, ParametersAre
    <2> QED
        BY <2>1 DEF UnusedUnknown, SameNodes, Drops, Known
<1>7. ASSUME NEW c \in Changes, AddNode(c.node, c.name, c.addr)
      PROVE  Steps(d, d')
    BY <1>7, AddNodeMoved, MovedSteps
<1> QED
    BY <1>2, <1>3, <1>4, <1>5, <1>6, <1>7 DEF HandleClientCommand

LEMMA StepDrops ==
    ASSUME OnlyUnusedErased, UnusedUnknown(d), [Next]_(vars)
    PROVE  /\ UnusedUnknown(d') /\ Drops(d, d')
           /\ FewerRequests(d, d') \/ \E p \in Names, n \in Asked : SendRequest(p, n)
<1>1. CASE HandleAcnetPacket
    BY <1>1, PacketsStep DEF Steps
<1>2. CASE HandleClientCommand
    BY <1>2, ClientsStep DEF Steps
<1>3. CASE d' = d
    BY <1>3, MovedAll, MovedSteps DEF Steps
<1> QED
    BY <1>1, <1>2, <1>3 DEF Next, vars, RequestTable, LoseRequest, RunAsDaemon

(***************************************************************************)
(* As long as no node in use is erased: whatever updates, provisional      *)
(* entries and AddNode come in between, in any order and several in one    *)
(* table, a node that moves leaves every pool that had requests to it, or  *)
(* replies, with fewer of them (ipaddr.cpp:434-453).                       *)
(***************************************************************************)
THEOREM MoveAlwaysEndsWork ==
    ASSUME OnlyUnusedErased
    PROVE  Spec => MoveEndsWork
<1>1. Init => UnusedUnknown(d)
    BY StartUnknown
<1>2. UnusedUnknown(d) /\ [Next]_(vars) => UnusedUnknown(d)'
    BY StepDrops
<1>3. UnusedUnknown(d) /\ [Next]_(vars) =>
          [\A n \in Nodes : Moves(n) =>
               \A p \in Names : /\ LosesOne(RequestsTo(d, p, n), d'.reqs[p])
                                /\ LosesOne(RepliesTo(d, p, n), d'.rpys[p])]_(vars)
    <2> SUFFICES ASSUME UnusedUnknown(d), [Next]_(vars), NEW n \in Nodes, Moves(n), NEW p \in Names
                 PROVE  /\ LosesOne(RequestsTo(d, p, n), d'.reqs[p])
                        /\ LosesOne(RepliesTo(d, p, n), d'.rpys[p])
        OBVIOUS
    <2>1. Drops(d, d')
        BY StepDrops
    <2>2. Known(d, n) /\ d'.addr[n] # d.addr[n]
        BY DEF Moves
    <2> QED
        BY <2>1, <2>2 DEF Drops, EndsWork
<1> QED
    BY <1>1, <1>2, <1>3, PTL DEF Spec, MoveEndsWork

(***************************************************************************)
(* What this leaves of `WorkFollowsNode': where no pool ever has two open  *)
(* requests to one node, none waits for an answer from an address that its *)
(* node has left.                                                          *)
(***************************************************************************)
OnePerNode == \A p \in Names : \A r, q \in d.reqs[p] : r.node = q.node => r = q

Follows(s) ==
    \A p \in Names : \A r \in s.reqs[p] : Known(s, r.node) /\ r.addr = s.addr[r.node]

LEMMA StepFollows ==
    ASSUME OnlyUnusedErased, UnusedUnknown(d), Follows(d), OnePerNode, [Next]_(vars)
    PROVE  Follows(d')
<1>1. UnusedUnknown(d') /\ Drops(d, d') /\ d \in Daemons
    BY StepDrops DEF UnusedUnknown
<1>2. CASE FewerRequests(d, d')
    <2> SUFFICES ASSUME NEW p \in Names, NEW r \in d'.reqs[p]
                 PROVE  Known(d', r.node) /\ r.addr = d'.addr[r.node]
        BY DEF Follows
    <2>1. r \in d.reqs[p]
        BY <1>2 DEF FewerRequests
    <2>2. Known(d, r.node) /\ r.addr = d.addr[r.node] /\ r.node \in Nodes
        BY <2>1 DEF Follows, Known
    <2>3. Known(d', r.node)
        BY <1>1, <2>2 DEF Drops
    <2>4. ASSUME d'.addr[r.node] # d.addr[r.node]
          PROVE  FALSE
        <3>1. LosesOne(RequestsTo(d, p, r.node), d'.reqs[p])
            BY <1>1, <2>2, <2>4 DEF Drops, EndsWork
        <3>2. PICK q \in RequestsTo(d, p, r.node) : q \notin d'.reqs[p]
            BY <2>1, <3>1 DEF LosesOne, RequestsTo
        <3>3. q = r
            BY <2>1, <3>2 DEF OnePerNode, RequestsTo
        <3> QED
            BY <3>2, <3>3
    <2> QED
        BY <2>2, <2>3, <2>4
<1>3. ASSUME NEW p \in Names, NEW n \in Asked, SendRequest(p, n)
      PROVE  Follows(d')
    <2>1. /\ SameNodes(d, d')
          /\ \A q \in Names : \A r \in d'.reqs[q] :
                 r \in d.reqs[q] \/ (r.node = n /\ r.addr = d.addr[n])
        BY <1>1, <1>3, SendRequestIs, ParametersAre
    <2>2. Known(d, n)
        BY <1>3 DEF SendRequest
    <2> QED
        BY <2>1, <2>2 DEF Follows, SameNodes, Known
<1> QED
    BY <1>2, <1>3, StepDrops

THEOREM LoneWorkFollowsNode ==
    ASSUME OnlyUnusedErased
    PROVE  Spec /\ []OnePerNode => []WorkFollowsNode
<1>1. Init => UnusedUnknown(d) /\ Follows(d)
    BY StartUnknown DEF Follows
<1>2. UnusedUnknown(d) /\ Follows(d) /\ OnePerNode /\ [Next]_(vars)
          => UnusedUnknown(d)' /\ Follows(d)'
    BY StepDrops, StepFollows
<1>3. Follows(d) => WorkFollowsNode
    BY DEF Follows, WorkFollowsNode
<1> QED
    BY <1>1, <1>2, <1>3, PTL DEF Spec

-----------------------------------------------------------------------------
(* The nodes of this machine, and the replies in its pools. *)

MulticastKept(s) == Known(s, McNode) /\ s.addr[McNode] = McAddr

(***************************************************************************)
(* A node of ours has our address, and is called what the table calls it   *)
(* or, until it says so, what the host is called.                          *)
(***************************************************************************)
OwnKnown(s, Own) ==
    \A n \in Own : Known(s, n) =>
        /\ s.addr[n] = MyAddr
        /\ s.myNode # Blank
        /\ s.name[n] # HostName => \E e \in Entries : e.node = n /\ e.name = s.name[n]

MyNodeKnown(s, Own) == s.myNode # Blank => s.myNode \in Own /\ Known(s, s.myNode)

(***************************************************************************)
(* A reply to a request for one node is in that node's pool, or in that of *)
(* the host.                                                               *)
(***************************************************************************)
Placed(s, Own) ==
    \A p \in Names : \A r \in s.rpys[p] :
        /\ s.pools[p] # Blank
        /\ r.server \in Own \cup {Blank, McNode}
        /\ r.server # McNode =>
               /\ s.myNode # Blank
               /\ p # HostName => r.server \in Own /\ Known(s, r.server) /\ p = s.name[r.server]

(***************************************************************************)
(* A request has replies in several pools only if it was for all nodes.    *)
(***************************************************************************)
Single(s) ==
    \A p, q \in Names : \A r \in s.rpys[p], t \in s.rpys[q] :
        r.client = t.client /\ r.id = t.id =>
            r.server = t.server /\ (r.server # McNode => p = q)

Good(s, Own) ==
    /\ s \in Daemons /\ s.myIp = MyAddr
    /\ MulticastKept(s) /\ OwnKnown(s, Own) /\ MyNodeKnown(s, Own)
    /\ Placed(s, Own) /\ Single(s)

LEMMA FewerAreSingle ==
    ASSUME NEW s, NEW t, Single(s), FewerReplies(s, t)
    PROVE  Single(t)
BY DEF Single, FewerReplies

LEMMA KeepsGood ==
    ASSUME NEW Own, NEW s, NEW t, Good(s, Own), Keeps(s, t)
    PROVE  Good(t, Own)
<1>1. SameNodes(s, t) /\ FewerReplies(s, t) /\ MorePools(s, t) /\ t \in Daemons
    BY DEF Keeps, FewerWork
<1>2. \A n : Known(t, n) <=> Known(s, n)
    BY <1>1 DEF SameNodes, Known
<1>3. MulticastKept(t) /\ OwnKnown(t, Own) /\ MyNodeKnown(t, Own) /\ t.myIp = MyAddr
    BY <1>1, <1>2 DEF Good, SameNodes, MulticastKept, OwnKnown, MyNodeKnown
<1>4. Placed(t, Own)
    BY <1>1, <1>2 DEF Good, SameNodes, FewerReplies, MorePools, Placed
<1>5. Single(t)
    BY <1>1, FewerAreSingle DEF Good
<1> QED
    BY <1>1, <1>3, <1>4, <1>5 DEF Good

(***************************************************************************)
(* An update of the node table that agrees with the others about which     *)
(* nodes are ours, and what they are called.                               *)
(***************************************************************************)
Agreed(s, n, name, a, Own) ==
    /\ n \in Nodes \ {McNode}
    /\ name \in Names \cup {NoName, Illegal} /\ a \in Addrs \cup {NoAddr}
    /\ n \in Own <=> a = MyAddr
    /\ n \in Own => name \in Names \/ (name = Illegal /\ ~Known(s, n))
    /\ n \in Own /\ name # Illegal =>
           /\ \E e \in Entries : e.node = n /\ e.name = name
           /\ \A e \in Entries : e.node = n => e.name = name

OwnName(name) == IF name = Illegal THEN HostName ELSE name

(***************************************************************************)
(* What the update of a node of ours makes of it, and that one of another  *)
(* node leaves ours alone.                                                 *)
(***************************************************************************)
LEMMA OwnUpdate ==
    ASSUME NEW Own, NEW s \in Daemons, s.myIp = MyAddr, NEW n, NEW name, NEW a,
           Agreed(s, n, name, a, Own), n \in Own,
           NEW t, Entered(s, t, n, name, a)
    PROVE  /\ OwnName(name) \in Names
           /\ t.name[n] = OwnName(name) /\ t.addr[n] = MyAddr /\ Known(t, n)
           /\ t.myNode = IF s.myNode = Blank \/ OwnName(name) = HostName THEN n ELSE s.myNode
<1>1. a = MyAddr /\ n \in Nodes /\ (name \in Names \/ name = Illegal) /\ MyAddr # NoAddr
    BY ParametersAre DEF Agreed
<1>2. NewName(s, name, a) = OwnName(name) /\ OwnName(name) \in Names
    BY <1>1, ParametersAre DEF NewName, OwnName
<1>3. OwnName(name) # NoName /\ OwnName(name) # Illegal
    BY <1>2, ParametersAre
<1> QED
    BY <1>1, <1>2, <1>3 DEF Entered, Erases, Known

LEMMA OtherUpdate ==
    ASSUME NEW Own, Own \subseteq Nodes, NEW s \in Daemons, s.myIp = MyAddr,
           NEW n, NEW name, NEW a,
           Agreed(s, n, name, a, Own), n \notin Own,
           NEW t, Entered(s, t, n, name, a)
    PROVE  t.myNode = s.myNode /\ \A m \in Own : t.name[m] = s.name[m] /\ t.addr[m] = s.addr[m]
BY DEF Agreed, Entered

LEMMA UpdateGood ==
    ASSUME NEW Own, Own \subseteq Nodes \ {McNode}, NEW s, Good(s, Own),
           NEW n, NEW name, NEW a, Agreed(s, n, name, a, Own)
    PROVE  Good(UpdateAddr(s, n, name, a), Own)
<1> DEFINE t == UpdateAddr(s, n, name, a)
<1>1. /\ s \in Daemons /\ s.myIp = MyAddr /\ n \in Nodes \ {McNode}
      /\ name \in Names \cup {NoName, Illegal} /\ a \in Addrs \cup {NoAddr}
    BY DEF Good, Agreed
<1>2. t \in Daemons /\ Entered(s, t, n, name, a) /\ FewerWork(s, t) /\ t.pools = s.pools
    BY <1>1, UpdateAddrIs
<1> HIDE DEF t
<1>3. /\ t.myIp = MyAddr
      /\ \A m \in Nodes \ {n} :
             (Known(t, m) <=> Known(s, m)) /\ t.name[m] = s.name[m] /\ t.addr[m] = s.addr[m]
    BY <1>1, <1>2 DEF Entered, Known
<1>4. MulticastKept(t)
    BY <1>1, <1>3, ParametersAre DEF Good, MulticastKept
<1>5. CASE n \in Own
    <2>1. /\ OwnName(name) \in Names
          /\ t.name[n] = OwnName(name) /\ t.addr[n] = MyAddr /\ Known(t, n)
          /\ t.myNode = IF s.myNode = Blank \/ OwnName(name) = HostName THEN n ELSE s.myNode
        BY <1>1, <1>2, <1>5, OwnUpdate
    <2>2. n # Blank /\ t.myNode # Blank
        BY <1>1, <2>1, ParametersAre
    <2>3. t.name[n] # HostName => \E e \in Entries : e.node = n /\ e.name = t.name[n]
        BY <1>5, <2>1 DEF Agreed, OwnName
    <2>4. OwnKnown(t, Own)
        BY <1>3, <2>1, <2>2, <2>3 DEF Good, OwnKnown
    <2>5. MyNodeKnown(t, Own)
        BY <1>3, <1>5, <2>1 DEF Good, MyNodeKnown
    <2>6. ASSUME Known(s, n), s.name[n] # HostName
          PROVE  t.name[n] = s.name[n]
        <3>1. PICK e \in Entries : e.node = n /\ e.name = s.name[n]
            BY <1>5, <2>6 DEF Good, OwnKnown
        <3>2. name # Illegal
            BY <1>5, <2>6, ParametersAre DEF Agreed
        <3> QED
            BY <1>5, <2>1, <3>1, <3>2 DEF Agreed, OwnName
    <2>7. Placed(t, Own)
        <3> SUFFICES ASSUME NEW p \in Names, NEW r \in t.rpys[p]
                     PROVE  /\ t.pools[p] # Blank
                            /\ r.server \in Own \cup {Blank, McNode}
                            /\ r.server # McNode /\ p # HostName =>
                                   r.server \in Own /\ Known(t, r.server) /\ p = t.name[r.server]
            BY <2>2 DEF Placed
        <3>1. r \in s.rpys[p]
            BY <1>2 DEF FewerWork, FewerReplies
        <3>2. /\ s.pools[p] # Blank /\ r.server \in Own \cup {Blank, McNode}
              /\ r.server # McNode /\ p # HostName =>
                     r.server \in Own /\ Known(s, r.server) /\ p = s.name[r.server]
            BY <3>1 DEF Good, Placed
        <3>3. CASE r.server = n
            BY <1>2, <1>5, <2>1, <2>6, <3>2, <3>3
        <3>4. CASE r.server # n
            BY <1>2, <1>3, <3>2, <3>4
        <3> QED
            BY <3>3, <3>4
    <2> QED
        BY <1>2, <1>3, <1>4, <2>4, <2>5, <2>7, FewerAreSingle DEF Good, FewerWork, t
<1>6. CASE n \notin Own
    <2>1. t.myNode = s.myNode /\ \A m \in Own : t.name[m] = s.name[m] /\ t.addr[m] = s.addr[m]
        BY <1>1, <1>2, <1>6, OtherUpdate
    <2>2. \A m \in Own : Known(t, m) <=> Known(s, m)
        BY <1>3, <1>6
    <2>3. OwnKnown(t, Own) /\ MyNodeKnown(t, Own)
        BY <2>1, <2>2 DEF Good, OwnKnown, MyNodeKnown
    <2>4. Placed(t, Own)
        BY <1>2, <2>1, <2>2 DEF Good, Placed, FewerWork, FewerReplies
    <2> QED
        BY <1>2, <1>3, <1>4, <2>3, <2>4, FewerAreSingle DEF Good, FewerWork, t
<1> QED
    BY <1>5, <1>6

-----------------------------------------------------------------------------
(* The node that is ours by default has the host's name. *)

Named(s) == s.myNode # Blank => s.name[s.myNode] = HostName

(***************************************************************************)
(* It keeps that name, because no entry says otherwise.                    *)
(***************************************************************************)
Steady(s) ==
    /\ s.myNode # Blank /\ s.name[s.myNode] = HostName
    /\ \A e \in Entries : e.node = s.myNode => e.name = HostName

LEMMA HostUpdate ==
    ASSUME NEW Own, NEW s, Good(s, Own), NEW n, NEW name, NEW a,
           Agreed(s, n, name, a, Own), n \in Own, OwnName(name) = HostName
    PROVE  /\ Named(UpdateAddr(s, n, name, a))
           /\ name = HostName => Steady(UpdateAddr(s, n, name, a))
<1> DEFINE t == UpdateAddr(s, n, name, a)
<1>1. /\ s \in Daemons /\ s.myIp = MyAddr /\ n \in Nodes
      /\ name \in Names \cup {NoName, Illegal} /\ a \in Addrs \cup {NoAddr}
    BY DEF Good, Agreed
<1>2. Entered(s, t, n, name, a)
    BY <1>1, UpdateAddrIs
<1>3. t.name[n] = HostName /\ t.myNode = n
    BY <1>1, <1>2, OwnUpdate
<1>4. n # Blank /\ HostName # Illegal
    BY <1>1, ParametersAre
<1> HIDE DEF t
<1>5. name = HostName => Steady(t)
    BY <1>3, <1>4 DEF Steady, Agreed
<1> QED
    BY <1>3, <1>5 DEF Named, t

LEMMA OtherUpdateNames ==
    ASSUME NEW Own, Own \subseteq Nodes \ {McNode}, NEW s, Good(s, Own),
           NEW n, NEW name, NEW a, Agreed(s, n, name, a, Own), n \notin Own
    PROVE  /\ Named(s) => Named(UpdateAddr(s, n, name, a))
           /\ Steady(s) => Steady(UpdateAddr(s, n, name, a))
<1> DEFINE t == UpdateAddr(s, n, name, a)
<1>1. /\ s \in Daemons /\ s.myIp = MyAddr /\ n \in Nodes
      /\ name \in Names \cup {NoName, Illegal} /\ a \in Addrs \cup {NoAddr}
    BY DEF Good, Agreed
<1>2. Entered(s, t, n, name, a)
    BY <1>1, UpdateAddrIs
<1>3. t.myNode = s.myNode /\ \A m \in Own : t.name[m] = s.name[m]
    BY <1>1, <1>2, OtherUpdate
<1>4. s.myNode # Blank => s.myNode \in Own
    BY DEF Good, MyNodeKnown
<1> HIDE DEF t
<1> QED
    BY <1>3, <1>4 DEF Named, Steady, t

LEMMA OwnUpdateSteady ==
    ASSUME NEW Own, NEW s, Good(s, Own), Steady(s), NEW n, NEW name, NEW a,
           Agreed(s, n, name, a, Own), n \in Own, name \in Names, name # HostName
    PROVE  Steady(UpdateAddr(s, n, name, a))
<1> DEFINE t == UpdateAddr(s, n, name, a)
<1>1. /\ s \in Daemons /\ s.myIp = MyAddr /\ n \in Nodes
      /\ name \in Names \cup {NoName, Illegal} /\ a \in Addrs \cup {NoAddr}
    BY DEF Good, Agreed
<1>2. Entered(s, t, n, name, a)
    BY <1>1, UpdateAddrIs
<1>3. name # Illegal
    BY ParametersAre
<1>4. t.myNode = s.myNode
    BY <1>1, <1>2, <1>3, OwnUpdate DEF Steady, OwnName
<1>5. s.myNode # n
    BY <1>3 DEF Agreed, Steady
<1>6. s.myNode \in Nodes
    BY <1>1 DEF Daemons, Steady
<1> HIDE DEF t
<1>7. t.name[s.myNode] = s.name[s.myNode]
    BY <1>2, <1>5, <1>6 DEF Entered
<1> QED
    BY <1>4, <1>7 DEF Steady, t


(***************************************************************************)
(* A provisional entry agrees with the table.                              *)
(***************************************************************************)
LEMMA ProvisionalGood ==
    ASSUME NEW Own, Own \subseteq Nodes \ {McNode}, NEW s, Good(s, Own), Named(s),
           NEW n \in Nodes \cup {Blank}, NEW a \in Addrs \cup {NoAddr}, n \in Own <=> a = MyAddr,
           NEW t, Provisional(s, t, n, a)
    PROVE  Good(t, Own) /\ Named(t) /\ FewerReplies(s, t)
<1>1. n # Blank /\ ~Known(s, n) /\ t = UpdateAddr(s, n, Illegal, a) /\ s \in Daemons
    BY DEF Provisional, Good
<1>2. n \in Nodes \ {McNode}
    BY <1>1 DEF Good, MulticastKept
<1>3. Agreed(s, n, Illegal, a, Own)
    BY <1>1, <1>2 DEF Agreed
<1>4. Good(t, Own)
    BY <1>1, <1>3, UpdateGood
<1>5. FewerReplies(s, t)
    BY <1>1, <1>2, UpdateAddrIs DEF FewerWork
<1>6. OwnName(Illegal) = HostName
    BY DEF OwnName
<1>7. Named(t)
    BY <1>1, <1>3, <1>6, HostUpdate, OtherUpdateNames
<1> QED
    BY <1>4, <1>5, <1>7

LEMMA PacketIs ==
    ASSUME NEW Own, HostIs(Own), NEW pkt \in Packets
    PROVE  /\ Own \subseteq Nodes \ {McNode} /\ MyAddr # McAddr
           /\ pkt \in Headers
           /\ pkt.client \in Nodes \cup {Blank} /\ pkt.ip \in Addrs
           /\ pkt.client # Blank => (pkt.client \in Own <=> pkt.ip = MyAddr)
           /\ pkt.server \in Nodes \cup {Blank} /\ pkt.server \in Own \cup {Blank, McNode}
BY ParametersAre DEF HostIs, OwnEntries, OwnPackets, Headers

LEMMA ServerGood ==
    ASSUME NEW Own, HostIs(Own), NEW pkt \in Packets,
           NEW s, Good(s, Own), Named(s), NEW t, Provisional(s, t, pkt.server, s.myIp)
    PROVE  Good(t, Own) /\ Named(t) /\ FewerReplies(s, t)
<1>1. pkt.server # Blank /\ pkt.server # McNode /\ s.myIp = MyAddr
    BY DEF Provisional, Good, MulticastKept
<1>2. pkt.server \in Own /\ pkt.server \in Nodes
    BY <1>1, PacketIs
<1> QED
    BY <1>1, <1>2, PacketIs, ParametersAre, ProvisionalGood

LEMMA ClientGood ==
    ASSUME NEW Own, HostIs(Own), NEW pkt \in Packets,
           NEW s, Good(s, Own), Named(s), NEW t, Provisional(s, t, pkt.client, pkt.ip)
    PROVE  Good(t, Own) /\ Named(t) /\ FewerReplies(s, t)
<1>1. pkt.client # Blank
    BY DEF Provisional
<1> QED
    BY <1>1, PacketIs, ParametersAre, ProvisionalGood

LEMMA AdmitGood ==
    ASSUME NEW Own, HostIs(Own), NEW pkt \in Packets, NEW temp,
           Good(d, Own), Named(d)
    PROVE  /\ Good(Admit(pkt, temp).s, Own) /\ Named(Admit(pkt, temp).s)
           /\ FewerReplies(d, Admit(pkt, temp).s)
<1>1. PICK b : /\ b = d \/ Provisional(d, b, pkt.client, pkt.ip)
               /\ \/ Admit(pkt, temp).s = b
                  \/ Provisional(b, Admit(pkt, temp).s, pkt.server, b.myIp)
    BY AdmitIs
<1>2. FewerReplies(d, d)
    BY DEF FewerReplies
<1>3. Good(b, Own) /\ Named(b) /\ FewerReplies(d, b)
    BY <1>1, <1>2, ClientGood
<1>4. \A s : FewerReplies(b, s) => FewerReplies(d, s)
    BY <1>3 DEF FewerReplies
<1> QED
    BY <1>1, <1>3, <1>4, ServerGood

(***************************************************************************)
(* A packet goes to all pools when it is for the multicast node.           *)
(***************************************************************************)
LEMMA AdmitMulticast ==
    ASSUME NEW Own, HostIs(Own), NEW pkt \in Packets, NEW temp,
           Good(d, Own), Named(d), Admit(pkt, temp).ok
    PROVE  Admit(pkt, temp).mcast <=> pkt.server = McNode
<1> DEFINE c == IpAddress(d, pkt.client, pkt.ip, temp)
           v == IpAddress(c.s, pkt.server, c.s.myIp, temp)
<1>1. c.s = d \/ Provisional(d, c.s, pkt.client, pkt.ip)
    BY IpAddressIs
<1> HIDE DEF c
<1>2. Good(c.s, Own)
    BY <1>1, ClientGood
<1>3. MyAddr # McAddr /\ McAddr # NoAddr /\ Blank \notin Nodes /\ McNode \in Nodes
      /\ McNode \notin Own /\ pkt.server \in Own \cup {Blank, McNode}
    BY ParametersAre, PacketIs
<1>4. c.s.myIp = MyAddr
    BY <1>2 DEF Good
<1>5. CASE pkt.server = McNode
    <2>1. Known(c.s, pkt.server) /\ pkt.server # Blank /\ c.s.addr[pkt.server] = McAddr
        BY <1>2, <1>3, <1>5 DEF Good, MulticastKept
    <2>2. v.addr = McAddr
        BY <2>1 DEF IpAddress
    <2> QED
        BY <1>5, <2>2 DEF Admit, c
<1>6. CASE pkt.server # McNode
    <2>1. Known(c.s, pkt.server) => c.s.addr[pkt.server] = MyAddr
        BY <1>2, <1>3, <1>6 DEF Good, OwnKnown, Known
    <2>2. v.addr \in {MyAddr, NoAddr}
        BY <1>4, <2>1 DEF IpAddress
    <2>3. v.addr # McAddr
        BY <1>3, <2>2
    <2> QED
        BY <1>6, <2>3 DEF Admit, c
<1> QED
    BY <1>5, <1>6

-----------------------------------------------------------------------------
(* Where a request is put. *)

LEMMA WithPoolIs ==
    ASSUME NEW s \in Daemons, NEW n, PoolOf(s, n) # NoName
    PROVE  /\ PoolOf(s, n) \in Names /\ Known(s, n) /\ PoolOf(s, n) = s.name[n]
           /\ WithPool(s, n).pools[PoolOf(s, n)] # Blank
<1>1. Known(s, n) /\ PoolOf(s, n) = s.name[n]
    BY DEF PoolOf
<1>2. n \in Nodes /\ PoolOf(s, n) \in Names /\ n # Blank
    BY <1>1, ParametersAre DEF Known, Daemons
<1>3. CASE PoolOf(s, n) \in Pools(s)
    <2>1. WithPool(s, n) = s
        BY <1>3 DEF WithPool
    <2>2. s.pools[PoolOf(s, n)] # Blank
        BY <1>3 DEF Pools
    <2> QED
        BY <1>1, <1>2, <2>1, <2>2
<1>4. CASE PoolOf(s, n) \notin Pools(s)
    <2>1. WithPool(s, n) = [s EXCEPT !.pools[s.name[n]] = n]
        BY <1>2, <1>4 DEF WithPool
    <2> QED
        BY <1>1, <1>2, <2>1 DEF Daemons
<1> QED
    BY <1>1, <1>2, <1>3, <1>4

(***************************************************************************)
(* A known node of ours has the pool of its name, before and after it is   *)
(* made.                                                                   *)
(***************************************************************************)
LEMMA OwnPool ==
    ASSUME NEW Own, Own \subseteq Nodes, NEW s, Good(s, Own),
           NEW t, SameNodes(s, t), NEW n \in Own, Known(s, n)
    PROVE  PoolOf(t, n) = s.name[n] /\ s.name[n] \in Names
<1>1. s.addr[n] = MyAddr /\ s.myIp = MyAddr /\ s \in Daemons
    BY DEF Good, OwnKnown
<1>2. Known(t, n) /\ IsThisMachine(t, n)
    BY <1>1 DEF SameNodes, Known, IsThisMachine, GetAddr
<1> QED
    BY <1>1, <1>2 DEF PoolOf, SameNodes, Known, Daemons

LEMMA RouteIs ==
    ASSUME NEW Own, Own \subseteq Nodes \ {McNode}, NEW s, Good(s, Own), Named(s),
           NEW server \in Own \cup {Blank, McNode}, NEW mcast, mcast <=> server = McNode, NEW T,
           NEW p \in Names, p \in Route(s, mcast, server, T).pools
    PROVE  /\ Route(s, mcast, server, T).s.pools[p] # Blank
           /\ server # McNode =>
                  /\ s.myNode # Blank
                  /\ p # HostName => server \in Own /\ Known(s, server) /\ p = s.name[server]
                  /\ \A q \in Route(s, mcast, server, T).pools : q = p
<1> DEFINE t == WithPool(s, server)
           q == PoolOf(t, server)
           route == Route(s, mcast, server, T)
<1>1. s \in Daemons /\ Keeps(s, t)
    BY WithPoolKeeps DEF Good
<1>2. t \in Daemons /\ SameNodes(s, t) /\ MorePools(s, t)
    BY <1>1 DEF Keeps
<1> HIDE DEF t
<1>3. CASE server = McNode
    <2>1. route.s = s /\ p \in Pools(s)
        BY <1>3 DEF Route
    <2> QED
        BY <1>3, <2>1 DEF Pools
<1>4. CASE server # McNode /\ q # NoName /\ (q \in T \/ ~Fallback)
    <2>1. route.s = t /\ route.pools = {q}
        BY <1>4 DEF Route, t
    <2>2. Known(t, server) /\ q = t.name[server]
        BY <1>4 DEF PoolOf
    <2>3. Known(s, server) /\ q = s.name[server] /\ server \in Own
        BY <1>2, <1>4, <2>2, ParametersAre DEF SameNodes, Known
    <2>4. s.myNode # Blank
        BY <2>3 DEF Good, OwnKnown
    <2>5. PoolOf(s, server) = q
        BY <1>1, <2>3, OwnPool DEF SameNodes
    <2>6. t.pools[q] # Blank
        BY <1>1, <1>4, <2>5, WithPoolIs DEF t
    <2> QED
        BY <2>1, <2>3, <2>4, <2>6
<1>5. CASE server # McNode /\ ~(q # NoName /\ (q \in T \/ ~Fallback))
    <2>1. route.s = WithPool(t, t.myNode) /\ route.pools = {PoolOf(t, t.myNode)} \ {NoName}
        BY <1>5 DEF Route, t
    <2>2. p = PoolOf(t, t.myNode) /\ p # NoName
        BY <2>1
    <2>3. Known(t, t.myNode) /\ p = t.name[t.myNode] /\ WithPool(t, t.myNode).pools[p] # Blank
        BY <1>2, <2>2, WithPoolIs
    <2>4. s.myNode # Blank
        BY <1>2, <2>3, ParametersAre DEF SameNodes, Known
    <2>5. p = HostName
        BY <1>2, <2>3, <2>4 DEF Named, SameNodes
    <2> QED
        BY <2>1, <2>2, <2>3, <2>4, <2>5
<1> QED
    BY <1>3, <1>4, <1>5

LEMMA TakesGood ==
    ASSUME NEW Own, HostIs(Own), NEW pkt \in Packets, NEW id, NEW mult, NEW s,
           Good(s, Own), Named(s), s = Admit(pkt, ~mult).s, Takes(s, pkt, id, mult),
           Admit(pkt, ~mult).mcast <=> pkt.server = McNode,
           \A p \in Names : \A r \in s.rpys[p] :
               <<r.client, r.id>> # <<Admit(pkt, ~mult).client, id>>
    PROVE  Good(d', Own) /\ Named(d')
<1> DEFINE client == Admit(pkt, ~mult).client
           route == Routed(pkt, mult)
           Added(r) == r.client = client /\ r.id = id /\ r.server = pkt.server
<1>1. /\ d' \in Daemons /\ SameNodes(s, d') /\ MorePools(s, d')
      /\ \A p \in Names : \A r \in d'.rpys[p] : r \in s.rpys[p] \/ (p \in route.pools /\ Added(r))
      /\ \A p \in Names : route.s.pools[p] = d'.pools[p]
    BY DEF Takes, IsReplyTo
<1>3. Own \subseteq Nodes \ {McNode} /\ pkt.server \in Own \cup {Blank, McNode}
    BY PacketIs
<1>4. ASSUME NEW p \in Names, p \in route.pools
      PROVE  /\ route.s.pools[p] # Blank
             /\ pkt.server # McNode =>
                    /\ s.myNode # Blank
                    /\ p # HostName => pkt.server \in Own /\ Known(s, pkt.server) /\ p = s.name[pkt.server]
                    /\ \A q \in route.pools : q = p
    BY <1>3, <1>4, RouteIs DEF Routed
<1>5. \A p \in Names : \A r \in s.rpys[p] : ~(r.client = client /\ r.id = id)
    OBVIOUS
<1> HIDE DEF client, route
<1>7. \A n : Known(d', n) <=> Known(s, n)
    BY <1>1 DEF SameNodes, Known
<1>8. d'.myIp = MyAddr /\ MulticastKept(d') /\ OwnKnown(d', Own) /\ MyNodeKnown(d', Own)
    BY <1>1, <1>7 DEF Good, SameNodes, MulticastKept, OwnKnown, MyNodeKnown
<1>9. Placed(d', Own)
    <2> SUFFICES ASSUME NEW p \in Names, NEW r \in d'.rpys[p]
                 PROVE  /\ d'.pools[p] # Blank
                        /\ r.server \in Own \cup {Blank, McNode}
                        /\ r.server # McNode =>
                               /\ d'.myNode # Blank
                               /\ p # HostName =>
                                      r.server \in Own /\ Known(d', r.server) /\ p = d'.name[r.server]
        BY DEF Placed
    <2>1. CASE r \in s.rpys[p]
        BY <1>1, <1>7, <2>1 DEF Good, Placed, SameNodes, MorePools
    <2>2. CASE p \in route.pools /\ Added(r)
        BY <1>1, <1>3, <1>4, <1>7, <2>2 DEF SameNodes
    <2> QED
        BY <1>1, <2>1, <2>2
<1>10. Single(d')
    <2> SUFFICES ASSUME NEW p \in Names, NEW q \in Names, NEW r \in d'.rpys[p], NEW t \in d'.rpys[q],
                        r.client = t.client, r.id = t.id
                 PROVE  r.server = t.server /\ (r.server # McNode => p = q)
        BY DEF Single
    <2>1. CASE r \in s.rpys[p] /\ t \in s.rpys[q]
        BY <2>1 DEF Good, Single
    <2>2. CASE p \in route.pools /\ Added(r) /\ q \in route.pools /\ Added(t)
        BY <1>4, <2>2
    <2> QED
        BY <1>1, <1>5, <2>1, <2>2
<1>11. Named(d')
    BY <1>1 DEF Named, SameNodes
<1> QED
    BY <1>1, <1>8, <1>9, <1>10, <1>11 DEF Good


-----------------------------------------------------------------------------
(* An entry of the table, and a whole table. *)

LEMMA EntryAgreed ==
    ASSUME NEW Own, HostIs(Own), NEW e \in Entries, e \in Updates,
           e.node # Blank, NEW s
    PROVE  /\ Agreed(s, e.node, e.name, e.addr, Own)
           /\ e.node \in Own => e.name \in Names /\ OwnName(e.name) = e.name
<1>1. /\ e.node \in Nodes /\ e.name \in Names \cup {NoName, Illegal}
      /\ e.addr \in Addrs \cup {NoAddr}
    BY DEF Updates
<1>2. /\ e.node # McNode
      /\ e.node \in Own <=> e.addr = MyAddr
      /\ e.node \in Own => e.name \in Names
      /\ e.node \in Own => \A f \in Entries : f.node = e.node => f.name = e.name
    BY DEF HostIs, OwnEntries
<1>3. e.name \in Names => OwnName(e.name) = e.name
    BY ParametersAre DEF OwnName
<1>4. Agreed(s, e.node, e.name, e.addr, Own)
    BY <1>1, <1>2 DEF Agreed
<1> QED
    BY <1>2, <1>3, <1>4

(***************************************************************************)
(* What an entry leaves of what is known about our node.                   *)
(***************************************************************************)
LEMMA EntryKeeps ==
    ASSUME NEW Own, HostIs(Own), NEW e \in Entries, e \in Updates,
           NEW s, Good(s, Own), NEW t, t = UpdateAddr(s, e.node, e.name, e.addr)
    PROVE  /\ Good(t, Own)
           /\ e.node \notin Own => (Named(s) => Named(t))
           /\ Steady(s) => Steady(t)
           /\ e.node \in Own /\ e.name = HostName => Steady(t)
<1>1. Own \subseteq Nodes \ {McNode}
    BY DEF HostIs, OwnEntries
<1>2. CASE e.node = Blank
    <2>1. t = s
        BY <1>2 DEF UpdateAddr
    <2>2. e.node \notin Own
        BY <1>1, <1>2, ParametersAre
    <2> QED
        BY <2>1, <2>2
<1>3. CASE e.node # Blank
    <2>1. /\ Agreed(s, e.node, e.name, e.addr, Own)
          /\ e.node \in Own => e.name \in Names /\ OwnName(e.name) = e.name
        BY <1>3, EntryAgreed
    <2>2. Good(t, Own)
        BY <1>1, <2>1, UpdateGood
    <2>3. CASE e.node \notin Own
        BY <1>1, <2>1, <2>2, <2>3, OtherUpdateNames
    <2>4. CASE e.node \in Own /\ e.name = HostName
        <3>1. Steady(t)
            BY <2>1, <2>4, HostUpdate
        <3> QED
            BY <2>2, <2>4, <3>1
    <2>5. CASE e.node \in Own /\ e.name # HostName
        <3>1. Steady(s) => Steady(t)
            BY <2>1, <2>5, OwnUpdateSteady
        <3> QED
            BY <2>2, <2>5, <3>1
    <2> QED
        BY <2>3, <2>4, <2>5
<1> QED
    BY <1>2, <1>3

LEMMA SteadyIsNamed ==
    ASSUME NEW s, Steady(s)
    PROVE  Named(s)
BY DEF Steady, Named

(***************************************************************************)
(* As soon as an entry has named a node of ours after the host our node    *)
(* keeps that name, and before one of our nodes is entered nothing changes *)
(* it.                                                                     *)
(***************************************************************************)
LEMMA WriteGood ==
    ASSUME NEW Own, HostIs(Own), NEW write \in Writes \cup {<<c>> : c \in Changes},
           NEW s, Good(s, Own), Named(s)
    PROVE  Good(WriteTable(s, write), Own) /\ Named(WriteTable(s, write))
<1>1. /\ write \in Seq(Updates)
      /\ \A k \in 1..Len(write) : write[k] \in Entries /\ write[k] \in Updates
    BY EntryIs
<1>2. PICK F : Written(F, s, write, Len(write)) /\ WriteTable(s, write) = F[Len(write)]
    BY <1>1, WriteTableIs
<1> DEFINE Ours(k) == write[k].node \in Own
           So(k) ==
               /\ Good(F[k], Own)
               /\ (\A i \in 1..k : ~Ours(i)) => Named(F[k])
               /\ (\E i \in 1..k : Ours(i) /\ write[i].name = HostName) => Steady(F[k])
           K == {k \in Nat : k <= Len(write) => So(k)}
<1>3. 0 \in K
    BY <1>2 DEF Written
<1>4. ASSUME NEW k \in K \cap Nat, k + 1 <= Len(write)
      PROVE  So(k + 1)
    <2>1. k + 1 \in 1..Len(write) /\ So(k)
        BY <1>1, <1>4
    <2> DEFINE e == write[k + 1]
    <2>2. F[k + 1] = UpdateAddr(F[k], e.node, e.name, e.addr)
        BY <1>2, <2>1 DEF Written
    <2>3. e \in Entries /\ e \in Updates
        BY <1>1, <2>1
    <2>4. /\ Good(F[k + 1], Own)
          /\ e.node \notin Own => (Named(F[k]) => Named(F[k + 1]))
          /\ Steady(F[k]) => Steady(F[k + 1])
          /\ e.node \in Own /\ e.name = HostName => Steady(F[k + 1])
        BY <2>1, <2>2, <2>3, EntryKeeps
    <2>5. \A i \in 1..(k + 1) : i = k + 1 \/ i \in 1..k
        OBVIOUS
    <2>6. (\A i \in 1..(k + 1) : ~Ours(i)) => Named(F[k + 1])
        BY <2>1, <2>4
    <2>7. (\E i \in 1..(k + 1) : Ours(i) /\ write[i].name = HostName) => Steady(F[k + 1])
        BY <2>1, <2>4, <2>5
    <2> QED
        BY <2>4, <2>6, <2>7
<1>5. \A k \in K \cap Nat : k + 1 \in K
    BY <1>4
<1>6. Len(write) \in Nat /\ DOMAIN write = 1..Len(write)
    BY <1>1
<1> HIDE DEF K
<1>7. Len(write) \in K
    BY <1>3, <1>5, <1>6, SetInduction
<1>8. So(Len(write))
    BY <1>6, <1>7 DEF K
<1>9. CASE \A i \in 1..Len(write) : ~Ours(i)
    BY <1>2, <1>8, <1>9
<1>10. CASE \E i \in 1..Len(write) : Ours(i)
    <2>1. \E i \in 1..Len(write) : Ours(i) /\ write[i].name = HostName
        BY <1>6, <1>10 DEF HostIs, NamesHost
    <2> QED
        BY <1>2, <1>8, <2>1, SteadyIsNamed
<1> QED
    BY <1>9, <1>10

LEMMA SingleWrite ==
    ASSUME NEW s, NEW c \in Changes
    PROVE  UpdateAddr(s, c.node, c.name, c.addr) = WriteTable(s, <<c>>)
<1>1. <<c>> \in Seq(Changes) /\ Len(<<c>>) = 1 /\ <<c>>[1] = c
    OBVIOUS
<1>2. PICK F : Written(F, s, <<c>>, 1) /\ WriteTable(s, <<c>>) = F[1]
    BY <1>1, WriteTableIs
<1>3. 1 \in 1..1
    OBVIOUS
<1>4. F[1] = UpdateAddr(F[1 - 1], <<c>>[1].node, <<c>>[1].name, <<c>>[1].addr)
    BY <1>2, <1>3 DEF Written
<1>5. F[1 - 1] = s
    BY <1>2 DEF Written
<1> QED
    BY <1>1, <1>2, <1>4, <1>5

-----------------------------------------------------------------------------
(* The steps. *)

Mine(s, Own) == Good(s, Own) /\ Named(s)

LEMMA KeepsMine ==
    ASSUME NEW Own, NEW s, NEW t, Mine(s, Own), Keeps(s, t)
    PROVE  Mine(t, Own)
BY KeepsGood DEF Mine, Named, Keeps, SameNodes

LEMMA TableHandlerMine ==
    ASSUME NEW Own, HostIs(Own), NEW write \in Writes \cup {<<>>},
           NEW s, Mine(s, Own)
    PROVE  Mine(IpNodeTableHandler(s, write), Own)
<1>1. s \in Daemons
    BY DEF Mine, Good
<1>2. CASE write = <<>>
    BY <1>1, <1>2, LoadedKeeps, KeepsMine DEF IpNodeTableHandler
<1>3. CASE write # <<>>
    BY <1>3, WriteGood DEF IpNodeTableHandler, Mine
<1> QED
    BY <1>2, <1>3

LEMMA StartMine ==
    ASSUME NEW Own, HostIs(Own), Init
    PROVE  Mine(d, Own)
<1>1. PICK standAlone \in BOOLEAN :
          d = [name   |-> [n \in Nodes |-> IF n = McNode THEN "MCAST" ELSE Illegal],
               addr   |-> [n \in Nodes |-> IF n = McNode THEN McAddr ELSE NoAddr],
               myNode |-> Blank, myIp |-> MyAddr, loaded |-> standAlone,
               pools  |-> [p \in Names |-> Blank], listening |-> {},
               reqs   |-> [p \in Names |-> {}],
               rpys   |-> [p \in Names |-> {}]]
    BY DEF Init
<1>2. d \in Daemons
    BY <1>1, ParametersAre DEF Daemons
<1>3. Own \subseteq Nodes \ {McNode}
    BY DEF HostIs, OwnEntries
<1>4. MulticastKept(d)
    BY <1>1, ParametersAre DEF MulticastKept, Known
<1>5. OwnKnown(d, Own)
    BY <1>1, <1>3 DEF OwnKnown, Known
<1>6. MyNodeKnown(d, Own) /\ Named(d) /\ d.myIp = MyAddr
    BY <1>1 DEF MyNodeKnown, Named
<1>7. Placed(d, Own) /\ Single(d)
    BY <1>1 DEF Placed, Single
<1> QED
    BY <1>2, <1>4, <1>5, <1>6, <1>7 DEF Mine, Good

LEMMA RequestMine ==
    ASSUME NEW Own, HostIs(Own), Mine(d, Own),
           NEW pkt \in Packets, NEW id \in ReqIds, NEW mult \in BOOLEAN,
           HandleAcnetRequest(pkt, id, mult)
    PROVE  Mine(d', Own)
<1> DEFINE s == Admit(pkt, ~mult).s
           client == Admit(pkt, ~mult).client
<1>1. Good(s, Own) /\ Named(s) /\ FewerReplies(d, s) /\ s \in Daemons
    BY AdmitGood DEF Mine, Good
<1>2. d' = s \/ Takes(s, pkt, id, mult)
    BY <1>1, PacketIs, RequestTakes
<1>3. \A p \in Names : \A r \in d.rpys[p] : <<r.client, r.id>> # <<client, id>>
    BY DEF HandleAcnetRequest
<1>4. \A p \in Names : \A r \in s.rpys[p] : <<r.client, r.id>> # <<client, id>>
    BY <1>1, <1>3 DEF FewerReplies
<1>5. ASSUME Takes(s, pkt, id, mult)
      PROVE  Mine(d', Own)
    <2>1. Admit(pkt, ~mult).mcast <=> pkt.server = McNode
        BY <1>5, AdmitMulticast DEF Mine, Takes
    <2> QED
        BY <1>1, <1>4, <1>5, <2>1, TakesGood DEF Mine
<1> HIDE DEF s
<1> QED
    BY <1>1, <1>2, <1>5 DEF Mine

LEMMA PacketsMine ==
    ASSUME NEW Own, HostIs(Own), Mine(d, Own), HandleAcnetPacket
    PROVE  Mine(d', Own)
<1>1. ASSUME NEW pkt \in Packets, NEW temp
      PROVE  Mine(Admit(pkt, temp).s, Own) /\ Admit(pkt, temp).s \in Daemons
    BY <1>1, AdmitGood DEF Mine, Good
<1>2. ASSUME NEW pkt \in Answers, HandleAcnetReply(pkt)
      PROVE  Mine(d', Own)
    <2>1. Admit(pkt, FALSE).s = d
        BY AdmitIs
    <2>2. pkt \in Headers /\ d \in Daemons
        BY ParametersAre DEF Mine, Good
    <2>3. Keeps(d, d')
        BY <1>2, <2>1, <2>2, ReplyKeeps
    <2> QED
        BY <2>3, KeepsMine
<1>3. ASSUME NEW pkt \in Packets, NEW id \in ReqIds, NEW mult \in BOOLEAN,
             HandleAcnetRequest(pkt, id, mult)
      PROVE  Mine(d', Own)
    BY <1>3, RequestMine
<1>4. ASSUME NEW pkt \in Packets, NEW id \in ReqIds, HandleAcnetCancel(pkt, id)
      PROVE  Mine(d', Own)
    <2>1. Mine(Admit(pkt, FALSE).s, Own) /\ Admit(pkt, FALSE).s \in Daemons
        BY <1>1
    <2>2. Keeps(Admit(pkt, FALSE).s, d')
        BY <1>4, <2>1, CancelKeeps
    <2> QED
        BY <2>1, <2>2, KeepsMine
<1>5. ASSUME NEW pkt \in Packets, NEW write \in Writes \cup {<<>>}, HandleNodeTable(pkt, write)
      PROVE  Mine(d', Own)
    <2> DEFINE a == Admit(pkt, TRUE)
               route == Route(a.s, a.mcast, pkt.server, Names)
    <2>1. Mine(a.s, Own) /\ a.s \in Daemons
        BY <1>1
    <2>2. Mine(route.s, Own)
        BY <2>1, RouteKeeps, KeepsMine
    <2>3. d' \in {a.s, IpNodeTableHandler(a.s, write), IpNodeTableHandler(route.s, write), route.s}
        BY <1>5 DEF HandleNodeTable
    <2> HIDE DEF a, route
    <2> QED
        BY <2>1, <2>2, <2>3, TableHandlerMine
<1>6. ASSUME NEW pkt \in Packets, NEW n \in Nodes, KillerMessage(pkt, n)
      PROVE  Mine(d', Own)
    <2> DEFINE a == Admit(pkt, FALSE)
    <2>1. Mine(a.s, Own) /\ a.s \in Daemons
        BY <1>1
    <2>2. \E times : d' = CancelToNode(a.s, n, times)
        BY <1>6 DEF KillerMessage
    <2> HIDE DEF a
    <2> QED
        BY <2>1, <2>2, CancelToNodeKeeps, KeepsMine
<1> QED
    BY <1>2, <1>3, <1>4, <1>5, <1>6 DEF HandleAcnetPacket

LEMMA AddNodeMine ==
    ASSUME NEW Own, HostIs(Own), Mine(d, Own), NEW c \in Changes,
           AddNode(c.node, c.name, c.addr)
    PROVE  Mine(d', Own)
<1> DEFINE s == IF c.name = HostName THEN [d EXCEPT !.myIp = c.addr] ELSE d
<1>1. d \in Daemons /\ d.myIp = MyAddr
    BY DEF Mine, Good
<1>2. c.name = HostName => c.addr = MyAddr
    BY DEF HostIs, OwnEntries
<1>3. s = d
    BY <1>1, <1>2 DEF Daemons
<1>4. d' = Loaded(d) \/ d' = UpdateAddr(d, c.node, c.name, c.addr)
    BY <1>3 DEF AddNode
<1>5. CASE d' = Loaded(d)
    BY <1>1, <1>5, LoadedKeeps, KeepsMine
<1>6. CASE d' = UpdateAddr(d, c.node, c.name, c.addr)
    BY <1>6, SingleWrite, WriteGood DEF Mine
<1> QED
    BY <1>4, <1>5, <1>6

LEMMA SendRequestMine ==
    ASSUME NEW Own, Mine(d, Own), NEW p \in Names, NEW n \in Nodes,
           SendRequest(p, n)
    PROVE  Mine(d', Own)
<1>1. d \in Daemons
    BY DEF Mine, Good
<1>2. d' \in Daemons /\ SameNodes(d, d') /\ d'.rpys = d.rpys /\ d'.pools = d.pools
    BY <1>1, SendRequestIs DEF SameNodes
<1>3. d' \in Daemons /\ SameNodes(d, d') /\ d'.rpys = d.rpys /\ d'.pools = d.pools
    BY <1>2
<1>4. \A m : Known(d', m) <=> Known(d, m)
    BY <1>3 DEF SameNodes, Known
<1>5. MulticastKept(d') /\ OwnKnown(d', Own) /\ MyNodeKnown(d', Own) /\ d'.myIp = MyAddr /\ Named(d')
    BY <1>3, <1>4 DEF Mine, Good, SameNodes, MulticastKept, OwnKnown, MyNodeKnown, Named
<1>6. Placed(d', Own) /\ Single(d')
    BY <1>3, <1>4 DEF Mine, Good, SameNodes, Placed, Single
<1> QED
    BY <1>3, <1>5, <1>6 DEF Mine, Good

LEMMA ClientsMine ==
    ASSUME NEW Own, HostIs(Own), Mine(d, Own), HandleClientCommand
    PROVE  Mine(d', Own)
<1>1. d \in Daemons
    BY DEF Mine, Good
<1>2. ASSUME NEW name, Connect(name)
      PROVE  Mine(d', Own)
    BY <1>1, <1>2, ConnectKeeps, KeepsMine
<1>3. ASSUME NEW p \in Names, Disconnect(p)
      PROVE  Mine(d', Own)
    BY <1>1, <1>3, DisconnectKeeps, KeepsMine
<1>4. ASSUME NEW p \in Names, NEW r, EndRequest(p, r)
      PROVE  Mine(d', Own)
    BY <1>1, <1>4, EndRequestKeeps, KeepsMine
<1>5. ASSUME NEW p \in Names, NEW r, SendLastReply(p, r)
      PROVE  Mine(d', Own)
    BY <1>1, <1>5, SendLastReplyKeeps, KeepsMine
<1>6. ASSUME NEW p \in Names, NEW n \in Asked, SendRequest(p, n)
      PROVE  Mine(d', Own)
    BY <1>6, SendRequestMine, ParametersAre
<1> QED
    BY <1>2, <1>3, <1>4, <1>5, <1>6, AddNodeMine DEF HandleClientCommand

LEMMA StepMine ==
    ASSUME NEW Own, HostIs(Own), Mine(d, Own), [Next]_(vars)
    PROVE  Mine(d', Own)
<1>1. CASE HandleAcnetPacket
    BY <1>1, PacketsMine
<1>2. CASE HandleClientCommand
    BY <1>2, ClientsMine
<1>3. CASE d' = d
    BY <1>3
<1> QED
    BY <1>1, <1>2, <1>3 DEF Next, vars, RequestTable, LoseRequest, RunAsDaemon

(***************************************************************************)
(* The node that clients are given by default is one of this machine and   *)
(* has a pool, in whatever order provisional entries, the table and        *)
(* AddNode have named it (ipaddr.cpp:406-430), if those agree on which     *)
(* nodes are ours and what they are called.                                *)
(***************************************************************************)
THEOREM MyNodeAlwaysMine ==
    ASSUME NEW CONSTANT Own, HostIs(Own)
    PROVE  Spec => []MyNodeIsMine
<1>1. Init => Mine(d, Own)
    BY StartMine
<1>2. Mine(d, Own) /\ [Next]_(vars) => Mine(d, Own)'
    BY StepMine
<1>3. Mine(d, Own) => MyNodeIsMine
    <2> SUFFICES ASSUME Mine(d, Own), d.myNode # Blank
                 PROVE  IsThisMachine(d, d.myNode) /\ PoolOf(d, d.myNode) # NoName
        BY DEF MyNodeIsMine
    <2>1. Good(d, Own) /\ d.myNode \in Own /\ Known(d, d.myNode) /\ SameNodes(d, d)
        BY DEF Mine, Good, MyNodeKnown, SameNodes
    <2>2. d.addr[d.myNode] = d.myIp
        BY <2>1 DEF Good, OwnKnown
    <2>3. IsThisMachine(d, d.myNode)
        BY <2>1, <2>2 DEF IsThisMachine, GetAddr
    <2>4. PoolOf(d, d.myNode) \in Names
        <3>1. Own \subseteq Nodes
            BY DEF HostIs, OwnEntries
        <3> QED
            BY <2>1, <3>1, OwnPool
    <2> QED
        BY <2>3, <2>4, ParametersAre
<1> QED
    BY <1>1, <1>2, <1>3, PTL DEF Spec

(***************************************************************************)
(* Wherever a request went, the CANCEL that the requester will send with   *)
(* the same header finds the pool that holds the reply, although tasks     *)
(* have come and gone and the node table has changed in between            *)
(* (main.cpp:856-870), unless the option -f is given.                      *)
(***************************************************************************)
THEOREM CancelAlwaysFindsReply ==
    ASSUME NEW CONSTANT Own, HostIs(Own), Fallback
    PROVE  Spec => []CancelFindsReply
<1>1. Init => Mine(d, Own)
    BY StartMine
<1>2. Mine(d, Own) /\ [Next]_(vars) => Mine(d, Own)'
    BY StepMine
<1>3. Mine(d, Own) => CancelFindsReply
    <2> SUFFICES ASSUME Mine(d, Own), NEW p \in Names, NEW r \in d.rpys[p]
                 PROVE  p \in CancelPools(d, GetAddr(d, r.server) = McAddr,
                                             r.client, r.id, r.server).pools
        BY DEF CancelFindsReply
    <2> DEFINE t == WithPool(d, r.server)
               q == PoolOf(t, r.server)
               found == \E x \in t.rpys[q] : x.client = r.client /\ x.id = r.id
    <2>1. Own \subseteq Nodes \ {McNode} /\ MyAddr # McAddr
        BY DEF HostIs, OwnEntries
    <2>2. d \in Daemons /\ Good(d, Own) /\ Keeps(d, t)
        BY WithPoolKeeps DEF Mine, Good
    <2>3. SameNodes(d, t) /\ FewerReplies(d, t) /\ t.rpys = d.rpys /\ t \in Daemons
        BY <2>2 DEF Keeps, FewerWork, WithPool, Daemons
    <2> HIDE DEF t
    <2>4. /\ d.pools[p] # Blank
          /\ r.server # McNode =>
                 /\ d.myNode # Blank
                 /\ p # HostName => r.server \in Own /\ Known(d, r.server) /\ p = d.name[r.server]
        BY <2>2 DEF Good, Placed
    <2>5. CASE GetAddr(d, r.server) = McAddr
        BY <2>4, <2>5 DEF CancelPools, Pools
    <2>6. CASE GetAddr(d, r.server) # McAddr
        <3>1. r.server # McNode
            BY <2>2, <2>6 DEF Good, MulticastKept, GetAddr
        <3>2. d.myNode \in Own /\ Known(d, d.myNode) /\ d.name[d.myNode] = HostName
            BY <2>4, <3>1 DEF Mine, Good, MyNodeKnown, Named
        <3>3. PoolOf(t, d.myNode) = HostName /\ t.myNode = d.myNode
            BY <2>1, <2>2, <2>3, <3>2, OwnPool DEF SameNodes
        <3>4. q = p => found
            BY <2>3
        <3>5. CASE q # NoName /\ found
            <4>1. PICK x \in t.rpys[q] : x.client = r.client /\ x.id = r.id
                BY <3>5
            <4>2. q \in Names /\ x \in d.rpys[q]
                BY <2>3, <3>5, <4>1, WithPoolIs
            <4>3. q = p
                BY <2>2, <3>1, <4>1, <4>2 DEF Good, Single
            <4>4. CancelPools(d, FALSE, r.client, r.id, r.server).pools = {q}
                BY <3>5 DEF CancelPools, t
            <4> QED
                BY <2>6, <4>3, <4>4
        <3>6. CASE ~(q # NoName /\ found)
            <4>1. p = HostName
                <5> SUFFICES ASSUME p # HostName
                             PROVE  FALSE
                    OBVIOUS
                <5>1. r.server \in Own /\ Known(d, r.server) /\ p = d.name[r.server]
                    BY <2>4, <3>1
                <5>2. q = p
                    BY <2>1, <2>2, <2>3, <5>1, OwnPool
                <5>3. p # NoName
                    BY ParametersAre
                <5> QED
                    BY <3>4, <3>6, <5>2, <5>3
            <4>2. r.server # t.myNode
                BY <3>3, <3>4, <3>6, <4>1, ParametersAre
            <4>3. CancelPools(d, FALSE, r.client, r.id, r.server).pools = {HostName} \ {NoName}
                BY <3>3, <3>6, <4>2 DEF CancelPools, t
            <4> QED
                BY <2>6, <4>1, <4>3, ParametersAre
        <3> QED
            BY <3>5, <3>6
    <2> QED
        BY <2>5, <2>6
<1> QED
    BY <1>1, <1>2, <1>3, PTL DEF Spec
=============================================================================
