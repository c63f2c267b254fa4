--------------------------- MODULE ProtocolProofs ---------------------------
(***************************************************************************)
(* The tables of the two daemons keep their invariants when the network    *)
(* lies between them and the daemon that asks may be restarted: what the   *)
(* proofs of each table show for the inputs it is checked with holds for   *)
(* the inputs it gets from the other one.                                  *)
(*                                                                         *)
(* Q and P are the proofs of the two tables, with the parameters that      *)
(* Protocol gives the tables themselves as A and B.                        *)
(***************************************************************************)
EXTENDS Protocol, TLAPS

Q == INSTANCE RequestPoolProofs WITH
        Tasks <- {Asker}, Pid <- [t \in {Asker} |-> NoPid], Port <- [t \in {Asker} |-> 1],
        Nodes <- {"B"}, McNodes <- {}, Senders <- {"B"}, Names <- {Server},
        AskedTmos <- {1}, MinTmo <- 1, MaxTmo <- 1, KilledNodes <- {},
        connected <- aConnected, dead <- aDead, pool <- aPool, phase <- aPhase, out <- aOut

P == INSTANCE ReplyPoolProofs WITH
        Tasks <- {Server}, Pid <- [t \in {Server} |-> NoPid], Port <- [t \in {Server} |-> 1],
        Nodes <- {"A"}, Clnts <- {Asker}, Kinds <- {}, KilledNodes <- {"A"},
        connected <- bConnected, dead <- bDead, receiving <- bReceiving, pending <- bPending,
        warned <- bWarned, rpy <- bRpy, replies <- bReplies, activeMap <- bActiveMap, out <- bOut

(***************************************************************************)
(* The datagrams on their way carry identifiers of requests.  Clients of   *)
(* the daemons never die here, so no message to them is lost.              *)
(***************************************************************************)
Typed(m) ==
    /\ m.type \in {"request", "reply"} => m.id \in ReqIds
    /\ m.type = "request" => m.mult \in BOOLEAN

NetTyped == \A m \in net : Typed(m)

(***************************************************************************)
(* The requests that daemon A has just sent are in its table.              *)
(***************************************************************************)
AskedTyped ==
    \A o \in aOut :
        "request" \in DOMAIN o =>
            /\ o.request \in ReqIds
            /\ aPool.info[o.request].mult \in BOOLEAN

IInv ==
    /\ Q!IInv /\ aDead = {}
    /\ P!IInv /\ P!CoversAll
    /\ NetTyped

-----------------------------------------------------------------------------
(* The assumptions of the tables' modules, and their handlers. *)

LEMMA AskerAssumptions ==
    /\ NoReq \notin Q!ReqInfo
    /\ 1 \in Nat \ {0} /\ 1 \in Nat /\ 1 <= 1 /\ {1} \subseteq Nat
BY RequestsAssumption DEF Q!ReqInfo, A!ReqInfo

LEMMA ServerAssumptions ==
    /\ RpyIds \subseteq Nat \ {0} /\ P!IsFiniteSet(RpyIds)
    /\ MaxPending \in Nat
    /\ NoRpy \notin P!RpyInfo
    /\ {} \subseteq BOOLEAN \X BOOLEAN
BY RepliesAssumption
DEF IsFiniteSet, P!IsFiniteSet, P!RpyInfo, B!RpyInfo, P!Keys, B!Keys

LEMMA SamePool ==
    /\ \A r, n : A!Cancel(r, n) = Q!Cancel(r, n) /\ A!Request(r, n) = Q!Request(r, n)
    /\ \A t, r, mlt, status : A!Reply(t, r, mlt, status) = Q!Reply(t, r, mlt, status)
    /\ \A p, R : A!Cancels(p, R) = Q!Cancels(p, R)
    /\ \A p, R : A!Closed(p, R) = Q!Closed(p, R)
    /\ \A p, r : A!Touch(p, r) = Q!Touch(p, r)
    /\ \A p, r, x : A!Opened(p, r, x) = Q!Opened(p, r, x)
<1>1. /\ \A r, n : A!Cancel(r, n) = Q!Cancel(r, n) /\ A!Request(r, n) = Q!Request(r, n)
      /\ \A t, r, mlt, status : A!Reply(t, r, mlt, status) = Q!Reply(t, r, mlt, status)
    BY Zenon DEF A!Cancel, Q!Cancel, A!Request, Q!Request, A!Reply, Q!Reply
<1>2. ASSUME NEW p, NEW R
      PROVE  A!Cancels(p, R) = Q!Cancels(p, R)
    BY <1>1, Zenon DEF A!Cancels, Q!Cancels, A!Cancel, Q!Cancel
<1>3. ASSUME NEW s, NEW R
      PROVE  A!Without(s, R) = Q!Without(s, R)
    BY Zenon DEF A!Without, Q!Without, A!Kept, Q!Kept, A!KeptUpTo, Q!KeptUpTo,
                 A!Cardinality, Q!Cardinality
<1>4. ASSUME NEW p, NEW R
      PROVE  A!Closed(p, R) = Q!Closed(p, R)
    BY <1>3, Zenon DEF A!Closed, Q!Closed
<1>5. ASSUME NEW s, NEW r, NEW left
      PROVE  A!InsertByTime(s, r, left) = Q!InsertByTime(s, r, left)
    BY Zenon DEF A!InsertByTime, Q!InsertByTime
<1>6. ASSUME NEW p, NEW r
      PROVE  A!Touch(p, r) = Q!Touch(p, r)
    BY <1>3, <1>5, Zenon DEF A!Touch, Q!Touch
<1>7. ASSUME NEW p, NEW r, NEW x
      PROVE  A!Opened(p, r, x) = Q!Opened(p, r, x)
    BY <1>6, Zenon DEF A!Opened, Q!Opened
<1> QED
    BY <1>1, <1>2, <1>4, <1>6, <1>7, Zenon

LEMMA SameClients ==
    /\ \A T, p, messages : A!RemoveTasks(T, p, messages) => Q!RemoveTasks(T, p, messages)
    /\ \A t, p, messages : A!Conclude(t, p, messages) => Q!Conclude(t, p, messages)
    /\ \A r : (A!Active(r) => Q!Active(r)) /\ A!Owner(r) = Q!Owner(r)
    /\ A!ActiveIds = Q!ActiveIds
    /\ \A t : A!RemovedWith(t) = Q!RemovedWith(t) /\ (A!Commands(t) => Q!Commands(t))
    /\ \A t, u : A!Equals(t, u) => Q!Equals(t, u)
<1>1. ASSUME NEW T, NEW p, NEW messages, A!RemoveTasks(T, p, messages)
      PROVE  Q!RemoveTasks(T, p, messages)
    <2>1. A!OwnedBy(p, T) = Q!OwnedBy(p, T)
        BY Zenon DEF A!OwnedBy, Q!OwnedBy
    <2> QED
        BY <1>1, <2>1, SamePool, Zenon DEF A!RemoveTasks, Q!RemoveTasks
<1>2. ASSUME NEW t
      PROVE  /\ A!RemovedWith(t) = Q!RemovedWith(t) /\ (A!Commands(t) => Q!Commands(t))
             /\ A!Dropped(t) = Q!Dropped(t)
    BY Zenon DEF A!RemovedWith, Q!RemovedWith, A!Commands, Q!Commands, A!Dropped, Q!Dropped
<1>3. ASSUME NEW t, NEW p, NEW messages, A!Conclude(t, p, messages)
      PROVE  Q!Conclude(t, p, messages)
    BY <1>1, <1>2, <1>3, Zenon DEF A!Conclude, Q!Conclude
<1>4. /\ \A r : (A!Active(r) => Q!Active(r)) /\ A!Owner(r) = Q!Owner(r)
      /\ A!ActiveIds = Q!ActiveIds
    BY Zenon DEF A!Active, Q!Active, A!Owner, Q!Owner, A!ActiveIds, Q!ActiveIds
<1>5. ASSUME NEW t, NEW u, A!Equals(t, u)
      PROVE  Q!Equals(t, u)
    BY <1>5, Zenon DEF A!Equals, Q!Equals
<1> QED
    BY <1>1, <1>2, <1>3, <1>4, <1>5, Zenon

LEMMA AskerHandlers ==
    ASSUME NEW d, NEW r, NEW mult, NEW mlt, NEW status
    PROVE  /\ A!ExpireOldest => Q!ExpireOldest
           /\ A!PollReturns(d) => Q!PollReturns(d)
           /\ A!SocketsDrained => Q!SocketsDrained
           /\ A!Connect(Asker) => Q!Connect(Asker)
           /\ A!Disconnect(Asker) => Q!Disconnect(Asker)
           /\ A!SendRequest(Asker, "B", Server, mult, 1)
                 => Q!SendRequest(Asker, "B", Server, mult, 1)
           /\ A!HandleCancel(Asker, r) => Q!HandleCancel(Asker, r)
           /\ A!HandleAcnetReply(r, "B", Server, Asker, mlt, status)
                 => Q!HandleAcnetReply(r, "B", Server, Asker, mlt, status)
<1>1. A!ExpireOldest => Q!ExpireOldest
    <2>1. A!Expired => Q!Expired
        BY Zenon DEF A!Expired, Q!Expired
    <2> QED
        BY <2>1, SamePool, SameClients, Zenon DEF A!ExpireOldest, Q!ExpireOldest
<1>2. A!PollReturns(d) => Q!PollReturns(d)
    BY Zenon DEF A!PollReturns, Q!PollReturns, A!Expired, Q!Expired
<1>3. A!SocketsDrained => Q!SocketsDrained
    BY Zenon DEF A!SocketsDrained, Q!SocketsDrained
<1>4. A!Connect(Asker) => Q!Connect(Asker)
    <2>1. A!Inactive = Q!Inactive
        BY Zenon DEF A!Inactive, Q!Inactive, A!RemovedWith, Q!RemovedWith
    <2>2. \A T : A!OwnedBy(aPool, T) = Q!OwnedBy(aPool, T)
        BY Zenon DEF A!OwnedBy, Q!OwnedBy
    <2> QED
        BY <2>1, <2>2, SamePool, Zenon DEF A!Connect, Q!Connect
<1>5. A!Disconnect(Asker) => Q!Disconnect(Asker)
    BY SameClients, Zenon DEF A!Disconnect, Q!Disconnect
<1>6. A!SendRequest(Asker, "B", Server, mult, 1)
        => Q!SendRequest(Asker, "B", Server, mult, 1)
    <2>1. A!Clamped(1) = Q!Clamped(1)
        BY Zenon DEF A!Clamped, Q!Clamped
    <2> QED
        BY <2>1, SamePool, SameClients, Zenon DEF A!SendRequest, Q!SendRequest
<1>7. A!HandleCancel(Asker, r) => Q!HandleCancel(Asker, r)
    BY SamePool, SameClients, Zenon DEF A!HandleCancel, Q!HandleCancel
<1>8. A!HandleAcnetReply(r, "B", Server, Asker, mlt, status)
        => Q!HandleAcnetReply(r, "B", Server, Asker, mlt, status)
    <2>1. A!Matches(r, "B", Server, Asker) <=> Q!Matches(r, "B", Server, Asker)
        BY Zenon DEF A!Matches, Q!Matches, A!Active, Q!Active, A!Owner, Q!Owner
    <2>2. A!RejectReply(r, "B", Server, Asker) => Q!RejectReply(r, "B", Server, Asker)
        BY <2>1, SamePool, Zenon DEF A!RejectReply, Q!RejectReply
    <2>3. /\ A!IsEMR(mlt, status) = Q!IsEMR(mlt, status)
          /\ A!ClientHeader(r, mlt, status) = Q!ClientHeader(r, mlt, status)
        BY Zenon DEF A!IsEMR, Q!IsEMR, A!ClientHeader, Q!ClientHeader, A!Reply, Q!Reply,
                     A!Owner, Q!Owner
    <2>4. \A a, b, c : A!Closes(a, b, c) = Q!Closes(a, b, c) /\ A!CancelsToo(a, b, c) = Q!CancelsToo(a, b, c)
        BY Zenon DEF A!Closes, Q!Closes, A!CancelsToo, Q!CancelsToo
    <2>5. A!AcceptReply(r, mlt, status) => Q!AcceptReply(r, mlt, status)
        BY <2>3, <2>4, SamePool, SameClients, Zenon DEF A!AcceptReply, Q!AcceptReply
    <2> QED
        BY <2>1, <2>2, <2>5, SameClients, Zenon DEF A!HandleAcnetReply, Q!HandleAcnetReply
<1> QED
    BY <1>1, <1>2, <1>3, <1>4, <1>5, <1>6, <1>7, <1>8

LEMMA ServerHandlers ==
    ASSUME NEW k, NEW r, NEW emr, NEW mult
    PROVE  /\ B!Connect(Server) => P!Connect(Server)
           /\ B!Disconnect(Server) => P!Disconnect(Server)
           /\ B!ReceiveRequests(Server) => P!ReceiveRequests(Server)
           /\ B!BlockRequests(Server) => P!BlockRequests(Server)
           /\ B!IgnoreRequest(Server, r) => P!IgnoreRequest(Server, r)
           /\ B!RequestAck(Server, r) => P!RequestAck(Server, r)
           /\ B!SendReply(Server, r, emr) => P!SendReply(Server, r, emr)
           /\ B!AcceptRequest(Server, k, Asker, mult, FALSE)
                 => P!AcceptRequest(Server, k, Asker, mult, FALSE)
           /\ B!RefuseRequest(Server, k, FALSE) => P!RefuseRequest(Server, k, FALSE)
           /\ B!HandleAcnetCancel(k, Server, Asker) => P!HandleAcnetCancel(k, Server, Asker)
           /\ B!EndRpyToNode("A") => P!EndRpyToNode("A")
<1> USE DEF
        B!Active, P!Active, B!ActiveIds, P!ActiveIds, B!Packet, P!Packet, B!ErrorTo,
        P!ErrorTo, B!Cancel, P!Cancel, B!EndMessages, P!EndMessages, B!OwnedBy,
        P!OwnedBy, B!EndReplies, P!EndReplies, B!RemoveTasks, P!RemoveTasks,
        B!Conclude, P!Conclude, B!Decremented, P!Decremented, B!CountRequest,
        P!CountRequest, B!RemovedWith, P!RemovedWith, B!Inactive, P!Inactive,
        B!Dropped, P!Dropped, B!Equals, P!Equals, B!Commands, P!Commands, B!poolVars,
        P!poolVars, B!taskVars, P!taskVars
<1>1. B!Connect(Server) => P!Connect(Server)
    BY DEF B!Connect, P!Connect
<1>2. B!Disconnect(Server) => P!Disconnect(Server)
    BY DEF B!Disconnect, P!Disconnect
<1>3. B!ReceiveRequests(Server) => P!ReceiveRequests(Server)
    BY DEF B!ReceiveRequests, P!ReceiveRequests
<1>4. B!BlockRequests(Server) => P!BlockRequests(Server)
    BY DEF B!BlockRequests, P!BlockRequests
<1>5. B!IgnoreRequest(Server, r) => P!IgnoreRequest(Server, r)
    BY DEF B!IgnoreRequest, P!IgnoreRequest
<1>6. B!RequestAck(Server, r) => P!RequestAck(Server, r)
    BY DEF B!RequestAck, P!RequestAck
<1>7. B!SendReply(Server, r, emr) => P!SendReply(Server, r, emr)
    BY DEF B!SendReply, P!SendReply
<1>8. B!AcceptRequest(Server, k, Asker, mult, FALSE)
        => P!AcceptRequest(Server, k, Asker, mult, FALSE)
    BY DEF B!AcceptRequest, P!AcceptRequest
<1>9. B!RefuseRequest(Server, k, FALSE) => P!RefuseRequest(Server, k, FALSE)
    BY DEF B!RefuseRequest, P!RefuseRequest
<1>10. B!HandleAcnetCancel(k, Server, Asker) => P!HandleAcnetCancel(k, Server, Asker)
    BY DEF B!HandleAcnetCancel, P!HandleAcnetCancel
<1>11. B!EndRpyToNode("A") => P!EndRpyToNode("A")
    BY DEF B!EndRpyToNode, P!EndRpyToNode
<1> QED
    BY <1>1, <1>2, <1>3, <1>4, <1>5, <1>6, <1>7, <1>8, <1>9, <1>10, <1>11

-----------------------------------------------------------------------------
(* Steps of daemon A. *)

(***************************************************************************)
(* Only a request is sent with a field of that name.                       *)
(***************************************************************************)
LEMMA OthersAreNoRequests ==
    ASSUME NEW t, NEW r, NEW mlt, NEW status, NEW n
    PROVE  /\ "request" \notin DOMAIN Q!Reply(t, r, mlt, status)
           /\ "request" \notin DOMAIN Q!Cancel(r, n)
BY DEF Q!Reply, Q!Cancel

LEMMA CancelsAreNoRequests ==
    ASSUME NEW p, NEW R, NEW o \in Q!Cancels(p, R)
    PROVE  "request" \notin DOMAIN o
BY OthersAreNoRequests DEF Q!Cancels

(***************************************************************************)
(* No client is dead, so that concluding a step only changes the pool.     *)
(***************************************************************************)
LEMMA AskerConcludes ==
    ASSUME aDead = {}, NEW t, NEW p, NEW messages, Q!Conclude(t, p, messages)
    PROVE  /\ aDead' = {}
           /\ aPool' = Q!Closed(p, {})
           /\ \A o \in aOut' : o \in messages \/ "request" \notin DOMAIN o
<1>1. PICK T \in Q!Dropped(t) : Q!RemoveTasks(T, p, messages)
    BY DEF Q!Conclude
<1>2. T = {}
    BY DEF Q!Dropped
<1>3. Q!OwnedBy(p, T) = {}
    BY <1>2 DEF Q!OwnedBy
<1> QED
    BY <1>1, <1>2, <1>3, CancelsAreNoRequests DEF Q!RemoveTasks

LEMMA AskerRemoves ==
    ASSUME aDead = {}, NEW T, NEW p, Q!RemoveTasks(T, p, {})
    PROVE  aDead' = {} /\ AskedTyped'
BY CancelsAreNoRequests DEF Q!RemoveTasks, AskedTyped

LEMMA LoopSteps ==
    ASSUME Q!IInv, aDead = {}, NEW d \in 0..1,
           Q!ExpireOldest \/ Q!PollReturns(d) \/ Q!SocketsDrained
    PROVE  Q!IInv' /\ aDead' = {} /\ AskedTyped'
<1>1. CASE Q!ExpireOldest
    <2>1. Q!IInv'
        BY <1>1, Q!ExpireOldestStep, AskerAssumptions
    <2>2. PICK p, messages :
            /\ Q!Conclude(Q!Owner(Q!Head(aPool.timers)), p, messages)
            /\ \A o \in messages : "request" \notin DOMAIN o
        <3> DEFINE r == Q!Head(aPool.timers)
                   reply == {Q!Reply(Q!Owner(r), r, TRUE, "pend")}
                   ended == {Q!Reply(Q!Owner(r), r, FALSE, "error")} \cup Q!Cancels(aPool, {r})
        <3>1. \A o \in reply \cup ended : "request" \notin DOMAIN o
            BY OthersAreNoRequests, CancelsAreNoRequests
        <3>2. \/ Q!Conclude(Q!Owner(r), Q!Touch(aPool, r), reply)
              \/ Q!Conclude(Q!Owner(r), Q!Closed(aPool, {r}), ended)
            BY <1>1 DEF Q!ExpireOldest
        <3> HIDE DEF reply, ended
        <3> QED
            BY <3>1, <3>2
    <2> QED
        BY <2>1, <2>2, AskerConcludes DEF AskedTyped
<1>2. CASE Q!PollReturns(d)
    <2>1. Q!IInv'
        BY <1>2, Q!PollReturnsStep, AskerAssumptions
    <2> QED
        BY <1>2, <2>1 DEF Q!PollReturns, AskedTyped
<1>3. CASE Q!SocketsDrained
    <2>1. UNCHANGED <<aPool, aConnected, aDead>> /\ aPhase' = "timers" /\ aOut' = {}
        BY <1>3 DEF Q!SocketsDrained
    <2>2. Q!IInv'
        BY <2>1, Q!PoolUntouched, AskerAssumptions DEF Q!IInv, Q!ClientsTypeOK
    <2> QED
        BY <2>1, <2>2 DEF AskedTyped
<1> QED
    BY <1>1, <1>2, <1>3

LEMMA AskerCommands ==
    ASSUME Q!IInv, aDead = {}, UNCHANGED aPhase,
           \/ Q!Connect(Asker) \/ Q!Disconnect(Asker)
           \/ \E mult \in BOOLEAN : Q!SendRequest(Asker, "B", Server, mult, 1)
           \/ \E r \in ReqIds : Q!HandleCancel(Asker, r)
    PROVE  Q!IInv' /\ aDead' = {} /\ AskedTyped'
<1>1. CASE Q!Connect(Asker)
    <2>1. Q!IInv'
        BY <1>1, Q!ConnectStep, AskerAssumptions
    <2> QED
        BY <1>1, <2>1, CancelsAreNoRequests DEF Q!Connect, AskedTyped
<1>2. CASE Q!Disconnect(Asker)
    <2>1. Q!RemoveTasks(Q!RemovedWith(Asker), aPool, {})
        BY <1>2 DEF Q!Disconnect
    <2>2. Q!HandleClientCommand(Asker)
        BY <1>2 DEF Q!HandleClientCommand
    <2>3. Q!IInv'
        BY <2>2, Q!CommandSteps, AskerAssumptions
    <2> QED
        BY <2>1, <2>3, AskerRemoves
<1>3. ASSUME NEW mult \in BOOLEAN, Q!SendRequest(Asker, "B", Server, mult, 1)
      PROVE  Q!IInv' /\ aDead' = {} /\ AskedTyped'
    <2>1. Q!IInv'
        BY <1>3, Q!SendRequestStep, AskerAssumptions
    <2> DEFINE x == [task |-> Asker, node |-> "B", name |-> Server, mult |-> mult,
                     mcast |-> "B" \in {}, tmo |-> Q!Clamped(1)]
    <2>2. PICK q \in ReqIds :
            Q!Conclude(Asker, Q!Opened(aPool, q, x), {Q!Request(q, "B")})
        BY <1>3 DEF Q!SendRequest
    <2>3. /\ aDead' = {} /\ aPool' = Q!Closed(Q!Opened(aPool, q, x), {})
          /\ \A o \in aOut' : o = Q!Request(q, "B") \/ "request" \notin DOMAIN o
        BY <2>2, AskerConcludes
    <2>4. aPool'.info[q] = x
        BY <2>3 DEF Q!Closed, Q!Opened, Q!Touch, Q!IInv, Q!GoodPool, Q!Pools
    <2>5. Q!Request(q, "B").request = q
        BY DEF Q!Request
    <2> QED
        BY <2>1, <2>3, <2>4, <2>5 DEF AskedTyped
<1>4. ASSUME NEW r \in ReqIds, Q!HandleCancel(Asker, r)
      PROVE  Q!IInv' /\ aDead' = {} /\ AskedTyped'
    <2>1. Q!IInv'
        BY <1>4, Q!HandleCancelStep, AskerAssumptions
    <2>2. Q!Conclude(Asker, Q!Closed(aPool, {r}), Q!Cancels(aPool, {r}))
        BY <1>4 DEF Q!HandleCancel
    <2> QED
        BY <2>1, <2>2, AskerConcludes, CancelsAreNoRequests DEF AskedTyped
<1> QED
    BY <1>1, <1>2, <1>3, <1>4

LEMMA AskerReceives ==
    ASSUME Q!IInv, aDead = {}, NEW r \in ReqIds, NEW mlt, NEW status, UNCHANGED aPhase,
           Q!HandleAcnetReply(r, "B", Server, Asker, mlt, status)
    PROVE  Q!IInv' /\ aDead' = {} /\ AskedTyped'
<1>1. Q!IInv'
    BY Q!ReplyStep, AskerAssumptions
<1>2. CASE Q!RejectReply(r, "B", Server, Asker)
    BY <1>1, <1>2, OthersAreNoRequests DEF Q!RejectReply, AskedTyped
<1>3. CASE Q!AcceptReply(r, mlt, status)
    <2>1. "request" \notin DOMAIN Q!ClientHeader(r, mlt, status)
        BY OthersAreNoRequests DEF Q!ClientHeader
    <2>2. UNCHANGED aDead /\ \A o \in aOut' : "request" \notin DOMAIN o
        BY <1>3, <2>1, CancelsAreNoRequests DEF Q!AcceptReply
    <2> QED
        BY <1>1, <2>2 DEF AskedTyped
<1> QED
    BY <1>1, <1>2, <1>3 DEF Q!HandleAcnetReply

LEMMA EmptyIsGood ==
    Q!Init => Q!IInv
BY Q!InitEstablishes, AskerAssumptions

LEMMA EmptyAfterwards ==
    Q!Init' => Q!IInv'
BY EmptyIsGood, PTL

(***************************************************************************)
(* The daemon that takes the place of A starts with empty tables.          *)
(***************************************************************************)
LEMMA CrashStep ==
    ASSUME Q!IInv, Crash
    PROVE  Q!IInv' /\ aDead' = {} /\ aOut' = {}
<1>1. Q!Init'
    <2>1. aPool' = A!Closed([aPool EXCEPT !.timers = <<>>], ReqIds)
        BY DEF Crash
    <2>2. aPool \in Q!Pools
        BY DEF Q!IInv, Q!GoodPool
    <2>3. A!Without(<<>>, ReqIds) = <<>>
        BY DEF A!Without, A!Kept
    <2>4. \A t \in {Asker} : aPool.owned[t] \ ReqIds = {}
        BY <2>2 DEF Q!Pools
    <2>5. aPool' = [info   |-> [r \in ReqIds |-> NoReq],
                    owned  |-> [t \in {Asker} |-> {}],
                    timers |-> << >>,
                    left   |-> [r \in ReqIds |-> 0]]
        BY <2>1, <2>2, <2>3, <2>4 DEF A!Closed, Q!Pools
    <2> QED
        BY <2>5 DEF Crash, Q!Init, Q!ClientsInit
<1> QED
    BY <1>1, EmptyAfterwards DEF Crash

LEMMA AskerQuiet ==
    ASSUME Q!IInv, aDead = {}, QuietA
    PROVE  Q!IInv' /\ aDead' = {}
<1>1. Q!IInv'
    BY Q!PoolUntouched, AskerAssumptions DEF QuietA, Q!IInv, Q!ClientsTypeOK
<1> QED
    BY <1>1 DEF QuietA

-----------------------------------------------------------------------------
(* Steps of daemon B. *)

LEMMA OnePort ==
    P!PortsDistinct
BY DEF P!PortsDistinct

LEMMA ServerCommands ==
    ASSUME P!IInv, P!CoversAll, P!Connect(Server) \/ P!HandleClientCommand(Server)
    PROVE  P!IInv' /\ P!CoversAll'
<1>1. CASE P!Connect(Server)
    BY <1>1, P!ConnectStep, P!ConnectCovers, ServerAssumptions
<1>2. CASE P!HandleClientCommand(Server)
    <2>1. P!IInv'
        BY <1>2, P!CommandSteps, ServerAssumptions
    <2>2. P!CoversAll'
        BY <1>2, P!CommandCovers, OnePort, ServerAssumptions
    <2> QED
        BY <2>1, <2>2
<1> QED
    BY <1>1, <1>2

LEMMA ServerIsAsked ==
    ASSUME P!IInv, P!CoversAll, NEW id \in ReqIds, NEW mult \in BOOLEAN,
           \/ P!AcceptRequest(Server, <<"A", id>>, Asker, mult, FALSE)
           \/ P!RefuseRequest(Server, <<"A", id>>, FALSE)
    PROVE  P!IInv' /\ P!CoversAll'
<1>1. <<"A", id>> \in P!Keys
    BY DEF P!Keys
<1>2. CASE P!AcceptRequest(Server, <<"A", id>>, Asker, mult, FALSE)
    <2>1. P!IInv'
        BY <1>1, <1>2, P!AcceptRequestStep, ServerAssumptions
    <2>2. P!CoversAll'
        BY <1>2, P!AcceptCovers, ServerAssumptions
    <2> QED
        BY <2>1, <2>2
<1>3. CASE P!RefuseRequest(Server, <<"A", id>>, FALSE)
    <2>1. P!IInv'
        BY <1>1, <1>3, P!RefuseRequestStep, ServerAssumptions
    <2>2. P!CoversAll'
        BY <1>3, P!RefuseCovers, ServerAssumptions
    <2> QED
        BY <2>1, <2>2
<1> QED
    BY <1>2, <1>3

LEMMA ServerIsTold ==
    ASSUME P!IInv, P!CoversAll, NEW k,
           P!HandleAcnetCancel(k, Server, Asker) \/ P!EndRpyToNode("A")
    PROVE  P!IInv' /\ P!CoversAll'
<1>1. CASE P!HandleAcnetCancel(k, Server, Asker)
    <2>1. k \in P!Keys
        BY <1>1 DEF P!HandleAcnetCancel, P!IInv, P!TypeOK
    <2>2. P!IInv'
        BY <1>1, <2>1, P!HandleAcnetCancelStep, ServerAssumptions
    <2>3. P!CoversAll'
        BY <1>1, P!CancelCovers, ServerAssumptions
    <2> QED
        BY <2>2, <2>3
<1>2. CASE P!EndRpyToNode("A")
    <2>1. P!IInv'
        BY <1>2, P!EndRpyToNodeStep, ServerAssumptions
    <2>2. P!CoversAll'
        BY <1>2, P!EndRpyCovers, ServerAssumptions
    <2> QED
        BY <2>1, <2>2
<1> QED
    BY <1>1, <1>2

LEMMA ServerQuiet ==
    ASSUME P!IInv, P!CoversAll, QuietB
    PROVE  P!IInv' /\ P!CoversAll'
<1>1. P!TypeOK' /\ P!OwnersListen' /\ P!OwnershipAgrees' /\ P!MapSound'
    BY DEF QuietB, P!IInv, P!TypeOK, P!ClientsTypeOK, P!OwnersListen,
           P!OwnershipAgrees, P!MapSound, P!ActiveIds, P!Active
<1>2. P!CoversAll'
    BY DEF QuietB, P!CoversAll, P!Covers, P!Unacked, P!ActiveIds, P!Active
<1> QED
    BY <1>1, <1>2 DEF P!IInv

-----------------------------------------------------------------------------
(* The network. *)

LEMMA SentByATyped ==
    ASSUME AskedTyped', NEW m \in SentByA
    PROVE  Typed(m)
BY DEF SentByA, AskedTyped, Request, Cancel, Typed

LEMMA SentByBTyped ==
    ASSUME P!IInv', NEW status, NEW m \in SentByB(status)
    PROVE  Typed(m)
<1>1. PICK o \in bOut' : "key" \in DOMAIN o /\ m = Reply(o.key[2], o.mlt, status)
    BY DEF SentByB
<1>2. o \in [rpy : RpyIds \cup {0}, key : P!Keys, mlt : BOOLEAN]
           \cup [to : {Server}, cancel : RpyIds \cup {0}]
    BY <1>1 DEF P!IInv, P!TypeOK
<1>3. o.key \in {"A"} \X ReqIds
    BY <1>1, <1>2 DEF P!Keys
<1> QED
    BY <1>1, <1>3 DEF Typed, Reply

LEMMA NetStep ==
    ASSUME NetTyped, NEW old \in SUBSET net, NEW new, \A m \in new : Typed(m),
           \/ Transmit(old, new)
           \/ \E loses : Send(old, new, loses)
    PROVE  NetTyped'
BY DEF Transmit, Send, Arrive, NetTyped, Typed

-----------------------------------------------------------------------------
(* The composition. *)

LEMMA InitEstablishes ==
    Init => IInv
<1> SUFFICES ASSUME Init
             PROVE  IInv
    OBVIOUS
<1>1. Q!Init
    BY DEF Init, A!Init, Q!Init, A!ClientsInit, Q!ClientsInit
<1>2. P!Init
    BY DEF Init, B!Init, P!Init, B!ClientsInit, P!ClientsInit
<1>3. P!IInv
    BY <1>2, P!InitEstablishes, ServerAssumptions
<1>4. P!CoversAll
    BY <1>2 DEF P!CoversAll, P!Init, P!ClientsInit
<1> QED
    BY <1>1, <1>3, <1>4, EmptyIsGood DEF Init, Q!Init, Q!ClientsInit, IInv, NetTyped

LEMMA StepsOfA ==
    ASSUME IInv, LoopA \/ HandleCommandA \/ \E m \in net : DeliverReply(m, TRUE)
    PROVE  IInv'
<1>1. Q!IInv' /\ aDead' = {} /\ AskedTyped'
    <2>1. CASE LoopA
        BY <2>1, LoopSteps, AskerHandlers DEF LoopA, IInv
    <2>2. CASE HandleCommandA
        BY <2>2, AskerCommands, AskerHandlers DEF HandleCommandA, IInv
    <2>3. ASSUME NEW m \in net, DeliverReply(m, TRUE)
          PROVE  Q!IInv' /\ aDead' = {} /\ AskedTyped'
        <3>1. m.id \in ReqIds
            BY <2>3 DEF DeliverReply, IInv, NetTyped, Typed
        <3> QED
            BY <2>3, <3>1, AskerReceives, AskerHandlers DEF DeliverReply, IInv
    <2> QED
        BY <2>1, <2>2, <2>3
<1>2. P!IInv' /\ P!CoversAll'
    BY ServerQuiet DEF IInv, LoopA, HandleCommandA, DeliverReply
<1>3. NetTyped'
    <2>1. \E old \in SUBSET net :
             Transmit(old, SentByA) \/ \E loses : Send(old, SentByA, loses)
        BY DEF LoopA, HandleCommandA, DeliverReply
    <2> QED
        BY <1>1, <2>1, SentByATyped, NetStep DEF IInv
<1> QED
    BY <1>1, <1>2, <1>3 DEF IInv

LEMMA RestartOfA ==
    ASSUME IInv, Crash
    PROVE  IInv'
<1>1. Q!IInv' /\ aDead' = {}
    BY CrashStep DEF IInv
<1>2. P!IInv' /\ P!CoversAll'
    BY ServerQuiet DEF IInv, Crash
<1>3. NetTyped'
    <2>1. Typed(Killer)
        BY DEF Typed, Killer
    <2>2. Transmit(net, {Killer}) /\ net \in SUBSET net
        BY DEF Crash
    <2> QED
        BY <2>1, <2>2, NetStep DEF IInv
<1> QED
    BY <1>1, <1>2, <1>3 DEF IInv

LEMMA StepsOfB ==
    ASSUME IInv,
           \/ HandleCommandB \/ DeliverToB
           \/ \E r \in RpyIds, emr \in BOOLEAN : SendReply(r, emr, TRUE)
    PROVE  IInv'
<1>1. CASE HandleCommandB
    <2>1. P!IInv' /\ P!CoversAll'
        BY <1>1, ServerCommands, ServerHandlers
        DEF HandleCommandB, P!HandleClientCommand, IInv
    <2> QED
        BY <1>1, <2>1, AskerQuiet, SentByBTyped, NetStep DEF HandleCommandB, IInv
<1>2. ASSUME NEW r \in RpyIds, NEW emr \in BOOLEAN, SendReply(r, emr, TRUE)
      PROVE  IInv'
    <2>1. P!IInv' /\ P!CoversAll'
        BY <1>2, ServerCommands, ServerHandlers DEF SendReply, P!HandleClientCommand, IInv
    <2>2. \E status : Send(net, SentByB(status), TRUE)
        BY <1>2 DEF SendReply
    <2> QED
        BY <1>2, <2>1, <2>2, AskerQuiet, SentByBTyped, NetStep DEF SendReply, IInv
<1>3. ASSUME NEW m \in net, DeliverRequest(m)
      PROVE  IInv'
    <2>1. m.id \in ReqIds /\ m.mult \in BOOLEAN
        BY <1>3 DEF DeliverRequest, IInv, NetTyped, Typed
    <2>2. P!IInv' /\ P!CoversAll'
        BY <1>3, <2>1, ServerIsAsked, ServerHandlers DEF DeliverRequest, IInv
    <2> QED
        BY <1>3, <2>2, AskerQuiet, SentByBTyped, NetStep DEF DeliverRequest, IInv
<1>4. ASSUME NEW m \in net, DeliverCancel(m)
      PROVE  IInv'
    <2>1. P!IInv' /\ P!CoversAll'
        BY <1>4, ServerIsTold, ServerQuiet, ServerHandlers DEF DeliverCancel, IInv
    <2> QED
        BY <1>4, <2>1, AskerQuiet DEF DeliverCancel, IInv, NetTyped, Typed
<1>5. CASE DeliverKiller
    <2>1. P!IInv' /\ P!CoversAll'
        BY <1>5, ServerIsTold, ServerQuiet, ServerHandlers DEF DeliverKiller, IInv
    <2> QED
        BY <1>5, <2>1, AskerQuiet DEF DeliverKiller, IInv, NetTyped, Typed
<1> QED
    BY <1>1, <1>2, <1>3, <1>4, <1>5 DEF DeliverToB

LEMMA NextPreserves ==
    IInv /\ [Next]_vars => IInv'
<1> SUFFICES ASSUME IInv, [Next]_vars
             PROVE  IInv'
    OBVIOUS
<1>1. CASE UNCHANGED vars
    <2>1. Q!IInv' /\ aDead' = {}
        BY <1>1, Q!PoolUntouched, AskerAssumptions
        DEF vars, aVars, IInv, Q!IInv, Q!ClientsTypeOK
    <2>2. P!IInv' /\ P!CoversAll'
        BY <1>1 DEF vars, bVars, IInv, P!IInv, P!TypeOK, P!ClientsTypeOK, P!OwnersListen,
                    P!OwnershipAgrees, P!MapSound, P!CoversAll, P!Covers, P!Unacked,
                    P!ActiveIds, P!Active
    <2> QED
        BY <1>1, <2>1, <2>2 DEF vars, IInv, NetTyped, Typed
<1>2. CASE Next
    BY <1>2, StepsOfA, RestartOfA, StepsOfB DEF Next
<1> QED
    BY <1>1, <1>2

(***************************************************************************)
(* The tables of both daemons are good, and only requests and replies to   *)
(* identifiers of A's pool are on their way.                               *)
(***************************************************************************)
THEOREM Inductive ==
    Spec => []IInv
BY InitEstablishes, NextPreserves, PTL DEF Spec

(***************************************************************************)
(* Whatever becomes of the datagrams, and however often daemon A is        *)
(* restarted, the sets, the map and the time-ordered list of each daemon   *)
(* are what its pool says: no reply, CANCEL or killer message of the other *)
(* daemon leaves an entry that only some of its tables know.               *)
(***************************************************************************)
THEOREM TablesAlwaysAgree ==
    Spec => [](/\ A!OwnershipAgrees /\ A!TimersExact
               /\ B!OwnersListen /\ B!OwnershipAgrees /\ B!MapSound)
<1>1. IInv => A!OwnershipAgrees
    BY Q!ActiveIsActive, AskerAssumptions
    DEF IInv, Q!IInv, Q!GoodPool, Q!OwnedRight, Q!OwnersIn, Q!ActiveIds,
        A!OwnershipAgrees, A!ActiveIds, A!Active, Q!Active, A!Owner
<1>2. IInv => A!TimersExact
    BY Q!ListIsExact, AskerAssumptions
    DEF IInv, A!TimersExact, Q!TimersExact, A!ActiveIds, Q!ActiveIds, A!Active, Q!Active,
        A!Cardinality, Q!Cardinality
<1>3. IInv => B!OwnersListen /\ B!OwnershipAgrees /\ B!MapSound
    BY DEF IInv, P!IInv, B!OwnersListen, P!OwnersListen, B!OwnershipAgrees,
           P!OwnershipAgrees, B!MapSound, P!MapSound, B!ActiveIds, P!ActiveIds,
           B!Active, P!Active
<1> QED
    BY <1>1, <1>2, <1>3, Inductive, PTL

(***************************************************************************)
(* A request that the network delivers is counted until it is              *)
(* acknowledged, for any number of identifiers, datagrams and restarts and *)
(* any limit: the first acknowledgement of a client that has not been      *)
(* warned is never answered ACNET_BUG.                                     *)
(***************************************************************************)
THEOREM PendingAlwaysCovers ==
    Spec => []PendingCoversUnacked
<1>1. IInv => PendingCoversUnacked
    BY OnePort
    DEF IInv, PendingCoversUnacked, B!PendingCoversUnacked, P!CoversAll, P!Covers,
        B!Unacked, P!Unacked, B!ActiveIds, P!ActiveIds, B!Active, P!Active,
        B!Cardinality, P!Cardinality
<1> QED
    BY <1>1, Inductive, PTL
=============================================================================
