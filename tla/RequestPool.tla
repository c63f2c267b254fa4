---------------------------- MODULE RequestPool ----------------------------
(***************************************************************************)
(* The asking side of acnetd: requests that local clients send, the        *)
(* identifiers and time-outs they are given (reqinfo.cpp,                  *)
(* timesensitive.cpp), the replies that arrive for them (main.cpp), and    *)
(* the main loop that alternates between time-outs and traffic.            *)
(*                                                                         *)
(* Time is what is left before each request expires.  The code's clock is  *)
(* read once in each turn of the loop, and an expiration in the past       *)
(* counts as nothing left.                                                 *)
(***************************************************************************)
EXTENDS Clients, Sequences

CONSTANTS ReqIds,     \* entries of the request pool, numbered from 1
          Nodes,      \* nodes requests are sent to
          McNodes,    \* those whose address is a multicast group
          Senders,    \* nodes replies come from
          Names,      \* task names on the remote nodes
          AskedTmos,  \* time-outs clients ask for
          MinTmo,     \* 400 ms
          MaxTmo,     \* REQUEST_TIMEOUT
          KilledNodes,\* nodes a killer message or a node table update may name
          NoReq       \* the content of a free entry of the pool

ReqInfo == [task : Tasks, node : Nodes, name : Names,
            mult : BOOLEAN, mcast : BOOLEAN, tmo : MinTmo..MaxTmo]

ASSUME NoReqAssumption == NoReq \notin ReqInfo
ASSUME TmoAssumption == /\ MinTmo \in Nat \ {0} /\ MaxTmo \in Nat
                        /\ MinTmo <= MaxTmo /\ AskedTmos \subseteq Nat

VARIABLES pool,       \* the pool, its time-ordered list, and who owns what
          phase,      \* what the main loop is at: "timers" or "traffic"
          out         \* what the last step sent

vars == <<connected, dead, pool, phase, out>>

Active(r) == pool.info[r] # NoReq
ActiveIds == {r \in ReqIds : Active(r)}
Owner(r) == pool.info[r].task

(***************************************************************************)
(* The messages: a request and its cancellation, to the network; a reply,  *)
(* with its MLT bit and status, to a client.                               *)
(***************************************************************************)
Statuses == {"success", "pend", "endmult", "error"}
Request(r, n) == [request |-> r, node |-> n]
Cancel(r, n) == [cancel |-> r, node |-> n]
Reply(t, r, mlt, status) == [to |-> t, reply |-> r, mlt |-> mlt, status |-> status]

Cancels(p, R) == {Cancel(r, p.info[r].node) : r \in R}

(***************************************************************************)
(* TimeSensitive::update: the request leaves the list and comes back after *)
(* the last entry that does not expire later than it now does.  The nodes  *)
(* left by detach() keep their order: each is where as many come before it *)
(* as are kept.                                                            *)
(***************************************************************************)
Kept(s, R) == {k \in DOMAIN s : s[k] \notin R}
KeptUpTo(s, R, k) == {j \in Kept(s, R) : j <= k}

Without(s, R) ==
    IF Kept(s, R) = DOMAIN s
    THEN s
    ELSE [n \in 1..Cardinality(Kept(s, R)) |->
             s[CHOOSE k \in Kept(s, R) : Cardinality(KeptUpTo(s, R, k)) = n]]

(* A mutant: the request goes to the end of the list. *)
InsertLast(s, r, left) == Append(s, r)

InsertByTime(s, r, left) ==
    LET before == {k \in DOMAIN s : left[s[k]] <= left[r]}
        p == IF before = {} THEN 0 ELSE CHOOSE k \in before : \A l \in before : l <= k
    IN  SubSeq(s, 1, p) \o <<r>> \o SubSeq(s, p + 1, Len(s))

(* A mutant: the request is not detached first. *)
TouchTwice(p, r) ==
    LET left == [p.left EXCEPT ![r] = p.info[r].tmo]
    IN  [p EXCEPT !.left = left, !.timers = InsertByTime(@, r, left)]

Touch(p, r) ==
    LET left == [p.left EXCEPT ![r] = p.info[r].tmo]
    IN  [p EXCEPT !.left = left, !.timers = InsertByTime(Without(@, {r}), r, left)]

(***************************************************************************)
(* RequestPool::alloc, and release with removeRequest.                     *)
(***************************************************************************)
Opened(p, r, info) ==
    Touch([p EXCEPT !.info[r] = info, !.owned[info.task] = @ \cup {r}], r)

(* A mutant: the owner's set is forgotten. *)
ClosedStillOwned(p, R) ==
    [p EXCEPT !.info = [r \in ReqIds |-> IF r \in R THEN NoReq ELSE @[r]],
              !.timers = Without(@, R),
              !.left = [r \in ReqIds |-> IF r \in R THEN 0 ELSE @[r]]]

Closed(p, R) ==
    [info   |-> [r \in ReqIds |-> IF r \in R THEN NoReq ELSE p.info[r]],
     owned  |-> [t \in Tasks |-> p.owned[t] \ R],
     timers |-> Without(p.timers, R),
     left   |-> [r \in ReqIds |-> IF r \in R THEN 0 ELSE p.left[r]]]

OwnedBy(p, T) == UNION {p.owned[t] : t \in T}

(***************************************************************************)
(* removeTask: the tasks T leave and their requests are cancelled.         *)
(***************************************************************************)
RemoveTasks(T, p, messages) ==
    /\ pool' = Closed(p, OwnedBy(p, T))
    /\ connected' = connected \ T
    /\ dead' = dead \ T
    /\ out' = messages \cup Cancels(p, OwnedBy(p, T))

(***************************************************************************)
(* The common end of the handlers: the pool is now `p', `messages' are on  *)
(* their way, and one to `t' that cannot be delivered removes tasks.       *)
(***************************************************************************)
Conclude(t, p, messages) ==
    \E T \in Dropped(t) : RemoveTasks(T, p, messages)

Init ==
    /\ ClientsInit
    /\ pool = [info   |-> [r \in ReqIds |-> NoReq],
               owned  |-> [t \in Tasks |-> {}],
               timers |-> << >>,
               left   |-> [r \in ReqIds |-> 0]]
    /\ phase = "timers"
    /\ out = {}

-----------------------------------------------------------------------------
(* The main loop. *)

Expired == pool.timers # << >> /\ pool.left[Head(pool.timers)] = 0

(***************************************************************************)
(* One turn of sendRequestTimeoutsAndGetNextTimeout: the oldest request    *)
(* has expired.  A request for one reply ends; one for many is kept alive  *)
(* with a pending reply and a new time-out.                                *)
(***************************************************************************)
ExpireOldest ==
    /\ phase = "timers" /\ Expired
    /\ LET r == Head(pool.timers) IN
        IF pool.info[r].mult
        THEN Conclude(Owner(r), Touch(pool, r), {Reply(Owner(r), r, TRUE, "pend")})
        ELSE Conclude(Owner(r), Closed(pool, {r}),
                      {Reply(Owner(r), r, FALSE, "error")} \cup Cancels(pool, {r}))
    /\ UNCHANGED phase

(***************************************************************************)
(* poll() sleeps until traffic arrives or the oldest request expires; `d'  *)
(* is the time that has passed when the clock is read again.               *)
(***************************************************************************)
PollReturns(d) ==
    /\ phase = "timers" /\ ~Expired
    /\ phase' = "traffic"
    /\ pool' = [pool EXCEPT !.left =
                   [r \in ReqIds |-> IF @[r] > d THEN @[r] - d ELSE 0]]
    /\ out' = {}
    /\ UNCHANGED <<connected, dead>>

SocketsDrained ==
    /\ phase = "traffic"
    /\ phase' = "timers"
    /\ out' = {}
    /\ UNCHANGED <<connected, dead, pool>>

(***************************************************************************)
(* The termination signal: removeAllTasks also tells the requestors that   *)
(* their requests are over.                                                *)
(***************************************************************************)
RemoveAllTasks ==
    /\ phase = "timers" /\ connected # {}
    /\ RemoveTasks(connected, pool,
                   {Reply(Owner(r), r, FALSE, "error") : r \in OwnedBy(pool, connected)})
    /\ UNCHANGED phase

Die(t) == ClientDies(t) /\ out' = {} /\ UNCHANGED <<pool, phase>>

Recover(t) == ClientRecovers(t) /\ out' = {} /\ UNCHANGED <<pool, phase>>

-----------------------------------------------------------------------------
(* Commands of the clients. *)

Connect(t) ==
    /\ pool' = Closed(pool, OwnedBy(pool, Inactive))
    /\ connected' = (connected \ Inactive) \cup {t}
    /\ dead' = dead \ Inactive
    /\ out' = Cancels(pool, OwnedBy(pool, Inactive))

Disconnect(t) == Commands(t) /\ RemoveTasks(RemovedWith(t), pool, {})

DisconnectSingle(t) == Commands(t) /\ RemoveTasks({t}, pool, {})

DeliveryFails(t) == t \in connected \cap dead /\ RemoveTasks(RemovedWith(t), pool, {})

(* Mutants: one of the two bounds is missing. *)
ClampedBelow(tmo) == IF tmo < MinTmo THEN MinTmo ELSE tmo
ClampedAbove(tmo) == IF tmo > MaxTmo THEN MaxTmo ELSE tmo

Clamped(tmo) ==
    IF tmo < MinTmo THEN MinTmo ELSE IF tmo > MaxTmo THEN MaxTmo ELSE tmo

(***************************************************************************)
(* handleSendRequest and handleSendRequestWithTimeout.  When the pool is   *)
(* empty the client is told ACNET_NLM, see DeliveryFails.                  *)
(***************************************************************************)
SendRequest(t, n, name, mult, tmo) ==
    /\ Commands(t)
    /\ \E r \in ReqIds \ ActiveIds :
        Conclude(t, Opened(pool, r, [task |-> t, node |-> n, name |-> name, mult |-> mult,
                                     mcast |-> n \in McNodes, tmo |-> Clamped(tmo)]),
                 {Request(r, n)})

HandleCancel(t, r) ==
    /\ Commands(t)
    /\ Active(r) /\ Equals(t, Owner(r))
    /\ Conclude(t, Closed(pool, {r}), Cancels(pool, {r}))

-----------------------------------------------------------------------------
(* Packets from the network. *)

IsEMR(mlt, status) == ~mlt \/ status \in {"endmult", "error"}

Matches(r, n, name, t) ==
    /\ Active(r)
    /\ n = pool.info[r].node \/ pool.info[r].mcast
    /\ name = pool.info[r].name
    /\ t = Owner(r)

(* A mutant: the time-out is renewed before the reply is looked at. *)
RejectReplyRenewed(r, n, name, t) ==
    /\ ~Matches(r, n, name, t)
    /\ out' = {Cancel(r, n)}
    /\ pool' = IF Active(r) THEN Touch(pool, r) ELSE pool
    /\ UNCHANGED <<connected, dead>>

(* A mutant: nothing is sent back. *)
RejectReplySilently(r, n, name, t) ==
    /\ ~Matches(r, n, name, t)
    /\ out' = {}
    /\ UNCHANGED <<connected, dead, pool>>

(***************************************************************************)
(* A reply to no request of ours is answered by a CANCEL.                  *)
(***************************************************************************)
RejectReply(r, n, name, t) ==
    /\ ~Matches(r, n, name, t)
    /\ out' = {Cancel(r, n)}
    /\ UNCHANGED <<connected, dead, pool>>

(* A mutant: the header is passed on. *)
HeaderUnfixed(r, mlt, status) == Reply(Owner(r), r, mlt, status)

(***************************************************************************)
(* The header the client gets: the end of one member's answers does not    *)
(* end a multicast request for many; the end of any other one says so.     *)
(***************************************************************************)
ClientHeader(r, mlt, status) ==
    IF ~(pool.info[r].mult /\ IsEMR(mlt, status))
    THEN Reply(Owner(r), r, mlt, status)
    ELSE IF pool.info[r].mcast
    THEN Reply(Owner(r), r, TRUE, IF status = "endmult" THEN "success" ELSE status)
    ELSE Reply(Owner(r), r, FALSE, IF status = "success" THEN "endmult" ELSE status)

(* Mutants: whether the request was multicast is forgotten. *)
ClosesAny(A, B, C) == ~A \/ C
CancelsUnicast(A, B, C) == ~A /\ ~C

(***************************************************************************)
(* The rules of handleAcnetReply, A, B and C being those of its comment:   *)
(* does a reply that was delivered end the request, with a CANCEL?  One    *)
(* that could not be delivered always ends it.                             *)
(***************************************************************************)
Closes(A, B, C) == ~A \/ (~B /\ C)
CancelsToo(A, B, C) == ~A /\ (~C \/ B)

AcceptReply(r, mlt, status) ==
    LET A == pool.info[r].mult
        B == pool.info[r].mcast
        C == IsEMR(mlt, status)
    IN  /\ UNCHANGED <<connected, dead>>
        /\ \/ /\ status = "pend"
              /\ pool' = Touch(pool, r)
              /\ out' = {}
           \/ /\ status # "pend"
              /\ pool' = IF Closes(A, B, C) THEN Closed(pool, {r}) ELSE Touch(pool, r)
              /\ out' = {ClientHeader(r, mlt, status)} \cup
                        (IF Closes(A, B, C) /\ CancelsToo(A, B, C) THEN Cancels(pool, {r}) ELSE {})
           \/ /\ status # "pend"
              /\ Owner(r) \in dead
              /\ pool' = Closed(pool, {r})
              /\ out' = IF A \/ B THEN Cancels(pool, {r}) ELSE {}

(***************************************************************************)
(* stillAlive(5000) may take a client that died recently for alive.        *)
(***************************************************************************)
HandleAcnetReply(r, n, name, t, mlt, status) ==
    \/ RejectReply(r, n, name, t)
    \/ /\ Matches(r, n, name, t)
       /\ \/ AcceptReply(r, mlt, status)
          \/ t \in dead /\ RemoveTasks(RemovedWith(t), pool, {})

(***************************************************************************)
(* cancelReqToNode: the first request of the pool sent to node `n'.        *)
(***************************************************************************)
CancelReqToNode(n) ==
    \E r \in {s \in ActiveIds : pool.info[s].node = n} :
        /\ \A s \in ActiveIds : pool.info[s].node = n => r <= s
        /\ Conclude(Owner(r), Closed(pool, {r}), {Reply(Owner(r), r, FALSE, "error")})

HandleClientCommand(t) ==
    \/ Connect(t)
    \/ Disconnect(t)
    \/ DisconnectSingle(t)
    \/ DeliveryFails(t)
    \/ \E n \in Nodes, name \in Names, mult \in BOOLEAN, tmo \in AskedTmos :
        SendRequest(t, n, name, mult, tmo)
    \/ \E r \in ReqIds : HandleCancel(t, r)

HandlePacket ==
    \/ \E r \in ReqIds, n \in Senders, name \in Names, t \in Tasks,
          mlt \in BOOLEAN, status \in Statuses :
        HandleAcnetReply(r, n, name, t, mlt, status)
    \/ \E n \in KilledNodes : CancelReqToNode(n)

Next ==
    \/ ExpireOldest
    \/ \E d \in 0..MaxTmo : PollReturns(d)
    \/ SocketsDrained
    \/ RemoveAllTasks
    \/ \E t \in Tasks : Die(t) \/ Recover(t)
    \/ /\ phase = "traffic"
       /\ HandlePacket \/ \E t \in Tasks : HandleClientCommand(t)
       /\ UNCHANGED phase

Spec == Init /\ [][Next]_vars

(***************************************************************************)
(* The loop never blocks but in poll(), which returns when the time it was *)
(* given is over, and the clock then shows that time has passed; sockets   *)
(* are assumed to run dry now and then.  Nothing is assumed of clients and *)
(* remote nodes.                                                           *)
(***************************************************************************)
TimePasses == \E d \in 1..MaxTmo : PollReturns(d)

Fairness ==
    /\ WF_vars(ExpireOldest)
    /\ WF_vars(SocketsDrained)
    /\ SF_vars(TimePasses)

FairSpec == Spec /\ Fairness

-----------------------------------------------------------------------------
TypeOK ==
    /\ ClientsTypeOK
    /\ pool \in [info   : [ReqIds -> ReqInfo \cup {NoReq}],
                 owned  : [Tasks -> SUBSET ReqIds],
                 timers : Seq(ReqIds),
                 left   : [ReqIds -> 0..MaxTmo]]
    /\ phase \in {"timers", "traffic"}

(***************************************************************************)
(* The set of requests a task owns is exactly what the pool says, and only *)
(* connected tasks own any: the loop of removeOnlyThisTask                 *)
(* (taskpool.cpp:459) ends, and no request keeps a pointer to a deleted    *)
(* task for a late reply or its time-out to follow.                        *)
(***************************************************************************)
OwnershipAgrees ==
    \A t \in Tasks :
        /\ pool.owned[t] = {r \in ActiveIds : Owner(r) = t}
        /\ pool.owned[t] # {} => t \in connected

(***************************************************************************)
(* The time-ordered list holds every active request once, and no freed     *)
(* one: a request that is missing never times out, and a freed one would   *)
(* be timed out on behalf of no task.  It is in the order in which they    *)
(* expire, though replies renew them in any order (timesensitive.cpp:12).  *)
(***************************************************************************)
TimersExact ==
    /\ {pool.timers[k] : k \in DOMAIN pool.timers} = ActiveIds
    /\ Len(pool.timers) = Cardinality(ActiveIds)
    /\ \A k, l \in DOMAIN pool.timers : k <= l => pool.left[pool.timers[k]] <= pool.left[pool.timers[l]]

(***************************************************************************)
(* The loop only looks at the oldest request before it sleeps, yet no      *)
(* request is then overdue, whatever time-outs the clients mix and however *)
(* replies have renewed them.                                              *)
(***************************************************************************)
NeverSleepsOverdue ==
    [][phase' # phase /\ phase = "timers" => \A r \in ActiveIds : pool.left[r] > 0]_vars

(***************************************************************************)
(* A client that stays connected and alive learns that its request is      *)
(* over: it is sent a last reply, unless it cancelled the request itself   *)
(* (or a task on the same port did).  One that reconnects after its        *)
(* process was found dead starts afresh.                                   *)
(***************************************************************************)
LastReply(r) ==
    \E mlt \in BOOLEAN, status \in Statuses \ {"pend"} :
        /\ Reply(Owner(r), r, mlt, status) \in out'
        /\ mlt => ~pool.info[r].mult

RequesterTold ==
    [][\A r \in ActiveIds :
          \/ Active(r)'
          \/ Owner(r) \in dead \cup (Tasks \ connected')
          \/ LastReply(r)
          \/ \E t \in Tasks :
                HandleCancel(t, r) \/ (Connect(t) /\ Owner(r) \in Inactive)]_vars

(***************************************************************************)
(* The nodes that may still be answering a request are sent a CANCEL when  *)
(* it ends.  Those that are not have sent their last reply or are known to *)
(* be down, or the request was for one reply, which came but could not be  *)
(* delivered.                                                              *)
(***************************************************************************)
AnsweredInFull(r) ==
    \E n \in Senders, name \in Names, t \in Tasks, mlt \in BOOLEAN, status \in Statuses :
        /\ HandleAcnetReply(r, n, name, t, mlt, status)
        /\ ~pool.info[r].mcast
        /\ IsEMR(mlt, status) \/ (~pool.info[r].mult /\ Owner(r) \in dead)

ReplierTold ==
    [][\A r \in ActiveIds :
          \/ Active(r)'
          \/ Cancel(r, pool.info[r].node) \in out'
          \/ AnsweredInFull(r)
          \/ \E n \in KilledNodes : CancelReqToNode(n)]_vars

(***************************************************************************)
(* What the client of a request for many replies is told is true: a reply  *)
(* with the MLT bit leaves the request open, and one without it ends it,   *)
(* for unicast and multicast requests alike (main.cpp:643-663), whatever   *)
(* the remote node put in the header.                                      *)
(***************************************************************************)
HeaderTellsTruth ==
    [][\A r \in ActiveIds, mlt \in BOOLEAN, status \in Statuses :
          /\ pool.info[r].mult
          /\ Reply(Owner(r), r, mlt, status) \in out'
          /\ Owner(r) \in connected'
          => (mlt <=> Active(r)')]_vars

(***************************************************************************)
(* The time-out loop terminates, so the daemon returns to its sockets,     *)
(* even when clients ask for a time-out of zero.                           *)
(***************************************************************************)
TimersTerminate == phase = "timers" ~> phase = "traffic"

(***************************************************************************)
(* A request for one reply ends, by a reply or its time-out, unless its    *)
(* own replier keeps it alive for ever with ACNET_PEND (main.cpp:631).     *)
(* No other node or task can.                                              *)
(***************************************************************************)
Renewed(r) ==
    Active(r) /\ \E mlt \in BOOLEAN, status \in Statuses : AcceptReply(r, mlt, status)

SingleEnds ==
    \A r \in ReqIds :
        \/ []<>(Active(r) => pool.info[r].mult)
        \/ []<><<Renewed(r)>>_vars
=============================================================================
