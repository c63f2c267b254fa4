----------------------------- MODULE ReplyPool -----------------------------
(***************************************************************************)
(* The answering side of acnetd: requests that arrive from the network,    *)
(* the reply identifiers they are given (rpyinfo.cpp), and the clients     *)
(* that acknowledge, answer or ignore them (exttask.cpp, lcltask.cpp).     *)
(*                                                                         *)
(* The daemon is one thread: an action is the whole handling of one client *)
(* command or one network packet, with the task removals that a failed     *)
(* delivery brings about.  Timers of replies only run in KEEP_ALIVE        *)
(* builds, and are not modelled.                                           *)
(***************************************************************************)
EXTENDS Clients

CONSTANTS RpyIds,     \* entries of the reply pool, numbered from 1
          Nodes,      \* remote nodes
          ReqIds,     \* request identifiers chosen by the remote nodes
          Clnts,      \* task identifiers on the remote nodes
          MaxPending, \* maxPendingRequestsAccepted
          Kinds,      \* <<mult, mcast>> of the requests that arrive
          KilledNodes,\* nodes a killer message or a node table update may name
          NoRpy       \* the content of a free entry of the pool

Keys == Nodes \X ReqIds           \* request_key_t: remote node, request id
RpyInfo == [task : Tasks, key : Keys, clnt : Clnts,
            mult : BOOLEAN, mcast : BOOLEAN, acked : BOOLEAN]

ASSUME RpyIdsAssumption == RpyIds \subseteq Nat \ {0} /\ IsFiniteSet(RpyIds)
ASSUME PendingAssumption == MaxPending \in Nat
ASSUME NoRpyAssumption == NoRpy \notin RpyInfo
ASSUME KindsAssumption == Kinds \subseteq BOOLEAN \X BOOLEAN

VARIABLES receiving,  \* tasks that take requests
          pending,    \* pendingRequests of each task
          warned,     \* tasks whose printPendingWarning has been cleared
          rpy,        \* the RpyInfo of each identifier, NoRpy when free
          replies,    \* identifiers each task owns
          activeMap,  \* <<key, identifier>> entries of the multimap
          out         \* what the last step sent: reply packets and CANCELs

poolVars == <<rpy, replies, activeMap>>
taskVars == <<connected, dead, receiving, pending, warned>>
vars == <<taskVars, poolVars, out>>


Active(r) == rpy[r] # NoRpy
ActiveIds == {r \in RpyIds : Active(r)}
Unacked(t) == {r \in ActiveIds : rpy[r].task = t /\ ~rpy[r].acked}

(***************************************************************************)
(* A reply packet queued for the network, for a reply structure or, with   *)
(* identifier 0, as an error; without the MLT bit it is the last one the   *)
(* requester gets.  And the CANCEL of a reply, sent to its owner.          *)
(***************************************************************************)
Packet(r, k, mlt) == [rpy |-> r, key |-> k, mlt |-> mlt]
ErrorTo(k, mcast) == IF mcast THEN {} ELSE {Packet(0, k, FALSE)}
Cancel(t, r) == [to |-> t, cancel |-> r]

(* A mutant: requesters of either kind of many replies are not told. *)
EndMessagesToOne(R) ==
    {Packet(r, rpy[r].key, FALSE) : r \in {s \in R : ~(rpy[s].mcast \/ rpy[s].mult)}}
        \cup {Cancel(rpy[r].task, r) : r \in R}

(***************************************************************************)
(* endRpyId with an error status: an EMR to the requester, but not to one  *)
(* of a multicast request for multiple replies, and a CANCEL to the owner. *)
(***************************************************************************)
EndMessages(R) ==
    {Packet(r, rpy[r].key, FALSE) : r \in {s \in R : ~(rpy[s].mcast /\ rpy[s].mult)}}
        \cup {Cancel(rpy[r].task, r) : r \in R}

OwnedBy(T) == UNION {replies[t] : t \in T}

(* Mutants: one of the tables keeps the replies that have ended. *)
EndRepliesStillOwned(info, R) ==
    /\ rpy' = [r \in RpyIds |-> IF r \in R THEN NoRpy ELSE info[r]]
    /\ activeMap' = {e \in activeMap : e[1] \notin {rpy[r].key : r \in R}}
    /\ UNCHANGED replies

EndRepliesStillMapped(info, R) ==
    /\ rpy' = [r \in RpyIds |-> IF r \in R THEN NoRpy ELSE info[r]]
    /\ replies' = [t \in Tasks |-> replies[t] \ R]
    /\ UNCHANGED activeMap

(***************************************************************************)
(* The replies R end, `info' being the table as updated so far.  release() *)
(* erases every entry of the map under the key of the reply it frees.      *)
(***************************************************************************)
EndReplies(info, R) ==
    /\ rpy' = [r \in RpyIds |-> IF r \in R THEN NoRpy ELSE info[r]]
    /\ replies' = [t \in Tasks |-> replies[t] \ R]
    /\ activeMap' = {e \in activeMap : e[1] \notin {rpy[r].key : r \in R}}

(***************************************************************************)
(* removeTask and removeOnlyThisTask: the tasks T leave and the replies    *)
(* they own end with an error.                                             *)
(***************************************************************************)
RemoveTasks(T, packets) ==
    /\ EndReplies(rpy, OwnedBy(T))
    /\ connected' = connected \ T
    /\ dead' = dead \ T
    /\ receiving' = receiving \ T
    /\ out' = packets \cup EndMessages(OwnedBy(T))
    /\ UNCHANGED <<pending, warned>>

(***************************************************************************)
(* The common end of the handlers: the replies `over' have ended, the      *)
(* table is `info', the tasks `taking' receive requests, `packets' are     *)
(* queued; a last message to `t', if it cannot be delivered, removes tasks *)
(* with the replies they still own.                                        *)
(***************************************************************************)
Conclude(t, info, over, taking, packets) ==
    \E T \in Dropped(t) :
        /\ EndReplies(info, over \cup OwnedBy(T))
        /\ connected' = connected \ T
        /\ dead' = dead \ T
        /\ receiving' = taking \ T
        /\ out' = packets \cup EndMessages(OwnedBy(T) \ over)

Decremented(t) == IF pending[t] > 0 THEN [pending EXCEPT ![t] = @ - 1] ELSE pending

Init ==
    /\ ClientsInit
    /\ receiving = {}
    /\ pending = [t \in Tasks |-> 0]
    /\ warned = {}
    /\ rpy = [r \in RpyIds |-> NoRpy]
    /\ replies = [t \in Tasks |-> {}]
    /\ activeMap = {}
    /\ out = {}

-----------------------------------------------------------------------------
(* Clients come and go. *)

(***************************************************************************)
(* Connect first removes the tasks that are no longer alive; a task that   *)
(* is still connected afterwards only gets its identifier again.           *)
(***************************************************************************)
Connect(t) ==
    LET fresh == t \notin connected \ Inactive
        gone == OwnedBy(Inactive)
    IN  /\ EndReplies(rpy, gone)
        /\ connected' = (connected \ Inactive) \cup {t}
        /\ dead' = dead \ Inactive
        /\ receiving' = receiving \ (IF fresh THEN Inactive \cup {t} ELSE Inactive)
        /\ pending' = IF fresh THEN [pending EXCEPT ![t] = 0] ELSE pending
        /\ warned' = IF fresh THEN warned \ {t} ELSE warned
        /\ out' = EndMessages(gone)

Disconnect(t) == Commands(t) /\ RemoveTasks(RemovedWith(t), {})

DisconnectSingle(t) == Commands(t) /\ RemoveTasks({t}, {})

(***************************************************************************)
(* Any other command or packet whose answer to `t' cannot be delivered.    *)
(***************************************************************************)
DeliveryFails(t) == t \in connected \cap dead /\ RemoveTasks(RemovedWith(t), {})

RemoveAllTasks == connected # {} /\ RemoveTasks(connected, {})

Die(t) ==
    /\ ClientDies(t)
    /\ out' = {}
    /\ UNCHANGED <<receiving, pending, warned, poolVars>>

Recover(t) ==
    /\ ClientRecovers(t)
    /\ out' = {}
    /\ UNCHANGED <<receiving, pending, warned, poolVars>>

-----------------------------------------------------------------------------
(* Commands of the clients. *)

ReceiveRequests(t) ==
    /\ Commands(t)
    /\ Conclude(t, rpy, {}, receiving \cup {t}, {})
    /\ UNCHANGED <<pending, warned>>

(* A mutant: the replies are kept. *)
BlockOnly(t) ==
    /\ Commands(t)
    /\ Conclude(t, rpy, {}, receiving \ {t}, {})
    /\ UNCHANGED <<pending, warned>>

(***************************************************************************)
(* The replies of the task end with an error, but the requests it has not  *)
(* acknowledged stay counted as pending.                                   *)
(***************************************************************************)
BlockRequests(t) ==
    /\ Commands(t)
    /\ Conclude(t, rpy, replies[t], receiving \ {t}, EndMessages(replies[t]))
    /\ UNCHANGED <<pending, warned>>

(* A mutant: a last reply announced by the client does not end the reply. *)
SendReplyKept(t, r, emr) ==
    /\ Commands(t)
    /\ Active(r) /\ Equals(t, rpy[r].task)
    /\ Conclude(t, [rpy EXCEPT ![r].acked = TRUE],
                IF rpy[r].mult THEN {} ELSE {r}, receiving,
                {Packet(r, rpy[r].key, rpy[r].mult /\ ~emr)})
    /\ pending' = IF rpy[r].acked THEN pending ELSE Decremented(rpy[r].task)
    /\ UNCHANGED warned

(***************************************************************************)
(* RpyInfo::xmitReply, then endRpyId if that was the last reply.           *)
(***************************************************************************)
SendReply(t, r, emr) ==
    /\ Commands(t)
    /\ Active(r) /\ Equals(t, rpy[r].task)
    /\ LET done == ~rpy[r].mult \/ emr
           over == IF done THEN {r} ELSE {}
       IN  Conclude(t, [rpy EXCEPT ![r].acked = TRUE], over, receiving,
                    {Packet(r, rpy[r].key, ~done)})
    /\ pending' = IF rpy[r].acked THEN pending ELSE Decremented(rpy[r].task)
    /\ UNCHANGED warned

(***************************************************************************)
(* The owner is not compared, nor told, and the request stays counted.     *)
(***************************************************************************)
IgnoreRequest(t, r) ==
    /\ Commands(t) /\ t \in receiving
    /\ Active(r)
    /\ Conclude(t, rpy, {r}, receiving, {})
    /\ UNCHANGED <<pending, warned>>

(* A mutant: a second acknowledgement counts as well. *)
RequestAckTwice(t, r) ==
    /\ Commands(t) /\ t \in receiving
    /\ Active(r) /\ Equals(t, rpy[r].task)
    /\ Conclude(t, [rpy EXCEPT ![r].acked = TRUE], {}, receiving, {})
    /\ pending' = Decremented(t)
    /\ UNCHANGED warned

(***************************************************************************)
(* The count decremented is that of the task the command came from.  When  *)
(* it is zero the client is told ACNET_BUG, and the reply is marked all    *)
(* the same.                                                               *)
(***************************************************************************)
RequestAck(t, r) ==
    /\ Commands(t) /\ t \in receiving
    /\ Active(r) /\ Equals(t, rpy[r].task)
    /\ Conclude(t, [rpy EXCEPT ![r].acked = TRUE], {}, receiving, {})
    /\ pending' = IF rpy[r].acked THEN pending ELSE Decremented(t)
    /\ UNCHANGED warned

-----------------------------------------------------------------------------
(* Packets from the network. *)

(***************************************************************************)
(* A request that finds no task to take it: the name is not connected, its *)
(* client is dead (and the task then goes), it takes no requests, or the   *)
(* pool is empty.  In that last case the count is incremented, or the      *)
(* warning given, and then decremented.                                    *)
(***************************************************************************)
RefuseRequest(t, k, mcast) ==
    \/ /\ t \notin connected
       /\ out' = ErrorTo(k, mcast)
       /\ UNCHANGED <<taskVars, poolVars>>
    \/ /\ t \in connected \cap dead
       /\ RemoveTasks(RemovedWith(t), ErrorTo(k, mcast))
    \/ /\ t \in connected \ (dead \cup receiving)
       /\ out' = ErrorTo(k, mcast)
       /\ UNCHANGED <<taskVars, poolVars>>
    \/ /\ t \in (connected \cap receiving) \ dead
       /\ ActiveIds = RpyIds
       /\ out' = ErrorTo(k, mcast)
       /\ warned' = IF pending[t] < MaxPending THEN warned ELSE warned \cup {t}
       /\ pending' = IF pending[t] < MaxPending THEN pending ELSE Decremented(t)
       /\ UNCHANGED <<connected, dead, receiving, poolVars>>

(* A mutant: the limit is not tested. *)
CountAlways(t) == pending' = [pending EXCEPT ![t] = @ + 1] /\ UNCHANGED warned

(***************************************************************************)
(* testPendingRequestsAndIncrement: past the limit requests are still      *)
(* accepted, only no longer counted.                                       *)
(***************************************************************************)
CountRequest(t) ==
    IF pending[t] < MaxPending
    THEN pending' = [pending EXCEPT ![t] = @ + 1] /\ UNCHANGED warned
    ELSE warned' = warned \cup {t} /\ UNCHANGED pending

AcceptRequest(t, k, c, mult, mcast) ==
    /\ t \in (connected \cap receiving) \ dead
    /\ \E r \in RpyIds \ ActiveIds :
        /\ rpy' = [rpy EXCEPT ![r] = [task |-> t, key |-> k, clnt |-> c,
                                      mult |-> mult, mcast |-> mcast, acked |-> FALSE]]
        /\ replies' = [replies EXCEPT ![t] = @ \cup {r}]
        /\ activeMap' = activeMap \cup {<<k, r>>}
    /\ CountRequest(t)
    /\ out' = {}
    /\ UNCHANGED <<connected, dead, receiving>>

(***************************************************************************)
(* The client dies between the test of stillAlive and the delivery: the    *)
(* reply just allocated ends with an EMR, and the requester gets           *)
(* ACNET_BUSY as well.  The task itself stays for later.                   *)
(***************************************************************************)
LoseRequest(t, k, mult, mcast) ==
    /\ t \in (connected \cap receiving) \ dead
    /\ \E r \in RpyIds \ ActiveIds :
        out' = ErrorTo(k, mcast) \cup {Cancel(t, r)}
                  \cup (IF mcast /\ mult THEN {} ELSE {Packet(r, k, FALSE)})
    /\ activeMap' = {e \in activeMap : e[1] # k}
    /\ dead' = dead \cup {t}
    /\ warned' = IF pending[t] < MaxPending THEN warned ELSE warned \cup {t}
    /\ pending' = IF pending[t] < MaxPending THEN pending ELSE Decremented(t)
    /\ UNCHANGED <<connected, receiving, rpy, replies>>

(* A mutant: the client is not told. *)
CancelQuietly(k, t, c) ==
    \E r \in {s \in RpyIds : <<k, s>> \in activeMap} :
        /\ rpy[r].task = t /\ rpy[r].clnt = c
        /\ Conclude(t, rpy, {r}, receiving, {})
        /\ pending' = IF rpy[r].acked THEN pending ELSE Decremented(t)
        /\ UNCHANGED warned

(***************************************************************************)
(* A CANCEL ends the reply that find() gives for its key, any of them when *)
(* there are several, provided the names match.  The loop of the code runs *)
(* at most once: release() has left no entry under the key.                *)
(***************************************************************************)
HandleAcnetCancel(k, t, c) ==
    \E r \in {s \in RpyIds : <<k, s>> \in activeMap} :
        /\ rpy[r].task = t /\ rpy[r].clnt = c
        /\ Conclude(t, rpy, {r}, receiving, {Cancel(t, r)})
        /\ pending' = IF rpy[r].acked THEN pending ELSE Decremented(t)
        /\ UNCHANGED warned

(***************************************************************************)
(* endRpyToNode: the first reply of the pool owed to node `n'.  The        *)
(* CANCEL its owner gets carries no reply identifier.                      *)
(***************************************************************************)
EndRpyToNode(n) ==
    \E r \in {s \in ActiveIds : rpy[s].key[1] = n} :
        /\ \A s \in ActiveIds : rpy[s].key[1] = n => r <= s
        /\ Conclude(rpy[r].task, rpy, {r}, receiving, {Cancel(rpy[r].task, 0)})
        /\ UNCHANGED <<pending, warned>>

HandleAcnetRequest(t, k) ==
    \E c \in Clnts, kind \in Kinds :
        \/ AcceptRequest(t, k, c, kind[1], kind[2])
        \/ LoseRequest(t, k, kind[1], kind[2])

HandleClientCommand(t) ==
    \/ Disconnect(t)
    \/ DisconnectSingle(t)
    \/ ReceiveRequests(t)
    \/ BlockRequests(t)
    \/ \E r \in RpyIds :
        \/ \E emr \in BOOLEAN : SendReply(t, r, emr)
        \/ IgnoreRequest(t, r)
        \/ RequestAck(t, r)

Next ==
    \/ \E t \in Tasks :
        \/ Connect(t)
        \/ HandleClientCommand(t)
        \/ DeliveryFails(t)
        \/ Die(t)
        \/ Recover(t)
    \/ \E t \in Tasks, k \in Keys :
        \/ HandleAcnetRequest(t, k)
        \/ \E mcast \in BOOLEAN : RefuseRequest(t, k, mcast)
        \/ \E c \in Clnts : HandleAcnetCancel(k, t, c)
    \/ \E n \in KilledNodes : EndRpyToNode(n)
    \/ RemoveAllTasks

Spec == Init /\ [][Next]_vars
-----------------------------------------------------------------------------
TypeOK ==
    /\ ClientsTypeOK
    /\ receiving \subseteq Tasks
    /\ pending \in [Tasks -> 0..MaxPending]
    /\ warned \subseteq Tasks
    /\ rpy \in [RpyIds -> RpyInfo \cup {NoRpy}]
    /\ replies \in [Tasks -> SUBSET RpyIds]
    /\ activeMap \subseteq Keys \X RpyIds
    /\ out \subseteq [rpy : RpyIds \cup {0}, key : Keys, mlt : BOOLEAN]
                   \cup [to : Tasks, cancel : RpyIds \cup {0}]

(***************************************************************************)
(* The owner of every active reply is connected and still takes requests:  *)
(* the assertion of handleAcnetCancel (main.cpp:400), which release builds *)
(* compile out.  A reply that outlived its task would keep a pointer to a  *)
(* TaskInfo that the next Connect deletes.                                 *)
(***************************************************************************)
OwnersListen == \A r \in ActiveIds : rpy[r].task \in connected \cap receiving

(***************************************************************************)
(* The set of replies a task owns is exactly what the pool says.  The      *)
(* loops of removeOnlyThisTask and handleBlockRequests, which end the      *)
(* first reply of the set until the set is empty, spin for ever on an      *)
(* identifier that is not active, and leak one that is not in the set.     *)
(***************************************************************************)
OwnershipAgrees ==
    \A t \in Tasks : replies[t] = {r \in ActiveIds : rpy[r].task = t}

(***************************************************************************)
(* The map from request keys never leads to a freed reply, or to one       *)
(* reissued for another request: a CANCEL ends the reply it is meant for.  *)
(***************************************************************************)
MapSound == \A e \in activeMap : Active(e[2]) /\ rpy[e[2]].key = e[1]

(***************************************************************************)
(* Until a task first hits the limit, its count of pending requests covers *)
(* the requests it has not acknowledged: no first acknowledgement is ever  *)
(* answered ACNET_BUG (exttask.cpp:316).  When two tasks share a command   *)
(* port the count that is decremented may be the wrong one's.              *)
(***************************************************************************)
PortsDistinct == \A t, u \in Tasks : Equals(t, u) => t = u

PendingCoversUnacked ==
    PortsDistinct => \A t \in connected \ warned : Cardinality(Unacked(t)) <= pending[t]

(***************************************************************************)
(* A client whose reply ends by anything but its own answer or an ignored  *)
(* request is sent a CANCEL that names the reply: the client library finds *)
(* the reply to forget by the identifier in the status field               *)
(* (main.cpp:406), so it can clean up its resources (rpyinfo.cpp:213).     *)
(* The exception is a requester's node that goes down: the CANCEL of       *)
(* endRpyToNode carries no identifier.                                     *)
(***************************************************************************)
OwnAnswer(r) ==
    \E t \in Tasks :
        \/ \E emr \in BOOLEAN : SendReply(t, r, emr)
        \/ IgnoreRequest(t, r)

OwnerTold ==
    [][\A r \in ActiveIds :
          \/ Active(r)'
          \/ Cancel(rpy[r].task, r) \in out'
          \/ OwnAnswer(r)
          \/ \E n \in KilledNodes : EndRpyToNode(n)]_vars

(***************************************************************************)
(* A reply that ends at this node's initiative leaves no requester waiting *)
(* for its answer: a final packet is queued for it in the same step,       *)
(* unless it is one of many answers to a multicast.  The exceptions are    *)
(* the requester's own CANCEL, a request the client chose to ignore, and a *)
(* requester known to be down.                                             *)
(***************************************************************************)
EndedQuietly ==
    \/ \E t \in Tasks, r \in RpyIds : IgnoreRequest(t, r)
    \/ \E k \in Keys, t \in Tasks, c \in Clnts : HandleAcnetCancel(k, t, c)
    \/ \E n \in KilledNodes : EndRpyToNode(n)

RequesterAnswered ==
    [][\A r \in ActiveIds :
          \/ Active(r)'
          \/ rpy[r].mcast /\ rpy[r].mult
          \/ Packet(r, rpy[r].key, FALSE) \in out'
          \/ EndedQuietly]_vars

(***************************************************************************)
(* A reply packet without the MLT bit is the last one: the reply it was    *)
(* sent for is gone, so the client can never send the requester more.      *)
(***************************************************************************)
FinalMeansEnd ==
    [][\A r \in RpyIds, k \in Keys :
          Packet(r, k, FALSE) \in out' => ~Active(r)']_vars
=============================================================================
