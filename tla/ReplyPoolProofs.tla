-------------------------- MODULE ReplyPoolProofs --------------------------
(***************************************************************************)
(* What the reply pool guarantees whatever the number of tasks, nodes and  *)
(* identifiers.  The inductive invariant is the conjunction of the type    *)
(* invariant and the three invariants that tie the pool, the tasks and the *)
(* map together; none of the three is inductive without the others.        *)
(***************************************************************************)
EXTENDS ReplyPool, FiniteSetTheorems, TLAPS

IInv == TypeOK /\ OwnersListen /\ OwnershipAgrees /\ MapSound

Packets == [rpy : RpyIds \cup {0}, key : Keys, mlt : BOOLEAN]
Cancels == [to : Tasks, cancel : RpyIds \cup {0}]

(***************************************************************************)
(* `info' is the table of replies, but for the acknowledgements.           *)
(***************************************************************************)
SameReplies(info) ==
    /\ info \in [RpyIds -> RpyInfo \cup {NoRpy}]
    /\ \A r \in RpyIds :
        /\ info[r] = NoRpy <=> rpy[r] = NoRpy
        /\ Active(r) => info[r].task = rpy[r].task /\ info[r].key = rpy[r].key

-----------------------------------------------------------------------------
(***************************************************************************)
(* An active reply has the fields of a reply.                              *)
(***************************************************************************)
LEMMA ActiveType ==
    ASSUME TypeOK, NEW r \in RpyIds, Active(r)
    PROVE  /\ rpy[r] \in RpyInfo
           /\ rpy[r].task \in Tasks /\ rpy[r].key \in Keys
           /\ rpy[r].mult \in BOOLEAN /\ rpy[r].mcast \in BOOLEAN
           /\ rpy[r].acked \in BOOLEAN
BY DEF TypeOK, Active, RpyInfo

(***************************************************************************)
(* What is said of replies that end is well formed.                        *)
(***************************************************************************)
LEMMA EndMessagesType ==
    ASSUME TypeOK, NEW R \in SUBSET ActiveIds
    PROVE  EndMessages(R) \subseteq Packets \cup Cancels
<1>1. ASSUME NEW r \in R
      PROVE  /\ Packet(r, rpy[r].key, FALSE) \in Packets
             /\ Cancel(rpy[r].task, r) \in Cancels
    <2>1. r \in RpyIds /\ Active(r)
        BY <1>1 DEF ActiveIds
    <2>2. rpy[r].task \in Tasks /\ rpy[r].key \in Keys
        BY <2>1, ActiveType
    <2> QED
        BY <2>1, <2>2 DEF Packet, Cancel, Packets, Cancels
<1> QED
    BY <1>1 DEF EndMessages

(***************************************************************************)
(* What tasks own is active, and theirs.                                   *)
(***************************************************************************)
LEMMA OwnedByActive ==
    ASSUME OwnershipAgrees, NEW T \in SUBSET Tasks
    PROVE  /\ OwnedBy(T) \subseteq ActiveIds
           /\ \A r \in ActiveIds : rpy[r].task \in T => r \in OwnedBy(T)
           /\ \A t \in T : replies[t] \subseteq OwnedBy(T)
BY DEF OwnershipAgrees, OwnedBy, ActiveIds

(***************************************************************************)
(* When the replies R end, the others stay as they are, and the pool, the  *)
(* sets of the tasks and the map still agree.                              *)
(***************************************************************************)
LEMMA EndRepliesAgree ==
    ASSUME IInv, NEW info, SameReplies(info), NEW R \in SUBSET RpyIds,
           EndReplies(info, R)
    PROVE  /\ rpy' \in [RpyIds -> RpyInfo \cup {NoRpy}]
           /\ replies' \in [Tasks -> SUBSET RpyIds]
           /\ activeMap' \subseteq Keys \X RpyIds
           /\ \A r \in RpyIds : Active(r)' <=> Active(r) /\ r \notin R
           /\ \A r \in ActiveIds' : rpy'[r].task = rpy[r].task
           /\ OwnershipAgrees'
           /\ MapSound'
<1>1. rpy' \in [RpyIds -> RpyInfo \cup {NoRpy}]
    BY DEF EndReplies, SameReplies
<1>2. replies' \in [Tasks -> SUBSET RpyIds]
    BY DEF EndReplies, IInv, TypeOK
<1>3. activeMap' \subseteq Keys \X RpyIds
    BY DEF EndReplies, IInv, TypeOK
<1>4. \A r \in RpyIds : Active(r)' <=> Active(r) /\ r \notin R
    BY DEF EndReplies, SameReplies, Active
<1>5. \A r \in ActiveIds' : rpy'[r].task = rpy[r].task /\ rpy'[r].key = rpy[r].key
    BY <1>4 DEF EndReplies, SameReplies, Active, ActiveIds
<1>6. OwnershipAgrees'
    <2> SUFFICES ASSUME NEW t \in Tasks, NEW r
                 PROVE  r \in replies'[t] <=> r \in ActiveIds' /\ rpy'[r].task = t
        BY DEF OwnershipAgrees
    <2>1. r \in replies'[t] <=> r \in replies[t] /\ r \notin R
        BY DEF EndReplies
    <2>2. r \in replies[t] <=> r \in ActiveIds /\ rpy[r].task = t
        BY DEF IInv, OwnershipAgrees
    <2>3. r \in ActiveIds' <=> r \in ActiveIds /\ r \notin R
        BY <1>4 DEF ActiveIds
    <2> QED
        BY <2>1, <2>2, <2>3, <1>5
<1>7. MapSound'
    <2> SUFFICES ASSUME NEW e \in activeMap'
                 PROVE  Active(e[2])' /\ rpy'[e[2]].key = e[1]
        BY DEF MapSound
    <2>1. e \in activeMap /\ e[1] \notin {rpy[r].key : r \in R}
        BY DEF EndReplies
    <2>2. e[2] \in RpyIds /\ Active(e[2]) /\ rpy[e[2]].key = e[1]
        BY <2>1 DEF IInv, TypeOK, MapSound
    <2>3. e[2] \notin R
        BY <2>1, <2>2
    <2>4. Active(e[2])'
        BY <1>4, <2>2, <2>3
    <2> QED
        BY <1>5, <2>2, <2>4 DEF ActiveIds
<1> QED
    BY <1>1, <1>2, <1>3, <1>4, <1>5, <1>6, <1>7

(***************************************************************************)
(* Tasks may stop listening when all of their replies end.                 *)
(***************************************************************************)
LEMMA OwnersStillListen ==
    ASSUME IInv, NEW info, SameReplies(info), NEW R \in SUBSET RpyIds,
           EndReplies(info, R), NEW T \in SUBSET Tasks, OwnedBy(T) \subseteq R,
           (connected \cap receiving) \ T \subseteq connected' \cap receiving'
    PROVE  OwnersListen'
<1> SUFFICES ASSUME NEW r \in ActiveIds'
             PROVE  rpy'[r].task \in connected' \cap receiving'
    BY DEF OwnersListen
<1>1. r \in RpyIds /\ Active(r)'
    BY DEF ActiveIds
<1>2. r \in ActiveIds /\ r \notin R /\ rpy'[r].task = rpy[r].task
    BY <1>1, EndRepliesAgree DEF ActiveIds
<1>3. rpy[r].task \in connected \cap receiving
    BY <1>2 DEF IInv, OwnersListen
<1>4. rpy[r].task \notin T
    BY <1>2, OwnedByActive DEF IInv
<1> QED
    BY <1>2, <1>3, <1>4

(***************************************************************************)
(* A step that ends replies as removeTask and the handlers do preserves    *)
(* the invariant, whatever it does to the counts.                          *)
(***************************************************************************)
LEMMA EndingStep ==
    ASSUME IInv, NEW info, SameReplies(info), NEW R \in SUBSET RpyIds,
           EndReplies(info, R), NEW T \in SUBSET Tasks, OwnedBy(T) \subseteq R,
           (connected \cap receiving) \ T \subseteq connected' \cap receiving',
           connected' \subseteq Tasks, dead' \subseteq Tasks,
           receiving' \subseteq Tasks, warned' \subseteq Tasks,
           pending' \in [Tasks -> 0..MaxPending],
           out' \subseteq Packets \cup Cancels
    PROVE  IInv'
<1>1. OwnersListen'
    BY OwnersStillListen
<1>2. /\ rpy' \in [RpyIds -> RpyInfo \cup {NoRpy}]
      /\ replies' \in [Tasks -> SUBSET RpyIds]
      /\ activeMap' \subseteq Keys \X RpyIds
      /\ OwnershipAgrees'
      /\ MapSound'
    BY EndRepliesAgree
<1>3. TypeOK'
    BY <1>2 DEF TypeOK, ClientsTypeOK, Packets, Cancels
<1> QED
    BY <1>1, <1>2, <1>3 DEF IInv

-----------------------------------------------------------------------------
(* The shapes the actions come in. *)

(***************************************************************************)
(* The pool itself qualifies, and so does an acknowledged reply.           *)
(***************************************************************************)
LEMMA SameRepliesSelf ==
    ASSUME TypeOK
    PROVE  SameReplies(rpy)
BY DEF SameReplies, TypeOK

LEMMA AckedFields ==
    ASSUME NEW x \in RpyInfo
    PROVE  LET y == [x EXCEPT !.acked = TRUE]
           IN  y \in RpyInfo /\ y.task = x.task /\ y.key = x.key
BY DEF RpyInfo

LEMMA SameRepliesAcked ==
    ASSUME TypeOK, NEW r \in RpyIds, Active(r)
    PROVE  SameReplies([rpy EXCEPT ![r].acked = TRUE])
<1> DEFINE info == [rpy EXCEPT ![r].acked = TRUE]
<1>1. info[r] = [rpy[r] EXCEPT !.acked = TRUE]
    BY DEF TypeOK
<1>2. info[r] \in RpyInfo /\ info[r].task = rpy[r].task /\ info[r].key = rpy[r].key
    <2>1. rpy[r] \in RpyInfo
        BY ActiveType
    <2> HIDE DEF info
    <2> QED
        BY <1>1, <2>1, AckedFields
<1>3. info[r] # NoRpy
    BY <1>2, NoRpyAssumption
<1>4. \A s \in RpyIds : s # r => info[s] = rpy[s]
    BY DEF TypeOK
<1>5. info \in [RpyIds -> RpyInfo \cup {NoRpy}]
    BY <1>2 DEF TypeOK
<1> QED
    BY <1>2, <1>3, <1>4, <1>5 DEF SameReplies, Active

LEMMA DecrementedType ==
    ASSUME TypeOK, NEW t \in Tasks
    PROVE  Decremented(t) \in [Tasks -> 0..MaxPending]
BY PendingAssumption DEF TypeOK, Decremented

LEMMA DroppedType ==
    ASSUME TypeOK, NEW t \in connected, NEW T \in Dropped(t)
    PROVE  T \subseteq Tasks
BY DEF Dropped, RemovedWith, TypeOK, ClientsTypeOK

(***************************************************************************)
(* removeTask, with any well-formed packets.                               *)
(***************************************************************************)
LEMMA RemoveTasksStep ==
    ASSUME IInv, NEW T \in SUBSET Tasks, NEW packets \in SUBSET Packets,
           RemoveTasks(T, packets)
    PROVE  IInv'
<1>1. SameReplies(rpy)
    BY SameRepliesSelf DEF IInv
<1>2. OwnedBy(T) \subseteq ActiveIds
    BY OwnedByActive DEF IInv
<1>3. EndMessages(OwnedBy(T)) \subseteq Packets \cup Cancels
    BY <1>2, EndMessagesType DEF IInv
<1>4. OwnedBy(T) \subseteq RpyIds
    BY <1>2 DEF ActiveIds
<1>5. /\ EndReplies(rpy, OwnedBy(T))
      /\ (connected \cap receiving) \ T \subseteq connected' \cap receiving'
      /\ connected' \subseteq Tasks /\ dead' \subseteq Tasks
      /\ receiving' \subseteq Tasks /\ warned' \subseteq Tasks
      /\ pending' \in [Tasks -> 0..MaxPending]
      /\ out' \subseteq Packets \cup Cancels
    BY <1>3 DEF RemoveTasks, IInv, TypeOK, ClientsTypeOK
<1> QED
    BY <1>1, <1>4, <1>5, EndingStep

(***************************************************************************)
(* Conclude: the replies `over' end, then the tasks dropped go with theirs *)
(* in turn.  A task that stops listening has all of its replies in `over'. *)
(***************************************************************************)
LEMMA ConcludeStep ==
    ASSUME IInv, NEW t \in connected, NEW info, SameReplies(info),
           NEW over \in SUBSET ActiveIds, NEW taking \in SUBSET Tasks,
           NEW packets \in SUBSET (Packets \cup Cancels),
           Conclude(t, info, over, taking, packets),
           receiving \subseteq taking
               \/ (receiving \ {t} \subseteq taking /\ replies[t] \subseteq over),
           pending' \in [Tasks -> 0..MaxPending], warned' \subseteq Tasks
    PROVE  IInv'
<1>1. PICK T \in Dropped(t) :
        /\ EndReplies(info, over \cup OwnedBy(T))
        /\ connected' = connected \ T
        /\ dead' = dead \ T
        /\ receiving' = taking \ T
        /\ out' = packets \cup EndMessages(OwnedBy(T) \ over)
    BY DEF Conclude
<1>2. T \subseteq Tasks /\ t \in Tasks
    BY DroppedType DEF IInv, TypeOK, ClientsTypeOK
<1>3. OwnedBy(T) \subseteq ActiveIds
    BY <1>2, OwnedByActive DEF IInv
<1>4. EndMessages(OwnedBy(T) \ over) \subseteq Packets \cup Cancels
    BY <1>3, EndMessagesType DEF IInv
<1>5. over \cup OwnedBy(T) \subseteq RpyIds
    BY <1>3 DEF ActiveIds
<1>6. /\ connected' \subseteq Tasks /\ dead' \subseteq Tasks
      /\ receiving' \subseteq Tasks
      /\ out' \subseteq Packets \cup Cancels
    BY <1>1, <1>4 DEF IInv, TypeOK, ClientsTypeOK
<1>7. CASE receiving \subseteq taking
    BY <1>1, <1>2, <1>5, <1>6, <1>7, EndingStep
<1>8. CASE receiving \ {t} \subseteq taking /\ replies[t] \subseteq over
    <2>1. T \cup {t} \subseteq Tasks
        BY <1>2
    <2>2. OwnedBy(T \cup {t}) \subseteq over \cup OwnedBy(T)
        BY <1>8 DEF OwnedBy
    <2>3. (connected \cap receiving) \ (T \cup {t}) \subseteq connected' \cap receiving'
        BY <1>1, <1>8
    <2> QED
        BY <1>1, <1>5, <1>6, <2>1, <2>2, <2>3, EndingStep, SMTT(20)
<1> QED
    BY <1>7, <1>8

(***************************************************************************)
(* A step that leaves the pool and its owners alone.                       *)
(***************************************************************************)
LEMMA PoolUntouched ==
    ASSUME IInv, UNCHANGED poolVars, connected' = connected,
           receiving' = receiving, dead' \subseteq Tasks, warned' \subseteq Tasks,
           pending' \in [Tasks -> 0..MaxPending],
           out' \subseteq Packets \cup Cancels
    PROVE  IInv'
<1>1. TypeOK'
    BY DEF IInv, TypeOK, ClientsTypeOK, poolVars, Packets, Cancels
<1>2. OwnersListen' /\ OwnershipAgrees' /\ MapSound'
    BY DEF IInv, OwnersListen, OwnershipAgrees, MapSound, ActiveIds, Active, poolVars
<1> QED
    BY <1>1, <1>2 DEF IInv

-----------------------------------------------------------------------------
(* Each action preserves the invariant. *)

LEMMA ConnectStep ==
    ASSUME IInv, NEW t \in Tasks, Connect(t)
    PROVE  IInv'
<1> DEFINE gone == OwnedBy(Inactive)
<1>1. Inactive \subseteq connected /\ Inactive \subseteq Tasks
    BY DEF Inactive, RemovedWith, IInv, TypeOK, ClientsTypeOK
<1>2. gone \subseteq ActiveIds
    BY <1>1, OwnedByActive DEF IInv
<1>3. gone \subseteq RpyIds /\ EndMessages(gone) \subseteq Packets \cup Cancels
    BY <1>2, EndMessagesType DEF IInv, ActiveIds
<1>4. SameReplies(rpy) /\ EndReplies(rpy, gone)
    BY SameRepliesSelf DEF IInv, Connect
<1>5. /\ connected' \subseteq Tasks /\ dead' \subseteq Tasks
      /\ receiving' \subseteq Tasks /\ warned' \subseteq Tasks
      /\ pending' \in [Tasks -> 0..MaxPending]
      /\ out' \subseteq Packets \cup Cancels
    BY <1>1, <1>3, PendingAssumption DEF Connect, IInv, TypeOK, ClientsTypeOK
<1>6. t \notin connected => OwnedBy({t}) = {}
    BY DEF IInv, OwnersListen, OwnershipAgrees, OwnedBy
<1>7. PICK T \in SUBSET Tasks :
        /\ (connected \cap receiving) \ T \subseteq connected' \cap receiving'
        /\ OwnedBy(T) \subseteq gone
    <2>1. CASE t \notin connected
        <3>1. (connected \cap receiving) \ (Inactive \cup {t}) \subseteq connected' \cap receiving'
            BY <2>1 DEF Connect
        <3>2. OwnedBy(Inactive \cup {t}) \subseteq gone
            BY <1>6, <2>1 DEF OwnedBy
        <3> QED
            BY <1>1, <3>1, <3>2
    <2>2. CASE t \in connected
        <3>1. (connected \cap receiving) \ Inactive \subseteq connected' \cap receiving'
            BY <2>2 DEF Connect
        <3> QED
            BY <1>1, <3>1
    <2> QED
        BY <2>1, <2>2
<1> HIDE DEF gone
<1> QED
    BY <1>3, <1>4, <1>5, <1>7, EndingStep

(***************************************************************************)
(* The actions that only remove tasks.                                     *)
(***************************************************************************)
LEMMA RemovalSteps ==
    ASSUME IInv, NEW t \in Tasks,
           Disconnect(t) \/ DisconnectSingle(t) \/ DeliveryFails(t) \/ RemoveAllTasks
    PROVE  IInv'
<1>1. RemovedWith(t) \subseteq Tasks /\ connected \subseteq Tasks
    BY DEF RemovedWith, IInv, TypeOK, ClientsTypeOK
<1>2. \E T \in SUBSET Tasks : RemoveTasks(T, {})
    BY <1>1 DEF Commands, Disconnect, DisconnectSingle, DeliveryFails, RemoveAllTasks
<1>3. {} \in SUBSET Packets
    OBVIOUS
<1> QED
    BY <1>2, <1>3, RemoveTasksStep

LEMMA DieRecoverSteps ==
    ASSUME IInv, NEW t \in Tasks, Die(t) \/ Recover(t)
    PROVE  IInv'
<1>1. /\ UNCHANGED <<poolVars, connected, receiving, warned, pending>>
      /\ dead' \subseteq Tasks
      /\ out' \subseteq Packets \cup Cancels
    BY DEF Die, Recover, ClientDies, ClientRecovers, IInv, TypeOK, ClientsTypeOK
<1>2. warned' \subseteq Tasks /\ pending' \in [Tasks -> 0..MaxPending]
    BY <1>1 DEF IInv, TypeOK
<1> QED
    BY <1>1, <1>2, PoolUntouched

LEMMA ReceiveRequestsStep ==
    ASSUME IInv, NEW t \in Tasks, ReceiveRequests(t)
    PROVE  IInv'
<1>1. t \in connected /\ Conclude(t, rpy, {}, receiving \cup {t}, {})
    BY DEF Commands, ReceiveRequests
<1>2. /\ pending' \in [Tasks -> 0..MaxPending] /\ warned' \subseteq Tasks
      /\ receiving \cup {t} \subseteq Tasks
    BY DEF ReceiveRequests, IInv, TypeOK
<1>3. SameReplies(rpy)
    BY SameRepliesSelf DEF IInv
<1>4. {} \subseteq ActiveIds /\ {} \subseteq Packets \cup Cancels
    OBVIOUS
<1>5. receiving \subseteq receiving \cup {t}
    OBVIOUS
<1> QED
    BY <1>1, <1>2, <1>3, <1>4, <1>5, ConcludeStep

LEMMA BlockRequestsStep ==
    ASSUME IInv, NEW t \in Tasks, BlockRequests(t)
    PROVE  IInv'
<1>1. t \in connected
      /\ Conclude(t, rpy, replies[t], receiving \ {t}, EndMessages(replies[t]))
    BY DEF Commands, BlockRequests
<1>2. /\ pending' \in [Tasks -> 0..MaxPending] /\ warned' \subseteq Tasks
      /\ receiving \ {t} \subseteq Tasks
    BY DEF BlockRequests, IInv, TypeOK
<1>3. SameReplies(rpy)
    BY SameRepliesSelf DEF IInv
<1>4. replies[t] \subseteq ActiveIds
    BY DEF IInv, OwnershipAgrees
<1>5. EndMessages(replies[t]) \subseteq Packets \cup Cancels
    BY <1>4, EndMessagesType DEF IInv
<1>6. receiving \ {t} \subseteq receiving \ {t} /\ replies[t] \subseteq replies[t]
    OBVIOUS
<1> QED
    BY <1>1, <1>2, <1>3, <1>4, <1>5, <1>6, ConcludeStep

LEMMA SendReplyStep ==
    ASSUME IInv, NEW t \in Tasks, NEW r \in RpyIds, NEW emr \in BOOLEAN,
           SendReply(t, r, emr)
    PROVE  IInv'
<1> DEFINE done == ~rpy[r].mult \/ emr
           over == IF done THEN {r} ELSE {}
           info == [rpy EXCEPT ![r].acked = TRUE]
           packets == {Packet(r, rpy[r].key, ~done)}
<1>1. t \in connected /\ Active(r) /\ Conclude(t, info, over, receiving, packets)
    BY DEF Commands, SendReply
<1>2. rpy[r].task \in Tasks /\ rpy[r].key \in Keys
    BY <1>1, ActiveType DEF IInv
<1>3. /\ warned' \subseteq Tasks
      /\ pending' \in [Tasks -> 0..MaxPending]
    BY <1>2, DecrementedType DEF SendReply, IInv, TypeOK
<1>4. SameReplies(info)
    BY <1>1, SameRepliesAcked DEF IInv
<1>5. over \subseteq ActiveIds /\ packets \subseteq Packets \cup Cancels
    BY <1>1, <1>2 DEF ActiveIds, Packet, Packets
<1>6. receiving \subseteq Tasks
    BY DEF IInv, TypeOK
<1> HIDE DEF done, over, info, packets
<1> QED
    BY <1>1, <1>3, <1>4, <1>5, <1>6, ConcludeStep

LEMMA IgnoreRequestStep ==
    ASSUME IInv, NEW t \in Tasks, NEW r \in RpyIds, IgnoreRequest(t, r)
    PROVE  IInv'
<1>1. t \in connected /\ Active(r) /\ Conclude(t, rpy, {r}, receiving, {})
    BY DEF Commands, IgnoreRequest
<1>2. /\ pending' \in [Tasks -> 0..MaxPending] /\ warned' \subseteq Tasks
      /\ receiving \subseteq Tasks
    BY DEF IgnoreRequest, IInv, TypeOK
<1>3. SameReplies(rpy)
    BY SameRepliesSelf DEF IInv
<1>4. {r} \subseteq ActiveIds /\ {} \subseteq Packets \cup Cancels
    BY <1>1 DEF ActiveIds
<1> QED
    BY <1>1, <1>2, <1>3, <1>4, ConcludeStep

LEMMA RequestAckStep ==
    ASSUME IInv, NEW t \in Tasks, NEW r \in RpyIds, RequestAck(t, r)
    PROVE  IInv'
<1> DEFINE info == [rpy EXCEPT ![r].acked = TRUE]
<1>1. t \in connected /\ Active(r) /\ Conclude(t, info, {}, receiving, {})
    BY DEF Commands, RequestAck
<1>2. /\ pending' \in [Tasks -> 0..MaxPending] /\ warned' \subseteq Tasks
      /\ receiving \subseteq Tasks
    BY DecrementedType DEF RequestAck, IInv, TypeOK
<1>3. SameReplies(info)
    BY <1>1, SameRepliesAcked DEF IInv
<1>4. {} \subseteq ActiveIds /\ {} \subseteq Packets \cup Cancels
    OBVIOUS
<1> HIDE DEF info
<1> QED
    BY <1>1, <1>2, <1>3, <1>4, ConcludeStep

LEMMA ErrorToType ==
    ASSUME NEW k \in Keys, NEW mcast \in BOOLEAN
    PROVE  ErrorTo(k, mcast) \subseteq Packets
<1>1. Packet(0, k, FALSE) \in Packets
    BY DEF Packet, Packets
<1> QED
    BY <1>1 DEF ErrorTo

LEMMA RefuseRequestStep ==
    ASSUME IInv, NEW t \in Tasks, NEW k \in Keys, NEW mcast \in BOOLEAN,
           RefuseRequest(t, k, mcast)
    PROVE  IInv'
<1>1. ErrorTo(k, mcast) \subseteq Packets
    BY ErrorToType
<1>2. CASE t \in connected \cap dead /\ RemoveTasks(RemovedWith(t), ErrorTo(k, mcast))
    <2>1. RemovedWith(t) \subseteq Tasks
        BY DEF RemovedWith, IInv, TypeOK, ClientsTypeOK
    <2> QED
        BY <1>1, <1>2, <2>1, RemoveTasksStep
<1>3. CASE /\ out' = ErrorTo(k, mcast)
           /\ UNCHANGED <<connected, dead, receiving, poolVars>>
           /\ pending' = pending \/ pending' = Decremented(t)
           /\ warned' = warned \/ warned' = warned \cup {t}
    <2>1. /\ dead' \subseteq Tasks /\ warned' \subseteq Tasks
          /\ pending' \in [Tasks -> 0..MaxPending]
        BY <1>3, DecrementedType DEF IInv, TypeOK, ClientsTypeOK
    <2> QED
        BY <1>1, <1>3, <2>1, PoolUntouched
<1> QED
    BY <1>2, <1>3 DEF RefuseRequest, taskVars

(***************************************************************************)
(* An accepted request takes a free entry of the pool, for a task that     *)
(* listens: ownership and map grow together.                               *)
(***************************************************************************)
LEMMA AcceptRequestStep ==
    ASSUME IInv, NEW t \in Tasks, NEW k \in Keys, NEW c \in Clnts,
           NEW mult \in BOOLEAN, NEW mcast \in BOOLEAN,
           AcceptRequest(t, k, c, mult, mcast)
    PROVE  IInv'
<1> DEFINE x == [task |-> t, key |-> k, clnt |-> c,
                 mult |-> mult, mcast |-> mcast, acked |-> FALSE]
<1>1. PICK r \in RpyIds \ ActiveIds :
        /\ rpy' = [rpy EXCEPT ![r] = x]
        /\ replies' = [replies EXCEPT ![t] = @ \cup {r}]
        /\ activeMap' = activeMap \cup {<<k, r>>}
    BY DEF AcceptRequest
<1>2. /\ t \in connected \cap receiving
      /\ out' = {} /\ UNCHANGED <<connected, dead, receiving>>
    BY DEF AcceptRequest
<1>3. x \in RpyInfo /\ x # NoRpy /\ x.task = t /\ x.key = k
    <2>1. x \in RpyInfo
        BY DEF RpyInfo
    <2>2. x.task = t /\ x.key = k
        OBVIOUS
    <2> QED
        BY <2>1, <2>2, NoRpyAssumption
<1> HIDE DEF x
<1>4. rpy'[r] = x /\ \A s \in RpyIds : s # r => rpy'[s] = rpy[s]
    BY <1>1 DEF IInv, TypeOK
<1>5. r \notin ActiveIds /\ ActiveIds' = ActiveIds \cup {r}
    BY <1>1, <1>3, <1>4 DEF ActiveIds, Active
<1>6. TypeOK'
    <2>1. pending' \in [Tasks -> 0..MaxPending] /\ warned' \subseteq Tasks
        BY PendingAssumption DEF AcceptRequest, CountRequest, IInv, TypeOK
    <2>2. /\ rpy' \in [RpyIds -> RpyInfo \cup {NoRpy}]
          /\ replies' \in [Tasks -> SUBSET RpyIds]
          /\ activeMap' \subseteq Keys \X RpyIds
        BY <1>1, <1>3 DEF IInv, TypeOK
    <2> QED
        BY <1>2, <2>1, <2>2 DEF IInv, TypeOK, ClientsTypeOK
<1>7. OwnersListen'
    BY <1>2, <1>3, <1>4, <1>5 DEF IInv, OwnersListen, ActiveIds
<1>8. OwnershipAgrees'
    <2> SUFFICES ASSUME NEW u \in Tasks
                 PROVE  replies'[u] = {s \in ActiveIds' : rpy'[s].task = u}
        BY DEF OwnershipAgrees
    <2>1. replies[u] = {s \in ActiveIds : rpy[s].task = u}
        BY DEF IInv, OwnershipAgrees
    <2>2. \A s \in ActiveIds : s # r /\ rpy'[s].task = rpy[s].task
        BY <1>4, <1>5 DEF ActiveIds
    <2>3. CASE u = t
        <3>1. replies'[u] = replies[u] \cup {r}
            BY <1>1, <2>3 DEF IInv, TypeOK
        <3> QED
            BY <1>3, <1>4, <1>5, <2>1, <2>2, <2>3, <3>1
    <2>4. CASE u # t
        <3>1. replies'[u] = replies[u]
            BY <1>1, <2>4 DEF IInv, TypeOK
        <3> QED
            BY <1>3, <1>4, <1>5, <2>1, <2>2, <2>4, <3>1
    <2> QED
        BY <2>3, <2>4
<1>9. MapSound'
    <2> SUFFICES ASSUME NEW e \in activeMap'
                 PROVE  Active(e[2])' /\ rpy'[e[2]].key = e[1]
        BY DEF MapSound
    <2>1. CASE e \in activeMap
        <3>1. e[2] \in RpyIds /\ Active(e[2]) /\ rpy[e[2]].key = e[1]
            BY <2>1 DEF IInv, TypeOK, MapSound
        <3>2. e[2] # r
            BY <1>5, <3>1 DEF ActiveIds
        <3> QED
            BY <1>4, <3>1, <3>2 DEF Active
    <2>2. CASE e = <<k, r>>
        BY <1>3, <1>4, <2>2 DEF Active
    <2> QED
        BY <1>1, <2>1, <2>2
<1> QED
    BY <1>6, <1>7, <1>8, <1>9 DEF IInv

LEMMA LoseRequestStep ==
    ASSUME IInv, NEW t \in Tasks, NEW k \in Keys,
           NEW mult \in BOOLEAN, NEW mcast \in BOOLEAN,
           LoseRequest(t, k, mult, mcast)
    PROVE  IInv'
<1>1. /\ UNCHANGED <<connected, receiving, rpy, replies>>
      /\ activeMap' \subseteq activeMap
      /\ dead' = dead \cup {t}
      /\ warned' \subseteq warned \cup {t}
      /\ pending' = pending \/ pending' = Decremented(t)
    BY DEF LoseRequest
<1>2. PICK r \in RpyIds :
        out' = ErrorTo(k, mcast) \cup {Cancel(t, r)}
                  \cup (IF mcast /\ mult THEN {} ELSE {Packet(r, k, FALSE)})
    BY DEF LoseRequest
<1>3. out' \subseteq Packets \cup Cancels
    <2>1. Packet(r, k, FALSE) \in Packets /\ Cancel(t, r) \in Cancels
        BY DEF Packet, Cancel, Packets, Cancels
    <2>2. ErrorTo(k, mcast) \subseteq Packets
        BY ErrorToType
    <2> QED
        BY <1>2, <2>1, <2>2
<1>4. TypeOK'
    BY <1>1, <1>3, DecrementedType
    DEF IInv, TypeOK, ClientsTypeOK, Packets, Cancels
<1>5. OwnersListen' /\ OwnershipAgrees' /\ MapSound'
    BY <1>1 DEF IInv, OwnersListen, OwnershipAgrees, MapSound, ActiveIds, Active
<1> QED
    BY <1>4, <1>5 DEF IInv

LEMMA HandleAcnetCancelStep ==
    ASSUME IInv, NEW t \in Tasks, NEW k \in Keys, NEW c \in Clnts,
           HandleAcnetCancel(k, t, c)
    PROVE  IInv'
<1>1. PICK r \in {s \in RpyIds : <<k, s>> \in activeMap} :
        /\ rpy[r].task = t
        /\ Conclude(t, rpy, {r}, receiving, {Cancel(t, r)})
        /\ pending' = IF rpy[r].acked THEN pending ELSE Decremented(t)
        /\ UNCHANGED warned
    BY DEF HandleAcnetCancel
<1>2. r \in ActiveIds
    BY <1>1 DEF IInv, MapSound, ActiveIds
<1>3. t \in connected
    BY <1>1, <1>2 DEF IInv, OwnersListen
<1>4. /\ pending' \in [Tasks -> 0..MaxPending] /\ warned' \subseteq Tasks
      /\ receiving \subseteq Tasks
    BY <1>1, DecrementedType DEF IInv, TypeOK
<1>5. {r} \subseteq ActiveIds /\ {Cancel(t, r)} \subseteq Packets \cup Cancels
    BY <1>2 DEF Cancel, Cancels, ActiveIds
<1>6. SameReplies(rpy)
    BY SameRepliesSelf DEF IInv
<1> QED
    BY <1>1, <1>3, <1>4, <1>5, <1>6, ConcludeStep

LEMMA EndRpyToNodeStep ==
    ASSUME IInv, NEW n, EndRpyToNode(n)
    PROVE  IInv'
<1>1. PICK r \in ActiveIds :
        /\ Conclude(rpy[r].task, rpy, {r}, receiving, {Cancel(rpy[r].task, 0)})
        /\ UNCHANGED <<pending, warned>>
    BY DEF EndRpyToNode
<1>2. rpy[r].task \in connected
    BY <1>1 DEF IInv, OwnersListen
<1>3. /\ pending' \in [Tasks -> 0..MaxPending] /\ warned' \subseteq Tasks
      /\ receiving \subseteq Tasks /\ connected \subseteq Tasks
    BY <1>1 DEF IInv, TypeOK, ClientsTypeOK
<1>4. {r} \subseteq ActiveIds
      /\ {Cancel(rpy[r].task, 0)} \subseteq Packets \cup Cancels
    BY <1>1, <1>2, <1>3 DEF Cancel, Cancels
<1>5. SameReplies(rpy)
    BY SameRepliesSelf DEF IInv
<1> QED
    BY <1>1, <1>2, <1>3, <1>4, <1>5, ConcludeStep

LEMMA CommandSteps ==
    ASSUME IInv, NEW t \in Tasks, HandleClientCommand(t)
    PROVE  IInv'
BY RemovalSteps, ReceiveRequestsStep, BlockRequestsStep, SendReplyStep,
   IgnoreRequestStep, RequestAckStep DEF HandleClientCommand

LEMMA RequestSteps ==
    ASSUME IInv, NEW t \in Tasks, NEW k \in Keys, HandleAcnetRequest(t, k)
    PROVE  IInv'
<1>1. PICK c \in Clnts, kind \in Kinds :
        AcceptRequest(t, k, c, kind[1], kind[2]) \/ LoseRequest(t, k, kind[1], kind[2])
    BY DEF HandleAcnetRequest
<1>2. kind[1] \in BOOLEAN /\ kind[2] \in BOOLEAN
    BY KindsAssumption
<1> QED
    BY <1>1, <1>2, AcceptRequestStep, LoseRequestStep

-----------------------------------------------------------------------------
LEMMA InitEstablishes ==
    Init => IInv
BY PendingAssumption
   DEF Init, ClientsInit, IInv, TypeOK, ClientsTypeOK, OwnersListen, OwnershipAgrees,
       MapSound, ActiveIds, Active

LEMMA NextPreserves ==
    IInv /\ [Next]_vars => IInv'
<1> SUFFICES ASSUME IInv, [Next]_vars
             PROVE  IInv'
    OBVIOUS
<1>1. CASE UNCHANGED vars
    <2>1. TypeOK' /\ OwnersListen' /\ OwnershipAgrees' /\ MapSound'
        BY <1>1 DEF vars, taskVars, poolVars, IInv, TypeOK, ClientsTypeOK,
                    OwnersListen, OwnershipAgrees, MapSound, ActiveIds, Active
    <2> QED
        BY <2>1 DEF IInv
<1>2. CASE \E t \in Tasks : Connect(t)
    BY <1>2, ConnectStep
<1>3. CASE \E t \in Tasks : HandleClientCommand(t)
    BY <1>3, CommandSteps
<1>4. CASE \E t \in Tasks : DeliveryFails(t)
    BY <1>4, RemovalSteps
<1>5. CASE \E t \in Tasks : Die(t) \/ Recover(t)
    BY <1>5, DieRecoverSteps
<1>6. CASE \E t \in Tasks, k \in Keys : HandleAcnetRequest(t, k)
    BY <1>6, RequestSteps
<1>7. CASE \E t \in Tasks, k \in Keys, mcast \in BOOLEAN : RefuseRequest(t, k, mcast)
    BY <1>7, RefuseRequestStep
<1>8. CASE \E t \in Tasks, k \in Keys, c \in Clnts : HandleAcnetCancel(k, t, c)
    BY <1>8, HandleAcnetCancelStep
<1>9. CASE \E n \in KilledNodes : EndRpyToNode(n)
    BY <1>9, EndRpyToNodeStep
<1>10. CASE RemoveAllTasks
    <2>1. connected # {} /\ connected \subseteq Tasks
        BY <1>10 DEF RemoveAllTasks, IInv, TypeOK, ClientsTypeOK
    <2> QED
        BY <1>10, <2>1, RemovalSteps
<1> QED
    BY <1>1, <1>2, <1>3, <1>4, <1>5, <1>6, <1>7, <1>8, <1>9, <1>10 DEF Next

(***************************************************************************)
(* In every reachable state the variables are of their types, the owner of *)
(* every active reply is connected and listens, the sets of the tasks are  *)
(* what the pool says, and the map never leads to another request's reply. *)
(***************************************************************************)
THEOREM Inductive ==
    Spec => []IInv
BY InitEstablishes, NextPreserves, PTL DEF Spec

THEOREM TypeCorrect ==
    Spec => []TypeOK
<1>1. IInv => TypeOK
    BY DEF IInv
<1> QED
    BY <1>1, Inductive, PTL

(***************************************************************************)
(* The assertion of handleAcnetCancel holds in release builds as well.     *)
(***************************************************************************)
THEOREM OwnersAlwaysListen ==
    Spec => []OwnersListen
<1>1. IInv => OwnersListen
    BY DEF IInv
<1> QED
    BY <1>1, Inductive, PTL

(***************************************************************************)
(* No reply is leaked by the task that owns it, and the loops that end all *)
(* replies of a task never meet one that is not active.                    *)
(***************************************************************************)
THEOREM OwnershipAlwaysAgrees ==
    Spec => []OwnershipAgrees
<1>1. IInv => OwnershipAgrees
    BY DEF IInv
<1> QED
    BY <1>1, Inductive, PTL

(***************************************************************************)
(* A CANCEL never ends the reply to another request.                       *)
(***************************************************************************)
THEOREM MapAlwaysSound ==
    Spec => []MapSound
<1>1. IInv => MapSound
    BY DEF IInv
<1> QED
    BY <1>1, Inductive, PTL

-----------------------------------------------------------------------------
(* What requesters are told. *)

(***************************************************************************)
(* The messages that end replies reach the requester of each of them, and  *)
(* nobody else's.                                                          *)
(***************************************************************************)
LEMMA PacketsApart ==
    ASSUME NEW r, NEW k, NEW mlt, NEW t, NEW s
    PROVE  Packet(r, k, mlt) # Cancel(t, s)
<1>1. Packet(r, k, mlt).rpy = r /\ "rpy" \in DOMAIN Packet(r, k, mlt)
    BY DEF Packet
<1>2. "rpy" \notin DOMAIN Cancel(t, s)
    BY DEF Cancel
<1> QED
    BY <1>1, <1>2

LEMMA FinalOfEnded ==
    ASSUME NEW R, NEW r, NEW k, Packet(r, k, FALSE) \in EndMessages(R)
    PROVE  r \in R
<1>1. \A s \in R : Packet(r, k, FALSE) # Cancel(rpy[s].task, s)
    BY PacketsApart
<1>2. PICK s \in R : Packet(r, k, FALSE) = Packet(s, rpy[s].key, FALSE)
    BY <1>1 DEF EndMessages
<1>3. r = s
    BY <1>2 DEF Packet
<1> QED
    BY <1>3

LEMMA EndedAreTold ==
    ASSUME NEW R, NEW r \in R, ~(rpy[r].mcast /\ rpy[r].mult)
    PROVE  Packet(r, rpy[r].key, FALSE) \in EndMessages(R)
BY DEF EndMessages

LEMMA FinalRemove ==
    ASSUME NEW r \in RpyIds, NEW k, NEW T, NEW packets,
           RemoveTasks(T, packets), Packet(r, k, FALSE) \in out',
           Packet(r, k, FALSE) \notin packets
    PROVE  ~Active(r)'
<1>1. r \in OwnedBy(T)
    BY FinalOfEnded DEF RemoveTasks
<1> QED
    BY <1>1 DEF RemoveTasks, EndReplies, Active

LEMMA FinalConclude ==
    ASSUME NEW r \in RpyIds, NEW k, NEW t, NEW info, NEW over, NEW taking, NEW packets,
           Conclude(t, info, over, taking, packets), Packet(r, k, FALSE) \in out',
           Packet(r, k, FALSE) \in packets => r \in over
    PROVE  ~Active(r)'
<1>1. PICK T :
        /\ EndReplies(info, over \cup OwnedBy(T))
        /\ out' = packets \cup EndMessages(OwnedBy(T) \ over)
    BY DEF Conclude
<1>2. r \in over \cup OwnedBy(T)
    BY <1>1, FinalOfEnded
<1> QED
    BY <1>1, <1>2 DEF EndReplies, Active

(***************************************************************************)
(* An error reply carries no identifier of the pool.                       *)
(***************************************************************************)
LEMMA ErrorsAnonymous ==
    ASSUME NEW r \in RpyIds, NEW k, NEW k2, NEW mcast
    PROVE  Packet(r, k, FALSE) \notin ErrorTo(k2, mcast)
<1>1. r # 0
    BY RpyIdsAssumption
<1>2. Packet(r, k, FALSE) # Packet(0, k2, FALSE)
    BY <1>1 DEF Packet
<1> QED
    BY <1>2 DEF ErrorTo

LEMMA FinalCommand ==
    ASSUME NEW r \in RpyIds, NEW k, NEW t \in Tasks, HandleClientCommand(t),
           Packet(r, k, FALSE) \in out'
    PROVE  ~Active(r)'
<1>1. CASE Disconnect(t) \/ DisconnectSingle(t)
    <2>1. Packet(r, k, FALSE) \notin {}
        OBVIOUS
    <2> QED
        BY <1>1, <2>1, FinalRemove DEF Commands, Disconnect, DisconnectSingle
<1>2. CASE ReceiveRequests(t)
    BY <1>2, FinalConclude DEF ReceiveRequests
<1>3. CASE BlockRequests(t)
    <2>1. Packet(r, k, FALSE) \in EndMessages(replies[t]) => r \in replies[t]
        BY FinalOfEnded
    <2> QED
        BY <1>3, <2>1, FinalConclude DEF BlockRequests
<1>4. CASE \E s \in RpyIds, emr \in BOOLEAN : SendReply(t, s, emr)
    <2>1. PICK s \in RpyIds, emr \in BOOLEAN : SendReply(t, s, emr)
        BY <1>4
    <2> DEFINE info == [rpy EXCEPT ![s].acked = TRUE]
               key == rpy[s].key
    <2>2. \/ Conclude(t, info, {s}, receiving, {Packet(s, key, FALSE)})
          \/ Conclude(t, info, {}, receiving, {Packet(s, key, TRUE)})
        BY <2>1 DEF SendReply
    <2>3. Packet(r, k, FALSE) \in {Packet(s, key, FALSE)} => r \in {s}
        BY DEF Packet
    <2>4. Packet(r, k, FALSE) \notin {Packet(s, key, TRUE)}
        BY DEF Packet
    <2> HIDE DEF info, key
    <2> QED
        BY <2>2, <2>3, <2>4, FinalConclude
<1>5. CASE \E s \in RpyIds : IgnoreRequest(t, s)
    BY <1>5, FinalConclude DEF IgnoreRequest
<1>6. CASE \E s \in RpyIds : RequestAck(t, s)
    <2>1. PICK info : Conclude(t, info, {}, receiving, {})
        BY <1>6 DEF RequestAck
    <2> QED
        BY <2>1, FinalConclude
<1> QED
    BY <1>1, <1>2, <1>3, <1>4, <1>5, <1>6 DEF HandleClientCommand

LEMMA FinalPacketStep ==
    ASSUME NEW r \in RpyIds, NEW k, NEW t \in Tasks, NEW k2 \in Keys,
           \/ HandleAcnetRequest(t, k2)
           \/ \E mcast \in BOOLEAN : RefuseRequest(t, k2, mcast)
           \/ \E c \in Clnts : HandleAcnetCancel(k2, t, c),
           Packet(r, k, FALSE) \in out'
    PROVE  ~Active(r)'
<1>1. CASE \E c \in Clnts, kind \in Kinds : AcceptRequest(t, k2, c, kind[1], kind[2])
    BY <1>1 DEF AcceptRequest
<1>2. CASE \E c \in Clnts, kind \in Kinds : LoseRequest(t, k2, kind[1], kind[2])
    <2>1. PICK kind \in Kinds, s \in RpyIds \ ActiveIds :
            /\ out' = ErrorTo(k2, kind[2]) \cup {Cancel(t, s)}
                  \cup (IF kind[2] /\ kind[1] THEN {} ELSE {Packet(s, k2, FALSE)})
            /\ rpy' = rpy
        BY <1>2 DEF LoseRequest
    <2>2. /\ Packet(r, k, FALSE) \notin ErrorTo(k2, kind[2])
          /\ Packet(r, k, FALSE) # Cancel(t, s)
        BY ErrorsAnonymous, PacketsApart
    <2>3. Packet(r, k, FALSE) = Packet(s, k2, FALSE)
        BY <2>1, <2>2
    <2>4. r = s
        BY <2>3 DEF Packet
    <2> QED
        BY <2>1, <2>4 DEF ActiveIds, Active
<1>3. CASE \E mcast \in BOOLEAN : RefuseRequest(t, k2, mcast)
    <2>1. PICK mcast \in BOOLEAN : RefuseRequest(t, k2, mcast)
        BY <1>3
    <2>2. Packet(r, k, FALSE) \notin ErrorTo(k2, mcast)
        BY ErrorsAnonymous
    <2>3. RemoveTasks(RemovedWith(t), ErrorTo(k2, mcast))
        BY <2>1, <2>2 DEF RefuseRequest
    <2> QED
        BY <2>2, <2>3, FinalRemove
<1>4. CASE \E c \in Clnts : HandleAcnetCancel(k2, t, c)
    <2>1. PICK s \in RpyIds : Conclude(t, rpy, {s}, receiving, {Cancel(t, s)})
        BY <1>4 DEF HandleAcnetCancel
    <2>2. Packet(r, k, FALSE) \notin {Cancel(t, s)}
        BY PacketsApart
    <2> QED
        BY <2>1, <2>2, FinalConclude
<1> QED
    BY <1>1, <1>2, <1>3, <1>4 DEF HandleAcnetRequest

(***************************************************************************)
(* A requester that was sent its last reply is never sent another one: the *)
(* reply is gone, on every path that sends such a packet.                  *)
(***************************************************************************)
THEOREM FinalAlwaysMeansEnd ==
    Spec => FinalMeansEnd
<1> DEFINE Claim(r, k) == Packet(r, k, FALSE) \in out' => ~Active(r)'
<1>1. ASSUME Next, NEW r \in RpyIds, NEW k \in Keys
      PROVE  Claim(r, k)
    <2> SUFFICES ASSUME Packet(r, k, FALSE) \in out'
                 PROVE  ~Active(r)'
        OBVIOUS
    <2>1. CASE \E t \in Tasks : Connect(t)
        <3>1. /\ EndReplies(rpy, OwnedBy(Inactive))
              /\ out' = EndMessages(OwnedBy(Inactive))
            BY <2>1 DEF Connect
        <3>2. r \in OwnedBy(Inactive)
            BY <3>1, FinalOfEnded
        <3> QED
            BY <3>1, <3>2 DEF EndReplies, Active
    <2>2. CASE \E t \in Tasks : HandleClientCommand(t)
        BY <2>2, FinalCommand
    <2>3. CASE RemoveAllTasks \/ \E t \in Tasks : DeliveryFails(t)
        <3>1. Packet(r, k, FALSE) \notin {}
            OBVIOUS
        <3> QED
            BY <2>3, <3>1, FinalRemove DEF RemoveAllTasks, DeliveryFails
    <2>4. CASE \E t \in Tasks : Die(t) \/ Recover(t)
        BY <2>4 DEF Die, Recover
    <2>5. CASE \E t \in Tasks, k2 \in Keys :
                \/ HandleAcnetRequest(t, k2)
                \/ \E mcast \in BOOLEAN : RefuseRequest(t, k2, mcast)
                \/ \E c \in Clnts : HandleAcnetCancel(k2, t, c)
        BY <2>5, FinalPacketStep
    <2>6. CASE \E n \in KilledNodes : EndRpyToNode(n)
        <3>1. PICK s \in RpyIds :
                Conclude(rpy[s].task, rpy, {s}, receiving, {Cancel(rpy[s].task, 0)})
            BY <2>6 DEF EndRpyToNode, ActiveIds
        <3>2. Packet(r, k, FALSE) \notin {Cancel(rpy[s].task, 0)}
            BY PacketsApart
        <3> QED
            BY <3>1, <3>2, FinalConclude
    <2> QED
        BY <1>1, <2>1, <2>2, <2>3, <2>4, <2>5, <2>6 DEF Next
<1>2. [Next]_vars => [\A r \in RpyIds, k \in Keys : Claim(r, k)]_vars
    BY <1>1
<1> QED
    BY <1>2, PTL DEF Spec, FinalMeansEnd

LEMMA ToldRemove ==
    ASSUME NEW r \in ActiveIds, ~(rpy[r].mcast /\ rpy[r].mult),
           NEW T, NEW packets, RemoveTasks(T, packets)
    PROVE  Active(r)' \/ Packet(r, rpy[r].key, FALSE) \in out'
<1>1. CASE r \in OwnedBy(T)
    BY <1>1, EndedAreTold DEF RemoveTasks
<1>2. CASE r \notin OwnedBy(T)
    BY <1>2 DEF RemoveTasks, EndReplies, ActiveIds, Active
<1> QED
    BY <1>1, <1>2

LEMMA ToldConclude ==
    ASSUME NEW r \in ActiveIds, ~(rpy[r].mcast /\ rpy[r].mult),
           NEW t, NEW info, info[r] # NoRpy, NEW over, NEW taking, NEW packets,
           Conclude(t, info, over, taking, packets),
           r \in over => Packet(r, rpy[r].key, FALSE) \in packets
    PROVE  Active(r)' \/ Packet(r, rpy[r].key, FALSE) \in out'
<1>1. PICK T :
        /\ EndReplies(info, over \cup OwnedBy(T))
        /\ out' = packets \cup EndMessages(OwnedBy(T) \ over)
    BY DEF Conclude
<1>2. CASE r \in over
    BY <1>1, <1>2
<1>3. CASE r \in OwnedBy(T) \ over
    BY <1>1, <1>3, EndedAreTold
<1>4. CASE r \notin over \cup OwnedBy(T)
    BY <1>1, <1>4 DEF EndReplies, ActiveIds, Active
<1> QED
    BY <1>2, <1>3, <1>4

LEMMA ToldCommand ==
    ASSUME TypeOK, NEW r \in ActiveIds, ~(rpy[r].mcast /\ rpy[r].mult),
           NEW t \in Tasks, HandleClientCommand(t)
    PROVE  \/ Active(r)' \/ Packet(r, rpy[r].key, FALSE) \in out'
           \/ \E s \in RpyIds : IgnoreRequest(t, s)
<1>1. r \in RpyIds /\ rpy[r] # NoRpy
    BY DEF ActiveIds, Active
<1>2. CASE Disconnect(t) \/ DisconnectSingle(t)
    BY <1>2, ToldRemove DEF Disconnect, DisconnectSingle
<1>3. CASE ReceiveRequests(t)
    <2>1. r \notin {}
        OBVIOUS
    <2> QED
        BY <1>1, <1>3, <2>1, ToldConclude DEF ReceiveRequests
<1>4. CASE BlockRequests(t)
    <2>1. r \in replies[t] => Packet(r, rpy[r].key, FALSE) \in EndMessages(replies[t])
        BY EndedAreTold
    <2> QED
        BY <1>1, <1>4, <2>1, ToldConclude DEF BlockRequests
<1>5. ASSUME NEW s \in RpyIds, NEW emr \in BOOLEAN, SendReply(t, s, emr)
      PROVE  Active(r)' \/ Packet(r, rpy[r].key, FALSE) \in out'
    <2> DEFINE info == [rpy EXCEPT ![s].acked = TRUE]
               key == rpy[s].key
    <2>1. \/ Conclude(t, info, {s}, receiving, {Packet(s, key, FALSE)})
          \/ Conclude(t, info, {}, receiving, {Packet(s, key, TRUE)})
        BY <1>5 DEF SendReply
    <2>2. info[r] # NoRpy
        <3>1. SameReplies(info)
            BY <1>5, SameRepliesAcked DEF SendReply
        <3> QED
            BY <1>1, <3>1 DEF SameReplies
    <2>3. r \in {s} => Packet(r, rpy[r].key, FALSE) \in {Packet(s, key, FALSE)}
        BY DEF Packet
    <2>4. r \notin {}
        OBVIOUS
    <2> HIDE DEF info, key
    <2>5. CASE Conclude(t, info, {s}, receiving, {Packet(s, key, FALSE)})
        BY <2>2, <2>3, <2>5, ToldConclude
    <2>6. CASE Conclude(t, info, {}, receiving, {Packet(s, key, TRUE)})
        BY <2>2, <2>4, <2>6, ToldConclude
    <2> QED
        BY <2>1, <2>5, <2>6
<1>6. ASSUME NEW s \in RpyIds, RequestAck(t, s)
      PROVE  Active(r)' \/ Packet(r, rpy[r].key, FALSE) \in out'
    <2> DEFINE info == [rpy EXCEPT ![s].acked = TRUE]
    <2>1. Conclude(t, info, {}, receiving, {})
        BY <1>6 DEF RequestAck
    <2>2. info[r] # NoRpy
        <3>1. SameReplies(info)
            BY <1>6, SameRepliesAcked DEF RequestAck
        <3> QED
            BY <1>1, <3>1 DEF SameReplies
    <2>3. r \notin {}
        OBVIOUS
    <2> HIDE DEF info
    <2> QED
        BY <2>1, <2>2, <2>3, ToldConclude
<1> QED
    BY <1>2, <1>3, <1>4, <1>5, <1>6 DEF HandleClientCommand

LEMMA ToldPacketStep ==
    ASSUME TypeOK, NEW r \in ActiveIds, ~(rpy[r].mcast /\ rpy[r].mult),
           NEW t \in Tasks, NEW k \in Keys,
           \/ HandleAcnetRequest(t, k)
           \/ \E mcast \in BOOLEAN : RefuseRequest(t, k, mcast)
    PROVE  Active(r)' \/ Packet(r, rpy[r].key, FALSE) \in out'
<1>1. r \in RpyIds /\ rpy[r] # NoRpy
    BY DEF ActiveIds, Active
<1>2. CASE \E c \in Clnts, kind \in Kinds : AcceptRequest(t, k, c, kind[1], kind[2])
    <2>1. PICK s \in RpyIds \ ActiveIds : \E x : rpy' = [rpy EXCEPT ![s] = x]
        BY <1>2 DEF AcceptRequest
    <2>2. rpy'[r] = rpy[r]
        BY <1>1, <2>1 DEF TypeOK
    <2> QED
        BY <1>1, <2>2 DEF Active
<1>3. CASE rpy' = rpy
    BY <1>1, <1>3 DEF Active
<1>4. CASE \E packets : RemoveTasks(RemovedWith(t), packets)
    BY <1>4, ToldRemove
<1>5. (\E c \in Clnts, kind \in Kinds : LoseRequest(t, k, kind[1], kind[2])) => rpy' = rpy
    BY DEF LoseRequest
<1>6. ASSUME NEW mcast \in BOOLEAN, RefuseRequest(t, k, mcast)
      PROVE  rpy' = rpy \/ \E packets : RemoveTasks(RemovedWith(t), packets)
    BY <1>6 DEF RefuseRequest, poolVars
<1> QED
    BY <1>2, <1>3, <1>4, <1>5, <1>6 DEF HandleAcnetRequest

(***************************************************************************)
(* No requester is left waiting for an answer that will not come: when a   *)
(* reply ends because its task was removed, stopped listening or answered, *)
(* a last packet goes out in the same step.                                *)
(***************************************************************************)
THEOREM RequesterAlwaysAnswered ==
    Spec => RequesterAnswered
<1> DEFINE Told(r) == \/ Active(r)'
                      \/ rpy[r].mcast /\ rpy[r].mult
                      \/ Packet(r, rpy[r].key, FALSE) \in out'
                      \/ EndedQuietly
<1>1. ASSUME IInv, Next, NEW r \in ActiveIds
      PROVE  Told(r)
    <2> SUFFICES ASSUME ~(rpy[r].mcast /\ rpy[r].mult)
                 PROVE  Told(r)
        OBVIOUS
    <2>1. TypeOK /\ r \in RpyIds /\ rpy[r] # NoRpy
        BY <1>1 DEF IInv, ActiveIds, Active
    <2>2. CASE \E t \in Tasks : Connect(t)
        <3>1. /\ EndReplies(rpy, OwnedBy(Inactive))
              /\ out' = EndMessages(OwnedBy(Inactive))
            BY <2>2 DEF Connect
        <3>2. CASE r \in OwnedBy(Inactive)
            BY <3>1, <3>2, EndedAreTold
        <3>3. CASE r \notin OwnedBy(Inactive)
            BY <2>1, <3>1, <3>3 DEF EndReplies, Active
        <3> QED
            BY <3>2, <3>3
    <2>3. CASE \E t \in Tasks : HandleClientCommand(t)
        BY <2>1, <2>3, ToldCommand DEF EndedQuietly
    <2>4. CASE RemoveAllTasks \/ \E t \in Tasks : DeliveryFails(t)
        BY <2>4, ToldRemove DEF RemoveAllTasks, DeliveryFails
    <2>5. CASE \E t \in Tasks : Die(t) \/ Recover(t)
        BY <2>1, <2>5 DEF Die, Recover, poolVars, Active
    <2>6. CASE \E t \in Tasks, k \in Keys :
                \/ HandleAcnetRequest(t, k)
                \/ \E mcast \in BOOLEAN : RefuseRequest(t, k, mcast)
        BY <2>1, <2>6, ToldPacketStep
    <2>7. CASE \/ \E t \in Tasks, k \in Keys, c \in Clnts : HandleAcnetCancel(k, t, c)
               \/ \E n \in KilledNodes : EndRpyToNode(n)
        BY <2>7 DEF EndedQuietly
    <2> QED
        BY <1>1, <2>2, <2>3, <2>4, <2>5, <2>6, <2>7 DEF Next
<1>2. IInv /\ [Next]_vars => [\A r \in ActiveIds : Told(r)]_vars
    <2> HIDE DEF Told
    <2>1. ASSUME IInv, Next
          PROVE  \A r \in ActiveIds : Told(r)
        BY <2>1, <1>1
    <2> QED
        BY <2>1
<1> QED
    BY <1>2, Inductive, PTL DEF Spec, RequesterAnswered

-----------------------------------------------------------------------------
(* What owners are told. *)

LEMMA EndedAreCancelled ==
    ASSUME NEW R, NEW r \in R
    PROVE  Cancel(rpy[r].task, r) \in EndMessages(R)
BY DEF EndMessages

LEMMA CancelledRemove ==
    ASSUME NEW r \in ActiveIds, NEW T, NEW packets, RemoveTasks(T, packets)
    PROVE  Active(r)' \/ Cancel(rpy[r].task, r) \in out'
<1>1. CASE r \in OwnedBy(T)
    BY <1>1, EndedAreCancelled DEF RemoveTasks
<1>2. CASE r \notin OwnedBy(T)
    BY <1>2 DEF RemoveTasks, EndReplies, ActiveIds, Active
<1> QED
    BY <1>1, <1>2

LEMMA CancelledConclude ==
    ASSUME NEW r \in ActiveIds, NEW t, NEW info, info[r] # NoRpy,
           NEW over, NEW taking, NEW packets, Conclude(t, info, over, taking, packets)
    PROVE  \/ Active(r)' \/ Cancel(rpy[r].task, r) \in out'
           \/ r \in over /\ packets \subseteq out'
<1>1. PICK T :
        /\ EndReplies(info, over \cup OwnedBy(T))
        /\ out' = packets \cup EndMessages(OwnedBy(T) \ over)
    BY DEF Conclude
<1>2. CASE r \in over
    BY <1>1, <1>2
<1>3. CASE r \in OwnedBy(T) \ over
    BY <1>1, <1>3, EndedAreCancelled
<1>4. CASE r \notin over \cup OwnedBy(T)
    BY <1>1, <1>4 DEF EndReplies, ActiveIds, Active
<1> QED
    BY <1>2, <1>3, <1>4

LEMMA CancelledCommand ==
    ASSUME TypeOK, NEW r \in ActiveIds, NEW t \in Tasks, HandleClientCommand(t)
    PROVE  \/ Active(r)' \/ Cancel(rpy[r].task, r) \in out'
           \/ IgnoreRequest(t, r) \/ \E emr \in BOOLEAN : SendReply(t, r, emr)
<1>1. r \in RpyIds /\ rpy[r] # NoRpy
    BY DEF ActiveIds, Active
<1>2. CASE Disconnect(t) \/ DisconnectSingle(t)
    BY <1>2, CancelledRemove DEF Disconnect, DisconnectSingle
<1>3. CASE ReceiveRequests(t)
    BY <1>1, <1>3, CancelledConclude DEF ReceiveRequests
<1>4. CASE BlockRequests(t)
    <2>1. Conclude(t, rpy, replies[t], receiving \ {t}, EndMessages(replies[t]))
        BY <1>4 DEF BlockRequests
    <2>2. r \in replies[t] => Cancel(rpy[r].task, r) \in EndMessages(replies[t])
        BY EndedAreCancelled
    <2> QED
        BY <1>1, <2>1, <2>2, CancelledConclude
<1>5. ASSUME NEW s \in RpyIds, s # r, NEW emr \in BOOLEAN,
             SendReply(t, s, emr) \/ IgnoreRequest(t, s)
      PROVE  Active(r)' \/ Cancel(rpy[r].task, r) \in out'
    <2>1. PICK info, over, packets :
            /\ Conclude(t, info, over, receiving, packets)
            /\ over \in {{}, {s}}
            /\ info = rpy \/ info = [rpy EXCEPT ![s].acked = TRUE]
        BY <1>5 DEF SendReply, IgnoreRequest
    <2>2. info[r] # NoRpy
        BY <1>1, <1>5, <2>1 DEF TypeOK
    <2>3. r \notin over
        BY <1>5, <2>1
    <2> QED
        BY <2>1, <2>2, <2>3, CancelledConclude
<1>6. ASSUME NEW s \in RpyIds, RequestAck(t, s)
      PROVE  Active(r)' \/ Cancel(rpy[r].task, r) \in out'
    <2> DEFINE info == [rpy EXCEPT ![s].acked = TRUE]
    <2>1. Conclude(t, info, {}, receiving, {}) /\ SameReplies(info)
        BY <1>6, SameRepliesAcked DEF RequestAck
    <2> HIDE DEF info
    <2>2. info[r] # NoRpy
        BY <1>1, <2>1 DEF SameReplies
    <2> QED
        BY <2>1, <2>2, CancelledConclude
<1> QED
    BY <1>2, <1>3, <1>4, <1>5, <1>6 DEF HandleClientCommand

LEMMA CancelledPacketStep ==
    ASSUME TypeOK, NEW r \in ActiveIds, NEW t \in Tasks, NEW k \in Keys,
           \/ HandleAcnetRequest(t, k)
           \/ \E mcast \in BOOLEAN : RefuseRequest(t, k, mcast)
           \/ \E c \in Clnts : HandleAcnetCancel(k, t, c)
    PROVE  Active(r)' \/ Cancel(rpy[r].task, r) \in out'
<1>1. r \in RpyIds /\ rpy[r] # NoRpy
    BY DEF ActiveIds, Active
<1>2. CASE \E c \in Clnts, kind \in Kinds : AcceptRequest(t, k, c, kind[1], kind[2])
    <2>1. PICK s \in RpyIds \ ActiveIds : \E x : rpy' = [rpy EXCEPT ![s] = x]
        BY <1>2 DEF AcceptRequest
    <2>2. rpy'[r] = rpy[r]
        BY <1>1, <2>1 DEF TypeOK
    <2> QED
        BY <1>1, <2>2 DEF Active
<1>3. CASE rpy' = rpy
    BY <1>1, <1>3 DEF Active
<1>4. CASE \E packets : RemoveTasks(RemovedWith(t), packets)
    BY <1>4, CancelledRemove
<1>5. (\E c \in Clnts, kind \in Kinds : LoseRequest(t, k, kind[1], kind[2])) => rpy' = rpy
    BY DEF LoseRequest
<1>6. ASSUME NEW mcast \in BOOLEAN, RefuseRequest(t, k, mcast)
      PROVE  rpy' = rpy \/ \E packets : RemoveTasks(RemovedWith(t), packets)
    BY <1>6 DEF RefuseRequest, poolVars
<1>7. CASE \E c \in Clnts : HandleAcnetCancel(k, t, c)
    <2>1. PICK s \in RpyIds :
            rpy[s].task = t /\ Conclude(t, rpy, {s}, receiving, {Cancel(t, s)})
        BY <1>7 DEF HandleAcnetCancel
    <2>2. r \in {s} => Cancel(rpy[r].task, r) \in {Cancel(t, s)}
        BY <2>1
    <2> QED
        BY <1>1, <2>1, <2>2, CancelledConclude
<1> QED
    BY <1>2, <1>3, <1>4, <1>5, <1>6, <1>7 DEF HandleAcnetRequest

(***************************************************************************)
(* A client is told, by identifier, of every reply of its that ends        *)
(* without its doing: it can forget it.                                    *)
(***************************************************************************)
THEOREM OwnerAlwaysTold ==
    Spec => OwnerTold
<1> DEFINE Told(r) == \/ Active(r)'
                      \/ Cancel(rpy[r].task, r) \in out'
                      \/ OwnAnswer(r)
                      \/ \E n \in KilledNodes : EndRpyToNode(n)
<1>1. ASSUME IInv, Next, NEW r \in ActiveIds
      PROVE  Told(r)
    <2>1. TypeOK /\ r \in RpyIds /\ rpy[r] # NoRpy
        BY <1>1 DEF IInv, ActiveIds, Active
    <2>2. CASE \E t \in Tasks : Connect(t)
        <3>1. /\ EndReplies(rpy, OwnedBy(Inactive))
              /\ out' = EndMessages(OwnedBy(Inactive))
            BY <2>2 DEF Connect
        <3>2. CASE r \in OwnedBy(Inactive)
            BY <3>1, <3>2, EndedAreCancelled
        <3>3. CASE r \notin OwnedBy(Inactive)
            BY <2>1, <3>1, <3>3 DEF EndReplies, Active
        <3> QED
            BY <3>2, <3>3
    <2>3. CASE \E t \in Tasks : HandleClientCommand(t)
        BY <2>1, <2>3, CancelledCommand DEF OwnAnswer
    <2>4. CASE RemoveAllTasks \/ \E t \in Tasks : DeliveryFails(t)
        BY <2>4, CancelledRemove DEF RemoveAllTasks, DeliveryFails
    <2>5. CASE \E t \in Tasks : Die(t) \/ Recover(t)
        BY <2>1, <2>5 DEF Die, Recover, poolVars, Active
    <2>6. CASE \E t \in Tasks, k \in Keys :
                \/ HandleAcnetRequest(t, k)
                \/ \E mcast \in BOOLEAN : RefuseRequest(t, k, mcast)
                \/ \E c \in Clnts : HandleAcnetCancel(k, t, c)
        BY <2>1, <2>6, CancelledPacketStep
    <2> QED
        BY <1>1, <2>2, <2>3, <2>4, <2>5, <2>6 DEF Next
<1>2. IInv /\ [Next]_vars => [\A r \in ActiveIds : Told(r)]_vars
    <2> HIDE DEF Told
    <2> QED
        BY <1>1
<1> QED
    BY <1>2, Inductive, PTL DEF Spec, OwnerTold

-----------------------------------------------------------------------------
(* The count of pending requests. *)

(***************************************************************************)
(* A task that has not been warned has as many pending requests as it has  *)
(* not acknowledged, or more: ignored and blocked ones stay counted.       *)
(***************************************************************************)
Covers(t) == Cardinality(Unacked(t)) <= pending[t]

CoversAll == \A t \in connected \ warned : Covers(t)

LEMMA UnackedFinite ==
    ASSUME NEW t
    PROVE  IsFiniteSet(Unacked(t)) /\ Cardinality(Unacked(t)) \in Nat
<1>1. Unacked(t) \in SUBSET RpyIds
    BY DEF Unacked, ActiveIds
<1> QED
    BY <1>1, RpyIdsAssumption, FS_Subset, FS_CardinalityType

LEMMA FewerUnacked ==
    ASSUME TypeOK, NEW t \in Tasks, Covers(t),
           Unacked(t)' \subseteq Unacked(t), pending'[t] = pending[t]
    PROVE  Covers(t)'
<1>1. Cardinality(Unacked(t)') <= Cardinality(Unacked(t)) /\ Cardinality(Unacked(t)') \in Nat
    BY UnackedFinite, FS_Subset, FS_CardinalityType
<1>2. pending[t] \in Nat
    BY PendingAssumption DEF TypeOK
<1> QED
    BY <1>1, <1>2, UnackedFinite DEF Covers

(***************************************************************************)
(* The count goes down by one when a request it covers is acknowledged, or *)
(* goes.                                                                   *)
(***************************************************************************)
LEMMA OneLessUnacked ==
    ASSUME TypeOK, NEW t \in Tasks, Covers(t), NEW r \in Unacked(t),
           Unacked(t)' \subseteq Unacked(t) \ {r}, pending' = Decremented(t)
    PROVE  Covers(t)'
<1>1. /\ Cardinality(Unacked(t)') <= Cardinality(Unacked(t) \ {r})
      /\ Cardinality(Unacked(t)') \in Nat
      /\ Cardinality(Unacked(t) \ {r}) = Cardinality(Unacked(t)) - 1
    BY UnackedFinite, FS_Subset, FS_RemoveElement, FS_CardinalityType
<1>2. pending[t] \in Nat
    BY PendingAssumption DEF TypeOK
<1>3. pending[t] > 0
    BY <1>1, <1>2, UnackedFinite DEF Covers
<1>4. pending'[t] = pending[t] - 1
    BY <1>2, <1>3 DEF Decremented, TypeOK
<1> QED
    BY <1>1, <1>2, <1>4, UnackedFinite DEF Covers

LEMMA DecrementedOther ==
    ASSUME TypeOK, NEW t \in Tasks, NEW u \in Tasks, u # t
    PROVE  Decremented(t)[u] = pending[u]
BY DEF Decremented, TypeOK

(***************************************************************************)
(* Acknowledgements are never taken back.                                  *)
(***************************************************************************)
StillAcked(info) == \A r \in ActiveIds : rpy[r].acked => info[r].acked

LEMMA EndRepliesUnacked ==
    ASSUME IInv, NEW info, SameReplies(info), StillAcked(info), NEW R \in SUBSET RpyIds,
           EndReplies(info, R), NEW t
    PROVE  Unacked(t)' \subseteq {r \in Unacked(t) : r \notin R /\ ~info[r].acked}
<1> SUFFICES ASSUME NEW r \in Unacked(t)'
             PROVE  r \in Unacked(t) /\ r \notin R /\ ~info[r].acked
    OBVIOUS
<1>1. r \in ActiveIds' /\ rpy'[r].task = t /\ ~rpy'[r].acked
    BY DEF Unacked
<1>2. r \in ActiveIds /\ r \notin R
    BY <1>1, EndRepliesAgree DEF ActiveIds
<1>3. rpy'[r] = info[r] /\ rpy'[r].task = rpy[r].task
    BY <1>1, <1>2, EndRepliesAgree DEF EndReplies, ActiveIds
<1> QED
    BY <1>1, <1>2, <1>3 DEF Unacked, StillAcked

LEMMA EndingCovers ==
    ASSUME IInv, CoversAll, NEW info, SameReplies(info), StillAcked(info),
           NEW R \in SUBSET RpyIds, EndReplies(info, R),
           connected' \subseteq connected, warned \subseteq warned',
           \/ pending' = pending
           \/ \E s \in ActiveIds : /\ ~rpy[s].acked
                                   /\ s \in R \/ info[s].acked
                                   /\ pending' = Decremented(rpy[s].task)
    PROVE  CoversAll'
<1> SUFFICES ASSUME NEW t \in connected' \ warned'
             PROVE  Covers(t)'
    BY DEF CoversAll
<1>1. Covers(t) /\ t \in Tasks /\ TypeOK
    BY DEF CoversAll, IInv, TypeOK, ClientsTypeOK
<1>2. Unacked(t)' \subseteq {r \in Unacked(t) : r \notin R /\ ~info[r].acked}
    BY EndRepliesUnacked
<1>3. CASE pending' = pending
    BY <1>1, <1>2, <1>3, FewerUnacked
<1>4. ASSUME NEW s \in ActiveIds, ~rpy[s].acked, s \in R \/ info[s].acked,
             pending' = Decremented(rpy[s].task)
      PROVE  Covers(t)'
    <2>1. rpy[s].task \in Tasks
        BY <1>1, ActiveType DEF ActiveIds
    <2>2. CASE rpy[s].task = t
        <3>1. s \in Unacked(t)
            BY <1>4, <2>2 DEF Unacked
        <3>2. Unacked(t)' \subseteq Unacked(t) \ {s}
            BY <1>2, <1>4
        <3> QED
            BY <1>1, <1>4, <2>2, <3>1, <3>2, OneLessUnacked
    <2>3. CASE rpy[s].task # t
        BY <1>1, <1>2, <1>4, <2>1, <2>3, DecrementedOther, FewerUnacked
    <2> QED
        BY <2>2, <2>3
<1> QED
    BY <1>3, <1>4

LEMMA RemovalCovers ==
    ASSUME IInv, CoversAll, NEW T \in SUBSET Tasks, NEW packets, RemoveTasks(T, packets)
    PROVE  CoversAll'
<1>1. SameReplies(rpy) /\ StillAcked(rpy)
    BY SameRepliesSelf DEF IInv, StillAcked
<1>2. OwnedBy(T) \in SUBSET RpyIds
    BY OwnedByActive DEF IInv, ActiveIds
<1>3. /\ EndReplies(rpy, OwnedBy(T)) /\ connected' \subseteq connected
      /\ pending' = pending /\ warned' = warned
    BY DEF RemoveTasks
<1> QED
    BY <1>1, <1>2, <1>3, EndingCovers

LEMMA ConcludeCovers ==
    ASSUME IInv, CoversAll, NEW t \in connected, NEW info, SameReplies(info), StillAcked(info),
           NEW over \in SUBSET RpyIds, NEW taking, NEW packets,
           Conclude(t, info, over, taking, packets), warned' = warned,
           \/ pending' = pending
           \/ \E s \in ActiveIds : /\ ~rpy[s].acked
                                   /\ s \in over \/ info[s].acked
                                   /\ pending' = Decremented(rpy[s].task)
    PROVE  CoversAll'
<1>1. PICK T \in Dropped(t) :
        EndReplies(info, over \cup OwnedBy(T)) /\ connected' = connected \ T
    BY DEF Conclude
<1>2. T \subseteq Tasks
    BY DroppedType DEF IInv
<1>3. over \cup OwnedBy(T) \in SUBSET RpyIds
    BY <1>2, OwnedByActive DEF IInv, ActiveIds
<1> QED
    BY <1>1, <1>3, EndingCovers

(***************************************************************************)
(* An entry of the pool that is marked as acknowledged.                    *)
(***************************************************************************)
LEMMA MarkedAcked ==
    ASSUME TypeOK, NEW r \in RpyIds, Active(r)
    PROVE  /\ SameReplies([rpy EXCEPT ![r].acked = TRUE])
           /\ StillAcked([rpy EXCEPT ![r].acked = TRUE])
           /\ [rpy EXCEPT ![r].acked = TRUE][r].acked
<1> DEFINE info == [rpy EXCEPT ![r].acked = TRUE]
<1>1. rpy[r] \in RpyInfo
    BY ActiveType
<1>2. info[r].acked
    BY <1>1 DEF TypeOK, RpyInfo
<1>3. \A s \in RpyIds : s # r => info[s] = rpy[s]
    BY DEF TypeOK
<1> HIDE DEF info
<1>4. StillAcked(info)
    BY <1>2, <1>3 DEF StillAcked, ActiveIds
<1> QED
    BY <1>2, <1>4, SameRepliesAcked DEF info

LEMMA ConnectCovers ==
    ASSUME IInv, CoversAll, NEW t \in Tasks, Connect(t)
    PROVE  CoversAll'
<1>1. Inactive \in SUBSET Tasks /\ connected \in SUBSET Tasks
    BY DEF Inactive, RemovedWith, IInv, TypeOK, ClientsTypeOK
<1>2. SameReplies(rpy) /\ StillAcked(rpy) /\ EndReplies(rpy, OwnedBy(Inactive))
    BY SameRepliesSelf DEF IInv, StillAcked, Connect
<1>3. OwnedBy(Inactive) \in SUBSET RpyIds
    BY <1>1, OwnedByActive DEF IInv, ActiveIds
<1>4. \A u : Unacked(u)' \subseteq {r \in Unacked(u) : r \notin OwnedBy(Inactive)}
    BY <1>2, <1>3, EndRepliesUnacked
<1> SUFFICES ASSUME NEW u \in connected' \ warned'
             PROVE  Covers(u)'
    BY DEF CoversAll
<1>5. CASE u \in connected \ Inactive
    <2>1. u \in Tasks /\ Covers(u)
        BY <1>1, <1>5 DEF CoversAll, Connect
    <2>2. pending'[u] = pending[u]
        BY <1>5 DEF Connect, IInv, TypeOK
    <2> QED
        BY <1>4, <2>1, <2>2, FewerUnacked DEF IInv
<1>6. CASE u \notin connected \ Inactive
    <2>1. u = t /\ pending'[u] = 0
        BY <1>6 DEF Connect, IInv, TypeOK
    <2>2. Unacked(u)' = {}
        <3>1. ASSUME NEW r \in Unacked(u)
              PROVE  r \in OwnedBy(Inactive)
            <4>1. r \in ActiveIds /\ rpy[r].task = u
                BY DEF Unacked
            <4>2. u \in Inactive
                BY <1>6, <4>1 DEF IInv, OwnersListen
            <4> QED
                BY <1>1, <4>1, <4>2, OwnedByActive DEF IInv
        <3> QED
            BY <1>4, <3>1
    <2>3. Cardinality(Unacked(u)') = 0
        BY <2>2, FS_EmptySet
    <2> QED
        BY <2>1, <2>3 DEF Covers
<1> QED
    BY <1>5, <1>6

LEMMA CommandCovers ==
    ASSUME IInv, CoversAll, PortsDistinct, NEW t \in Tasks, HandleClientCommand(t)
    PROVE  CoversAll'
<1>1. CASE Disconnect(t) \/ DisconnectSingle(t)
    <2>1. RemovedWith(t) \in SUBSET Tasks /\ {t} \in SUBSET Tasks
        BY DEF RemovedWith, IInv, TypeOK, ClientsTypeOK
    <2> QED
        BY <1>1, <2>1, RemovalCovers DEF Disconnect, DisconnectSingle
<1>2. TypeOK /\ SameReplies(rpy) /\ StillAcked(rpy) /\ {} \in SUBSET RpyIds
    BY SameRepliesSelf DEF IInv, StillAcked
<1>3. CASE ReceiveRequests(t)
    BY <1>2, <1>3, ConcludeCovers DEF ReceiveRequests, Commands
<1>4. CASE BlockRequests(t)
    <2>1. replies[t] \in SUBSET RpyIds
        BY <1>2 DEF TypeOK
    <2> QED
        BY <1>2, <1>4, <2>1, ConcludeCovers DEF BlockRequests, Commands
<1>5. ASSUME NEW r \in RpyIds, NEW emr \in BOOLEAN, SendReply(t, r, emr)
      PROVE  CoversAll'
    <2> DEFINE info == [rpy EXCEPT ![r].acked = TRUE]
    <2>1. /\ t \in connected /\ Active(r) /\ warned' = warned
          /\ pending' = IF rpy[r].acked THEN pending ELSE Decremented(rpy[r].task)
        BY <1>5 DEF SendReply, Commands
    <2>2. PICK over \in {{r}, {}} : \E packets : Conclude(t, info, over, receiving, packets)
        BY <1>5 DEF SendReply
    <2>3. SameReplies(info) /\ StillAcked(info) /\ info[r].acked
        BY <1>2, <2>1, MarkedAcked
    <2> HIDE DEF info
    <2> QED
        BY <2>1, <2>2, <2>3, ConcludeCovers DEF ActiveIds
<1>6. ASSUME NEW r \in RpyIds, IgnoreRequest(t, r)
      PROVE  CoversAll'
    BY <1>2, <1>6, ConcludeCovers DEF IgnoreRequest, Commands
<1>7. ASSUME NEW r \in RpyIds, RequestAck(t, r)
      PROVE  CoversAll'
    <2> DEFINE info == [rpy EXCEPT ![r].acked = TRUE]
    <2>1. /\ t \in connected /\ Active(r) /\ warned' = warned
          /\ Equals(t, rpy[r].task)
          /\ pending' = IF rpy[r].acked THEN pending ELSE Decremented(t)
          /\ Conclude(t, info, {}, receiving, {})
        BY <1>7 DEF RequestAck, Commands
    <2>2. rpy[r].task = t
        BY <1>2, <2>1, ActiveType DEF PortsDistinct
    <2>3. SameReplies(info) /\ StillAcked(info) /\ info[r].acked
        BY <1>2, <2>1, MarkedAcked
    <2> HIDE DEF info
    <2> QED
        BY <1>2, <2>1, <2>2, <2>3, ConcludeCovers DEF ActiveIds
<1> QED
    BY <1>1, <1>3, <1>4, <1>5, <1>6, <1>7 DEF HandleClientCommand

(***************************************************************************)
(* A step that leaves the pool alone, and what it counts with it, but for  *)
(* a task that has been warned.                                            *)
(***************************************************************************)
LEMMA UncountedCovers ==
    ASSUME TypeOK, CoversAll, NEW t \in Tasks, UNCHANGED <<rpy, connected>>,
           warned \subseteq warned',
           pending' = pending \/ (t \in warned' /\ pending' = Decremented(t))
    PROVE  CoversAll'
<1> SUFFICES ASSUME NEW u \in connected' \ warned'
             PROVE  Covers(u)'
    BY DEF CoversAll
<1>1. u \in Tasks /\ Covers(u)
    BY DEF CoversAll, TypeOK, ClientsTypeOK
<1>2. Unacked(u)' = Unacked(u)
    BY DEF Unacked, ActiveIds, Active
<1>3. pending'[u] = pending[u]
    BY <1>1, DecrementedOther
<1> QED
    BY <1>1, <1>2, <1>3, FewerUnacked

LEMMA RefuseCovers ==
    ASSUME IInv, CoversAll, NEW t \in Tasks, NEW k, NEW mcast, RefuseRequest(t, k, mcast)
    PROVE  CoversAll'
<1>1. CASE RemoveTasks(RemovedWith(t), ErrorTo(k, mcast))
    <2>1. RemovedWith(t) \in SUBSET Tasks
        BY DEF RemovedWith, IInv, TypeOK, ClientsTypeOK
    <2> QED
        BY <1>1, <2>1, RemovalCovers
<1>2. CASE ~RemoveTasks(RemovedWith(t), ErrorTo(k, mcast))
    BY <1>2, UncountedCovers DEF RefuseRequest, IInv, taskVars, poolVars
<1> QED
    BY <1>1, <1>2

LEMMA AcceptCovers ==
    ASSUME IInv, CoversAll, NEW t \in Tasks, NEW k, NEW c, NEW mult, NEW mcast,
           AcceptRequest(t, k, c, mult, mcast)
    PROVE  CoversAll'
<1> SUFFICES ASSUME NEW u \in connected' \ warned'
             PROVE  Covers(u)'
    BY DEF CoversAll
<1>1. PICK r \in RpyIds \ ActiveIds :
        rpy' = [rpy EXCEPT ![r] = [task |-> t, key |-> k, clnt |-> c,
                                   mult |-> mult, mcast |-> mcast, acked |-> FALSE]]
    BY DEF AcceptRequest
<1>2. /\ rpy'[r].task = t /\ \A s \in RpyIds : s # r => rpy'[s] = rpy[s]
      /\ r \notin ActiveIds
    BY <1>1 DEF IInv, TypeOK
<1>3. /\ u \in connected /\ warned' \in {warned, warned \cup {t}}
      /\ CountRequest(t)
    BY DEF AcceptRequest, CountRequest
<1>4. u \in Tasks /\ Covers(u) /\ TypeOK
    BY <1>3 DEF CoversAll, IInv, TypeOK, ClientsTypeOK
<1>5. CASE u # t
    <2>1. Unacked(u)' \subseteq Unacked(u)
        BY <1>2, <1>5 DEF Unacked, ActiveIds, Active
    <2>2. pending'[u] = pending[u]
        BY <1>3, <1>4, <1>5 DEF CountRequest, TypeOK
    <2> QED
        BY <1>4, <2>1, <2>2, FewerUnacked
<1>6. CASE u = t
    <2>1. pending' = [pending EXCEPT ![t] = @ + 1]
        BY <1>3, <1>6 DEF CountRequest
    <2>2. pending'[u] = pending[u] + 1 /\ pending[u] \in Nat
        BY <1>4, <1>6, <2>1, PendingAssumption DEF TypeOK
    <2>3. Unacked(u)' \subseteq Unacked(u) \cup {r}
        BY <1>2 DEF Unacked, ActiveIds, Active
    <2>4. /\ IsFiniteSet(Unacked(u) \cup {r})
          /\ Cardinality(Unacked(u) \cup {r}) = Cardinality(Unacked(u)) + 1
          /\ Cardinality(Unacked(u) \cup {r}) \in Nat
        <3>1. r \notin Unacked(u)
            BY <1>2 DEF Unacked
        <3> QED
            BY <3>1, UnackedFinite, FS_AddElement
    <2>5. /\ Cardinality(Unacked(u)') <= Cardinality(Unacked(u) \cup {r})
          /\ Cardinality(Unacked(u)') \in Nat
        BY <2>3, <2>4, FS_Subset, FS_CardinalityType
    <2> QED
        BY <1>4, <2>2, <2>4, <2>5, UnackedFinite DEF Covers
<1> QED
    BY <1>5, <1>6

LEMMA LoseCovers ==
    ASSUME IInv, CoversAll, NEW t \in Tasks, NEW k, NEW mult, NEW mcast,
           LoseRequest(t, k, mult, mcast)
    PROVE  CoversAll'
BY UncountedCovers DEF LoseRequest, IInv

LEMMA CancelCovers ==
    ASSUME IInv, CoversAll, NEW t \in Tasks, NEW k, NEW c, HandleAcnetCancel(k, t, c)
    PROVE  CoversAll'
<1>1. PICK r \in RpyIds :
        /\ <<k, r>> \in activeMap /\ rpy[r].task = t
        /\ Conclude(t, rpy, {r}, receiving, {Cancel(t, r)})
        /\ pending' = IF rpy[r].acked THEN pending ELSE Decremented(t)
        /\ UNCHANGED warned
    BY DEF HandleAcnetCancel
<1>2. r \in ActiveIds /\ t \in connected
    BY <1>1 DEF IInv, MapSound, OwnersListen, ActiveIds
<1>3. SameReplies(rpy) /\ StillAcked(rpy)
    BY SameRepliesSelf DEF IInv, StillAcked
<1> QED
    BY <1>1, <1>2, <1>3, ConcludeCovers

LEMMA EndRpyCovers ==
    ASSUME IInv, CoversAll, NEW n, EndRpyToNode(n)
    PROVE  CoversAll'
<1>1. PICK r \in ActiveIds :
        /\ Conclude(rpy[r].task, rpy, {r}, receiving, {Cancel(rpy[r].task, 0)})
        /\ UNCHANGED <<pending, warned>>
    BY DEF EndRpyToNode
<1>2. r \in RpyIds /\ rpy[r].task \in connected
    BY <1>1 DEF IInv, OwnersListen, ActiveIds
<1>3. SameReplies(rpy) /\ StillAcked(rpy)
    BY SameRepliesSelf DEF IInv, StillAcked
<1> QED
    BY <1>1, <1>2, <1>3, ConcludeCovers

LEMMA NextCovers ==
    ASSUME IInv, CoversAll, PortsDistinct, Next
    PROVE  CoversAll'
<1>1. CASE \E t \in Tasks : Connect(t)
    BY <1>1, ConnectCovers
<1>2. CASE \E t \in Tasks : HandleClientCommand(t)
    BY <1>2, CommandCovers
<1>3. CASE RemoveAllTasks \/ \E t \in Tasks : DeliveryFails(t)
    <2>1. connected \in SUBSET Tasks /\ \A t \in Tasks : RemovedWith(t) \in SUBSET Tasks
        BY DEF RemovedWith, IInv, TypeOK, ClientsTypeOK
    <2> QED
        BY <1>3, <2>1, RemovalCovers DEF RemoveAllTasks, DeliveryFails
<1>4. CASE \E t \in Tasks : Die(t) \/ Recover(t)
    BY <1>4, UncountedCovers
    DEF Die, Recover, ClientDies, ClientRecovers, IInv, poolVars
<1>5. CASE \E t \in Tasks, k \in Keys : HandleAcnetRequest(t, k)
    BY <1>5, AcceptCovers, LoseCovers DEF HandleAcnetRequest
<1>6. CASE \E t \in Tasks, k \in Keys, mcast \in BOOLEAN : RefuseRequest(t, k, mcast)
    BY <1>6, RefuseCovers
<1>7. CASE \E t \in Tasks, k \in Keys, c \in Clnts : HandleAcnetCancel(k, t, c)
    BY <1>7, CancelCovers
<1>8. CASE \E n \in KilledNodes : EndRpyToNode(n)
    BY <1>8, EndRpyCovers
<1> QED
    BY <1>1, <1>2, <1>3, <1>4, <1>5, <1>6, <1>7, <1>8 DEF Next

(***************************************************************************)
(* No client that keeps to one task per port is told ACNET_BUG for its     *)
(* first acknowledgement, unless it went past the limit before.            *)
(***************************************************************************)
THEOREM PendingAlwaysCovers ==
    Spec => []PendingCoversUnacked
<1> DEFINE Inv == IInv /\ (PortsDistinct => CoversAll)
<1>1. Init => Inv
    BY InitEstablishes DEF Init, ClientsInit, CoversAll
<1>2. Inv /\ [Next]_vars => Inv'
    <2> SUFFICES ASSUME Inv, [Next]_vars, PortsDistinct
                 PROVE  CoversAll'
        BY NextPreserves
    <2>1. CASE UNCHANGED vars
        BY <2>1 DEF vars, taskVars, poolVars, CoversAll, Covers, Unacked, ActiveIds, Active
    <2>2. CASE Next
        BY <2>2, NextCovers
    <2> QED
        BY <2>1, <2>2
<1>3. Inv => PendingCoversUnacked
    BY DEF PendingCoversUnacked, CoversAll, Covers
<1> HIDE DEF Inv
<1> QED
    BY <1>1, <1>2, <1>3, PTL DEF Spec
=============================================================================
