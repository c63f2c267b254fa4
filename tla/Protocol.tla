------------------------------ MODULE Protocol ------------------------------
(***************************************************************************)
(* Two daemons and the network between them: a client of node "A" asks,    *)
(* with the tables of RequestPool, and a task of node "B" answers, with    *)
(* those of ReplyPool.  Datagrams are delayed, reordered and lost; there   *)
(* are no acknowledgements on the wire, so the two tables only come        *)
(* together again through CANCELs.  Daemon A may crash, or be restarted,   *)
(* and its successor knows nothing of the requests that were open.         *)
(*                                                                         *)
(* The tables' handlers are used as they are; what they send, their `out', *)
(* is what this module puts on the network.                                *)
(***************************************************************************)
EXTENDS Naturals, FiniteSets

CONSTANTS Asker,      \* the task that asks
          Server,     \* the task that answers
          ReqIds, RpyIds, MaxPending,
          MaxNet,     \* bound: datagrams on their way
          MaxCrashes, \* bound: crashes of daemon A
          Reuse,      \* a new daemon may issue the identifiers of the one before
          NoPid, NoReq, NoRpy

ASSUME BoundsAssumption == MaxNet \in Nat \ {0} /\ MaxCrashes \in Nat
ASSUME ReuseAssumption == Reuse \in BOOLEAN

VARIABLES aConnected, aDead, aPool, aPhase, aOut,
          bConnected, bDead, bReceiving, bPending, bWarned, bRpy, bReplies, bActiveMap, bOut,
          net,        \* datagrams on their way
          used,       \* request identifiers that were issued
          crashes

aVars == <<aConnected, aDead, aPool, aPhase, aOut>>
bVars == <<bConnected, bDead, bReceiving, bPending, bWarned, bRpy, bReplies, bActiveMap, bOut>>
vars == <<aVars, bVars, net, used, crashes>>

A == INSTANCE RequestPool WITH
        Tasks <- {Asker}, Pid <- [t \in {Asker} |-> NoPid], Port <- [t \in {Asker} |-> 1],
        Nodes <- {"B"}, McNodes <- {}, Senders <- {"B"}, Names <- {Server},
        AskedTmos <- {1}, MinTmo <- 1, MaxTmo <- 1, KilledNodes <- {},
        connected <- aConnected, dead <- aDead, pool <- aPool, phase <- aPhase, out <- aOut

B == INSTANCE ReplyPool WITH
        Tasks <- {Server}, Pid <- [t \in {Server} |-> NoPid], Port <- [t \in {Server} |-> 1],
        Nodes <- {"A"}, Clnts <- {Asker}, Kinds <- {}, KilledNodes <- {"A"},
        connected <- bConnected, dead <- bDead, receiving <- bReceiving, pending <- bPending,
        warned <- bWarned, rpy <- bRpy, replies <- bReplies, activeMap <- bActiveMap, out <- bOut

(* What the two tables assume of their constants. *)
ASSUME RequestsAssumption == NoReq \notin A!ReqInfo
ASSUME RepliesAssumption ==
    /\ RpyIds \subseteq Nat \ {0} /\ IsFiniteSet(RpyIds)
    /\ MaxPending \in Nat
    /\ NoRpy \notin B!RpyInfo

Init ==
    /\ A!Init /\ B!Init
    /\ net = {} /\ used = {} /\ crashes = 0

-----------------------------------------------------------------------------
(* The network. *)

Request(id, mult) == [type |-> "request", id |-> id, mult |-> mult]
Reply(id, mlt, status) == [type |-> "reply", id |-> id, mlt |-> mlt, status |-> status]
Cancel(id) == [type |-> "cancel", id |-> id]
Killer == [type |-> "killer"]

(***************************************************************************)
(* What the last step of a daemon sent.  The status of a reply is given,   *)
(* and that of the last one makes no difference.                           *)
(***************************************************************************)
SentByA ==
    {Request(o.request, aPool'.info[o.request].mult) : o \in {m \in aOut' : "request" \in DOMAIN m}}
    \cup {Cancel(o.cancel) : o \in {m \in aOut' : "cancel" \in DOMAIN m}}

SentByB(status) ==
    {Reply(o.key[2], o.mlt, status) : o \in {m \in bOut' : "key" \in DOMAIN m}}

(***************************************************************************)
(* A daemon at rest; what it sent before is of no interest any more.       *)
(***************************************************************************)
QuietA == UNCHANGED <<aConnected, aDead, aPool, aPhase>> /\ aOut' = {}
QuietB ==
    /\ UNCHANGED <<bConnected, bDead, bReceiving, bPending, bWarned, bRpy, bReplies, bActiveMap>>
    /\ bOut' = {}

(***************************************************************************)
(* `old' datagrams stay on their way, and any of the new ones may be lost: *)
(* sendto() succeeds whatever becomes of them.                             *)
(***************************************************************************)
Arrive(old, new) == Cardinality(old \cup new) <= MaxNet /\ net' = old \cup new
Transmit(old, new) == \E kept \in SUBSET new : Arrive(old, kept)
Send(old, new, loses) == IF loses THEN Transmit(old, new) ELSE Arrive(old, new)

-----------------------------------------------------------------------------
(* Daemon A. *)

(***************************************************************************)
(* The loop of A, which ends a request whose time is over, and the         *)
(* commands of its client.  The pool turns over: an identifier is not      *)
(* issued twice while the replies to its last user may be on their way.    *)
(***************************************************************************)
LoopA ==
    /\ A!ExpireOldest \/ (\E d \in 0..1 : A!PollReturns(d)) \/ A!SocketsDrained
    /\ Transmit(net, SentByA)
    /\ QuietB /\ UNCHANGED <<used, crashes>>

HandleCommandA ==
    /\ aPhase = "traffic"
    /\ \/ A!Connect(Asker) \/ A!Disconnect(Asker)
       \/ \E mult \in BOOLEAN : A!SendRequest(Asker, "B", Server, mult, 1)
       \/ \E r \in ReqIds : A!HandleCancel(Asker, r)
    /\ LET issued == {r \in ReqIds : ~A!Active(r) /\ A!Active(r)'}
       IN  issued \cap used = {} /\ used' = used \cup issued
    /\ Transmit(net, SentByA)
    /\ QuietB /\ UNCHANGED <<aPhase, crashes>>

DeliverReply(m, loses) ==
    /\ m \in net /\ m.type = "reply" /\ aPhase = "traffic"
    /\ A!HandleAcnetReply(m.id, "B", Server, Asker, m.mlt, m.status)
    /\ UNCHANGED aPhase
    /\ Send(net \ {m}, SentByA, loses)
    /\ QuietB /\ UNCHANGED <<used, crashes>>

(***************************************************************************)
(* A new daemon starts in the place of A, with empty tables, and says so.  *)
(* Its identifiers have another bank, drawn with the time as a seed, but   *)
(* there are few banks.                                                    *)
(***************************************************************************)
Crash ==
    /\ crashes < MaxCrashes
    /\ aConnected' = {} /\ aDead' = {} /\ aOut' = {}
    /\ aPool' = A!Closed([aPool EXCEPT !.timers = <<>>], ReqIds)
    /\ aPhase' = "timers"
    /\ crashes' = crashes + 1
    /\ used' = IF Reuse THEN {} ELSE used
    /\ Transmit(net, {Killer})
    /\ QuietB

-----------------------------------------------------------------------------
(* Daemon B. *)

(***************************************************************************)
(* The commands of its client.  A reply that is not the last one may carry *)
(* an error all the same.                                                  *)
(***************************************************************************)
Statuses == {"success", "error"}

SendReply(r, emr, loses) ==
    /\ B!SendReply(Server, r, emr)
    /\ \E status \in IF bRpy[r].mult /\ ~emr THEN Statuses ELSE {"endmult"} :
           Send(net, SentByB(status), loses)
    /\ QuietA /\ UNCHANGED <<used, crashes>>

HandleCommandB ==
    /\ \/ B!Connect(Server) \/ B!Disconnect(Server)
       \/ B!ReceiveRequests(Server) \/ B!BlockRequests(Server)
       \/ \E r \in RpyIds : B!IgnoreRequest(Server, r) \/ B!RequestAck(Server, r)
    /\ Transmit(net, SentByB("endmult"))
    /\ QuietA /\ UNCHANGED <<used, crashes>>

DeliverRequest(m) ==
    /\ m \in net /\ m.type = "request"
    /\ \/ B!AcceptRequest(Server, <<"A", m.id>>, Asker, m.mult, FALSE)
       \/ B!RefuseRequest(Server, <<"A", m.id>>, FALSE)
    /\ Transmit(net \ {m}, SentByB("endmult"))
    /\ QuietA /\ UNCHANGED <<used, crashes>>

(* A CANCEL of nothing that B knows of is dropped. *)
DeliverCancel(m) ==
    /\ m \in net /\ m.type = "cancel"
    /\ \/ B!HandleAcnetCancel(<<"A", m.id>>, Server, Asker)
       \/ (\A e \in bActiveMap : e[1] # <<"A", m.id>>) /\ QuietB
    /\ net' = net \ {m}
    /\ QuietA /\ UNCHANGED <<used, crashes>>

DeliverKiller ==
    /\ Killer \in net
    /\ \/ B!EndRpyToNode("A")
       \/ B!ActiveIds = {} /\ QuietB
    /\ net' = net \ {Killer}
    /\ QuietA /\ UNCHANGED <<used, crashes>>

DeliverToB == DeliverKiller \/ \E m \in net : DeliverRequest(m) \/ DeliverCancel(m)

Next ==
    \/ LoopA
    \/ HandleCommandA
    \/ \E m \in net : DeliverReply(m, TRUE)
    \/ Crash
    \/ HandleCommandB
    \/ \E r \in RpyIds, emr \in BOOLEAN : SendReply(r, emr, TRUE)
    \/ DeliverToB

Spec == Init /\ [][Next]_vars

(***************************************************************************)
(* Both daemons look for what has reached them, A when it is done with its *)
(* time-outs.  Of replies that are sent again and again some arrive, and   *)
(* so do some of the CANCELs they are answered with.  The task that        *)
(* answers goes on, as one does that was asked for many replies.           *)
(***************************************************************************)
RepliesTo(id) == {m \in net : m.type = "reply" /\ m.id = id}

FairSpec ==
    /\ Spec
    /\ WF_vars(aPhase = "timers" /\ LoopA)
    /\ WF_vars(DeliverToB) /\ WF_vars(DeliverKiller)
    /\ \A id \in ReqIds : SF_vars(\E m \in RepliesTo(id) : DeliverReply(m, FALSE))
    /\ \A r \in RpyIds : SF_vars(SendReply(r, FALSE, FALSE))

-----------------------------------------------------------------------------
(***************************************************************************)
(* Until a task first hits the limit, its count of pending requests covers *)
(* the requests it has not acknowledged: no first acknowledgement is ever  *)
(* answered ACNET_BUG (exttask.cpp:316).                                   *)
(***************************************************************************)
PendingCoversUnacked == B!PendingCoversUnacked

(***************************************************************************)
(* A reply whose request is gone, because its CANCEL was lost, because an  *)
(* error ended the request there and not here (rpyinfo.cpp:65), or because *)
(* the daemon that asked was restarted, does not stay for ever: "If we     *)
(* don't have that request active, return a CANCEL so the remote system    *)
(* can clean up their tables" (main.cpp:610-611).  Again and again there   *)
(* is none.                                                                *)
(***************************************************************************)
Orphan(r) == B!Active(r) /\ ~A!Active(bRpy[r].key[2])

OrphansEnd == []<>(\A r \in RpyIds : ~Orphan(r))
=============================================================================
