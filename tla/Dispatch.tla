------------------------------ MODULE Dispatch ------------------------------
(***************************************************************************)
(* The node table of acnetd (ipaddr.cpp), how it is filled when the daemon *)
(* starts and changed while it runs (main.cpp, acnaux.cpp), and how        *)
(* packets find the task pool they are for (main.cpp).                     *)
(*                                                                         *)
(* A host may stand for several nodes; each of its node NAMES has a pool   *)
(* of tasks, requests and replies of its own, which is made when it is     *)
(* first looked up and keeps the node it was made for.  One task, which    *)
(* takes requests, stands for the clients of a pool; that tasks, requests  *)
(* and replies come and go is left to TaskTable, RequestPool and           *)
(* ReplyPool, and what matters here is which pool holds them.              *)
(***************************************************************************)
EXTENDS Naturals, FiniteSets, SequencesExt

CONSTANTS Nodes,      \* trunk and node numbers
          McNode,     \* ACNET_MULTICAST
          Names,      \* node names
          HostName,   \* myHostName_
          TempName,   \* "%%%%%%", the name of a provisional entry
          Addrs,      \* IP addresses
          MyAddr,     \* the address the host name resolves to
          McAddr,     \* the multicast address of ACNET_MULTICAST
          Fallback,   \* defaultNodeFallback: not given the option -f
          ReqIds,     \* request identifiers chosen by remote nodes
          Slots,      \* the entries of a pool's arrays of requests and of replies
          Packets,    \* client node, server node and source address of packets
          Answers,    \* the same of replies, the client node being ours
          Asked,      \* nodes that clients send requests to
          Writes,     \* node table entries that NODES may send: sequences of updates
          Changes     \* updates by clients, with AddNode

Blank == 0             \* the blank trunk and node, as in an AcnetHeader
Illegal == "illegal"   \* ILLEGAL_NODE, the name of an entry not in use
NoName == "blank"      \* a blank name
NoAddr == "none"       \* an address that is not valid

ASSUME NodesAssumption == Nodes \subseteq Nat \ {0} /\ IsFiniteSet(Nodes) /\ McNode \in Nodes
ASSUME NamesAssumption ==
    {HostName, TempName, "MCAST"} \subseteq Names /\ {Illegal, NoName} \cap Names = {}
ASSUME AddrsAssumption == {MyAddr, McAddr} \subseteq Addrs /\ NoAddr \notin Addrs
ASSUME FallbackAssumption == Fallback \in BOOLEAN

Headers == [client : Nodes \cup {Blank}, server : Nodes \cup {Blank}, ip : Addrs]
Updates == [node : Nodes \cup {Blank}, name : Names \cup {NoName, Illegal}, addr : Addrs \cup {NoAddr}]

ASSUME PacketsAssumption == Packets \cup Answers \subseteq Headers /\ Asked \subseteq Nodes /\ ReqIds \subseteq Nat
ASSUME SlotsAssumption == Slots \subseteq Nat
ASSUME UpdatesAssumption == Writes \subseteq Seq(Updates) /\ Changes \subseteq Updates

VARIABLES d,       \* the daemon's tables
          phase,   \* nodeTableConstraints: "waiting" for the table, or "normal"; or "exited"
          asked    \* a USM to NODES, asking for the table, is on its way

vars == <<d, phase, asked>>

Init ==
    /\ \E standAlone \in BOOLEAN :
        d = [name   |-> [n \in Nodes |-> IF n = McNode THEN "MCAST" ELSE Illegal],
             addr   |-> [n \in Nodes |-> IF n = McNode THEN McAddr ELSE NoAddr],
             myNode |-> Blank,
             myIp   |-> MyAddr,
             loaded |-> standAlone,
             pools  |-> [p \in Names |-> Blank],
             listening |-> {},
             reqs   |-> [p \in Names |-> {}],
             rpys   |-> [p \in Names |-> {}]]
    /\ phase = "waiting"
    /\ asked = FALSE

-----------------------------------------------------------------------------
(* Looking nodes up: the first that fits, in the order of their numbers.   *)

Lowest(S) == CHOOSE n \in S : \A m \in S : n <= m
FirstOr(S) == IF S = {} THEN Blank ELSE Lowest(S)

Known(s, n) == n \in Nodes /\ s.name[n] # Illegal
GetAddr(s, n) == IF Known(s, n) THEN s.addr[n] ELSE NoAddr
IsThisMachine(s, n) == GetAddr(s, n) = s.myIp
NameLookup(s, name) == FirstOr({n \in Nodes : s.name[n] = name})
AddrLookup(s, a) == FirstOr({n \in Nodes : GetAddr(s, n) = a})

-----------------------------------------------------------------------------
(* Task pools. *)

Pools(s) == {p \in Names : s.pools[p] # Blank}

(***************************************************************************)
(* getTaskPool: the pool of the node's name, made for a node of this       *)
(* machine if it is missing.  The result is NoName when there is none.     *)
(***************************************************************************)
PoolOf(s, n) ==
    IF Known(s, n) /\ (s.name[n] \in Pools(s) \/ IsThisMachine(s, n)) THEN s.name[n] ELSE NoName

WithPool(s, n) ==
    IF PoolOf(s, n) \in Names \ Pools(s) THEN [s EXCEPT !.pools[s.name[n]] = n] ELSE s

(***************************************************************************)
(* getTaskPool by name, for clients: a blank name stands for myNode.       *)
(***************************************************************************)
NodeFor(s, name) == IF name = NoName THEN s.myNode ELSE NameLookup(s, name)

PoolFor(s, name) == IF name \in Pools(s) THEN name ELSE PoolOf(s, NodeFor(s, name))

WithPoolFor(s, name) == IF name \in Pools(s) THEN s ELSE WithPool(s, NodeFor(s, name))

(***************************************************************************)
(* A pool's requests [slot, node, addr], `addr' being where the node was   *)
(* when the request was sent, and its replies [slot, client, id, server],  *)
(* are in arrays.  Any free entry may be the next to be used (IdPool has   *)
(* their order); when there is none the request is refused.                *)
(***************************************************************************)
Free(R) == Slots \ {r.slot : r \in R}

RequestsTo(s, p, n) == {r \in s.reqs[p] : r.node = n}
RepliesTo(s, p, n) == {r \in s.rpys[p] : r.client = n}

(* The first `times' of them, in the order of IdPool::next. *)
FirstOf(R, times) == {r \in R : Cardinality({q \in R : q.slot < r.slot}) < times}

(* A mutant: only the pool of this host's name is looked at. *)
CancelInHostPool(s, n, times) ==
    [s EXCEPT !.reqs[HostName] = @ \ FirstOf(RequestsTo(s, HostName, n), times),
              !.rpys[HostName] = @ \ FirstOf(RepliesTo(s, HostName, n), times)]

(***************************************************************************)
(* cancelReqToNode and endRpyToNode, over all pools, and that several      *)
(* times: each time one request and one reply of each pool is released,    *)
(* the first.  An owner that cannot be told is removed with its work, like *)
(* one that disconnects (RequestPool, ReplyPool).                          *)
(***************************************************************************)
CancelToNode(s, n, times) ==
    [s EXCEPT !.reqs = [p \in Names |-> @[p] \ FirstOf(RequestsTo(s, p, n), times)],
              !.rpys = [p \in Names |-> @[p] \ FirstOf(RepliesTo(s, p, n), times)]]

-----------------------------------------------------------------------------
(* Changing the node table. *)

(***************************************************************************)
(* IpInfo::update: blank names and addresses that are not valid leave the  *)
(* entry's own alone, so an erased entry keeps its address.                *)
(***************************************************************************)
Update(s, n, name, a) ==
    [s EXCEPT !.name[n] = IF name = NoName THEN @ ELSE name,
              !.addr[n] = IF a = NoAddr THEN @ ELSE a]

(***************************************************************************)
(* The first part of updateAddr: an entry with our address may be our      *)
(* primary node, and the name of a provisional entry is chosen.            *)
(***************************************************************************)
NewName(s, name, a) ==
    IF name # Illegal THEN name ELSE IF a = s.myIp THEN HostName ELSE TempName

(* A mutant: the address is not compared. *)
WithAnyNode(s, n, name, a) ==
    IF s.myNode = Blank \/ name = HostName THEN [s EXCEPT !.myNode = n] ELSE s

WithMyNode(s, n, name, a) ==
    IF a = s.myIp /\ (s.myNode = Blank \/ name = HostName) THEN [s EXCEPT !.myNode = n] ELSE s

UpdateAddr(s, n, name, a) ==
    LET nm == NewName(s, name, a)
        t == WithMyNode(s, n, nm, a)
        u == IF Known(t, n) /\ t.addr[n] # a THEN CancelToNode(t, n, 1) ELSE t
    IN  IF n = Blank THEN s
        ELSE IF nm = NoName /\ a = NoAddr THEN Update(t, n, Illegal, NoAddr)
        ELSE Update(u, n, nm, a)

(***************************************************************************)
(* The write of ipNodeTableHandler: every entry in turn.                   *)
(***************************************************************************)
WriteTable(s, write) ==
    LET After[k \in 0..Len(write)] ==
            IF k = 0 THEN s ELSE UpdateAddr(After[k - 1], write[k].node, write[k].name, write[k].addr)
    IN  After[Len(write)]

-----------------------------------------------------------------------------
(* Packets from the network. *)

AddsTemporarily(s, temp) == temp /\ ~s.loaded

(***************************************************************************)
(* ipAddress: the address of node `n', `def' being where the packet comes  *)
(* from, or our own.  Before the table has arrived a request may enter an  *)
(* unknown node.  A blank node is looked up by its address, except ours.   *)
(***************************************************************************)
IpAddress(s, n, def, temp) ==
    IF n = Blank
    THEN [s |-> s, addr |-> def, node |-> IF def # s.myIp THEN AddrLookup(s, def) ELSE Blank]
    ELSE IF Known(s, n) THEN [s |-> s, addr |-> s.addr[n], node |-> n]
    ELSE IF AddsTemporarily(s, temp)
    THEN [s |-> UpdateAddr(s, n, Illegal, def), addr |-> def, node |-> n]
    ELSE [s |-> s, addr |-> NoAddr, node |-> n]

(***************************************************************************)
(* The common part of handleAcnetPacket: `s' is the state after the nodes  *)
(* of the header were looked up, and `ok' tells whether the packet is      *)
(* handled.  `temp' is true for requests for one reply.                    *)
(***************************************************************************)
Admit(pkt, temp) ==
    LET c == IpAddress(d, pkt.client, pkt.ip, temp)
        v == IpAddress(c.s, pkt.server, c.s.myIp, temp)
    IN  IF c.addr \in {NoAddr, McAddr} \/ pkt.ip = McAddr
        THEN [s |-> c.s, ok |-> FALSE, client |-> c.node, mcast |-> FALSE]
        ELSE [s |-> v.s, ok |-> v.addr # NoAddr, client |-> c.node, mcast |-> v.addr = McAddr]

(***************************************************************************)
(* process_packet: the pools that handle a USM or a request for a task     *)
(* that exists in the pools T, and the state with the pools that were made *)
(* on the way.                                                             *)
(***************************************************************************)
Route(s, mcast, server, T) ==
    LET t == WithPool(s, server)
        p == PoolOf(t, server)
    IN  IF mcast THEN [s |-> s, pools |-> Pools(s)]
        ELSE IF p # NoName /\ (p \in T \/ ~Fallback) THEN [s |-> t, pools |-> {p}]
        ELSE [s |-> WithPool(t, t.myNode), pools |-> {PoolOf(t, t.myNode)} \ {NoName}]

(***************************************************************************)
(* A request for the task.  Until the table has arrived a pool of its own, *)
(* in which there is no such task, refuses it; afterwards the pools that   *)
(* listen take it.  A remote node does not use an identifier for a second  *)
(* request while it has a reply open here (ReplyPool has that case).       *)
(***************************************************************************)
HandleAcnetRequest(pkt, id, mult) ==
    LET a == Admit(pkt, ~mult)
        route == Route(a.s, a.mcast, pkt.server, a.s.listening)
        takers == {p \in route.pools \cap route.s.listening : Free(route.s.rpys[p]) # {}}
        Reply(slot) == [slot |-> slot, client |-> a.client, id |-> id, server |-> pkt.server]
    IN  /\ \A p \in Names : \A r \in d.rpys[p] : <<r.client, r.id>> # <<a.client, id>>
        /\ \/ (~a.ok \/ ~a.s.loaded) /\ d' = a.s
           \/ /\ a.ok /\ a.s.loaded
              /\ \E slot \in [takers -> Slots] :
                     /\ \A p \in takers : slot[p] \in Free(route.s.rpys[p])
                     /\ d' = [route.s EXCEPT !.rpys =
                                 [p \in Names |-> IF p \in takers THEN @[p] \cup {Reply(slot[p])} ELSE @[p]]]
        /\ UNCHANGED <<phase, asked>>

(* A mutant: only the pool of the server node is asked. *)
CancelPoolsOfServer(s, mcast, client, id, server) ==
    [s |-> s, pools |-> IF mcast THEN Pools(s) ELSE {PoolOf(s, server)} \ {NoName}]

(***************************************************************************)
(* The pools that handle the CANCEL of a request: the server's if it has   *)
(* a reply to that request, else the default one; and the state with the   *)
(* pools that were made on the way.                                        *)
(***************************************************************************)
CancelPools(s, mcast, client, id, server) ==
    LET t == WithPool(s, server)
        p == PoolOf(t, server)
    IN  IF mcast THEN [s |-> s, pools |-> Pools(s)]
        ELSE IF p # NoName /\ \E r \in t.rpys[p] : r.client = client /\ r.id = id THEN [s |-> t, pools |-> {p}]
        ELSE IF Fallback /\ server # t.myNode
        THEN [s |-> WithPool(t, t.myNode), pools |-> {PoolOf(t, t.myNode)} \ {NoName}]
        ELSE [s |-> t, pools |-> {}]

HandleAcnetCancel(pkt, id) ==
    LET a == Admit(pkt, FALSE)
        route == CancelPools(a.s, a.mcast, a.client, id, pkt.server)
    IN  /\ a.ok
        /\ d' = [route.s EXCEPT !.rpys =
                    [p \in Names |-> IF p \in route.pools
                                     THEN {r \in @[p] : r.client # a.client \/ r.id # id} ELSE @[p]]]
        /\ UNCHANGED <<phase, asked>>

(***************************************************************************)
(* A reply to a request that node `client', one of ours, sent to `server'. *)
(* It may be the request's last; one that finds no request is answered by  *)
(* a CANCEL.                                                               *)
(***************************************************************************)
HandleAcnetReply(pkt) ==
    LET a == Admit(pkt, FALSE)
        p == PoolOf(a.s, a.client)
        s == WithPool(a.s, a.client)
    IN  /\ a.ok
        /\ \/ d' = s
           \/ /\ p # NoName
              /\ \E r \in RequestsTo(s, p, pkt.server) : d' = [s EXCEPT !.reqs[p] = @ \ {r}]
        /\ UNCHANGED <<phase, asked>>

Loaded(s) == [s EXCEPT !.loaded = TRUE]

(* ipNodeTableHandler: a write without entries ends the download. *)
IpNodeTableHandler(s, write) == IF write = <<>> THEN Loaded(s) ELSE WriteTable(s, write)

(***************************************************************************)
(* A request to the ACNET task that writes the node table.  Before the     *)
(* table has arrived the handler runs in a pool of its own.                *)
(***************************************************************************)
HandleNodeTable(pkt, write) ==
    LET a == Admit(pkt, TRUE)
        route == Route(a.s, a.mcast, pkt.server, Names)
    IN  /\ d' = IF ~a.ok THEN a.s
                ELSE IF ~a.s.loaded THEN IpNodeTableHandler(a.s, write)
                ELSE IF route.pools # {} THEN IpNodeTableHandler(route.s, write) ELSE route.s
        /\ asked' = (asked /\ write # <<>>)
        /\ UNCHANGED phase

(***************************************************************************)
(* killerMessageHandler: node `n' was started anew.  The message is a      *)
(* multicast, so the ACNET task of every pool handles it, each time for    *)
(* all the pools.                                                          *)
(***************************************************************************)
KillerMessage(pkt, n) ==
    LET a == Admit(pkt, FALSE)
    IN  /\ a.ok /\ a.mcast
        /\ d' = CancelToNode(a.s, n, Cardinality(Pools(a.s)))
        /\ UNCHANGED <<phase, asked>>

-----------------------------------------------------------------------------
(* Clients. *)

(***************************************************************************)
(* AddNode: an entry for our host name changes our address, and a blank    *)
(* one ends the download.                                                  *)
(***************************************************************************)
AddNode(n, name, a) ==
    LET s == IF name = HostName THEN [d EXCEPT !.myIp = a] ELSE d
    IN  /\ d' = IF n = Blank /\ name = NoName /\ a = NoAddr THEN Loaded(s) ELSE UpdateAddr(s, n, name, a)
        /\ UNCHANGED <<phase, asked>>

(***************************************************************************)
(* A client connects to a virtual node, or with a blank name, and listens. *)
(* Without a pool it is told ACNET_NO_NODE.                                *)
(***************************************************************************)
Connect(name) ==
    /\ PoolFor(d, name) # NoName
    /\ d' = [WithPoolFor(d, name) EXCEPT !.listening = @ \cup {PoolFor(d, name)}]
    /\ UNCHANGED <<phase, asked>>

Disconnect(p) ==
    /\ p \in d.listening
    /\ d' = [d EXCEPT !.listening = @ \ {p}, !.rpys[p] = {}, !.reqs[p] = {}]
    /\ UNCHANGED <<phase, asked>>

(***************************************************************************)
(* A request goes to the address that its node has now.                    *)
(***************************************************************************)
SendRequest(p, n) ==
    /\ p \in d.listening /\ Known(d, n)
    /\ \E slot \in Free(d.reqs[p]) :
           d' = [d EXCEPT !.reqs[p] = @ \cup {[slot |-> slot, node |-> n, addr |-> d.addr[n]]}]
    /\ UNCHANGED <<phase, asked>>

EndRequest(p, r) ==
    /\ r \in d.reqs[p]
    /\ d' = [d EXCEPT !.reqs[p] = @ \ {r}]
    /\ UNCHANGED <<phase, asked>>

SendLastReply(p, r) ==
    /\ r \in d.rpys[p]
    /\ d' = [d EXCEPT !.rpys[p] = @ \ {r}]
    /\ UNCHANGED <<phase, asked>>

-----------------------------------------------------------------------------
(* Starting up: waitingForNodeTable. *)

(* A mutant: a daemon that does not know its own node yet does not ask. *)
RequestTableLater ==
    /\ phase = "waiting" /\ ~d.loaded /\ d.myNode # Blank
    /\ asked' = TRUE
    /\ UNCHANGED <<d, phase>>

(***************************************************************************)
(* Every ten seconds, until the table has arrived.                         *)
(***************************************************************************)
RequestTable ==
    /\ phase = "waiting" /\ ~d.loaded
    /\ asked' = TRUE
    /\ UNCHANGED <<d, phase>>

LoseRequest == asked /\ asked' = FALSE /\ UNCHANGED <<d, phase>>

(***************************************************************************)
(* The daemon goes on in the background, or ends because it cannot.  What  *)
(* it still does in that turn it might have done before.                   *)
(***************************************************************************)
RunAsDaemon ==
    /\ phase = "waiting" /\ d.loaded
    /\ phase' \in {"normal", "exited"}
    /\ UNCHANGED <<d, asked>>

Running == phase # "exited"

HandleAcnetPacket ==
    \/ \E pkt \in Answers : HandleAcnetReply(pkt)
    \/ \E pkt \in Packets :
        \/ \E id \in ReqIds, mult \in BOOLEAN : HandleAcnetRequest(pkt, id, mult)
        \/ \E id \in ReqIds : HandleAcnetCancel(pkt, id)
        \/ \E write \in Writes \cup {<<>>} : HandleNodeTable(pkt, write)
        \/ \E n \in Nodes : KillerMessage(pkt, n)

HandleClientCommand ==
    \/ \E c \in Changes : AddNode(c.node, c.name, c.addr)
    \/ \E name \in (Names \ {TempName}) \cup {NoName} : Connect(name)
    \/ \E p \in Names :
        \/ Disconnect(p)
        \/ \E n \in Asked : SendRequest(p, n)
        \/ \E r \in d.reqs[p] : EndRequest(p, r)
        \/ \E r \in d.rpys[p] : SendLastReply(p, r)

Next ==
    \/ Running /\ HandleAcnetPacket
    \/ Running /\ HandleClientCommand
    \/ RequestTable
    \/ LoseRequest
    \/ RunAsDaemon

Spec == Init /\ [][Next]_vars

(***************************************************************************)
(* The loop asks every ten seconds and looks at the answer when it is      *)
(* there.  Messages may be lost, but not for ever: NODES answers one that  *)
(* is asked again and again.                                               *)
(***************************************************************************)
Answered == asked /\ Running /\ \E pkt \in Packets : HandleNodeTable(pkt, <<>>)

FairSpec ==
    /\ Spec
    /\ WF_vars(RequestTable)
    /\ SF_vars(Answered)
    /\ WF_vars(RunAsDaemon)

-----------------------------------------------------------------------------
(* What the node table says, as NODES and the clients tell it.             *)

Entries == Changes \cup UNION {Range(write) : write \in Writes}

(***************************************************************************)
(* The nodes that an entry erases, because it says nothing, as a table     *)
(* does of each node that is not in use.                                   *)
(***************************************************************************)
Erasing(e) == e.node # Blank /\ e.name = NoName /\ e.addr = NoAddr
Erased == {e.node : e \in {f \in Entries : Erasing(f)}}

(* No other entry, and no packet, speaks of them: a node in use is not erased. *)
OnlyUnusedErased ==
    /\ McNode \notin Erased
    /\ \A e \in Entries : e.node \in Erased => Erasing(e)
    /\ \A pkt \in Packets : {pkt.client, pkt.server} \cap Erased = {}

(***************************************************************************)
(* The nodes `Own' are this machine's: all entries agree that these and no *)
(* others have our address, and what each of them is called.               *)
(***************************************************************************)
OwnEntries(Own) ==
    /\ Own \subseteq Nodes \ {McNode} /\ MyAddr # McAddr
    /\ \A e \in Entries : e.node # Blank =>
           /\ e.node # McNode
           /\ e.node \in Own <=> e.addr = MyAddr
           /\ e.node \in Own => e.name \in Names
    /\ \A e, f \in Entries : e.node = f.node /\ e.node \in Own => e.name = f.name
    /\ \A c \in Changes : c.name = HostName => c.addr = MyAddr

(* A write, or a change, that names nodes of ours names one of them after the host. *)
NamesHost(write, Own) ==
    (\E i \in DOMAIN write : write[i].node \in Own) =>
        \E i \in DOMAIN write : write[i].node \in Own /\ write[i].name = HostName

(***************************************************************************)
(* Packets from these nodes, and no others, come from our address; what is *)
(* sent to us is for one of them, for all nodes, or for none in particular.*)
(***************************************************************************)
OwnPackets(Own) ==
    \A pkt \in Packets :
        /\ pkt.client # Blank => (pkt.client \in Own <=> pkt.ip = MyAddr)
        /\ pkt.server \in Own \cup {Blank, McNode}

HostIs(Own) ==
    /\ OwnEntries(Own) /\ OwnPackets(Own)
    /\ \A write \in Writes \cup {<<c>> : c \in Changes} : NamesHost(write, Own)

-----------------------------------------------------------------------------
(***************************************************************************)
(* Wherever a request went, to the pool of its node, to the default pool   *)
(* because the task was not there, or to all pools, the CANCEL that the    *)
(* requester will send with the same header finds the pool that holds the  *)
(* reply, although tasks have come and gone and the node table has changed *)
(* in between (main.cpp:856-870).                                          *)
(***************************************************************************)
CancelFindsReply ==
    \A p \in Names : \A r \in d.rpys[p] :
        Known(d, r.client) =>
            p \in CancelPools(d, GetAddr(d, r.server) = McAddr, r.client, r.id, r.server).pools

(***************************************************************************)
(* No pool waits for an answer from an address that its node has left.     *)
(* The code does not see to it: cancelReqToNode ends one request of a pool *)
(* (reqinfo.cpp:88), although its log speaks of several.                   *)
(***************************************************************************)
WorkFollowsNode ==
    \A p \in Names : \A r \in d.reqs[p] : Known(d, r.node) => r.addr = d.addr[r.node]

(***************************************************************************)
(* What it does see to: whenever a node that is in use moves, by a table,  *)
(* by a client's AddNode or because its provisional entry is overridden,   *)
(* each pool with requests to the node has fewer that still wait, and each *)
(* with replies to it has fewer of those (ipaddr.cpp:443-446).  A pool     *)
(* with a single request to the node is thus left with none.               *)
(***************************************************************************)
Moves(n) == Known(d, n) /\ Known(d, n)' /\ d'.addr[n] # d.addr[n]

LosesOne(R, S) == R # {} => R \ S # {}

MoveEndsWork ==
    [][\A n \in Nodes : Moves(n) =>
           \A p \in Names : /\ LosesOne(RequestsTo(d, p, n), d'.reqs[p])
                            /\ LosesOne(RepliesTo(d, p, n), d'.rpys[p])]_vars

(***************************************************************************)
(* The node that clients and fallback are given by default is one of this  *)
(* machine, in whatever order provisional entries, the table and AddNode   *)
(* have named it (ipaddr.cpp:406-430), so there is a pool for it.          *)
(***************************************************************************)
MyNodeIsMine ==
    d.myNode # Blank => IsThisMachine(d, d.myNode) /\ PoolOf(d, d.myNode) # NoName

(***************************************************************************)
(* The daemon ends up with a node table although requests for it and their *)
(* answers get lost, and then goes on or, because it cannot run in the     *)
(* background, ends (main.cpp:1190-1239).                                  *)
(***************************************************************************)
TableArrives == <>(phase # "waiting")
=============================================================================
