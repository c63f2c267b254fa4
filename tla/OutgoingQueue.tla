---------------------------- MODULE OutgoingQueue ----------------------------
(***************************************************************************)
(* The packets acnetd has for the network (network.cpp): a queue in which  *)
(* the last packet for a node keeps being filled until it is sent, the     *)
(* pointer to that packet in the node's table entry (ipaddr.cpp), and the  *)
(* errors of sendto.                                                       *)
(*                                                                         *)
(* A buffer is the address of a heap block.  Lengths are in bytes, and the *)
(* build is the one that swaps bytes (no NO_SWAP).                         *)
(***************************************************************************)
EXTENDS Naturals, SequencesExt

CONSTANTS Nodes,      \* entries of the node table, ACNET's trunk/node pairs
          NoNode,
          Msgs,       \* messages: a header and data
          Size,       \* length of a message's data
          HDR,        \* sizeof(AcnetHeader)
          CAPACITY,   \* INTERNAL_ACNET_PACKET_SIZE
          Bufs,       \* addresses of packets, as many as the heap has room for
          NoBuf       \* the null pointer

(***************************************************************************)
(* addData pads an odd number of bytes.                                    *)
(***************************************************************************)
Padded(n) == n + (n % 2)

ASSUME SizeAssumption == HDR \in Nat /\ CAPACITY \in Nat /\ Size \in [Msgs -> Nat]

(***************************************************************************)
(* Clients' messages are no longer than INTERNAL_ACNET_USER_PACKET_SIZE,   *)
(* so one always fits an empty packet.                                     *)
(***************************************************************************)
ASSUME UserSizeAssumption == \A m \in Msgs : HDR + Padded(Size[m]) <= CAPACITY
ASSUME NullAssumption == NoBuf \notin Bufs /\ NoNode \notin Nodes

VARIABLES known,      \* nodes with an entry in the node table
          partial,    \* the packet being filled for a node, or NoBuf
          outgoing,   \* the queue of packets
          packet,     \* what is in each buffer
          wire        \* the datagrams the last step gave to the kernel

vars == <<known, partial, outgoing, packet, wire>>

Packet == [tgt : Nodes \cup {NoNode}, total : 0..CAPACITY, msgs : Seq(Msgs)]

NewPacket(n) == [tgt |-> n, total |-> 0, msgs |-> <<>>]
Freed == NewPacket(NoNode)

Queued == ToSet(outgoing)
Target(b) == packet[b].tgt

Init ==
    /\ known = {}
    /\ partial = [n \in Nodes |-> NoBuf]
    /\ outgoing = <<>>
    /\ packet = [b \in Bufs |-> Freed]
    /\ wire = <<>>

-----------------------------------------------------------------------------
(***************************************************************************)
(* The node's table entry: nodes without one have no partial packet, and   *)
(* none can be set for them.                                               *)
(***************************************************************************)
PartialBuffer(n) == IF n \in known THEN partial[n] ELSE NoBuf

(* A mutant: the packet that is there already stays the one being filled. *)
PartialKept(n, b) ==
    IF n \in known /\ partial[n] = NoBuf THEN [partial EXCEPT ![n] = b] ELSE partial

SetPartialBuffer(n, b) ==
    IF n \in known THEN [partial EXCEPT ![n] = b] ELSE partial

(* A mutant: the header is forgotten. *)
FitsData(p, m) == Padded(Size[m]) <= CAPACITY - p.total

Fits(p, m) == Padded(Size[m]) + HDR <= CAPACITY - p.total

AddData(p, m) ==
    [tgt |-> p.tgt, total |-> p.total + HDR + Padded(Size[m]), msgs |-> Append(p.msgs, m)]

(***************************************************************************)
(* sendDataToNetwork fills the partial packet, whichever packet is now at  *)
(* that address, if the message fits.                                      *)
(***************************************************************************)
FillPacket(n, m) ==
    LET b == PartialBuffer(n)
    IN  /\ b \in Queued
        /\ Fits(packet[b], m)
        /\ packet' = [packet EXCEPT ![b] = AddData(@, m)]
        /\ wire' = <<>>
        /\ UNCHANGED <<known, partial, outgoing>>

NeedsPacket(n, m) ==
    LET b == PartialBuffer(n)
    IN  b = NoBuf \/ (b \in Queued /\ ~Fits(packet[b], m))

StartPacket(n, m, b) ==
    /\ b \in Bufs \ Queued
    /\ packet' = [packet EXCEPT ![b] = AddData(NewPacket(n), m)]
    /\ outgoing' = Append(outgoing, b)
    /\ partial' = SetPartialBuffer(n, b)
    /\ wire' = <<>>
    /\ UNCHANGED known

LoseMessage ==                    \* std::bad_alloc, or freed memory
    /\ wire' = <<>>
    /\ UNCHANGED <<known, partial, outgoing, packet>>

SendDataToNetwork(n, m) ==
    \/ FillPacket(n, m)
    \/ NeedsPacket(n, m) /\ \E b \in Bufs : StartPacket(n, m, b)
    \/ NeedsPacket(n, m) /\ LoseMessage

(***************************************************************************)
(* The partial packet has been freed: what is at its address may have room *)
(* for the message, which is lost in it, or not.                           *)
(***************************************************************************)
SendThroughDangling(n, m) ==
    /\ PartialBuffer(n) \in Bufs \ Queued
    /\ \/ \E b \in Bufs : StartPacket(n, m, b)
       \/ LoseMessage

-----------------------------------------------------------------------------
(* A mutant: the queue waits for the node to appear in the table. *)
FatesWaiting(n) ==
    IF n \in known THEN {"sent", "lost", "blocked"} ELSE {"blocked"}

(***************************************************************************)
(* What becomes of a packet for node n at the head of the queue.  sendto   *)
(* succeeds, fails, or has no room (EAGAIN, and EMSGSIZE is treated alike);*)
(* without an address the packet is discarded.                             *)
(***************************************************************************)
Fates(n) ==
    IF n \in known THEN {"sent", "lost", "blocked"} ELSE {"lost"}

(* A mutant: the node's pointer to the packet stays. *)
StillPartial(Gone) == partial

(***************************************************************************)
(* A packet that leaves the queue is no longer anyone's partial packet, if *)
(* its target has a table entry to say so.                                 *)
(***************************************************************************)
Disassociated(Gone) ==
    [n \in Nodes |-> IF n \in known /\ partial[n] \in Gone /\ Target(partial[n]) = n
                     THEN NoBuf ELSE partial[n]]

(***************************************************************************)
(* sendPendingPackets, as far as packet k.  Accepted holds the positions   *)
(* of the packets the kernel took.                                         *)
(***************************************************************************)
SendPackets(k, Accepted) ==
    LET Fate(i) == Fates(Target(outgoing[i]))
        Gone == {outgoing[i] : i \in 1..k}
    IN  /\ \A i \in Accepted : "sent" \in Fate(i)
        /\ \A i \in (1..k) \ Accepted : "lost" \in Fate(i)
        /\ k < Len(outgoing) => "blocked" \in Fate(k + 1)
        /\ partial' = Disassociated(Gone)
        /\ outgoing' = SubSeq(outgoing, k + 1, Len(outgoing))
        /\ packet' = [b \in Bufs |-> IF b \in Gone THEN Freed ELSE packet[b]]
        /\ wire' = [i \in 1..k |-> IF i \in Accepted THEN packet[outgoing[i]] ELSE Freed]
        /\ UNCHANGED known

SendPendingPackets ==
    \E k \in 0..Len(outgoing) : \E Accepted \in SUBSET (1..k) : SendPackets(k, Accepted)

-----------------------------------------------------------------------------
(***************************************************************************)
(* updateAddr enters a node, or erases it.  Neither touches the pointer to *)
(* the packet being filled.                                                *)
(***************************************************************************)
InsertNode(n) ==
    /\ n \notin known
    /\ known' = known \cup {n}
    /\ wire' = <<>>
    /\ UNCHANGED <<partial, outgoing, packet>>

EraseNode(n) ==
    /\ n \in known
    /\ known' = known \ {n}
    /\ wire' = <<>>
    /\ UNCHANGED <<partial, outgoing, packet>>

(***************************************************************************)
(* Nodes are erased only while no packet is being filled for them.  Spec   *)
(* describes the daemon under such updates, SpecErasing under any.         *)
(***************************************************************************)
Next ==
    \/ \E n \in Nodes, m \in Msgs : SendDataToNetwork(n, m)
    \/ SendPendingPackets
    \/ \E n \in Nodes : InsertNode(n)
    \/ \E n \in Nodes : partial[n] = NoBuf /\ EraseNode(n)

NextErasing ==
    \/ Next
    \/ \E n \in Nodes : EraseNode(n)
    \/ \E n \in Nodes, m \in Msgs : SendThroughDangling(n, m)

Spec == Init /\ [][Next]_vars
SpecErasing == Init /\ [][NextErasing]_vars

(***************************************************************************)
(* Every turn of the main loop calls sendPendingPackets, and the kernel    *)
(* makes room now and then.                                                *)
(***************************************************************************)
FairSpec == Spec /\ WF_vars(SendPendingPackets /\ outgoing' # outgoing)

-----------------------------------------------------------------------------
TypeOK ==
    /\ known \subseteq Nodes
    /\ partial \in [Nodes -> Bufs \cup {NoBuf}]
    /\ outgoing \in Seq(Bufs)
    /\ packet \in [Bufs -> Packet]
    /\ wire \in Seq(Packet)

(***************************************************************************)
(* The packet being filled for a node is on the queue, is for that node,   *)
(* and nothing for that node is behind it: whatever is added to it leaves  *)
(* after everything sent before.                                           *)
(***************************************************************************)
PartialIsLast ==
    \A n \in Nodes : partial[n] # NoBuf =>
        \E i \in DOMAIN outgoing :
            /\ outgoing[i] = partial[n]
            /\ Target(outgoing[i]) = n
            /\ \A j \in DOMAIN outgoing : Target(outgoing[j]) = n => j <= i

(***************************************************************************)
(* What sendDataToNetwork finds as the packet being filled is a packet     *)
(* that has not been sent: "If this packet is associated with a target as  *)
(* being partially filled, we disassociate it" (network.cpp:361).          *)
(***************************************************************************)
PartialIsQueued ==
    \A n \in Nodes : PartialBuffer(n) \in Queued \cup {NoBuf}

(***************************************************************************)
(* A queued packet leaves the queue: it is sent or discarded, also when it *)
(* is for a node that is not in the table.                                 *)
(***************************************************************************)
PacketsLeave == \A b \in Bufs : b \in Queued ~> b \notin Queued

(***************************************************************************)
(* Whatever is batched into packets and whatever fails, messages to one    *)
(* node leave in the order in which they were sent, each at most once:     *)
(* the queue implements a channel for each node.                           *)
(***************************************************************************)
Contents(packets, n) ==
    FlattenSeq([i \in DOMAIN packets |->
                   IF packets[i].tgt = n THEN packets[i].msgs ELSE <<>>])

Abstract == INSTANCE OutgoingSpec
    WITH chan <- [n \in Nodes |->
                     Contents([i \in DOMAIN outgoing |-> packet[outgoing[i]]], n)],
         sent <- [n \in Nodes |-> Contents(wire, n)]

Implements == Abstract!Spec
=============================================================================
