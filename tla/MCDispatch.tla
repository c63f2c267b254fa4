---------------------------- MODULE MCDispatch ----------------------------
(***************************************************************************)
(* The node table and the dispatch of packets on a host that stands for    *)
(* nodes 2 and 3, with a remote node 4 that moves; node 5 is not in use.   *)
(***************************************************************************)
EXTENDS Dispatch

Entry(n, name, a) == [node |-> n, name |-> name, addr |-> a]

(***************************************************************************)
(* What NODES may send: everything, unused nodes included, and the remote  *)
(* node's new address in the form of older applications.                   *)
(***************************************************************************)
Tables ==
    {<<Entry(2, "HOST", "me"), Entry(3, "VIRT", "me"), Entry(4, "FAR", "a"),
       Entry(5, NoName, NoAddr)>>,
     <<Entry(4, NoName, "b")>>}

(***************************************************************************)
(* What clients may add: the end of the table, the remote node, and the    *)
(* host itself.                                                            *)
(***************************************************************************)
Added == {Entry(Blank, NoName, NoAddr), Entry(4, "FAR", "b"), Entry(2, "HOST", "me")}

(***************************************************************************)
(* Packets of the remote node, from where the table says or, without its   *)
(* node, from elsewhere: for each node of the host, for all nodes, and for *)
(* nobody in particular.                                                   *)
(***************************************************************************)
Packet(c, s, ip) == [client |-> c, server |-> s, ip |-> ip]

FromFar == {Packet(4, s, "a") : s \in {1, 2, 3}} \cup {Packet(Blank, 2, "b"), Packet(4, Blank, "b")}

FarAnswers == {Packet(n, 4, "a") : n \in {2, 3}}

(***************************************************************************)
(* What the theorems about Dispatch suppose holds here.                    *)
(***************************************************************************)
ASSUME EnvironmentAssumption == Fallback /\ OnlyUnusedErased /\ HostIs({2, 3})
=============================================================================
