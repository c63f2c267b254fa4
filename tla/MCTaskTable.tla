----------------------------- MODULE MCTaskTable -----------------------------
(***************************************************************************)
(* The task table on a small instance: two plain names and one of a        *)
(* multicast group, and two ports, one of a process and one of a client    *)
(* without a pid.  Several tasks on the one port are of one process.       *)
(***************************************************************************)
EXTENDS TaskTable, TLC

CONSTANTS group, p1

OneGroup == [n \in Names |-> IF n = "group" THEN group ELSE NoGroup]
Order == [n \in Names |-> IF n = "a" THEN 1 ELSE IF n = "b" THEN 2 ELSE 3]
Processes == [port \in Ports |-> IF port = 2 THEN NoPid ELSE p1]

(***************************************************************************)
(* Addresses of objects are interchangeable.                               *)
(***************************************************************************)
SameAddresses == Permutations(Tasks)
=============================================================================
