---------------------------- MODULE MCReplyPool ----------------------------
(***************************************************************************)
(* The reply pool on a small instance: two clients of one process that     *)
(* share a command port.                                                   *)
(***************************************************************************)
EXTENDS ReplyPool, TLC

CONSTANTS t1, t2, p1

OneProcess == [t \in Tasks |-> p1]
OnePort == [t \in Tasks |-> 1]
ManyKinds == {<<FALSE, FALSE>>, <<TRUE, FALSE>>, <<TRUE, TRUE>>}

(***************************************************************************)
(* Request identifiers are interchangeable, and so are the tasks, which    *)
(* have the same process and port.                                         *)
(***************************************************************************)
SameTasks == Permutations(ReqIds) \cup Permutations(Tasks)
=============================================================================
