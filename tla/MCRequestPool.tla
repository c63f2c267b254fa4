--------------------------- MODULE MCRequestPool ---------------------------
(***************************************************************************)
(* The request pool on small instances.                                    *)
(***************************************************************************)
EXTENDS RequestPool, TLC

CONSTANTS t1, t2, p1

OneProcess == [t \in Tasks |-> p1]
OnlyT1HasPid == [t \in Tasks |-> IF t = t1 THEN p1 ELSE NoPid]
OnePort == [t \in Tasks |-> 1]

(***************************************************************************)
(* Tasks of one process and one port are interchangeable.                  *)
(***************************************************************************)
SameTasks == Permutations(Tasks)
=============================================================================
