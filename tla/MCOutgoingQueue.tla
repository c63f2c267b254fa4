--------------------------- MODULE MCOutgoingQueue ---------------------------
(***************************************************************************)
(* The outgoing queue on small instances: with a header of 2 bytes and a   *)
(* packet of 8, two short messages fill a packet exactly, and a long one   *)
(* leaves too little room for another.                                     *)
(***************************************************************************)
EXTENDS OutgoingQueue

CONSTANTS short, long

Lengths == [m \in Msgs |-> IF m = short THEN 1 ELSE 3]
=============================================================================
