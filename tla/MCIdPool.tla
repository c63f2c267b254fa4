------------------------------ MODULE MCIdPool ------------------------------
(* A pool of four entries: the free list wraps, empties and refills. *)
EXTENDS IdPool
=============================================================================
