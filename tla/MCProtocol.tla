----------------------------- MODULE MCProtocol -----------------------------
(***************************************************************************)
(* Two requests that overlap, and one restart of the daemon that asks.     *)
(***************************************************************************)
EXTENDS Protocol
=============================================================================
