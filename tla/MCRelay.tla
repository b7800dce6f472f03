------------------------------ MODULE MCRelay ------------------------------
(***************************************************************************)
(* The instance of OutboxRelay for TLC: everything it needs is in Relay.cfg. *)
(***************************************************************************)
EXTENDS OutboxRelay
=============================================================================
