----------------------------- MODULE MCBreaker -----------------------------
(***************************************************************************)
(* The instance of CircuitBreaker for TLC: everything is in the .cfg.      *)
(***************************************************************************)
EXTENDS CircuitBreaker
=============================================================================
