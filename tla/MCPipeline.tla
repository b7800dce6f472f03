----------------------------- MODULE MCPipeline -----------------------------
(***************************************************************************)
(* Instances of MessagePipeline for TLC.  Workers, callbacks and carriers  *)
(* are interchangeable in the safety runs.                                 *)
(***************************************************************************)
EXTENDS MessagePipeline, TLC

Interchangeable == Permutations(Workers) \cup Permutations(Callbacks)
=============================================================================
