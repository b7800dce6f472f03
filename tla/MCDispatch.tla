----------------------------- MODULE MCDispatch -----------------------------
(***************************************************************************)
(* What a dispatch depends on, for TLC: the circuit breaker, the caches of *)
(* rules and the connectors, each by itself: `part' names the one that     *)
(* moves.                                                                  *)
(***************************************************************************)
EXTENDS CircuitBreaker, RuleCache, Connectors

VARIABLE part

Parts == {"breaker", "cache", "connection"}

allVars == <<part, vars, cacheVars, connVars>>

AllInit == part \in Parts /\ Init /\ CacheInit /\ ConnInit

AllNext ==
    /\ UNCHANGED part
    /\ IF part = "breaker" THEN Next ELSE UNCHANGED vars
    /\ IF part = "cache" THEN CacheNext ELSE UNCHANGED cacheVars
    /\ IF part = "connection" THEN ConnNext ELSE UNCHANGED connVars

(* The fairness of the breaker and of the caches, for the part that moves. *)
AllFairness ==
    /\ WF_vars(part = "breaker" /\ Tick)
    /\ WF_vars(part = "breaker" /\ Expire)
    /\ WF_cacheVars(part = "cache" /\ Minute)
    /\ \A r \in Readers : WF_cacheVars(part = "cache" /\ ReaderStep(r))

AllSpec == AllInit /\ [][AllNext]_allVars /\ AllFairness
=============================================================================
