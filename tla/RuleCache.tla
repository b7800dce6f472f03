------------------------------ MODULE RuleCache ------------------------------
(***************************************************************************)
(* Copies in Redis of rules that are kept in PostgreSQL: routing rules, a  *)
(* key for every tenant and traffic type, fraud rules and priority tiers,  *)
(* a key for every tenant.  A reader that misses asks the database and     *)
(* stores the answer for a minute; a writer changes the table and deletes  *)
(* the copy, in two steps.                                                 *)
(*                                                                         *)
(* The rules of a key are abstracted to the number of changes they have    *)
(* seen.                                                                   *)
(***************************************************************************)
EXTENDS Naturals

CONSTANTS
    RoutingKeys, FraudKeys, TierKeys,
    Readers, Savers,
    None,           \* no copy
    Lifetime,       \* sixty seconds, in ticks
    MaxSaves        \* bound on changes to the tables

CacheKeys == RoutingKeys \cup FraudKeys \cup TierKeys

ASSUME CacheAssumption == None \notin CacheKeys /\ Lifetime \in Nat \ {0}

VARIABLES
    rules,      \* [CacheKeys -> changes so far]
    copy,       \* what Redis has: the changes a copy has seen, its remaining life,
                \* and whether it was out of date when it was stored
    reader,     \* [Readers -> what each evaluation is doing]
    saver,      \* [Savers -> the key each writer has yet to delete]
    missed,     \* keys whose rules changed without their copy being deleted
    saves

cacheVars == <<rules, copy, reader, saver, missed, saves>>

Unasked == [pc |-> "idle", key |-> None, seen |-> 0]

CacheInit ==
    /\ rules = [k \in CacheKeys |-> 0]
    /\ copy = [k \in CacheKeys |-> None]
    /\ reader = [r \in Readers |-> Unasked]
    /\ saver = [w \in Savers |-> None]
    /\ missed = {} /\ saves = 0

-----------------------------------------------------------------------------
(* getRules, getTenantPriorityTier: a copy answers and nothing changes,    *)
(* without one the database is asked.                                      *)
Lookup(r, k) ==
    /\ reader[r] = Unasked /\ copy[k] = None
    /\ reader' = [reader EXCEPT ![r] = [pc |-> "query", key |-> k, seen |-> 0]]
    /\ UNCHANGED <<rules, copy, saver, missed, saves>>

LookupRoutes(r) == \E k \in RoutingKeys : Lookup(r, k)
LookupFraud(r)  == \E k \in FraudKeys : Lookup(r, k)
LookupTier(r)   == \E k \in TierKeys : Lookup(r, k)

Query(r) ==
    /\ reader[r].pc = "query"
    /\ reader' = [reader EXCEPT ![r].pc = "store", ![r].seen = rules[reader[r].key]]
    /\ UNCHANGED <<rules, copy, saver, missed, saves>>

(* A plausible slip: setJson without the number of seconds.                *)
SetForever(k, seen) ==
    copy' = [copy EXCEPT ![k] = [seen |-> seen, left |-> 0, late |-> seen # rules[k]]]

SetJson(k, seen) ==
    copy' = [copy EXCEPT ![k] = [seen |-> seen, left |-> Lifetime, late |-> seen # rules[k]]]

(* The answer is stored whatever happened since: a writer that deleted the *)
(* copy meanwhile has deleted nothing.                                     *)
Store(r) ==
    /\ reader[r].pc = "store"
    /\ SetJson(reader[r].key, reader[r].seen)
    /\ reader' = [reader EXCEPT ![r] = Unasked]
    /\ UNCHANGED <<rules, saver, missed, saves>>

-----------------------------------------------------------------------------
Changed(ks) == rules' = [k \in CacheKeys |-> IF k \in ks THEN rules[k] + 1 ELSE rules[k]]

(* A plausible slip: the copy is deleted before the table is changed.      *)
DropFirst(w, ks, k) ==
    /\ saves < MaxSaves
    /\ \/ /\ saver[w] = None
          /\ copy' = [copy EXCEPT ![k] = None]
          /\ saver' = [saver EXCEPT ![w] = k]
          /\ UNCHANGED <<rules, reader, missed, saves>>
       \/ /\ saver[w] = k
          /\ Changed({k})
          /\ saver' = [saver EXCEPT ![w] = None]
          /\ saves' = saves + 1
          /\ UNCHANGED <<copy, reader, missed>>

(* A change to the rules of the keys ks, of which only k's copy will be    *)
(* deleted.                                                                *)
SaveRules(w, ks, k) ==
    /\ saver[w] = None /\ saves < MaxSaves
    /\ Changed(ks)
    /\ saver' = [saver EXCEPT ![w] = k]
    /\ missed' = missed \cup (ks \ {k})
    /\ saves' = saves + 1
    /\ UNCHANGED <<copy, reader>>

(* upsertRoutingRule: a rule that moves from another traffic type changes  *)
(* the rules of two keys, one that was everybody's those of all, and the   *)
(* key it has now is the one that is deleted.                              *)
SaveRoute(w) ==
    \E k \in RoutingKeys : \E ks \in {{k}} \cup {{k, o} : o \in RoutingKeys} \cup {RoutingKeys} :
        SaveRules(w, ks, k)

(* createRule.                                                             *)
SaveFraudRule(w) == \E k \in FraudKeys : SaveRules(w, {k}, k)

(* A tenant's tier is changed by SQL alone, which deletes nothing.         *)
ChangeTier ==
    /\ saves < MaxSaves
    /\ \E k \in TierKeys : Changed({k}) /\ missed' = missed \cup {k}
    /\ saves' = saves + 1
    /\ UNCHANGED <<copy, reader, saver>>

Drop(w) ==
    /\ saver[w] # None
    /\ copy' = [copy EXCEPT ![saver[w]] = None]
    /\ saver' = [saver EXCEPT ![w] = None]
    /\ UNCHANGED <<rules, reader, missed, saves>>

(* A process dies between the change and the deletion, or before it could  *)
(* store what it read.                                                     *)
SaverDies(w) ==
    /\ saver[w] # None
    /\ saver' = [saver EXCEPT ![w] = None]
    /\ missed' = missed \cup {saver[w]}
    /\ UNCHANGED <<rules, copy, reader, saves>>

ReaderDies(r) ==
    /\ reader[r] # Unasked
    /\ reader' = [reader EXCEPT ![r] = Unasked]
    /\ UNCHANGED <<rules, copy, saver, missed, saves>>

-----------------------------------------------------------------------------
(* A copy with no time to live has left = 0 and is not touched.            *)
CopyAged(c) == IF c = None \/ c.left = 0 THEN c ELSE IF c.left = 1 THEN None ELSE [c EXCEPT !.left = @ - 1]

Minute ==
    /\ \E k \in CacheKeys : copy[k] # CopyAged(copy[k])
    /\ copy' = [k \in CacheKeys |-> CopyAged(copy[k])]
    /\ UNCHANGED <<rules, reader, saver, missed, saves>>

ReaderStep(r) == Query(r) \/ Store(r)

CacheNext ==
    \/ \E r \in Readers : LookupRoutes(r) \/ LookupFraud(r) \/ LookupTier(r) \/ ReaderStep(r) \/ ReaderDies(r)
    \/ \E w \in Savers : SaveRoute(w) \/ SaveFraudRule(w) \/ Drop(w) \/ SaverDies(w)
    \/ ChangeTier \/ Minute

(* Time passes, and an evaluation that is not killed goes on.               *)
CacheFairness == WF_cacheVars(Minute) /\ \A r \in Readers : WF_cacheVars(ReaderStep(r))

CacheSpec == CacheInit /\ [][CacheNext]_cacheVars /\ CacheFairness

-----------------------------------------------------------------------------
Stale(k) == copy[k] # None /\ copy[k].seen # rules[k]

(* Saving a rule and then deleting its copy is enough for the next         *)
(* evaluation to see it: a copy is out of date only until the writer gets  *)
(* to delete it, if a reader had asked before the change and stored after  *)
(* it, or if the change is one whose copy is not deleted.                  *)
StaleNeedsRace ==
    \A k \in CacheKeys : Stale(k) => \/ copy[k].late
                                     \/ k \in missed
                                     \/ \E w \in Savers : saver[w] = k

(* Whatever was missed, overtaken or lost with a process, every rule takes *)
(* effect in the end: copies do not outlive their minute, and one that is  *)
(* stored after the last change is right.                                  *)
RulesTakeEffect == <>[](\A k \in CacheKeys : ~Stale(k))
=============================================================================
