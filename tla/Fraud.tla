------------------------------- MODULE Fraud -------------------------------
(* FraudService.evaluate (src/src/fraud/fraud.service.ts) as its callers run *)
(* it, in several processes at a time: the submission of a message, its      *)
(* dispatch, and the two consumers that watch the dispatch topics.  Every    *)
(* one of them counts in the same two Redis counters, one to a sender and    *)
(* one to a destination prefix, whose names hold the minute.                 *)
(*                                                                           *)
(* The rules that match are a sequence of their actions; the message's text  *)
(* is abstracted to whether it is marketing with a URL from a tenant of the  *)
(* lowest tier.  One tick is MinuteTicks-th of a minute; INCR is taken to    *)
(* run in the tick in which the key's name was formed.                       *)
EXTENDS Naturals, Sequences, SequencesExt

CONSTANTS
    Forever,             \* the expiry of a key without one
    Evaluations,         \* the evaluations under way at a time
    MatchingRules,       \* sequences of actions of the rules that match
    MinuteTicks,         \* ticks in a minute
    SenderThreshold,     \* 5000 in the code
    PrefixThreshold,     \* 7500 in the code
    MaxNow,              \* bound: the clock
    MaxEvaluations       \* bound: evaluations counted by one key

ASSUME FraudAssumption ==
    /\ MinuteTicks \in Nat \ {0}
    /\ SenderThreshold \in Nat /\ PrefixThreshold \in Nat /\ MaxNow \in Nat
    /\ \A rules \in MatchingRules : rules \in Seq({"allow", "alert", "throttle", "block"})

VARIABLES
    now,
    counter,             \* the Redis keys: [kind, minute] -> value and expiry
    evaluation,          \* each evaluation: step, what it found so far
    passed               \* evaluations that no velocity rule stopped, by minute (history)

fraudVars == <<now, counter, evaluation, passed>>

Kinds == {"sender", "prefix"}

Minutes == 0..(MaxNow \div MinuteTicks)

NoKey == [value |-> 0, expires |-> Forever]

NoEvaluation == [step |-> "idle", found |-> {}, action |-> "allow", minute |-> 0, lowTrust |-> FALSE]

FraudInit ==
    /\ now = 0
    /\ counter = [k \in Kinds |-> [m \in Minutes |-> NoKey]]
    /\ evaluation = [e \in Evaluations |-> NoEvaluation]
    /\ passed = [k \in Kinds |-> [m \in Minutes |-> 0]]

ActionPriority(a) ==
    CASE a = "block" -> 4 [] a = "throttle" -> 3 [] a = "alert" -> 2 [] OTHER -> 1

MergeAction(current, next) ==
    IF ActionPriority(next) > ActionPriority(current) THEN next ELSE current

(* The loop over the rules that match: what the first i of them come to.     *)
MergedActions(rules) ==
    LET action[i \in 0..Len(rules)] ==
            IF i = 0 THEN "allow" ELSE MergeAction(action[i - 1], rules[i])
    IN action

Threshold(k) == IF k = "sender" THEN SenderThreshold ELSE PrefixThreshold

HalfMinute == MinuteTicks \div 2

(* EXPIRE 60. *)
CounterTtl == MinuteTicks

(* The rules are read and matched one after the other (getRules, mlScore).   *)
MatchRules(e) ==
    /\ evaluation[e].step = "idle"
    /\ \E rules \in MatchingRules, low \in BOOLEAN :
         evaluation' = [evaluation EXCEPT ![e] =
             [step |-> "sender", found |-> ToSet(rules), lowTrust |-> low,
              action |-> MergedActions(rules)[Len(rules)], minute |-> 0]]
    /\ UNCHANGED <<now, counter, passed>>

Expiring(k) == IF k = "sender" THEN "expire sender" ELSE "expire prefix"

After(k) == IF k = "sender" THEN "prefix" ELSE "low trust"

(* INCR on the key of the present minute: a first count still has to set the *)
(* key's expiry, a count beyond the threshold throttles.                     *)
Count(e, k) ==
    LET m == now \div MinuteTicks
        n == counter[k][m].value + 1
        over == n > Threshold(k)
    IN /\ evaluation[e].step = k
       /\ n <= MaxEvaluations
       /\ counter' = [counter EXCEPT ![k][m].value = n]
       /\ evaluation' = [evaluation EXCEPT
             ![e].step = IF n = 1 THEN Expiring(k) ELSE After(k),
             ![e].minute = m,
             ![e].found = IF over THEN @ \union {"throttle"} ELSE @,
             ![e].action = IF over THEN MergeAction(@, "throttle") ELSE @]
       /\ passed' = [passed EXCEPT ![k][m] = IF over THEN @ ELSE @ + 1]
       /\ UNCHANGED now

(* EXPIRE, a call of its own. *)
SetExpiry(e, k) ==
    LET m == evaluation[e].minute
    IN /\ evaluation[e].step = Expiring(k)
       /\ counter' = [counter EXCEPT ![k][m] =
             IF @.value = 0 THEN @ ELSE [@ EXCEPT !.expires = now + CounterTtl]]
       /\ evaluation' = [evaluation EXCEPT ![e].step = After(k)]
       /\ UNCHANGED <<now, passed>>

(* The last rule: a URL in the marketing of a tenant of the lowest tier.     *)
JudgeTrust(e) ==
    /\ evaluation[e].step = "low trust"
    /\ evaluation' = [evaluation EXCEPT
          ![e].step = "judged",
          ![e].found = IF evaluation[e].lowTrust THEN @ \union {"block"} ELSE @,
          ![e].action = IF evaluation[e].lowTrust THEN MergeAction(@, "block") ELSE @]
    /\ UNCHANGED <<now, counter, passed>>

(* What the caller does of it: enforceSubmission refuses a block or a        *)
(* throttle, a dispatch puts off or fails the message, a consumer publishes  *)
(* an alert unless the action is "allow"; then the next evaluation may come. *)
Conclude(e) ==
    /\ evaluation[e].step = "judged"
    /\ evaluation' = [evaluation EXCEPT ![e] = NoEvaluation]
    /\ UNCHANGED <<now, counter, passed>>

(* The process dies, or a call of Redis fails. *)
EvaluationFails(e) ==
    /\ evaluation[e].step # "idle"
    /\ evaluation' = [evaluation EXCEPT ![e] = NoEvaluation]
    /\ UNCHANGED <<now, counter, passed>>

(* The clock, and the keys that expire with it. *)
FraudTick ==
    /\ now < MaxNow
    /\ now' = now + 1
    /\ counter' = [k \in Kinds |-> [m \in Minutes |->
          IF counter[k][m].expires # Forever /\ counter[k][m].expires <= now + 1
          THEN NoKey ELSE counter[k][m]]]
    /\ UNCHANGED <<evaluation, passed>>

FraudNext ==
    \/ FraudTick
    \/ \E e \in Evaluations :
         \/ MatchRules(e) \/ JudgeTrust(e) \/ Conclude(e) \/ EvaluationFails(e)
         \/ \E k \in Kinds : Count(e, k) \/ SetExpiry(e, k)

FraudSpec == FraudInit /\ [][FraudNext]_fraudVars
-----------------------------------------------------------------------------
(* The verdict is the most severe of everything that was found, in whatever  *)
(* order it was found (mergeAction).                                         *)
MostSevereWins ==
    \A e \in Evaluations : evaluation[e].step = "judged" =>
        /\ evaluation[e].action \in evaluation[e].found \union {"allow"}
        /\ \A a \in evaluation[e].found : ActionPriority(a) <= ActionPriority(evaluation[e].action)

(* However many processes count at once, in no minute do more evaluations    *)
(* pass than the threshold: no counter expires within its own minute         *)
(* (evaluate: INCR and EXPIRE on a key that holds the minute).               *)
ThresholdHolds == \A k \in Kinds, m \in Minutes : passed[k][m] <= Threshold(k)

(* Concurrent evaluations do not spoil each other's verdicts: the two above. *)
VerdictsHold == MostSevereWins /\ ThresholdHolds
=============================================================================
