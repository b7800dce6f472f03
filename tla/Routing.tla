------------------------------- MODULE Routing -------------------------------
(***************************************************************************)
(* Which carrier a message goes to, and what is done when that fails:      *)
(* routing rules, prices and retry policies that operators edit, circuits  *)
(* and measurements that other messages change, and one message of the     *)
(* tenant that is routed, fails, and is routed again.  `rule' is the list  *)
(* as getRules returns it; when an edit reaches that list is what RuleCache *)
(* is about, so the edits here stand for the moment they are seen.         *)
(***************************************************************************)
EXTENDS Integers, FiniteSets

CONSTANTS
    RuleIds, RouteProviders, PolicyIds,
    Contents,           \* what an edited rule can be: records of
                        \*   owner, traffic, provider, protocol, priority, order, weight, rank, active
    Prices,             \* unit costs
    PolicyContents,     \* what a policy can be: records of
                        \*   own, provider, traffic, attempts, errors
    Nothing,            \* no rule, no provider, any provider, any traffic type
    MaxEdits,           \* bounds on edits, on changes of circuits and
    MaxTurns            \* measurements, and on the attempts of the message

(* "mine" is the tenant of the message, "all" a rule without a tenant.     *)
ASSUME ContentsAssumption ==
    /\ \A c \in Contents : /\ c.provider \in RouteProviders
                           /\ c.priority \in Nat /\ c.order \in Nat
                           /\ c.weight \in Nat /\ c.rank \in Int
    /\ Nothing \notin RuleIds \cup RouteProviders

VARIABLES
    rule,       \* [RuleIds -> a content]
    cost,       \* [RouteProviders -> the latest active cost price, or Nothing]
    policy,     \* [PolicyIds -> a content, or Nothing]
    circuit, latency, failing,      \* [RouteProviders -> ...]: the last measurement
    shipment,   \* the message
    edits, turns

routeVars == <<rule, cost, policy, circuit, latency, failing, shipment, edits, turns>>

RouteInit ==
    /\ rule \in [RuleIds -> Contents]
    /\ cost = [p \in RouteProviders |-> Nothing]
    /\ policy = [i \in PolicyIds |-> Nothing]
    /\ circuit = [p \in RouteProviders |-> "closed"]
    /\ latency = [p \in RouteProviders |-> 0]
    /\ failing = [p \in RouteProviders |-> 0]
    /\ shipment \in [pc : {"accepted"}, traffic : {"otp", "transactional"}, rule : {Nothing},
                     provider : {Nothing}, charged : {0}, attempts : {0}]
    /\ edits = 0 /\ turns = 0

-----------------------------------------------------------------------------
(* getRules: the active rules of the tenant and of everybody.              *)
RulesFor(traffic) ==
    {i \in RuleIds : rule[i].owner \in {"mine", "all"} /\ rule[i].traffic = traffic /\ rule[i].active}

(* getUnitCosts.  A provider without a price costs nothing.                *)
UnitCost(p) == IF cost[p] = Nothing THEN 0 ELSE cost[p]

HealthPenalty(p) == (IF circuit[p] = "half_open" THEN 250 ELSE 0) + 100 * failing[p]

ProtocolBoost(c, traffic, prefer) ==
      (IF traffic = "otp" /\ c.protocol = "smpp" THEN 10 ELSE 0)
    + (IF prefer = c.protocol THEN 5 ELSE 0)

(* The score, times fifty.                                                 *)
Score(c, traffic, prefer) ==
    50 * (5 * c.priority + c.rank + HealthPenalty(c.provider) - c.weight
          - ProtocolBoost(c, traffic, prefer)) + latency[c.provider]

(* What is left of the rules, and of them the ones whose circuit is not    *)
(* open.                                                                   *)
Candidates(traffic, noProvider, noRule) ==
    {i \in RulesFor(traffic) : /\ i # noRule /\ rule[i].provider # noProvider
                               /\ circuit[rule[i].provider] # "open"}

(* The order of the query: priority, then failover_order.                  *)
NotAfter(c, d) ==
    \/ c.priority < d.priority
    \/ c.priority = d.priority /\ c.order <= d.order

(* selectRoute: the lowest score wins, and of equals the first in the      *)
(* order of the query, for the sort is stable.  Nothing stands for the     *)
(* error it throws.                                                        *)
SelectRoute(traffic, prefer, noProvider, noRule) ==
    LET field == Candidates(traffic, noProvider, noRule)
        best  == {i \in field : \A j \in field :
                     Score(rule[i], traffic, prefer) <= Score(rule[j], traffic, prefer)}
    IN  IF field = {} THEN {Nothing}
        ELSE {i \in best : \A j \in best : NotAfter(rule[i], rule[j])}

Preferred(traffic) == IF traffic = "otp" THEN "smpp" ELSE "none"

-----------------------------------------------------------------------------
Applies(i, p, traffic) ==
    /\ policy[i] # Nothing
    /\ policy[i].provider \in {p, Nothing}
    /\ policy[i].traffic \in {traffic, Nothing}

(* A plausible slip: DESC without NULLS LAST, which puts the policies of   *)
(* all tenants, and of all providers, first.                               *)
RankNullsFirst(c) ==
    (IF c.traffic = Nothing THEN 4 ELSE 0) + (IF c.own THEN 2 ELSE 0)
        + (IF c.provider = Nothing THEN 0 ELSE 1)

(* ORDER BY traffic type, tenant, provider: what is not set comes last.    *)
Rank(c) ==
    (IF c.traffic = Nothing THEN 4 ELSE 0) + (IF c.own THEN 0 ELSE 2)
        + (IF c.provider = Nothing THEN 1 ELSE 0)

DefaultPolicy ==
    [own |-> FALSE, provider |-> Nothing, traffic |-> Nothing, attempts |-> 3, errors |-> {"timeout", "throttle"}]

(* getRetryPolicy.  Of two with the same rank the one updated last, which  *)
(* is either.                                                              *)
RetryPolicies(p, traffic) ==
    LET fit == {policy[i] : i \in {j \in PolicyIds : Applies(j, p, traffic)}}
    IN  IF fit = {} THEN {DefaultPolicy}
        ELSE {c \in fit : \A d \in fit : Rank(c) <= Rank(d)}

-----------------------------------------------------------------------------
Configured == <<rule, cost, policy, edits>>
Measured   == <<circuit, latency, failing, turns>>

(* handleAccepted; an error leaves the message where it is.                *)
Route ==
    /\ shipment.pc = "accepted"
    /\ \E i \in SelectRoute(shipment.traffic, Preferred(shipment.traffic), Nothing, Nothing) :
          /\ i # Nothing
          /\ shipment' = [shipment EXCEPT !.pc = "dispatching", !.rule = i, !.provider = rule[i].provider,
                                          !.charged = UnitCost(rule[i].provider), !.attempts = 1]
    /\ UNCHANGED <<Configured, Measured>>

(* Errors that are the carrier's own are not sent to the carrier again.    *)
ShouldExcludeCurrentProvider(error) == error = "throttle"

Retryable(error, c) == error \in c.errors /\ shipment.attempts < c.attempts

(* A plausible slip: only the carrier is left out.                         *)
RerouteToSameRule(error) ==
    SelectRoute(shipment.traffic, Preferred(shipment.traffic),
                IF ShouldExcludeCurrentProvider(error) THEN shipment.provider ELSE Nothing, Nothing)

Reroute(error) ==
    SelectRoute(shipment.traffic, Preferred(shipment.traffic),
                IF ShouldExcludeCurrentProvider(error) THEN shipment.provider ELSE Nothing,
                shipment.rule)

Retried(i) ==
    IF i = Nothing THEN [shipment EXCEPT !.attempts = @ + 1]
    ELSE [shipment EXCEPT !.attempts = @ + 1, !.rule = i, !.provider = rule[i].provider,
                          !.charged = UnitCost(rule[i].provider)]

(* A dispatch that fails: another route, the same one when there is no     *)
(* other, or the end.                                                      *)
Retry ==
    /\ shipment.pc = "dispatching"
    /\ \E error \in {"timeout", "throttle", "rejected"} :
       \E c \in RetryPolicies(shipment.provider, shipment.traffic) :
          /\ Retryable(error, c)
          /\ \E i \in Reroute(error) : shipment' = Retried(i)
    /\ UNCHANGED <<Configured, Measured>>

StopRetrying ==
    /\ shipment.pc = "dispatching"
    /\ \E error \in {"timeout", "throttle", "rejected"} :
       \E c \in RetryPolicies(shipment.provider, shipment.traffic) : ~Retryable(error, c)
    /\ shipment' = [shipment EXCEPT !.pc = "failed"]
    /\ UNCHANGED <<Configured, Measured>>

-----------------------------------------------------------------------------
(* Operators edit.  An edited rule gets the tenant, the traffic type and   *)
(* everything else of the form; what is switched off counts as missing.    *)
UpsertRoutingRule ==
    /\ edits < MaxEdits
    /\ \E i \in RuleIds, c \in Contents : rule' = [rule EXCEPT ![i] = c]
    /\ edits' = edits + 1
    /\ UNCHANGED <<cost, policy, shipment, Measured>>

UpsertPricingRule ==
    /\ edits < MaxEdits
    /\ \E p \in RouteProviders, n \in Prices : cost' = [cost EXCEPT ![p] = n]
    /\ edits' = edits + 1
    /\ UNCHANGED <<rule, policy, shipment, Measured>>

UpsertRetryPolicy ==
    /\ edits < MaxEdits
    /\ \E i \in PolicyIds, c \in PolicyContents \cup {Nothing} : policy' = [policy EXCEPT ![i] = c]
    /\ edits' = edits + 1
    /\ UNCHANGED <<rule, cost, shipment, Measured>>

(* Other messages: what recordDispatchResult leaves behind, and            *)
(* getProviderMetrics finds.                                               *)
Measure ==
    /\ turns < MaxTurns
    /\ \E p \in RouteProviders, s \in {"closed", "open", "half_open"}, n \in {0, 400}, f \in {0, 1} :
          /\ circuit' = [circuit EXCEPT ![p] = s]
          /\ latency' = [latency EXCEPT ![p] = n]
          /\ failing' = [failing EXCEPT ![p] = f]
    /\ turns' = turns + 1
    /\ UNCHANGED <<Configured, shipment>>

RouteNext ==
    \/ Route \/ Retry \/ StopRetrying
    \/ UpsertRoutingRule \/ UpsertPricingRule \/ UpsertRetryPolicy
    \/ Measure

RouteSpec == RouteInit /\ [][RouteNext]_routeVars

-----------------------------------------------------------------------------
(* Rule i is at least as good as j in everything the score is made of and  *)
(* in the order of failover, and better in something.                      *)
Costlier(i, j) ==
    <<rule[i].priority - rule[j].priority, rule[i].rank - rule[j].rank,
      rule[j].weight - rule[i].weight,
      HealthPenalty(rule[i].provider) - HealthPenalty(rule[j].provider),
      latency[rule[i].provider] - latency[rule[j].provider],
      rule[i].order - rule[j].order>>

Better(i, j) ==
    /\ rule[i].protocol = rule[j].protocol
    /\ \A n \in 1..6 : Costlier(i, j)[n] <= 0
    /\ \E n \in 1..6 : Costlier(i, j)[n] < 0

(* No message is given a route when one that is better in every respect    *)
(* was to be had: a rule that is preferred, cheaper, heavier, healthier,   *)
(* faster or earlier in failover never loses to one that is none of these. *)
NoBetterRouteLost ==
    [][ shipment'.rule # shipment.rule =>
          ~\E i \in Candidates(shipment.traffic, Nothing, shipment.rule) :
              /\ rule[i].provider # shipment.provider
              /\ Better(i, shipment'.rule) ]_routeVars

(* A retry tries something else as long as there is something else: the    *)
(* same rule is used again only when no other of the tenant's rules leads  *)
(* to another carrier that can be asked.                                   *)
RetryMovesOn ==
    [][ shipment'.attempts > shipment.attempts /\ shipment'.rule = shipment.rule =>
          \A i \in RulesFor(shipment.traffic) :
              \/ i = shipment.rule
              \/ rule[i].provider = shipment.provider
              \/ circuit[rule[i].provider] = "open" ]_routeVars

(* What a policy names.                                                    *)
Scope(c) ==
    (IF c.own THEN {"tenant"} ELSE {}) \cup (IF c.provider = Nothing THEN {} ELSE {"provider"})
        \cup (IF c.traffic = Nothing THEN {} ELSE {"traffic"})

(* A policy that was made for this tenant, this carrier or this traffic    *)
(* type is never displaced by one that is as general in the rest.          *)
SpecificPolicyWins ==
    \A p \in RouteProviders, i \in PolicyIds :
        Applies(i, p, shipment.traffic) =>
            \A c \in RetryPolicies(p, shipment.traffic) :
                \/ Scope(c) = Scope(policy[i])
                \/ ~(Scope(c) \subseteq Scope(policy[i]))

(* The cost in a message's row is one its present carrier has had, also    *)
(* after it was moved to another carrier: zero is the cost of a carrier    *)
(* nobody has priced yet.                                                  *)
PaysItsCarrier ==
    [][ shipment'.provider # shipment.provider =>
            shipment'.charged = UnitCost(shipment'.provider) ]_routeVars

(* The step that gives a message its route, or another one, chooses as the *)
(* rules say and leaves the row consistent: the three above (selectRoute,  *)
(* handleDispatchResult).                                                  *)
RoutedWell == NoBetterRouteLost /\ RetryMovesOn /\ PaysItsCarrier
=============================================================================
