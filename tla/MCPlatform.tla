----------------------------- MODULE MCPlatform -----------------------------
(***************************************************************************)
(* Delivery reports, routing, sessions and API keys, for TLC, each by      *)
(* itself: `part' names the one that moves.  Only the reports have         *)
(* callbacks, which are interchangeable.                                   *)
(***************************************************************************)
EXTENDS MCPipeline, Routing, Sessions, ApiKeys

CONSTANTS p1, p2, u1, t1, t2

Content(owner, traffic, provider, protocol, priority, order, weight, active) ==
    [ owner |-> owner, traffic |-> traffic, provider |-> provider, protocol |-> protocol,
      priority |-> priority, order |-> order, weight |-> weight, rank |-> 0, active |-> active ]

MCContents ==
    { Content("mine",  "otp",           p1, "smpp", 1, 1, 0, TRUE),
      Content("all",   "otp",           p2, "smpp", 2, 1, 8, TRUE),
      Content("mine",  "otp",           p2, "http", 1, 1, 0, TRUE),
      Content("mine",  "transactional", p1, "http", 2, 1, 0, TRUE),
      Content("mine",  "transactional", p1, "http", 2, 2, 8, TRUE),
      Content("all",   "transactional", p2, "http", 2, 1, 8, TRUE),
      Content("other", "transactional", p2, "http", 1, 1, 8, TRUE),
      Content("mine",  "transactional", p1, "http", 1, 1, 0, FALSE) }

Policy(own, provider, traffic, attempts, errors) ==
    [own |-> own, provider |-> provider, traffic |-> traffic, attempts |-> attempts, errors |-> errors]

MCPolicyContents ==
    { Policy(FALSE, Nothing, Nothing, 2, {"timeout"}),
      Policy(FALSE, p1,      Nothing, 2, {"rejected"}),
      Policy(FALSE, Nothing, "otp",   3, {"timeout", "rejected"}),
      Policy(TRUE,  p2,      "otp",   2, {"rejected"}) }

MCHome == [u \in Users |-> IF u = u1 THEN t1 ELSE t2]

VARIABLE part

Parts == {"report", "routing", "session", "api key"}

allVars == <<part, vars, routeVars, authVars, keyVars>>

(* What is configured when a part starts only varies for that part.        *)
Standing ==
    part # "routing" => /\ \A i \in RuleIds : rule[i] = CHOOSE c \in Contents : TRUE
                        /\ shipment.traffic = "otp"

(* One account that may switch tenants and one that may not.               *)
AllInit ==
    /\ part \in Parts
    /\ Init /\ RouteInit /\ AuthInit /\ KeyInit
    /\ Standing
    /\ \A u \in Users : account[u].role = IF u = u1 THEN "admin" ELSE "viewer"

(* The one disturbance of the reports is a rebalance: a second worker      *)
(* takes up the other report of the message a first one is at.             *)
TakenUpTogether ==
    faults' # faults =>
        \E d, e \in DlrWorkers : /\ dlrWorker[d] = DlrIdle /\ dlrWorker'[d] # DlrIdle
                                /\ dlrWorker[e] # DlrIdle
                                /\ dlrWorker'[d].cb # dlrWorker[e].cb
                                /\ dlrWorker'[d].hook.sub = dlrWorker[e].hook.sub

AllNext ==
    /\ UNCHANGED part
    /\ IF part = "report" THEN Next /\ TakenUpTogether ELSE UNCHANGED vars
    /\ IF part = "routing" THEN RouteNext ELSE UNCHANGED routeVars
    /\ IF part = "session" THEN AuthNext ELSE UNCHANGED authVars
    /\ IF part = "api key" THEN KeyNext ELSE UNCHANGED keyVars

AllSpec == AllInit /\ [][AllNext]_allVars
=============================================================================
