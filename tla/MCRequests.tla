----------------------------- MODULE MCRequests -----------------------------
(***************************************************************************)
(* What the API does for a request, for TLC: the limiter (in each of its   *)
(* scopes), the submission, the templates, the contacts' uploads, the      *)
(* wallet and the fraud check, each by itself: `part' names the one that   *)
(* moves.                                                                  *)
(***************************************************************************)
EXTENDS RateLimit, Submission, Templates, Contacts, Wallet, Fraud

CONSTANTS m1, m2, m3, n1, n2, n3, bad, u1, u2, u3

MCLimit == [s \in Scopes |-> IF s = "quota" THEN 2 ELSE 1]

MCFile == [u \in Uploads |-> IF u = u1 THEN <<n1, bad, n2, n1>>
                             ELSE IF u = u2 THEN <<n2, n3>> ELSE <<n3, n1>>]

MCPrice == [m \in ChargedMessages |-> IF m = m1 THEN 20 ELSE IF m = m2 THEN 80 ELSE 0]

MCMatchingRules == {<<"block", "alert">>, <<"alert", "throttle">>}

VARIABLE part

Parts == {"limit", "quota", "submission", "template", "contact", "wallet", "fraud"}

allVars == <<part, limitVars, submitVars, templateVars, contactVars, walletVars, fraudVars>>

Init ==
    /\ part \in Parts
    /\ LimitInit /\ SubmitInit /\ TemplateInit /\ ContactInit /\ WalletInit /\ FraudInit

Next ==
    /\ UNCHANGED part
    /\ IF part = "limit" THEN ScopeNext("limit")
       ELSE IF part = "quota" THEN ScopeNext("quota") ELSE UNCHANGED limitVars
    /\ IF part = "submission" THEN SubmitNext ELSE UNCHANGED submitVars
    /\ IF part = "template" THEN TemplateNext ELSE UNCHANGED templateVars
    /\ IF part = "contact" THEN ContactNext ELSE UNCHANGED contactVars
    /\ IF part = "wallet" THEN WalletNext ELSE UNCHANGED walletVars
    /\ IF part = "fraud" THEN FraudNext ELSE UNCHANGED fraudVars

(* The fairness of Contacts, for the part that moves.                      *)
Fairness == \A u \in Uploads : WF_contactVars(part = "contact" /\ ImportStep(u))

Spec == Init /\ [][Next]_allVars /\ Fairness
=============================================================================
