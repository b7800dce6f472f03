------------------------------ MODULE MCConsole ------------------------------
(***************************************************************************)
(* The operators' side, for TLC: the browser's tabs, saved views, the send *)
(* page and the scripts, each by itself: `part' names the one that moves.  *)
(***************************************************************************)
EXTENDS ControlPlane, SavedViews, SendPage, Deployment

CONSTANTS t1, s1, r1

MCMigrations == [r \in Releases |-> IF r = r1 THEN {1, 3} ELSE {1, 2}]

VARIABLE part

Parts == {"tab", "views", "send", "script"}

allVars == <<part, planeVars, viewVars, pageVars, deployVars>>

(* What is configured when a part starts only varies for that part, and    *)
(* one of the seeds is the local one for the first tenant.                 *)
Init ==
    /\ part \in Parts
    /\ PlaneInit /\ ViewsInit /\ PageInit /\ DeployInit
    /\ part # "views" => legacy = Missing
    /\ seed[s1].script = "local" /\ seed[s1].tenant = t1
    /\ part # "script" => \A s \in Seeds : seed[s].script = "local" /\ seed[s].tenant = t1

Next ==
    /\ UNCHANGED part
    /\ IF part = "tab" THEN PlaneNext ELSE UNCHANGED planeVars
    /\ IF part = "views" THEN ViewsNext ELSE UNCHANGED viewVars
    /\ IF part = "send" THEN PageNext ELSE UNCHANGED pageVars
    /\ IF part = "script" THEN DeployNext ELSE UNCHANGED deployVars

(* The fairness of each module, for the part that moves.                   *)
Fairness ==
    /\ \A t \in BrowserTabs :
         /\ WF_planeVars(part = "tab" /\ Poll(t))
         /\ WF_planeVars(part = "tab" /\ Hear(t))
         /\ WF_planeVars(part = "tab" /\ Leave(t))
    /\ \A r \in Releases : WF_deployVars(part = "script" /\ ReleaseStep(r))
    /\ \A s \in Seeds : WF_deployVars(part = "script" /\ SeedStep(s))

Spec == Init /\ [][Next]_allVars /\ Fairness
=============================================================================
