-------------------------- MODULE MessagePipeline --------------------------
(***************************************************************************)
(* A message from submission to delivery report: the consumers of          *)
(* MessageWorkflow and of DlrProcessor over the same rows and ledger, what *)
(* must be true of them together, and the promise they implement.          *)
(***************************************************************************)
EXTENDS DlrProcessor

vars == <<row, ledger, outbox, pending, worker, taken, faults,
          hook, dlrPending, dlrWorker, recon>>

Init == WfInit /\ DlrInit

Next ==
    \/ WfNext /\ UNCHANGED dlrVars
    \/ DlrNext

Spec == Init /\ [][Next]_vars

(* Every worker keeps consuming: kafkajs loops over its partitions, and an *)
(* exception brings the event back.  Clients and carriers owe nothing.     *)
Fairness ==
    /\ \A w \in Workers    : WF_vars(WorkerStep(w) /\ UNCHANGED dlrVars)
    /\ \A d \in DlrWorkers :
          WF_vars(\/ /\ \/ \E c \in dlrPending : ReadWebhook(d, c) \/ SkipProcessed(d, c)
                        \/ Correlate(d) \/ DlrConflict(d)
                     /\ UNCHANGED <<row, ledger, outbox, pending, worker, taken>>
                  \/ DlrSettle(d) /\ UNCHANGED <<outbox, pending, worker, taken>>)

FairSpec == Spec /\ Fairness

-----------------------------------------------------------------------------
(* Every variable has the type its comment says.                           *)
TypeOK ==
    /\ row \in [Messages -> Row \cup {NoRow}]
    /\ ledger \subseteq LedgerEntries
    /\ outbox \subseteq Event /\ pending \subseteq outbox
    /\ worker \in [Workers -> Busy \cup {Idle}]
    /\ taken \subseteq Submission
    /\ faults \in Nat
    /\ hook \in [Callbacks -> Hook \cup {NoHook}]
    /\ dlrPending \subseteq Callbacks
    /\ dlrWorker \in [DlrWorkers -> DlrReading \cup DlrSettling \cup {DlrIdle}]
    /\ recon \subseteq [callback : Callbacks, reason : Reasons]

Posted(m, op) == {x \in ledger : x.message = m /\ x.op = op}

(* The row says where the money is: one reservation as soon as the message *)
(* exists; a debit, and never a release, once billing_state is 'debited';  *)
(* exactly one release, and never a debit, once it is 'released' - though  *)
(* three paths release under three different idempotency keys and the      *)
(* ledger would take all of them.                                          *)
LedgerMatchesBilling ==
    \A m \in Priced :
        LET billing == row[m].billing IN
        /\ (Posted(m, "reserve") # {}) <=> (billing # "pending")
        /\ (Posted(m, "debit")   # {}) <=> (billing = "debited")
        /\ (Posted(m, "release") # {}) <=> (billing = "released")
        /\ \A x, y \in Posted(m, "release") : x = y

(* Where the message is says where its money is: nothing leaves the        *)
(* reservation of a message in flight, a message a carrier acknowledged is *)
(* paid, and a failed message is paid exactly if it was acknowledged first.*)
BillingMatchesStatus ==
    \A m \in Messages :
        LET r == row[m] IN
        /\ r.status \in {"accepted", "routed", "submitting"} => r.billing = "reserved"
        /\ r.status \in {"provider_accepted", "delivered"}   => r.billing = "debited"
        /\ r.status = "failed" => r.billing = IF r.sent THEN "debited" ELSE "released"

(* A tenant is charged only for a message some carrier really took, in     *)
(* spite of duplicated, late and reordered dispatch results.               *)
ChargedOnlyIfTaken ==
    \A x \in ledger : x.op = "debit" => \E t \in taken : t.message = x.message

(* A report can only be matched to a message that a carrier acknowledged:  *)
(* both look-ups need columns the acknowledgement sets.  So a report that  *)
(* overtakes the dispatch result never settles the message, and the        *)
(* release in the failed branch of processWebhook is never posted.         *)
ReportsFindSentOnly ==
    /\ \A d \in DlrWorkers : dlrWorker[d].pc = "settle" =>
          dlrWorker[d].seen.status \in {"provider_accepted", "delivered", "failed"}
    /\ \A x \in ledger : x.reason # "dlr"

(* A callback marked processed moved its message, repeated what the        *)
(* message already says, or was handed to reconciliation: none vanishes.   *)
NoReportVanishes ==
    \A c \in Callbacks : hook[c].processed =>
        \/ hook[c].reason = "applied"
        \/ hook[c].reason = "duplicate"
        \/ [callback |-> c, reason |-> hook[c].reason] \in recon

(* Every report is accounted for, and settles nothing it should not: the   *)
(* two above.                                                              *)
ReportsSettle == ReportsFindSentOnly /\ NoReportVanishes

(* The trigger on messages refuses no update any handler commits: every    *)
(* change of a row is one version ahead and along the allowed transitions, *)
(* so a message that is delivered or failed never changes status again.    *)
StepsPassTrigger ==
    [][\A m \in Messages : row'[m] # row[m] =>
          row[m] = NoRow \/ TriggerAccepts(<<row[m], row'[m]>>)]_row

(* Every image a row takes in one transaction moves state_changed_at       *)
(* forward.  False of the transaction that fails a message the fraud rules *)
(* block: it updates the row twice.                                        *)
BlockMovesForward ==
    \A w \in Workers :
        worker[w].pc = "dispatch" /\ "block" \in Verdicts =>
            TriggerAccepts(BlockImages(worker[w].seen))

(* In an undisturbed system a message is not attempted more often than the *)
(* retry policy says, and a carrier never gets it twice as one attempt.    *)
AttemptsWithinPolicy ==
    \A m \in Messages :
        /\ row[m].attempt <= MaxAttempts
        /\ Cardinality({t \in taken : t.message = m}) <= row[m].attempt

(* In an undisturbed system an acknowledged message names the carrier and  *)
(* the attempt that were acknowledged, so its reports can find it.         *)
AcknowledgedByItsCarrier ==
    \A m \in Messages : row[m].sent =>
        \E t \in taken : /\ t.message = m /\ t.provider = row[m].provider
                         /\ row[m].pmid \in {t.ver, NoId}

(* A message settles when it is acknowledged (and perhaps more), failed    *)
(* and refunded, or handed to reconciliation because its outcome is        *)
(* unknown.  The handing over is as far as the code goes: no consumer      *)
(* takes the event up.                                                     *)
Settled(m) ==
    \/ row[m].status \in {"provider_accepted", "delivered", "failed"}
    \/ \E e \in outbox : e.topic = "reconcile" /\ e.message = m

(* A row throttled before its first attempt: still 'routed', with the      *)
(* error of the throttle.  Its retry event finds no 'submitting' row and   *)
(* is dropped, so nothing brings the message on any more.                  *)
Stranded(r) == r.status = "routed" /\ r.error = "dispatch"

(* In an undisturbed system a message that has not settled has an event    *)
(* pending which its handler will act on: no event is swallowed by ON      *)
(* CONFLICT (dedupe_key) DO NOTHING, and no handler returns early from the *)
(* one event that matters.  The one exception is the message stranded by a *)
(* throttle.                                                               *)
NothingForgotten ==
    \A m \in Messages : row[m].status # "none" =>
        \/ Settled(m)
        \/ Stranded(row[m])
        \/ \E e \in pending : /\ e.message = m /\ e.topic \in DOMAIN Handles
                              /\ row[m].status \in Handles[e.topic]

(* In an undisturbed system the row tells how often, and with whom, the    *)
(* message was attempted, and what is left to do for it is pending: the    *)
(* three above.                                                            *)
AttemptsAccounted ==
    AttemptsWithinPolicy /\ AcknowledgedByItsCarrier /\ NothingForgotten

(* In an undisturbed system whose fraud rules block nothing every message  *)
(* gets somewhere: it settles, unless a throttle strands it before its     *)
(* first attempt; throttled later, it still settles.  A block is left out  *)
(* by Verdicts: the trigger refuses its update, and its event comes back   *)
(* for as long as the rules block (see BlockMovesForward).                 *)
EverySubmissionSettles ==
    \A m \in Messages : row[m].status # "none" ~> Settled(m) \/ Stranded(row[m])

(* In an undisturbed system every callback that was stored is processed.   *)
EveryReportProcessed ==
    \A c \in Callbacks : hook[c] # NoHook ~> hook[c].processed

(* The price moves with the message: the debit in the step that makes it   *)
(* provider_accepted, the release in the step that makes it failed.        *)
stageBar == [m \in Messages |->
    CASE row[m].status = "none"              -> "absent"
      [] row[m].status = "provider_accepted" -> "acknowledged"
      [] row[m].status = "delivered"         -> "delivered"
      [] row[m].status = "failed"            -> "failed"
      [] OTHER                               -> "in_flight"]

moneyBar == [m \in Messages |->
    IF m \notin Priced THEN "free"
    ELSE IF Posted(m, "release") # {} THEN "returned"
    ELSE IF Posted(m, "debit")   # {} THEN "taken"
    ELSE IF Posted(m, "reserve") # {} THEN "held"
    ELSE "untouched"]

Lifecycle == INSTANCE MessageLifecycle WITH stage <- stageBar, money <- moneyBar

(* The pipeline implements what is promised to the tenant.                 *)
ImplementsLifecycle == Lifecycle!Spec
=============================================================================
