---------------------------- MODULE DlrProcessor ----------------------------
(***************************************************************************)
(* Delivery reports.  DlrService.acceptWebhook stores a carrier's callback *)
(* and enqueues it once; DlrProcessorService.processWebhook reads the      *)
(* callback, looks for the message it is about, and then settles both in   *)
(* one transaction.  The two reads are outside that transaction, so the    *)
(* result handler of MessageWorkflow, another report and a resent callback *)
(* can all come between.                                                   *)
(***************************************************************************)
EXTENDS MessageWorkflow

CONSTANTS
    Callbacks,      \* callback ids carriers use
    DlrWorkers,     \* concurrent invocations in worker-dlr
    ResendStatus    \* may a carrier send a callback id again, changed?

ASSUME ResendAssumption == ResendStatus \in BOOLEAN

VARIABLES
    hook,         \* hook[c]: the dlr_webhooks row of callback c
    dlrPending,   \* callbacks whose event is still to be consumed
    dlrWorker,    \* what each invocation is doing
    recon         \* callbacks handed to reconciliation, [callback, reason]

dlrVars == <<hook, dlrPending, dlrWorker, recon>>

-----------------------------------------------------------------------------
ReportStatuses == {"delivered", "failed", "unknown"}

Submission == [message : Messages, ver : Nat \ {NoId}, provider : Providers]

(* processing_error; "applied" stands for the NULL of a report that moved  *)
(* the message.                                                            *)
Reasons == {"none", "applied", "duplicate", "message_not_found",
            "unknown_status", "invalid_delivered", "invalid_failed"}

(* sub is what the carrier reports on; named says if the callback carries  *)
(* the provider_message_id or only a phone number.                         *)
Hook == [ sub : Submission, named : BOOLEAN, status : ReportStatuses,
          processed : BOOLEAN, reason : Reasons ]

NoHook == [status |-> "absent", processed |-> FALSE, reason |-> "none"]

DlrIdle == [pc |-> "idle"]

(* An invocation that read its callback, and then found a message or none. *)
DlrReading  == [pc : {"correlate", "unmatched"}, cb : Callbacks, hook : Hook]
DlrSettling == [pc : {"settle"}, cb : Callbacks, hook : Hook,
                message : Messages, seen : Row]

DlrRelease(d) == dlrWorker' = [dlrWorker EXCEPT ![d] = DlrIdle]

(* The columns DO UPDATE names; processed is not among them.  A callback id *)
(* stays with its submission, and an id once known is kept.                *)
Resent(h, s, n) == [h EXCEPT !.status = s, !.named = @ \/ n]

AcceptWebhook(c) ==
    \/ /\ hook[c] = NoHook
       /\ \E t \in taken, s \in ReportStatuses, n \in BOOLEAN :
             hook' = [hook EXCEPT ![c] = [sub |-> t, named |-> n, status |-> s,
                                          processed |-> FALSE, reason |-> "none"]]
       /\ dlrPending' = dlrPending \cup {c}
       /\ UNCHANGED <<dlrWorker, recon>>
    \/ /\ ResendStatus /\ hook[c] # NoHook
       /\ \E s \in ReportStatuses, n \in BOOLEAN :
             hook' = [hook EXCEPT ![c] = Resent(hook[c], s, n)]
       /\ UNCHANGED <<dlrPending, dlrWorker, recon>>

-----------------------------------------------------------------------------
(* Events are partitioned by carrier, and one partition is consumed by one *)
(* invocation at a time unless a rebalance interferes.                     *)
DlrInProgress(c) ==
    \E d \in DlrWorkers : /\ dlrWorker[d].pc # "idle"
                          /\ dlrWorker[d].hook.sub.provider = hook[c].sub.provider

ReadWebhook(d, c) ==
    /\ dlrWorker[d].pc = "idle" /\ c \in dlrPending
    /\ ~hook[c].processed
    /\ \/ ~DlrInProgress(c) /\ UNCHANGED faults
       \/ DlrInProgress(c) /\ faults < MaxFaults /\ faults' = faults + 1
    /\ dlrWorker' = [dlrWorker EXCEPT ![d] =
                        [pc |-> "correlate", cb |-> c, hook |-> hook[c]]]
    /\ UNCHANGED <<hook, dlrPending, recon>>

SkipProcessed(d, c) ==
    /\ dlrWorker[d].pc = "idle" /\ c \in dlrPending
    /\ hook[c].processed
    /\ dlrPending' = dlrPending \ {c}
    /\ UNCHANGED <<hook, dlrWorker, recon, faults>>

(* correlateMessageForDlr.  First by carrier and provider_message_id; then *)
(* by phone number among the messages of that carrier that were sent, if   *)
(* one of them stands out.  Which one does is data left open here.         *)
Direct(h) ==
    {m \in Messages : /\ h.named /\ m = h.sub.message
                      /\ row[m].provider = h.sub.provider
                      /\ row[m].pmid = h.sub.ver}

SentBy(p) == {m \in Messages : row[m].sent /\ row[m].provider = p}

Correlate(d) ==
    LET h == dlrWorker[d].hook  c == dlrWorker[d].cb IN
    /\ dlrWorker[d].pc = "correlate"
    /\ \/ \E m \in IF Direct(h) # {} THEN Direct(h) ELSE SentBy(h.sub.provider) :
             dlrWorker' = [dlrWorker EXCEPT ![d] =
                [pc |-> "settle", cb |-> c, hook |-> h, message |-> m, seen |-> row[m]]]
       \/ /\ Direct(h) = {}
          /\ dlrWorker' = [dlrWorker EXCEPT ![d] =
                [pc |-> "unmatched", cb |-> c, hook |-> h]]
    /\ UNCHANGED <<hook, dlrPending, recon, faults>>

-----------------------------------------------------------------------------
(* A plausible slip: processed stays FALSE, and the event is done.         *)
ProcessedUnmarked(d, reason) ==
    LET c == dlrWorker[d].cb IN
    /\ hook' = [hook EXCEPT ![c].reason = reason]
    /\ dlrPending' = dlrPending \ {c}
    /\ DlrRelease(d)
    /\ UNCHANGED faults

(* The ways processWebhook ends: the row of the callback is marked, its    *)
(* event is done.                                                          *)
Processed(d, reason) ==
    LET c == dlrWorker[d].cb IN
    /\ hook' = [hook EXCEPT ![c].processed = TRUE, ![c].reason = reason]
    /\ dlrPending' = dlrPending \ {c}
    /\ DlrRelease(d)
    /\ UNCHANGED faults

(* A plausible slip: the callback is marked without the hand-over.         *)
ReconciledSilently(d, reason) ==
    /\ Processed(d, reason)
    /\ UNCHANGED <<row, ledger, recon>>

Reconciled(d, reason) ==
    /\ Processed(d, reason)
    /\ recon' = recon \cup {[callback |-> dlrWorker[d].cb, reason |-> reason]}
    /\ UNCHANGED <<row, ledger>>

Settling(d, status) ==
    dlrWorker[d].pc = "settle" /\ dlrWorker[d].hook.status = status

DlrUnmatched(d) ==
    /\ dlrWorker[d].pc = "unmatched"
    /\ Reconciled(d, "message_not_found")

DlrUnknown(d) ==
    /\ Settling(d, "unknown")
    /\ Reconciled(d, "unknown_status")

DlrDuplicate(d) ==
    /\ \E s \in {"delivered", "failed"} :
          Settling(d, s) /\ dlrWorker[d].seen.status = s
    /\ Processed(d, "duplicate")
    /\ UNCHANGED <<row, ledger, recon>>

DlrInvalid(d) ==
    \/ /\ Settling(d, "delivered")
       /\ dlrWorker[d].seen.status \notin {"delivered", "provider_accepted"}
       /\ Reconciled(d, "invalid_delivered")
    \/ /\ Settling(d, "failed")
       /\ dlrWorker[d].seen.status \notin {"failed", "provider_accepted", "submitting"}
       /\ Reconciled(d, "invalid_failed")

DlrDelivered(d) ==
    LET m == dlrWorker[d].message  seen == dlrWorker[d].seen IN
    /\ Settling(d, "delivered") /\ seen.status = "provider_accepted"
    /\ TransitionMessage(m, seen, "delivered", row[m])
    /\ Processed(d, "applied")
    /\ UNCHANGED <<ledger, recon>>

(* A plausible slip: billing_state is 'released' whatever it was.          *)
FailedRowRefunded(r) == [r EXCEPT !.error = "dlr_failed", !.billing = "released"]

(* Money goes back only if it is still reserved in the row that was read.  *)
FailedRow(r) ==
    [r EXCEPT !.error = "dlr_failed",
              !.billing = IF r.billing = "reserved" THEN "released" ELSE @]

DlrFailed(d) ==
    LET m == dlrWorker[d].message  seen == dlrWorker[d].seen IN
    /\ Settling(d, "failed") /\ seen.status \in {"provider_accepted", "submitting"}
    /\ TransitionMessage(m, seen, "failed", FailedRow(row[m]))
    /\ IF seen.billing = "reserved" THEN ApplyWalletLedger(m, "release", "dlr")
                                    ELSE UNCHANGED ledger
    /\ Processed(d, "applied")
    /\ UNCHANGED recon

DlrConflict(d) ==
    /\ \/ Settling(d, "delivered") /\ dlrWorker[d].seen.status = "provider_accepted"
       \/ Settling(d, "failed")
             /\ dlrWorker[d].seen.status \in {"provider_accepted", "submitting"}
    /\ ~CasMatches(dlrWorker[d].message, dlrWorker[d].seen)
    /\ DlrRelease(d)
    /\ UNCHANGED <<hook, dlrPending, recon, faults>>

-----------------------------------------------------------------------------
DlrFail(d) ==
    /\ dlrWorker[d].pc # "idle"
    /\ faults < MaxFaults /\ faults' = faults + 1
    /\ DlrRelease(d)
    /\ UNCHANGED <<hook, dlrPending, recon>>

DlrRepublish(c) ==
    /\ hook[c] # NoHook /\ c \notin dlrPending
    /\ faults < MaxFaults /\ faults' = faults + 1
    /\ dlrPending' = dlrPending \cup {c}
    /\ UNCHANGED <<hook, dlrWorker, recon>>

DlrGiveUp(c) ==
    /\ c \in dlrPending
    /\ faults < MaxFaults /\ faults' = faults + 1
    /\ dlrPending' = dlrPending \ {c}
    /\ UNCHANGED <<hook, dlrWorker, recon>>

-----------------------------------------------------------------------------
DlrInit ==
    /\ hook = [c \in Callbacks |-> NoHook]
    /\ dlrPending = {} /\ recon = {}
    /\ dlrWorker = [d \in DlrWorkers |-> DlrIdle]

(* Steps on the callbacks alone, and steps that settle a message too.      *)
DlrLookup ==
    \/ \E d \in DlrWorkers : \/ \E c \in dlrPending : ReadWebhook(d, c) \/ SkipProcessed(d, c)
                             \/ Correlate(d) \/ DlrConflict(d) \/ DlrFail(d)
    \/ \E c \in Callbacks : DlrRepublish(c) \/ DlrGiveUp(c)

DlrSettle(d) ==
    \/ DlrUnmatched(d) \/ DlrUnknown(d) \/ DlrDuplicate(d) \/ DlrInvalid(d)
    \/ DlrDelivered(d) \/ DlrFailed(d)

DlrNext ==
    \/ \E c \in Callbacks : AcceptWebhook(c) /\ UNCHANGED wfVars
    \/ DlrLookup /\ UNCHANGED <<row, ledger, outbox, pending, worker, taken>>
    \/ \E d \in DlrWorkers : DlrSettle(d) /\ UNCHANGED <<outbox, pending, worker, taken>>
=============================================================================
