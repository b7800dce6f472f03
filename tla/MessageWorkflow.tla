-------------------------- MODULE MessageWorkflow --------------------------
(***************************************************************************)
(* Submission of a message and the five Kafka consumers of                 *)
(* MessageWorkflowService that take it to a carrier.  A handler reads the  *)
(* row outside any transaction, decides, and then writes in a transaction  *)
(* of its own; dispatch has two transactions with the call to the carrier  *)
(* between them.  Each of those is a step here, so handlers of the same    *)
(* message interleave as they do in three worker-dispatch replicas.        *)
(*                                                                         *)
(* Everything that can go wrong around a handler draws on one budget,      *)
(* MaxFaults: an exception or a crash before the commit, a rebalance that  *)
(* starts a second consumer on an event, a second publication by the       *)
(* outbox relay, an event the relay gave up on.  MaxFaults = 0 is the      *)
(* undisturbed system.                                                     *)
(***************************************************************************)
EXTENDS MessageStore

CONSTANTS
    Workers,       \* concurrent handler invocations of worker-dispatch
    MaxAttempts,   \* RetryPolicy.maxAttempts
    MaxFaults,     \* bound on disturbances
    MaxVersion,    \* bound: no fraud throttle past this row version
    Verdicts       \* what FraudService.evaluate may answer

ASSUME BoundAssumption ==
    MaxAttempts \in Nat \ {0} /\ MaxFaults \in Nat /\ MaxVersion \in Nat
ASSUME VerdictAssumption == Verdicts \subseteq {"allow", "throttle", "block"}

VARIABLES
    outbox,    \* every event ever enqueued (committed outbox_events rows)
    pending,   \* those some consumer group still has to get through
    worker,    \* what each handler invocation is doing
    taken,     \* external: attempts the carriers took, [message, ver, provider]
    faults     \* disturbances so far

flowVars == <<outbox, pending, worker, taken, faults>>
wfVars   == <<row, ledger, outbox, pending, worker, taken, faults>>

-----------------------------------------------------------------------------
Topics == {"accepted", "dispatch", "retry", "result", "reconcile"}

(* A dispatch result, as the result handler tells outcomes apart: "retry"  *)
(* is an error code the retry policy lists, "reject" any other error.      *)
Outcomes == {"accept", "retry", "reject", "uncertain"}

Event == [ topic : Topics, message : Messages, ver : Nat, provider : Providers,
           outcome : Outcomes \cup {"none"}, pmid : Nat ]

Ev(topic, m, ver, p) ==
    [ topic |-> topic, message |-> m, ver |-> ver, provider |-> p,
      outcome |-> "none", pmid |-> NoId ]

(* dedupe_key is made of a word, the message and a row version; the two    *)
(* words a topic may have (dispatch and retry-dispatch, retry and          *)
(* fraud-throttle) never meet at one version.                              *)
SameKey(e, f) == e.topic = f.topic /\ e.message = f.message /\ e.ver = f.ver

Fresh(e) == ~ \E f \in outbox : SameKey(e, f)

(* Enqueue e (ON CONFLICT DO NOTHING) in the transaction that finishes the *)
(* handler of d.                                                           *)
FinishAndEnqueue(d, e) ==
    IF Fresh(e) THEN /\ outbox'  = outbox \cup {e}
                     /\ pending' = (pending \ {d}) \cup {e}
                ELSE /\ pending' = pending \ {d}
                     /\ UNCHANGED outbox

Finish(d) == pending' = pending \ {d} /\ UNCHANGED outbox

-----------------------------------------------------------------------------
Idle == [pc |-> "idle"]

(* A handler between its read of the row and the end of its last           *)
(* transaction: pc is the topic it handles, or where in dispatch it is.    *)
Busy == [ pc : {"accepted", "retry", "dispatch", "result", "call", "called"},
          ev : Event, seen : Row, ver : Nat,
          outcome : Outcomes \cup {"none"}, pmid : Nat ]

Handling(e, r) == [ pc |-> e.topic, ev |-> e, seen |-> r, ver |-> 0,
                    outcome |-> "none", pmid |-> NoId ]

Release(w) == worker' = [worker EXCEPT ![w] = Idle]

(* A plausible slip: the retry consumer waits for 'routed'.                *)
HandlesRetryOfRouted == [ accepted |-> {"accepted"},
                          dispatch |-> {"routed", "submitting"},
                          retry    |-> {"routed"},
                          result   |-> {"submitting"} ]

(* The statuses in which the handler of a topic goes on.                   *)
Handles == [ accepted |-> {"accepted"},
             dispatch |-> {"routed", "submitting"},
             retry    |-> {"submitting"},
             result   |-> {"submitting"} ]

(* The INSERT of submitMessageWithContext.                                 *)
InsertedRow(p) ==
    [NoRow EXCEPT !.status = "accepted", !.billing = "reserved", !.provider = p]

(* The transaction of submitMessageWithContext for a key not seen before.  *)
(* A wallet without funds aborts it, which leaves no trace.                *)
Submit(m) ==
    /\ row[m] = NoRow
    /\ \E p \in Providers :
          /\ row' = [row EXCEPT ![m] = InsertedRow(p)]
          /\ outbox'  = outbox  \cup {Ev("accepted", m, 0, p)}
          /\ pending' = pending \cup {Ev("accepted", m, 0, p)}
    /\ ApplyWalletLedger(m, "reserve", "submit")
    /\ UNCHANGED <<worker, taken, faults>>

-----------------------------------------------------------------------------
(* The first read of every handler.  The events of a message share a       *)
(* partition (its key is the tenant), and one invocation consumes it at a  *)
(* time unless a rebalance interferes.                                     *)
InProgress(e) ==
    \E v \in Workers : /\ worker[v].pc # "idle"
                       /\ worker[v].ev.topic = e.topic
                       /\ worker[v].ev.message = e.message

Start(w, e) ==
    /\ worker[w].pc = "idle"
    /\ e \in pending /\ e.topic # "reconcile"
    /\ row[e.message].status \in Handles[e.topic]
    /\ \/ ~InProgress(e) /\ UNCHANGED faults
       \/ InProgress(e) /\ faults < MaxFaults /\ faults' = faults + 1
    /\ worker' = [worker EXCEPT ![w] = Handling(e, row[e.message])]
    /\ UNCHANGED <<row, ledger, outbox, pending, taken>>

(* `if (message.status ...) return;`                                       *)
Skip(w, e) ==
    /\ worker[w].pc = "idle"
    /\ e \in pending /\ e.topic # "reconcile"
    /\ row[e.message].status \notin Handles[e.topic]
    /\ ~InProgress(e)
    /\ Finish(e)
    /\ UNCHANGED <<row, ledger, worker, taken, faults>>

(* 'Message version conflict': the transaction rolls back and the event is *)
(* delivered again.                                                        *)
Conflict(w) ==
    /\ worker[w].pc \in {"accepted", "dispatch", "result"}
    /\ ~CasMatches(worker[w].ev.message, worker[w].seen)
    /\ Release(w)
    /\ UNCHANGED <<row, ledger, outbox, pending, taken, faults>>

RoutedRow(r, p) == [r EXCEPT !.provider = p, !.error = "none"]

HandleAccepted(w) ==
    LET e == worker[w].ev  m == e.message IN
    /\ worker[w].pc = "accepted"
    /\ \E p \in Providers :
          /\ TransitionMessage(m, worker[w].seen, "routed", RoutedRow(row[m], p))
          /\ FinishAndEnqueue(e, Ev("dispatch", m, row[m].version + 1, p))
    /\ Release(w)
    /\ UNCHANGED <<ledger, taken, faults>>

(* No compare-and-set here: the row is only read.                          *)
HandleRetry(w) ==
    LET e == worker[w].ev  seen == worker[w].seen IN
    /\ worker[w].pc = "retry"
    /\ FinishAndEnqueue(e, Ev("dispatch", e.message, seen.version, seen.provider))
    /\ Release(w)
    /\ UNCHANGED <<row, ledger, taken, faults>>

-----------------------------------------------------------------------------
(* handleDispatch.  The evaluation of the fraud rules picks one of three   *)
(* branches; payload.version is never compared with the row's.             *)

(* The row after the first transaction of an attempt.                      *)
AttemptRow(r) ==
    [r EXCEPT !.status = "submitting", !.attempt = r.attempt + 1]

BeginAttempt(w) ==
    LET m == worker[w].ev.message  seen == worker[w].seen IN
    /\ worker[w].pc = "dispatch" /\ "allow" \in Verdicts
    /\ IF seen.status = "routed"
         THEN TransitionMessage(m, seen, "submitting", AttemptRow(row[m]))
         ELSE PatchMessage(m, seen, AttemptRow(row[m]))
    /\ worker' = [worker EXCEPT ![w].pc = "call", ![w].ver = row[m].version + 1]
    /\ UNCHANGED <<ledger, outbox, pending, taken, faults>>

(* 'throttle': patch the row and publish a retry 30 s ahead.               *)
FraudThrottle(w) ==
    LET e == worker[w].ev  m == e.message IN
    /\ worker[w].pc = "dispatch" /\ "throttle" \in Verdicts
    /\ row[m].version < MaxVersion
    /\ PatchMessage(m, worker[w].seen, [row[m] EXCEPT !.error = "dispatch"])
    /\ FinishAndEnqueue(e, Ev("retry", m, row[m].version + 1, e.provider))
    /\ Release(w)
    /\ UNCHANGED <<ledger, taken, faults>>

(* 'block': submitting (or a bare patch) and then failed, both in one      *)
(* transaction.                                                            *)
BlockImages(r) ==
    LET first  == IF r.status = "routed" THEN Moved(AttemptRow(r), "submitting") ELSE r
        second == [Moved(first, "failed") EXCEPT !.billing = "released",
                                                 !.error = "dispatch"]
    IN <<r, [first EXCEPT !.version = r.version + 1],
            [second EXCEPT !.version = r.version + 2]>>

(* The trigger decides; a refusal rolls everything back and the event is   *)
(* delivered again.                                                        *)
FraudBlock(w) ==
    LET e == worker[w].ev  m == e.message IN
    /\ worker[w].pc = "dispatch" /\ "block" \in Verdicts
    /\ CasMatches(m, worker[w].seen)
    /\ IF TriggerAccepts(BlockImages(row[m]))
         THEN /\ row' = [row EXCEPT ![m] = BlockImages(row[m])[3]]
              /\ ApplyWalletLedger(m, "release", "fraud")
              /\ Finish(e)
         ELSE UNCHANGED <<row, ledger, outbox, pending>>
    /\ Release(w)
    /\ UNCHANGED <<taken, faults>>

(* The call to the carrier.  A carrier that answers "accept" took the      *)
(* message and named it or not; behind every other answer it may have.     *)
CallProvider(w) ==
    LET e == worker[w].ev
        t == [message |-> e.message, ver |-> worker[w].ver, provider |-> e.provider]
    IN
    /\ worker[w].pc = "call"
    /\ \/ \E id \in {NoId, worker[w].ver} :
             /\ taken' = taken \cup {t}
             /\ worker' = [worker EXCEPT ![w].pc = "called",
                              ![w].outcome = "accept", ![w].pmid = id]
       \/ \E o \in {"retry", "reject", "uncertain"} :
             /\ taken' = taken \/ taken' = taken \cup {t}
             /\ worker' = [worker EXCEPT ![w].pc = "called", ![w].outcome = o]
    /\ UNCHANGED <<row, ledger, outbox, pending, faults>>

(* A plausible slip: whatever came back without an exception was accepted. *)
ResultEventOptimistic(w) ==
    [Ev("result", worker[w].ev.message, worker[w].ver, worker[w].ev.provider)
        EXCEPT !.outcome = "accept", !.pmid = worker[w].pmid]

ResultEvent(w) ==
    [Ev("result", worker[w].ev.message, worker[w].ver, worker[w].ev.provider)
        EXCEPT !.outcome = worker[w].outcome, !.pmid = worker[w].pmid]

ReportResult(w) ==
    /\ worker[w].pc = "called"
    /\ FinishAndEnqueue(worker[w].ev, ResultEvent(w))
    /\ Release(w)
    /\ UNCHANGED <<row, ledger, taken, faults>>

-----------------------------------------------------------------------------
(* handleDispatchResult: the four ways on from a result.                   *)

ResultAccepted(w) ==
    LET e == worker[w].ev  m == e.message IN
    /\ worker[w].pc = "result" /\ e.outcome = "accept"
    /\ TransitionMessage(m, worker[w].seen, "provider_accepted",
                         [row[m] EXCEPT !.pmid = e.pmid, !.error = "none"])
    /\ ApplyWalletLedger(m, "debit", "ack")
    /\ Finish(e)
    /\ Release(w)
    /\ UNCHANGED <<taken, faults>>

ResultUncertain(w) ==
    LET e == worker[w].ev  m == e.message IN
    /\ worker[w].pc = "result" /\ e.outcome = "uncertain"
    /\ PatchMessage(m, worker[w].seen, [row[m] EXCEPT !.error = "dispatch"])
    /\ FinishAndEnqueue(e, Ev("reconcile", m, row[m].version + 1, row[m].provider))
    /\ Release(w)
    /\ UNCHANGED <<ledger, taken, faults>>

(* A plausible slip: <= for <.                                             *)
ShouldRetryOnceMore(e, seen) == e.outcome = "retry" /\ seen.attempt <= MaxAttempts

ShouldRetry(e, seen) == e.outcome = "retry" /\ seen.attempt < MaxAttempts

(* A retry may be rerouted: selectRoute without the carrier and the rule   *)
(* that failed, or the same carrier when no other route is left.           *)
ResultRetry(w) ==
    LET e == worker[w].ev  m == e.message IN
    /\ worker[w].pc = "result" /\ ShouldRetry(e, worker[w].seen)
    /\ \E p \in Providers :
          /\ PatchMessage(m, worker[w].seen,
                          [row[m] EXCEPT !.provider = p, !.error = "dispatch"])
          /\ FinishAndEnqueue(e, Ev("retry", m, row[m].version + 1, p))
    /\ Release(w)
    /\ UNCHANGED <<ledger, taken, faults>>

ResultFailed(w) ==
    LET e == worker[w].ev  m == e.message IN
    /\ worker[w].pc = "result"
    /\ e.outcome \in {"retry", "reject"} /\ ~ShouldRetry(e, worker[w].seen)
    /\ TransitionMessage(m, worker[w].seen, "failed",
                         [row[m] EXCEPT !.billing = "released", !.error = "dispatch"])
    /\ ApplyWalletLedger(m, "release", "final")
    /\ Finish(e)
    /\ Release(w)
    /\ UNCHANGED <<taken, faults>>

-----------------------------------------------------------------------------
(* Disturbances.                                                           *)

(* A handler stops before its next commit: no route, a wallet that refuses *)
(* the posting, a lost connection, a killed process.  The offset is not    *)
(* committed, so the event is delivered again.                             *)
Fail(w) ==
    /\ worker[w].pc # "idle"
    /\ faults < MaxFaults /\ faults' = faults + 1
    /\ Release(w)
    /\ UNCHANGED <<row, ledger, outbox, pending, taken>>

(* The relay publishes an event again, or a consumer's offset is lost.     *)
Republish(e) ==
    /\ e \in outbox \ pending /\ e.topic # "reconcile"
    /\ faults < MaxFaults /\ faults' = faults + 1
    /\ pending' = pending \cup {e}
    /\ UNCHANGED <<row, ledger, outbox, worker, taken>>

(* The relay marks an event 'failed' after its last retry.                 *)
GiveUp(e) ==
    /\ e \in pending /\ ~InProgress(e)
    /\ faults < MaxFaults /\ faults' = faults + 1
    /\ pending' = pending \ {e}
    /\ UNCHANGED <<row, ledger, outbox, worker, taken>>

-----------------------------------------------------------------------------
WorkerStep(w) ==
    \/ \E e \in pending : Start(w, e) \/ Skip(w, e)
    \/ Conflict(w)
    \/ HandleAccepted(w) \/ HandleRetry(w)
    \/ BeginAttempt(w) \/ FraudThrottle(w) \/ FraudBlock(w)
    \/ CallProvider(w) \/ ReportResult(w)
    \/ ResultAccepted(w) \/ ResultUncertain(w) \/ ResultRetry(w) \/ ResultFailed(w)

Disturbance ==
    \/ \E w \in Workers : Fail(w)
    \/ \E e \in outbox : Republish(e)
    \/ \E e \in pending : GiveUp(e)

WfInit ==
    /\ StoreInit
    /\ outbox = {} /\ pending = {} /\ taken = {} /\ faults = 0
    /\ worker = [w \in Workers |-> Idle]

WfNext ==
    \/ \E m \in Messages : Submit(m)
    \/ \E w \in Workers : WorkerStep(w)
    \/ Disturbance
=============================================================================
