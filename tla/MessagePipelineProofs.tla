----------------------- MODULE MessagePipelineProofs -----------------------
(***************************************************************************)
(* Theorems about MessagePipeline for any messages, carriers, workers,     *)
(* callbacks and bounds.                                                   *)
(***************************************************************************)
EXTENDS MessagePipeline, FiniteSetTheorems, TLAPS

-----------------------------------------------------------------------------
(* The inductive invariant.  The compare-and-set compares status and       *)
(* version only, so a handler that decides on another column of the row it *)
(* read - processWebhook on billing_state - is safe only because status    *)
(* determines that column.                                                 *)

RowShape(r) ==
    /\ r.status \in {"accepted", "routed", "submitting"} => r.billing = "reserved" /\ ~r.sent
    /\ r.status \in {"provider_accepted", "delivered"}   => r.billing = "debited" /\ r.sent
    /\ r.status = "failed" => r.billing = IF r.sent THEN "debited" ELSE "released"
    /\ r.status = "none" => ~r.sent
    /\ r.pmid # NoId => r.sent

RowShapes == \A m \in Messages : RowShape(row[m])

(* A handler works on a row in one of its own statuses.                    *)
HandlersRead ==
    \A w \in Workers :
        LET b == worker[w] IN
        /\ b.pc \in DOMAIN Handles => b.ev.topic = b.pc /\ b.seen.status \in Handles[b.pc]
        /\ b.pc \in {"call", "called"} => b.ver # NoId
        /\ b.pc # "idle" => b.ev \in outbox

(* Behind every acknowledgement under way there is a carrier's.            *)
IsTaken(m) == \E t \in taken : t.message = m

AcceptTraced ==
    /\ \A e \in outbox : e.outcome = "accept" => IsTaken(e.message)
    /\ \A w \in Workers : worker[w].pc = "called" /\ worker[w].outcome = "accept" =>
          IsTaken(worker[w].ev.message)
    /\ \A x \in ledger : x.op = "debit" => IsTaken(x.message)

(* The rows reports find.                                                  *)
ReportsRead ==
    /\ \A d \in DlrWorkers : dlrWorker[d].pc = "settle" =>
          RowShape(dlrWorker[d].seen) /\ dlrWorker[d].seen.sent
    /\ \A x \in ledger : x.reason # "dlr"

HooksStored ==
    /\ \A c \in dlrPending : hook[c] \in Hook
    /\ \A d \in DlrWorkers : dlrWorker[d].pc # "idle" => hook[dlrWorker[d].cb] \in Hook

(* The invariant in three parts, by the state each is about.               *)
RowInv ==
    /\ row \in [Messages -> Row \cup {NoRow}]
    /\ ledger \subseteq LedgerEntries
    /\ RowShapes /\ LedgerMatchesBilling

FlowInv ==
    /\ outbox \subseteq Event /\ pending \subseteq outbox
    /\ worker \in [Workers -> Busy \cup {Idle}]
    /\ taken \subseteq Submission
    /\ HandlersRead /\ AcceptTraced

HookInv ==
    /\ hook \in [Callbacks -> Hook \cup {NoHook}]
    /\ dlrPending \subseteq Callbacks
    /\ dlrWorker \in [DlrWorkers -> DlrReading \cup DlrSettling \cup {DlrIdle}]
    /\ recon \subseteq [callback : Callbacks, reason : Reasons]
    /\ ReportsRead /\ HooksStored /\ NoReportVanishes

IInv == RowInv /\ FlowInv /\ HookInv /\ faults \in Nat

-----------------------------------------------------------------------------
(* A handler that is not idle is a record with all the fields.             *)
LEMMA BusyWorker ==
    ASSUME FlowInv, NEW w \in Workers, worker[w].pc # "idle"
    PROVE  worker[w] \in Busy
  BY DEF FlowInv, Idle

LEMMA BusyFields ==
    ASSUME NEW b \in Busy
    PROVE  /\ b.pc \in {"accepted", "retry", "dispatch", "result", "call", "called"}
           /\ b.ev \in Event /\ b.seen \in Row /\ b.ver \in Nat
           /\ b.outcome \in Outcomes \cup {"none"} /\ b.pmid \in Nat
           /\ b.ev.message \in Messages /\ b.ev.provider \in Providers
           /\ b.ev.ver \in Nat /\ b.ev.pmid \in Nat /\ b.ev.topic \in Topics
           /\ b.ev.outcome \in Outcomes \cup {"none"}
  BY DEF Busy, Event

(* The version a patch writes.                                             *)
LEMMA NextVersion ==
    ASSUME NEW r \in Row
    PROVE  r.version + 1 \in Nat
  BY DEF Row

(* Compare-and-set succeeds only on a row that was there when it was read, *)
(* and writes what it was given, one version ahead.                        *)
LEMMA CompareAndSetFacts ==
    ASSUME row \in [Messages -> Row \cup {NoRow}],
           NEW m \in Messages, NEW seen \in Row, NEW new,
           CompareAndSet(m, seen, new)
    PROVE  /\ row[m] \in Row
           /\ row[m].status = seen.status /\ row[m].version = seen.version
           /\ row' = [row EXCEPT ![m] = [new EXCEPT !.version = row[m].version + 1]]
  <1>1. row[m].status = seen.status /\ row[m].version = seen.version
    BY DEF CompareAndSet, CasMatches
  <1>2. seen.status # "none"
    BY DEF Row, Statuses
  <1>3. row[m] \in Row
    BY <1>1, <1>2 DEF NoRow
  <1> QED
    BY <1>1, <1>3 DEF CompareAndSet

(* An event built by Ev has the type of events.                            *)
LEMMA EvType ==
    ASSUME NEW t \in Topics, NEW m \in Messages, NEW v \in Nat, NEW p \in Providers
    PROVE  Ev(t, m, v, p) \in Event /\ Ev(t, m, v, p).outcome = "none"
  BY DEF Ev, Event, NoId

(* A posting is a ledger entry, and moves the ledger of its message only.  *)
LEMMA PostingType ==
    ASSUME NEW m \in Messages, NEW op, NEW reason,
           <<op, reason>> \in {<<"reserve", "submit">>, <<"debit", "ack">>,
                               <<"release", "final">>, <<"release", "fraud">>,
                               <<"release", "dlr">>}
    PROVE  /\ Posting(m, op, reason) \subseteq LedgerEntries
           /\ \A x \in Posting(m, op, reason) :
                 x.message = m /\ x.op = op /\ x.reason = reason
  BY DEF Posting, LedgerEntries

LEMMA PostingPosted ==
    ASSUME NEW m \in Messages, NEW op, NEW reason,
           ApplyWalletLedger(m, op, reason)
    PROVE  \A n \in Priced, o \in {"reserve", "debit", "release"} :
              Posted(n, o)' = Posted(n, o) \cup
                 IF n = m /\ o = op THEN {[message |-> m, op |-> op, reason |-> reason]}
                                    ELSE {}
  BY DEF ApplyWalletLedger, Posting, Posted

(* A transaction that updates a row twice is refused.                      *)
LEMMA BlockRefused ==
    ASSUME NEW r
    PROVE  ~TriggerAccepts(BlockImages(r))
  BY DEF TriggerAccepts, BlockImages

-----------------------------------------------------------------------------
(* Frames: what a part of the invariant does not mention may change.       *)
LEMMA RowFrame ==
    ASSUME RowInv, UNCHANGED <<row, ledger>>
    PROVE  RowInv'
  BY DEF RowInv, RowShapes, LedgerMatchesBilling, Posted

LEMMA FlowFrame ==
    ASSUME FlowInv, UNCHANGED <<outbox, pending, worker, taken>>,
           \A x \in ledger' : x \in ledger \/ x.op # "debit"
    PROVE  FlowInv'
  BY DEF FlowInv, HandlersRead, AcceptTraced, IsTaken

LEMMA HookFrame ==
    ASSUME HookInv, UNCHANGED dlrVars,
           \A x \in ledger' : x \in ledger \/ x.reason # "dlr"
    PROVE  HookInv'
  BY DEF HookInv, dlrVars, ReportsRead, HooksStored, NoReportVanishes

-----------------------------------------------------------------------------
(* The rows and the ledger, by what an update does to the money.           *)

(* An update of one row that leaves its money where it is.                 *)
LEMMA RowKeepsMoney ==
    ASSUME RowInv, NEW m \in Messages, NEW new \in Row,
           row' = [row EXCEPT ![m] = [new EXCEPT !.version = row[m].version + 1]],
           row[m] \in Row, RowShape(new), new.billing = row[m].billing,
           UNCHANGED ledger
    PROVE  RowInv'
  <1>1. [new EXCEPT !.version = row[m].version + 1] \in Row
    BY DEF Row
  <1>2. row' \in [Messages -> Row \cup {NoRow}]
    BY <1>1 DEF RowInv
  <1>3. row'[m].billing = row[m].billing /\ RowShape(row'[m])
    BY DEF RowInv, Row, RowShape
  <1>4. RowShapes'
    BY <1>3 DEF RowInv, RowShapes, RowShape
  <1>5. \A n \in Messages : row'[n].billing = row[n].billing
    BY <1>3 DEF RowInv
  <1>6. LedgerMatchesBilling'
    BY <1>5, PricedAssumption DEF RowInv, LedgerMatchesBilling, Posted
  <1> QED
    BY <1>2, <1>4, <1>6 DEF RowInv

(* An update that takes or returns a reservation, with its posting.        *)
LEMMA RowMovesMoney ==
    ASSUME RowInv, NEW m \in Messages, NEW new \in Row, NEW op, NEW reason,
           row' = [row EXCEPT ![m] = [new EXCEPT !.version = row[m].version + 1]],
           row[m] \in Row, RowShape(new), row[m].billing = "reserved",
           \/ op = "debit" /\ reason = "ack" /\ new.billing = "debited"
           \/ op = "release" /\ reason \in {"final", "fraud", "dlr"} /\ new.billing = "released",
           ApplyWalletLedger(m, op, reason)
    PROVE  RowInv'
  <1>1. [new EXCEPT !.version = row[m].version + 1] \in Row
    BY DEF Row
  <1>2. row' \in [Messages -> Row \cup {NoRow}]
    BY <1>1 DEF RowInv
  <1>3. row'[m].billing = new.billing /\ RowShape(row'[m])
    BY DEF RowInv, Row, RowShape
  <1>4. RowShapes'
    BY <1>3 DEF RowInv, RowShapes, RowShape
  <1>5. \A n \in Messages : n # m => row'[n] = row[n]
    BY DEF RowInv
  <1>6. \A n \in Priced, o \in {"reserve", "debit", "release"} :
           Posted(n, o)' = Posted(n, o) \cup
              IF n = m /\ o = op THEN {[message |-> m, op |-> op, reason |-> reason]}
                                 ELSE {}
    BY PostingPosted
  <1>7. LedgerMatchesBilling'
    <2> SUFFICES ASSUME NEW n \in Priced
                 PROVE  LET billing == row'[n].billing IN
                        /\ (Posted(n, "reserve")' # {}) <=> (billing # "pending")
                        /\ (Posted(n, "debit")'   # {}) <=> (billing = "debited")
                        /\ (Posted(n, "release")' # {}) <=> (billing = "released")
                        /\ \A x, y \in Posted(n, "release")' : x = y
      BY DEF LedgerMatchesBilling
    <2>1. /\ (Posted(n, "reserve") # {}) <=> (row[n].billing # "pending")
          /\ (Posted(n, "debit")   # {}) <=> (row[n].billing = "debited")
          /\ (Posted(n, "release") # {}) <=> (row[n].billing = "released")
          /\ \A x, y \in Posted(n, "release") : x = y
      BY DEF RowInv, LedgerMatchesBilling
    <2>2. CASE n = m
      BY <2>1, <2>2, <1>3, <1>6
    <2>3. CASE n # m
      BY <2>1, <2>3, <1>5, <1>6, PricedAssumption
    <2> QED BY <2>2, <2>3
  <1>8. ledger' \subseteq LedgerEntries
    BY PostingType DEF RowInv, ApplyWalletLedger
  <1> QED
    BY <1>2, <1>4, <1>7, <1>8 DEF RowInv

-----------------------------------------------------------------------------
(* The consumers' part.                                                    *)

(* A handler that ends, in any of the ways it can.                         *)
LEMMA FlowReleased ==
    ASSUME FlowInv, NEW w \in Workers, Release(w),
           taken \subseteq taken', taken' \subseteq Submission,
           outbox \subseteq outbox', outbox' \subseteq Event, pending' \subseteq outbox',
           \A e \in outbox' : e \in outbox \/ (e.outcome = "accept" => IsTaken(e.message)),
           \A x \in ledger' : x \in ledger \/ (x.op = "debit" => IsTaken(x.message))
    PROVE  FlowInv'
  <1>1. worker' \in [Workers -> Busy \cup {Idle}]
    BY DEF FlowInv, Release
  <1>2. \A v \in Workers : worker'[v] = worker[v] \/ worker'[v].pc = "idle"
    BY DEF FlowInv, Release, Idle
  <1>3. HandlersRead'
    BY <1>2 DEF FlowInv, HandlersRead, Handles
  <1>4. AcceptTraced'
    BY <1>2 DEF FlowInv, AcceptTraced, IsTaken
  <1> QED
    BY <1>1, <1>3, <1>4 DEF FlowInv

(* A handler that starts or goes on.                                       *)
LEMMA FlowBusy ==
    ASSUME FlowInv, NEW w \in Workers, NEW b \in Busy,
           worker' = [worker EXCEPT ![w] = b],
           taken \subseteq taken', taken' \subseteq Submission,
           UNCHANGED <<outbox, pending, ledger>>,
           b.pc \in DOMAIN Handles => b.ev.topic = b.pc /\ b.seen.status \in Handles[b.pc],
           b.pc \in {"call", "called"} => b.ver # NoId,
           b.ev \in outbox,
           b.pc = "called" /\ b.outcome = "accept" =>
              \E t \in taken' : t.message = b.ev.message
    PROVE  FlowInv'
  <1>1. worker' \in [Workers -> Busy \cup {Idle}]
    BY DEF FlowInv
  <1>2. \A v \in Workers : worker'[v] = IF v = w THEN b ELSE worker[v]
    BY DEF FlowInv
  <1>3. HandlersRead'
    BY <1>2 DEF FlowInv, HandlersRead
  <1>4. AcceptTraced'
    BY <1>2 DEF FlowInv, AcceptTraced, IsTaken
  <1> QED
    BY <1>1, <1>3, <1>4 DEF FlowInv

(* Events put back into or taken out of circulation.                       *)
LEMMA FlowPending ==
    ASSUME FlowInv, UNCHANGED <<outbox, worker, taken, ledger>>, pending' \subseteq outbox
    PROVE  FlowInv'
  BY DEF FlowInv, HandlersRead, AcceptTraced, IsTaken

(* Finishing an event, with or without enqueueing its successor.           *)
LEMMA FlowFinish ==
    ASSUME FlowInv, NEW w \in Workers, Release(w), UNCHANGED taken, NEW d, Finish(d),
           \A x \in ledger' : x \in ledger \/ (x.op = "debit" => IsTaken(x.message))
    PROVE  FlowInv'
  <1>1. outbox' = outbox /\ pending' \subseteq outbox
    BY DEF FlowInv, Finish
  <1>2. outbox \subseteq Event /\ taken \subseteq Submission
    BY DEF FlowInv
  <1> QED
    BY <1>1, <1>2, FlowReleased

LEMMA FlowEnqueue ==
    ASSUME FlowInv, NEW w \in Workers, Release(w), UNCHANGED taken, NEW d, NEW e \in Event,
           FinishAndEnqueue(d, e), e.outcome = "accept" => IsTaken(e.message),
           UNCHANGED ledger
    PROVE  FlowInv'
  <1>1. /\ outbox \subseteq outbox' /\ outbox' \subseteq outbox \cup {e}
        /\ pending' \subseteq outbox'
    BY DEF FlowInv, FinishAndEnqueue
  <1>2. outbox \subseteq Event /\ taken \subseteq Submission
    BY DEF FlowInv
  <1> QED
    BY <1>1, <1>2, FlowReleased

-----------------------------------------------------------------------------
(* The steps of MessageWorkflow.                                           *)

LEMMA SubmitInv ==
    ASSUME IInv, NEW m \in Messages, Submit(m), UNCHANGED dlrVars
    PROVE  IInv'
  <1> PICK p \in Providers :
         /\ row' = [row EXCEPT ![m] = InsertedRow(p)]
         /\ outbox'  = outbox  \cup {Ev("accepted", m, 0, p)}
         /\ pending' = pending \cup {Ev("accepted", m, 0, p)}
    BY DEF Submit
  <1>1. InsertedRow(p) \in Row /\ RowShape(InsertedRow(p)) /\ InsertedRow(p).billing = "reserved"
    BY DEF InsertedRow, NoRow, Row, RowShape, Statuses, BillingStates, Errors, NoId
  <1>2. RowInv'
    <2>1. row' \in [Messages -> Row \cup {NoRow}] /\ RowShapes'
      BY <1>1 DEF IInv, RowInv, RowShapes, RowShape
    <2>2. ledger' \subseteq LedgerEntries
      BY PostingType DEF IInv, RowInv, Submit, ApplyWalletLedger
    <2>3. LedgerMatchesBilling'
      <3>1. \A n \in Priced, o \in {"reserve", "debit", "release"} :
               Posted(n, o)' = Posted(n, o) \cup
                  IF n = m /\ o = "reserve"
                    THEN {[message |-> m, op |-> "reserve", reason |-> "submit"]} ELSE {}
        BY PostingPosted DEF Submit
      <3>2. row[m].billing = "pending"
        BY DEF Submit, NoRow
      <3>3. row'[m].billing = "reserved" /\ \A n \in Messages : n # m => row'[n] = row[n]
        BY <1>1 DEF IInv, RowInv
      <3> SUFFICES ASSUME NEW n \in Priced
                   PROVE  LET billing == row'[n].billing IN
                          /\ (Posted(n, "reserve")' # {}) <=> (billing # "pending")
                          /\ (Posted(n, "debit")'   # {}) <=> (billing = "debited")
                          /\ (Posted(n, "release")' # {}) <=> (billing = "released")
                          /\ \A x, y \in Posted(n, "release")' : x = y
        BY DEF LedgerMatchesBilling
      <3>4. /\ (Posted(n, "reserve") # {}) <=> (row[n].billing # "pending")
            /\ (Posted(n, "debit")   # {}) <=> (row[n].billing = "debited")
            /\ (Posted(n, "release") # {}) <=> (row[n].billing = "released")
            /\ \A x, y \in Posted(n, "release") : x = y
        BY DEF IInv, RowInv, LedgerMatchesBilling
      <3>5. CASE n = m
        BY <3>1, <3>2, <3>3, <3>4, <3>5
      <3>6. CASE n # m
        BY <3>1, <3>3, <3>4, <3>6, PricedAssumption
      <3> QED BY <3>5, <3>6
    <2> QED BY <2>1, <2>2, <2>3 DEF RowInv
  <1>3. \A x \in ledger' : x \in ledger \/ (x.op = "reserve" /\ x.reason = "submit")
    BY PostingType DEF Submit, ApplyWalletLedger
  <1>4. FlowInv'
    <2>1. Ev("accepted", m, 0, p) \in Event /\ Ev("accepted", m, 0, p).outcome = "none"
      BY EvType DEF Topics
    <2> QED
      BY <2>1, <1>3 DEF IInv, FlowInv, Submit, HandlersRead, AcceptTraced, IsTaken
  <1>5. HookInv'
    BY <1>3, HookFrame DEF IInv
  <1> QED
    BY <1>2, <1>4, <1>5 DEF IInv, Submit

LEMMA StartInv ==
    ASSUME IInv, NEW w \in Workers, NEW e \in pending, Start(w, e), UNCHANGED dlrVars
    PROVE  IInv'
  <1>1. e \in outbox /\ e \in Event /\ row[e.message] \in Row \cup {NoRow}
    BY DEF IInv, FlowInv, RowInv, Event
  <1>2. row[e.message] \in Row
    BY <1>1 DEF Start, Handles, NoRow, Event, Topics
  <1>3. e.topic \in DOMAIN Handles
    BY <1>1 DEF Start, Event, Topics, Handles
  <1>4. Handling(e, row[e.message]) \in Busy
    BY <1>1, <1>2, <1>3 DEF Handling, Busy, NoId, Handles
  <1>5. FlowInv'
    <2> DEFINE b == Handling(e, row[e.message])
    <2>1. b.pc = e.topic /\ b.ev = e /\ b.seen = row[e.message] /\ b.outcome = "none"
      BY DEF Handling
    <2>2. b.pc \notin {"call", "called"}
      BY <2>1, <1>3 DEF Handles
    <2>3. taken \subseteq Submission
      BY DEF IInv, FlowInv
    <2> HIDE DEF b
    <2> QED
      BY <2>1, <2>2, <2>3, <1>1, <1>4, FlowBusy DEF IInv, Start, b
  <1>6. RowInv' /\ HookInv'
    BY RowFrame, HookFrame DEF IInv, Start
  <1>7. faults' \in Nat
    BY DEF IInv, Start
  <1> QED
    BY <1>5, <1>6, <1>7 DEF IInv

LEMMA EventStepInv ==
    ASSUME IInv, UNCHANGED <<row, ledger, outbox, worker, taken>>, UNCHANGED dlrVars,
           pending' \subseteq outbox, faults' \in Nat
    PROVE  IInv'
  BY RowFrame, FlowPending, HookFrame DEF IInv

LEMMA StoppedInv ==
    ASSUME IInv, NEW w \in Workers, Release(w),
           UNCHANGED <<row, ledger, outbox, pending, taken>>, UNCHANGED dlrVars,
           faults' \in Nat
    PROVE  IInv'
  <1>1. FlowInv'
    <2>1. outbox \subseteq Event /\ pending \subseteq outbox /\ taken \subseteq Submission
      BY DEF IInv, FlowInv
    <2> QED
      BY <2>1, FlowReleased DEF IInv
  <1> QED
    BY <1>1, RowFrame, HookFrame DEF IInv

LEMMA SkipInv ==
    ASSUME IInv, NEW w \in Workers, NEW e \in pending, Skip(w, e), UNCHANGED dlrVars
    PROVE  IInv'
  <1>1. pending' \subseteq outbox /\ faults' \in Nat
    BY DEF IInv, FlowInv, Skip, Finish
  <1> QED
    BY <1>1, EventStepInv DEF Skip, Finish

(* What a handler that writes knows of the row it writes to.               *)
LEMMA HandlerFacts ==
    ASSUME IInv, NEW w \in Workers, worker[w].pc \in DOMAIN Handles
    PROVE  /\ worker[w] \in Busy
           /\ worker[w].ev \in Event /\ worker[w].ev \in outbox /\ worker[w].seen \in Row
           /\ worker[w].ev.message \in Messages /\ worker[w].ev.provider \in Providers
           /\ worker[w].ev.topic = worker[w].pc
           /\ worker[w].seen.status \in Handles[worker[w].pc]
           /\ RowShape(row[worker[w].ev.message])
           /\ row \in [Messages -> Row \cup {NoRow}]
  <1>1. worker[w].pc # "idle"
    BY DEF Handles
  <1>2. worker[w] \in Busy
    BY <1>1, BusyWorker DEF IInv
  <1>3. worker[w].ev.message \in Messages
    BY <1>2, BusyFields
  <1> QED
    BY <1>1, <1>2, <1>3, BusyFields DEF IInv, FlowInv, HandlersRead, RowInv, RowShapes

LEMMA HandleAcceptedInv ==
    ASSUME IInv, NEW w \in Workers, HandleAccepted(w), UNCHANGED dlrVars
    PROVE  IInv'
  <1> DEFINE e == worker[w].ev
             m == e.message
  <1>1. worker[w].pc = "accepted" /\ worker[w].pc \in DOMAIN Handles
    BY DEF HandleAccepted, Handles
  <1> PICK p \in Providers :
         /\ TransitionMessage(m, worker[w].seen, "routed", RoutedRow(row[m], p))
         /\ FinishAndEnqueue(e, Ev("dispatch", m, row[m].version + 1, p))
    BY DEF HandleAccepted
  <1>2. /\ m \in Messages /\ worker[w].seen \in Row /\ RowShape(row[m])
        /\ worker[w].seen.status = "accepted" /\ row \in [Messages -> Row \cup {NoRow}]
    BY <1>1, HandlerFacts DEF Handles
  <1> DEFINE new == Moved(RoutedRow(row[m], p), "routed")
  <1>3. /\ row[m] \in Row /\ row[m].status = "accepted"
        /\ row' = [row EXCEPT ![m] = [new EXCEPT !.version = row[m].version + 1]]
    <2>1. CompareAndSet(m, worker[w].seen, new)
      BY DEF TransitionMessage
    <2> HIDE DEF new, m, e
    <2> QED BY <1>2, <2>1, CompareAndSetFacts
  <1>4. new \in Row /\ RowShape(new) /\ new.billing = row[m].billing
    BY <1>2, <1>3 DEF Moved, RoutedRow, Row, RowShape, Statuses, Errors
  <1>5. RowInv'
    <2> HIDE DEF new, m, e
    <2> QED BY <1>2, <1>3, <1>4, RowKeepsMoney DEF IInv, HandleAccepted
  <1>6. FlowInv'
    <2>1. row[m].version + 1 \in Nat
      BY <1>3, NextVersion
    <2>2. /\ Ev("dispatch", m, row[m].version + 1, p) \in Event
          /\ Ev("dispatch", m, row[m].version + 1, p).outcome = "none"
      BY <1>2, <2>1, EvType DEF Topics
    <2> HIDE DEF m, e
    <2> QED BY <2>2, FlowEnqueue DEF IInv, HandleAccepted
  <1> QED
    BY <1>5, <1>6, HookFrame DEF IInv, HandleAccepted

LEMMA HandleRetryInv ==
    ASSUME IInv, NEW w \in Workers, HandleRetry(w), UNCHANGED dlrVars
    PROVE  IInv'
  <1> DEFINE e == worker[w].ev
             f == Ev("dispatch", e.message, worker[w].seen.version, worker[w].seen.provider)
  <1>1. worker[w].pc \in DOMAIN Handles
    BY DEF HandleRetry, Handles
  <1>2. e.message \in Messages /\ worker[w].seen \in Row
    BY <1>1, HandlerFacts
  <1>3. f \in Event /\ f.outcome = "none"
    BY <1>2, EvType DEF Topics, Row
  <1>4. FlowInv'
    <2> HIDE DEF f
    <2>1. FinishAndEnqueue(e, f)
      BY DEF HandleRetry, f
    <2> HIDE DEF e
    <2> QED BY <1>3, <2>1, FlowEnqueue DEF IInv, HandleRetry
  <1> QED
    BY <1>4, RowFrame, HookFrame DEF IInv, HandleRetry

(* The columns a transition sets by itself.                                *)
LEMMA MovedType ==
    ASSUME NEW r \in Row, NEW next \in Statuses
    PROVE  /\ Moved(r, next) \in Row
           /\ Moved(r, next).status = next
           /\ Moved(r, next).billing = IF next = "provider_accepted" THEN "debited"
                                                                    ELSE r.billing
           /\ Moved(r, next).sent <=> (r.sent \/ next = "provider_accepted")
           /\ Moved(r, next).pmid = r.pmid
           /\ Moved(r, next).error = r.error
           /\ Moved(r, next).attempt = r.attempt
           /\ Moved(r, next).provider = r.provider
  <1>1. r.sent \in BOOLEAN /\ r.status \in Statuses /\ r.billing \in BillingStates
    BY DEF Row
  <1>2. (r.sent \/ next = "provider_accepted") \in BOOLEAN
    OBVIOUS
  <1>3. (IF next = "provider_accepted" THEN "debited" ELSE r.billing) \in BillingStates
    BY <1>1 DEF BillingStates
  <1> DEFINE s == r.sent \/ next = "provider_accepted"
             b == IF next = "provider_accepted" THEN "debited" ELSE r.billing
  <1>4. Moved(r, next) = [r EXCEPT !.status = next, !.billing = b, !.sent = s]
    BY DEF Moved
  <1> HIDE DEF s, b
  <1>5. /\ [r EXCEPT !.status = next, !.billing = b, !.sent = s] \in Row
        /\ [r EXCEPT !.status = next, !.billing = b, !.sent = s].status = next
        /\ [r EXCEPT !.status = next, !.billing = b, !.sent = s].billing = b
        /\ [r EXCEPT !.status = next, !.billing = b, !.sent = s].sent = s
        /\ [r EXCEPT !.status = next, !.billing = b, !.sent = s].pmid = r.pmid
        /\ [r EXCEPT !.status = next, !.billing = b, !.sent = s].error = r.error
        /\ [r EXCEPT !.status = next, !.billing = b, !.sent = s].attempt = r.attempt
        /\ [r EXCEPT !.status = next, !.billing = b, !.sent = s].provider = r.provider
    <2>1. s \in BOOLEAN /\ b \in BillingStates
      BY <1>2, <1>3 DEF s, b
    <2> QED BY <2>1 DEF Row
  <1> QED
    BY <1>4, <1>5 DEF s, b

(* The row an attempt starts with.                                         *)
LEMMA AttemptShape ==
    ASSUME NEW r \in Row, RowShape(r), r.status \in {"routed", "submitting"}
    PROVE  /\ AttemptRow(r) \in Row /\ RowShape(AttemptRow(r))
           /\ AttemptRow(r).billing = r.billing
           /\ Moved(AttemptRow(r), "submitting") \in Row
           /\ RowShape(Moved(AttemptRow(r), "submitting"))
           /\ Moved(AttemptRow(r), "submitting").billing = r.billing
  <1>1. AttemptRow(r) \in Row /\ AttemptRow(r).status = "submitting"
        /\ AttemptRow(r).billing = r.billing /\ AttemptRow(r).sent = r.sent
        /\ AttemptRow(r).pmid = r.pmid
    <2>1. r.attempt + 1 \in Nat /\ "submitting" \in Statuses
      BY DEF Row, Statuses
    <2> QED BY <2>1 DEF AttemptRow, Row
  <1>2. /\ Moved(AttemptRow(r), "submitting") \in Row
        /\ Moved(AttemptRow(r), "submitting").status = "submitting"
        /\ Moved(AttemptRow(r), "submitting").billing = r.billing
        /\ Moved(AttemptRow(r), "submitting").sent = r.sent
        /\ Moved(AttemptRow(r), "submitting").pmid = r.pmid
    <2> HIDE DEF AttemptRow
    <2> QED BY <1>1, MovedType DEF Statuses, Row
  <1> QED
    BY <1>1, <1>2 DEF RowShape

LEMMA BeginAttemptInv ==
    ASSUME IInv, NEW w \in Workers, BeginAttempt(w), UNCHANGED dlrVars
    PROVE  IInv'
  <1> DEFINE m == worker[w].ev.message
             seen == worker[w].seen
             new == IF seen.status = "routed"
                      THEN Moved(AttemptRow(row[m]), "submitting") ELSE AttemptRow(row[m])
  <1>1. worker[w].pc = "dispatch" /\ worker[w].pc \in DOMAIN Handles
    BY DEF BeginAttempt, Handles
  <1>2. /\ worker[w] \in Busy /\ m \in Messages /\ seen \in Row /\ RowShape(row[m])
        /\ seen.status \in {"routed", "submitting"} /\ worker[w].ev \in outbox
        /\ row \in [Messages -> Row \cup {NoRow}]
    BY <1>1, HandlerFacts DEF Handles
  <1>3. CompareAndSet(m, seen, new)
    BY DEF BeginAttempt, TransitionMessage, PatchMessage
  <1>4. /\ row[m] \in Row /\ row[m].status = seen.status
        /\ row' = [row EXCEPT ![m] = [new EXCEPT !.version = row[m].version + 1]]
    <2> HIDE DEF new, m, seen
    <2> QED BY <1>2, <1>3, CompareAndSetFacts
  <1>5. new \in Row /\ RowShape(new) /\ new.billing = row[m].billing
    BY <1>2, <1>4, AttemptShape
  <1>6. RowInv'
    <2> HIDE DEF new, m, seen
    <2> QED BY <1>2, <1>4, <1>5, RowKeepsMoney DEF IInv, BeginAttempt
  <1>7. FlowInv'
    <2> DEFINE b == [worker[w] EXCEPT !.pc = "call", !.ver = row[m].version + 1]
    <2>1. row[m].version + 1 \in Nat /\ row[m].version + 1 # NoId
      <3>1. row[m].version \in Nat
        BY <1>4 DEF Row
      <3> QED BY <3>1 DEF NoId
    <2>2. b \in Busy /\ b.pc = "call" /\ b.ver # NoId /\ b.ev = worker[w].ev
      BY <1>2, <2>1 DEF Busy
    <2>3. worker' = [worker EXCEPT ![w] = b]
      BY DEF BeginAttempt
    <2>4. taken \subseteq Submission /\ b.pc \notin DOMAIN Handles
      BY <2>2 DEF IInv, FlowInv, Handles
    <2> HIDE DEF b
    <2> QED BY <1>2, <2>2, <2>3, <2>4, FlowBusy DEF IInv, BeginAttempt
  <1>8. HookInv /\ ledger' = ledger /\ faults' = faults /\ faults \in Nat
    BY DEF IInv, BeginAttempt
  <1>9. HookInv' /\ faults' \in Nat
    BY <1>8, HookFrame
  <1> QED
    BY <1>6, <1>7, <1>9 DEF IInv

LEMMA FraudThrottleInv ==
    ASSUME IInv, NEW w \in Workers, FraudThrottle(w), UNCHANGED dlrVars
    PROVE  IInv'
  <1> DEFINE e == worker[w].ev
             m == e.message
             new == [row[m] EXCEPT !.error = "dispatch"]
             f == Ev("retry", m, row[m].version + 1, e.provider)
  <1>1. worker[w].pc \in DOMAIN Handles
    BY DEF FraudThrottle, Handles
  <1>2. /\ m \in Messages /\ worker[w].seen \in Row /\ RowShape(row[m])
        /\ e.provider \in Providers /\ row \in [Messages -> Row \cup {NoRow}]
    BY <1>1, HandlerFacts
  <1>3. /\ row[m] \in Row
        /\ row' = [row EXCEPT ![m] = [new EXCEPT !.version = row[m].version + 1]]
    <2>1. CompareAndSet(m, worker[w].seen, new)
      BY DEF FraudThrottle, PatchMessage
    <2> HIDE DEF new, m
    <2> QED BY <1>2, <2>1, CompareAndSetFacts
  <1>4. new \in Row /\ RowShape(new) /\ new.billing = row[m].billing
    BY <1>2, <1>3 DEF Row, RowShape, Errors
  <1>5. RowInv'
    <2> HIDE DEF new, m
    <2> QED BY <1>2, <1>3, <1>4, RowKeepsMoney DEF IInv, FraudThrottle
  <1>6. FlowInv'
    <2>1. row[m].version + 1 \in Nat
      BY <1>3, NextVersion
    <2>2. f \in Event /\ f.outcome = "none"
      BY <1>2, <2>1, EvType DEF Topics
    <2>3. FinishAndEnqueue(e, f)
      BY DEF FraudThrottle
    <2> HIDE DEF e, f
    <2> QED BY <2>2, <2>3, FlowEnqueue DEF IInv, FraudThrottle
  <1> QED
    BY <1>5, <1>6, HookFrame DEF IInv, FraudThrottle

(* The trigger refuses the transaction, so nothing is written.             *)
LEMMA FraudBlockInv ==
    ASSUME IInv, NEW w \in Workers, FraudBlock(w), UNCHANGED dlrVars
    PROVE  IInv'
  <1>1. UNCHANGED <<row, ledger, outbox, pending>>
    BY BlockRefused DEF FraudBlock
  <1> QED
    BY <1>1, StoppedInv DEF FraudBlock, IInv

LEMMA CallProviderInv ==
    ASSUME IInv, NEW w \in Workers, CallProvider(w), UNCHANGED dlrVars
    PROVE  IInv'
  <1> DEFINE e == worker[w].ev
             t == [message |-> e.message, ver |-> worker[w].ver, provider |-> e.provider]
  <1>1. worker[w].pc = "call" /\ worker[w] \in Busy
    BY BusyWorker DEF CallProvider, IInv
  <1>2. worker[w].ver # NoId /\ e \in outbox
    BY <1>1 DEF IInv, FlowInv, HandlersRead
  <1>3. t \in Submission /\ t.message = e.message
    BY <1>1, <1>2, BusyFields DEF Submission
  <1>4. taken \subseteq Submission
    BY DEF IInv, FlowInv
  <1>5. PICK b \in Busy : /\ worker' = [worker EXCEPT ![w] = b]
                          /\ b.pc = "called" /\ b.ver = worker[w].ver /\ b.ev = e
                          /\ taken \subseteq taken' /\ taken' \subseteq taken \cup {t}
                          /\ b.outcome = "accept" => t \in taken'
    <2>1. CASE \E id \in {NoId, worker[w].ver} :
                  /\ taken' = taken \cup {t}
                  /\ worker' = [worker EXCEPT ![w].pc = "called",
                                   ![w].outcome = "accept", ![w].pmid = id]
      <3> PICK id \in {NoId, worker[w].ver} :
                  /\ taken' = taken \cup {t}
                  /\ worker' = [worker EXCEPT ![w].pc = "called",
                                   ![w].outcome = "accept", ![w].pmid = id]
        BY <2>1
      <3> DEFINE b == [worker[w] EXCEPT !.pc = "called", !.outcome = "accept", !.pmid = id]
      <3>1. id \in Nat
        BY <1>1, BusyFields DEF NoId
      <3>2. b \in Busy
        BY <1>1, <3>1 DEF Busy, Outcomes
      <3>3. worker' = [worker EXCEPT ![w] = b] /\ b.pc = "called"
            /\ b.ver = worker[w].ver /\ b.ev = e
        BY <1>1 DEF Busy
      <3> QED BY <3>2, <3>3
    <2>2. CASE \E o \in {"retry", "reject", "uncertain"} :
                  /\ taken' = taken \/ taken' = taken \cup {t}
                  /\ worker' = [worker EXCEPT ![w].pc = "called", ![w].outcome = o]
      <3> PICK o \in {"retry", "reject", "uncertain"} :
                  /\ taken' = taken \/ taken' = taken \cup {t}
                  /\ worker' = [worker EXCEPT ![w].pc = "called", ![w].outcome = o]
        BY <2>2
      <3> DEFINE b == [worker[w] EXCEPT !.pc = "called", !.outcome = o]
      <3>1. b \in Busy
        BY <1>1 DEF Busy, Outcomes
      <3>2. worker' = [worker EXCEPT ![w] = b] /\ b.pc = "called"
            /\ b.ver = worker[w].ver /\ b.ev = e /\ b.outcome # "accept"
        BY <1>1 DEF Busy
      <3> QED BY <3>1, <3>2
    <2> QED BY <2>1, <2>2 DEF CallProvider
  <1>6. FlowInv'
    <2>1. b.pc \notin DOMAIN Handles
      BY <1>5 DEF Handles
    <2> HIDE DEF t, e
    <2> QED BY <1>2, <1>3, <1>4, <1>5, <2>1, FlowBusy DEF IInv, CallProvider
  <1> QED
    BY <1>6, RowFrame, HookFrame DEF IInv, CallProvider

LEMMA ReportResultInv ==
    ASSUME IInv, NEW w \in Workers, ReportResult(w), UNCHANGED dlrVars
    PROVE  IInv'
  <1>1. worker[w].pc = "called" /\ worker[w] \in Busy
    BY BusyWorker DEF ReportResult, IInv
  <1>2. /\ ResultEvent(w) \in Event
        /\ ResultEvent(w).message = worker[w].ev.message
        /\ ResultEvent(w).outcome = worker[w].outcome
    BY <1>1, BusyFields DEF ResultEvent, Ev, Event, Topics
  <1>3. ResultEvent(w).outcome = "accept" => IsTaken(ResultEvent(w).message)
    BY <1>1, <1>2 DEF IInv, FlowInv, AcceptTraced
  <1>4. FlowInv'
    BY <1>2, <1>3, FlowEnqueue DEF IInv, ReportResult
  <1> QED
    BY <1>4, RowFrame, HookFrame DEF IInv, ReportResult

(* What the result handler knows.                                          *)
LEMMA ResultFacts ==
    ASSUME IInv, NEW w \in Workers, worker[w].pc = "result"
    PROVE  /\ worker[w].ev.message \in Messages /\ worker[w].ev \in outbox
           /\ worker[w].ev \in Event /\ worker[w].ev.pmid \in Nat
           /\ worker[w].seen \in Row /\ worker[w].seen.status = "submitting"
           /\ row \in [Messages -> Row \cup {NoRow}]
           /\ RowShape(row[worker[w].ev.message])
  BY HandlerFacts, BusyFields DEF Handles

LEMMA ResultAcceptedInv ==
    ASSUME IInv, NEW w \in Workers, ResultAccepted(w), UNCHANGED dlrVars
    PROVE  IInv'
  <1> DEFINE e == worker[w].ev
             m == e.message
             base == [row[m] EXCEPT !.pmid = e.pmid, !.error = "none"]
             new == Moved(base, "provider_accepted")
  <1>1. /\ m \in Messages /\ e.pmid \in Nat /\ worker[w].seen \in Row /\ e \in outbox
        /\ worker[w].seen.status = "submitting" /\ row \in [Messages -> Row \cup {NoRow}]
        /\ RowShape(row[m]) /\ e.outcome = "accept"
    BY ResultFacts DEF ResultAccepted
  <1>2. /\ row[m] \in Row /\ row[m].status = "submitting"
        /\ row' = [row EXCEPT ![m] = [new EXCEPT !.version = row[m].version + 1]]
    BY <1>1, CompareAndSetFacts DEF ResultAccepted, TransitionMessage
  <1>3. base \in Row
    BY <1>1, <1>2 DEF Row, Errors
  <1>4. new \in Row /\ RowShape(new) /\ new.billing = "debited" /\ row[m].billing = "reserved"
    <2>1. "provider_accepted" \in Statuses
      BY DEF Statuses
    <2>2. new \in Row /\ new.status = "provider_accepted" /\ new.billing = "debited" /\ new.sent
      <3> HIDE DEF base
      <3> QED BY <1>3, <2>1, MovedType
    <2> QED BY <1>1, <1>2, <2>2 DEF RowShape
  <1>5. RowInv'
    <2>1. ApplyWalletLedger(m, "debit", "ack")
      BY DEF ResultAccepted
    <2> HIDE DEF new, base, m, e
    <2> QED BY <1>1, <1>2, <1>4, <2>1, RowMovesMoney DEF IInv
  <1>6. \A x \in ledger' : x \in ledger \/ (x.message = m /\ x.op = "debit" /\ x.reason = "ack")
    BY <1>1, PostingType DEF ResultAccepted, ApplyWalletLedger
  <1>7. FlowInv'
    <2>1. IsTaken(m)
      BY <1>1 DEF IInv, FlowInv, AcceptTraced
    <2> QED BY <1>6, <2>1, FlowFinish DEF IInv, ResultAccepted
  <1> QED
    BY <1>5, <1>6, <1>7, HookFrame DEF IInv, ResultAccepted

LEMMA ResultUncertainInv ==
    ASSUME IInv, NEW w \in Workers, ResultUncertain(w), UNCHANGED dlrVars
    PROVE  IInv'
  <1> DEFINE e == worker[w].ev
             m == e.message
             new == [row[m] EXCEPT !.error = "dispatch"]
             f == Ev("reconcile", m, row[m].version + 1, row[m].provider)
  <1>1. /\ m \in Messages /\ worker[w].seen \in Row /\ RowShape(row[m])
        /\ row \in [Messages -> Row \cup {NoRow}]
    BY ResultFacts DEF ResultUncertain
  <1>2. /\ row[m] \in Row
        /\ row' = [row EXCEPT ![m] = [new EXCEPT !.version = row[m].version + 1]]
    BY <1>1, CompareAndSetFacts DEF ResultUncertain, PatchMessage
  <1>3. new \in Row /\ RowShape(new) /\ new.billing = row[m].billing
    BY <1>1, <1>2 DEF Row, RowShape, Errors
  <1>4. RowInv'
    <2> HIDE DEF new, m
    <2> QED BY <1>1, <1>2, <1>3, RowKeepsMoney DEF IInv, ResultUncertain
  <1>5. FlowInv'
    <2>1. row[m].version + 1 \in Nat /\ row[m].provider \in Providers
      BY <1>2 DEF Row
    <2>2. f \in Event /\ f.outcome = "none"
      BY <1>1, <2>1, EvType DEF Topics
    <2>3. FinishAndEnqueue(e, f)
      BY DEF ResultUncertain
    <2> HIDE DEF e, f
    <2> QED BY <2>2, <2>3, FlowEnqueue DEF IInv, ResultUncertain
  <1> QED
    BY <1>4, <1>5, HookFrame DEF IInv, ResultUncertain

LEMMA ResultRetryInv ==
    ASSUME IInv, NEW w \in Workers, ResultRetry(w), UNCHANGED dlrVars
    PROVE  IInv'
  <1> DEFINE e == worker[w].ev
             m == e.message
  <1>1. /\ m \in Messages /\ worker[w].seen \in Row /\ RowShape(row[m])
        /\ row \in [Messages -> Row \cup {NoRow}]
    BY ResultFacts DEF ResultRetry
  <1> PICK p \in Providers :
         /\ PatchMessage(m, worker[w].seen, [row[m] EXCEPT !.provider = p, !.error = "dispatch"])
         /\ FinishAndEnqueue(e, Ev("retry", m, row[m].version + 1, p))
    BY DEF ResultRetry
  <1> DEFINE new == [row[m] EXCEPT !.provider = p, !.error = "dispatch"]
             f == Ev("retry", m, row[m].version + 1, p)
  <1>2. /\ row[m] \in Row
        /\ row' = [row EXCEPT ![m] = [new EXCEPT !.version = row[m].version + 1]]
    BY <1>1, CompareAndSetFacts DEF PatchMessage
  <1>3. new \in Row /\ RowShape(new) /\ new.billing = row[m].billing
    BY <1>1, <1>2 DEF Row, RowShape, Errors
  <1>4. RowInv'
    <2> HIDE DEF new, m
    <2> QED BY <1>1, <1>2, <1>3, RowKeepsMoney DEF IInv, ResultRetry
  <1>5. FlowInv'
    <2>1. row[m].version + 1 \in Nat
      BY <1>2, NextVersion
    <2>2. f \in Event /\ f.outcome = "none"
      BY <1>1, <2>1, EvType DEF Topics
    <2>3. FinishAndEnqueue(e, f)
      OBVIOUS
    <2> HIDE DEF e, f
    <2> QED BY <2>2, <2>3, FlowEnqueue DEF IInv, ResultRetry
  <1> QED
    BY <1>4, <1>5, HookFrame DEF IInv, ResultRetry

LEMMA ResultFailedInv ==
    ASSUME IInv, NEW w \in Workers, ResultFailed(w), UNCHANGED dlrVars
    PROVE  IInv'
  <1> DEFINE e == worker[w].ev
             m == e.message
             base == [row[m] EXCEPT !.billing = "released", !.error = "dispatch"]
             new == Moved(base, "failed")
  <1>1. /\ m \in Messages /\ worker[w].seen \in Row
        /\ worker[w].seen.status = "submitting" /\ row \in [Messages -> Row \cup {NoRow}]
        /\ RowShape(row[m])
    BY ResultFacts DEF ResultFailed
  <1>2. /\ row[m] \in Row /\ row[m].status = "submitting"
        /\ row' = [row EXCEPT ![m] = [new EXCEPT !.version = row[m].version + 1]]
    <2>1. CompareAndSet(m, worker[w].seen, new)
      BY DEF ResultFailed, TransitionMessage
    <2> HIDE DEF new, m
    <2> QED BY <1>1, <2>1, CompareAndSetFacts
  <1>3. base \in Row /\ base.billing = "released" /\ base.sent = row[m].sent
        /\ base.pmid = row[m].pmid
    BY <1>2 DEF Row, Errors, BillingStates
  <1>4. new \in Row /\ RowShape(new) /\ new.billing = "released" /\ row[m].billing = "reserved"
    <2>1. "failed" \in Statuses
      BY DEF Statuses
    <2>2. /\ new \in Row /\ new.status = "failed" /\ new.billing = "released"
          /\ new.sent <=> row[m].sent
          /\ new.pmid = row[m].pmid
      <3> HIDE DEF base
      <3> QED BY <1>3, <2>1, MovedType
    <2>3. row[m].billing = "reserved" /\ ~row[m].sent /\ row[m].pmid = NoId
      BY <1>1, <1>2 DEF RowShape
    <2> HIDE DEF new, base, m
    <2>4. ~new.sent /\ new.pmid = NoId
      BY <2>2, <2>3
    <2>5. RowShape(new)
      BY <2>2, <2>4 DEF RowShape
    <2> QED BY <2>2, <2>3, <2>5
  <1>5. RowInv'
    <2>1. ApplyWalletLedger(m, "release", "final")
      BY DEF ResultFailed
    <2> HIDE DEF new, base, m, e
    <2> QED BY <1>1, <1>2, <1>4, <2>1, RowMovesMoney DEF IInv
  <1>6. \A x \in ledger' : x \in ledger \/ (x.op = "release" /\ x.reason = "final")
    BY <1>1, PostingType DEF ResultFailed, ApplyWalletLedger
  <1>7. FlowInv'
    BY <1>6, FlowFinish DEF IInv, ResultFailed
  <1> QED
    BY <1>5, <1>6, <1>7, HookFrame DEF IInv, ResultFailed

LEMMA WorkflowInv ==
    ASSUME IInv, WfNext, UNCHANGED dlrVars
    PROVE  IInv'
  <1>1. CASE \E m \in Messages : Submit(m)
    BY <1>1, SubmitInv
  <1>2. CASE \E w \in Workers : WorkerStep(w)
    <2> PICK w \in Workers : WorkerStep(w)
      BY <1>2
    <2>1. ASSUME NEW e \in pending, Start(w, e) PROVE IInv'
      BY <2>1, StartInv
    <2>2. ASSUME NEW e \in pending, Skip(w, e) PROVE IInv'
      BY <2>2, SkipInv
    <2>3. CASE Conflict(w)
      BY <2>3, StoppedInv DEF Conflict, IInv
    <2>4. CASE HandleAccepted(w)
      BY <2>4, HandleAcceptedInv
    <2>5. CASE HandleRetry(w)
      BY <2>5, HandleRetryInv
    <2>6. CASE BeginAttempt(w)
      BY <2>6, BeginAttemptInv
    <2>7. CASE FraudThrottle(w)
      BY <2>7, FraudThrottleInv
    <2>8. CASE FraudBlock(w)
      BY <2>8, FraudBlockInv
    <2>9. CASE CallProvider(w)
      BY <2>9, CallProviderInv
    <2>10. CASE ReportResult(w)
      BY <2>10, ReportResultInv
    <2>11. CASE ResultAccepted(w)
      BY <2>11, ResultAcceptedInv
    <2>12. CASE ResultUncertain(w)
      BY <2>12, ResultUncertainInv
    <2>13. CASE ResultRetry(w)
      BY <2>13, ResultRetryInv
    <2>14. CASE ResultFailed(w)
      BY <2>14, ResultFailedInv
    <2> QED
      BY <2>1, <2>2, <2>3, <2>4, <2>5, <2>6, <2>7, <2>8, <2>9, <2>10, <2>11, <2>12,
         <2>13, <2>14 DEF WorkerStep
  <1>3. CASE Disturbance
    <2>1. ASSUME NEW w \in Workers, Fail(w) PROVE IInv'
      <3>1. faults' \in Nat
        BY <2>1 DEF Fail, IInv
      <3> QED BY <2>1, <3>1, StoppedInv DEF Fail
    <2>2. ASSUME NEW e \in outbox, Republish(e) PROVE IInv'
      <3>1. pending' \subseteq outbox /\ faults' \in Nat
        BY <2>2 DEF Republish, IInv, FlowInv
      <3> QED BY <2>2, <3>1, EventStepInv DEF Republish
    <2>3. ASSUME NEW e \in pending, GiveUp(e) PROVE IInv'
      <3>1. pending' \subseteq outbox /\ faults' \in Nat
        BY <2>3 DEF GiveUp, IInv, FlowInv
      <3> QED BY <2>3, <3>1, EventStepInv DEF GiveUp
    <2> QED
      BY <1>3, <2>1, <2>2, <2>3 DEF Disturbance
  <1> QED
    BY <1>1, <1>2, <1>3 DEF WfNext

-----------------------------------------------------------------------------
(* The steps of DlrProcessor.                                              *)

LEMMA DlrWorkerTypes ==
    ASSUME HookInv, NEW d \in DlrWorkers
    PROVE  /\ dlrWorker[d].pc \in {"correlate", "unmatched"} => dlrWorker[d] \in DlrReading
           /\ dlrWorker[d].pc = "settle" => dlrWorker[d] \in DlrSettling
           /\ dlrWorker[d].pc # "idle" =>
                 /\ dlrWorker[d].cb \in Callbacks /\ dlrWorker[d].hook \in Hook
                 /\ hook[dlrWorker[d].cb] \in Hook
  <1>1. dlrWorker[d] \in DlrReading \cup DlrSettling \cup {DlrIdle}
    BY DEF HookInv
  <1>2. /\ dlrWorker[d].pc \in {"correlate", "unmatched"} => dlrWorker[d] \in DlrReading
        /\ dlrWorker[d].pc = "settle" => dlrWorker[d] \in DlrSettling
    BY <1>1 DEF DlrReading, DlrSettling, DlrIdle
  <1>3. dlrWorker[d].pc # "idle" => dlrWorker[d].cb \in Callbacks /\ dlrWorker[d].hook \in Hook
    BY <1>1 DEF DlrReading, DlrSettling, DlrIdle
  <1> QED
    BY <1>2, <1>3 DEF HookInv, HooksStored

LEMMA AcceptWebhookInv ==
    ASSUME IInv, NEW c \in Callbacks, AcceptWebhook(c), UNCHANGED wfVars
    PROVE  IInv'
  <1>1. PICK h \in Hook : /\ hook' = [hook EXCEPT ![c] = h]
                          /\ \/ ~h.processed
                             \/ hook[c] \in Hook /\ h.processed = hook[c].processed
                                                 /\ h.reason = hook[c].reason
    <2>1. ASSUME NEW t \in taken, NEW s \in ReportStatuses, NEW n \in BOOLEAN
          PROVE  /\ [sub |-> t, named |-> n, status |-> s,
                     processed |-> FALSE, reason |-> "none"] \in Hook
                 /\ ~[sub |-> t, named |-> n, status |-> s,
                      processed |-> FALSE, reason |-> "none"].processed
      BY DEF IInv, FlowInv, Hook, Reasons
    <2>2. ASSUME hook[c] \in Hook, NEW s \in ReportStatuses, NEW n \in BOOLEAN
          PROVE  /\ Resent(hook[c], s, n) \in Hook
                 /\ Resent(hook[c], s, n).processed = hook[c].processed
                 /\ Resent(hook[c], s, n).reason = hook[c].reason
      BY <2>2 DEF Resent, Hook
    <2>3. hook[c] # NoHook => hook[c] \in Hook
      BY DEF IInv, HookInv
    <2>4. \/ \E t \in taken, s \in ReportStatuses, n \in BOOLEAN :
                hook' = [hook EXCEPT ![c] = [sub |-> t, named |-> n, status |-> s,
                                             processed |-> FALSE, reason |-> "none"]]
          \/ /\ hook[c] # NoHook
             /\ \E s \in ReportStatuses, n \in BOOLEAN :
                   hook' = [hook EXCEPT ![c] = Resent(hook[c], s, n)]
      BY Zenon DEF AcceptWebhook
    <2>5. ASSUME NEW t \in taken, NEW s \in ReportStatuses, NEW n \in BOOLEAN,
                 hook' = [hook EXCEPT ![c] = [sub |-> t, named |-> n, status |-> s,
                                              processed |-> FALSE, reason |-> "none"]]
          PROVE  \E h \in Hook : hook' = [hook EXCEPT ![c] = h] /\ ~h.processed
      BY <2>1, <2>5, Zenon
    <2>6. ASSUME hook[c] # NoHook, NEW s \in ReportStatuses, NEW n \in BOOLEAN,
                 hook' = [hook EXCEPT ![c] = Resent(hook[c], s, n)]
          PROVE  \E h \in Hook : /\ hook' = [hook EXCEPT ![c] = h]
                                 /\ hook[c] \in Hook /\ h.processed = hook[c].processed
                                 /\ h.reason = hook[c].reason
      BY <2>2, <2>3, <2>6, Zenon
    <2> QED
      BY <2>4, <2>5, <2>6, Zenon
  <1>2. dlrPending' \subseteq dlrPending \cup {c} /\ UNCHANGED <<dlrWorker, recon>>
    BY DEF AcceptWebhook
  <1>3. \A b \in Callbacks : hook'[b] = IF b = c THEN h ELSE hook[b]
    BY <1>1 DEF IInv, HookInv
  <1>4. hook' \in [Callbacks -> Hook \cup {NoHook}]
    BY <1>1 DEF IInv, HookInv
  <1>5. HooksStored'
    <2>1. \A d \in DlrWorkers : dlrWorker[d].pc # "idle" => dlrWorker[d].cb \in Callbacks
      BY DlrWorkerTypes DEF IInv
    <2>2. dlrPending \subseteq Callbacks
      BY DEF IInv, HookInv
    <2> QED
      BY <1>2, <1>3, <2>1, <2>2 DEF IInv, HookInv, HooksStored
  <1>6. NoReportVanishes'
    BY <1>1, <1>2, <1>3 DEF IInv, HookInv, NoReportVanishes
  <1>7. HookInv'
    BY <1>2, <1>4, <1>5, <1>6 DEF IInv, HookInv, ReportsRead, wfVars
  <1> QED
    BY <1>7, RowFrame, FlowFrame DEF IInv, wfVars

(* An invocation that starts, goes on or stops without settling anything.  *)
LEMMA HookWorker ==
    ASSUME HookInv, NEW d \in DlrWorkers,
           NEW b \in DlrReading \cup DlrSettling \cup {DlrIdle},
           dlrWorker' = [dlrWorker EXCEPT ![d] = b], UNCHANGED <<hook, recon, ledger>>,
           \A c \in dlrPending' : c \in Callbacks /\ hook[c] \in Hook,
           b.pc # "idle" => hook[b.cb] \in Hook,
           b.pc = "settle" => RowShape(b.seen) /\ b.seen.sent
    PROVE  HookInv'
  <1>1. \A c \in DlrWorkers : dlrWorker'[c] = IF c = d THEN b ELSE dlrWorker[c]
    BY DEF HookInv
  <1>2. dlrWorker' \in [DlrWorkers -> DlrReading \cup DlrSettling \cup {DlrIdle}]
    BY DEF HookInv
  <1>3. ReportsRead' /\ HooksStored'
    BY <1>1 DEF HookInv, ReportsRead, HooksStored
  <1> QED
    BY <1>2, <1>3 DEF HookInv, NoReportVanishes

LEMMA DlrStoppedInv ==
    ASSUME IInv, NEW d \in DlrWorkers, DlrRelease(d), UNCHANGED <<hook, dlrPending, recon>>,
           UNCHANGED <<row, ledger, outbox, pending, worker, taken>>, faults' \in Nat
    PROVE  IInv'
  <1>1. HookInv'
    BY HookWorker DEF IInv, HookInv, HooksStored, DlrRelease, DlrIdle
  <1> QED
    BY <1>1, RowFrame, FlowFrame DEF IInv

LEMMA ReadWebhookInv ==
    ASSUME IInv, NEW d \in DlrWorkers, NEW c \in dlrPending, ReadWebhook(d, c),
           UNCHANGED <<row, ledger, outbox, pending, worker, taken>>
    PROVE  IInv'
  <1> DEFINE b == [pc |-> "correlate", cb |-> c, hook |-> hook[c]]
  <1>1. c \in Callbacks /\ hook[c] \in Hook
    BY DEF IInv, HookInv, HooksStored
  <1>2. b \in DlrReading /\ b.pc = "correlate" /\ b.cb = c
    BY <1>1 DEF DlrReading
  <1>3. HookInv'
    <2>1. \A a \in dlrPending : a \in Callbacks /\ hook[a] \in Hook
      BY DEF IInv, HookInv, HooksStored
    <2>2. dlrWorker' = [dlrWorker EXCEPT ![d] = b] /\ UNCHANGED <<hook, recon, dlrPending>>
      BY DEF ReadWebhook
    <2> HIDE DEF b
    <2> QED BY <1>1, <1>2, <2>1, <2>2, HookWorker DEF IInv
  <1>4. faults' \in Nat
    BY DEF ReadWebhook, IInv
  <1> QED
    BY <1>3, <1>4, RowFrame, FlowFrame DEF IInv

(* Events of callbacks put back into or taken out of circulation.          *)
LEMMA HookPending ==
    ASSUME IInv, UNCHANGED <<hook, dlrWorker, recon>>,
           \A c \in dlrPending' : c \in Callbacks /\ hook[c] \in Hook, faults' \in Nat,
           UNCHANGED <<row, ledger, outbox, pending, worker, taken>>
    PROVE  IInv'
  <1>1. HookInv'
    BY DEF IInv, HookInv, ReportsRead, HooksStored, NoReportVanishes
  <1> QED
    BY <1>1, RowFrame, FlowFrame DEF IInv

(* Both look-ups find messages that were sent.                             *)
LEMMA CorrelateInv ==
    ASSUME IInv, NEW d \in DlrWorkers, Correlate(d),
           UNCHANGED <<row, ledger, outbox, pending, worker, taken>>
    PROVE  IInv'
  <1> DEFINE h == dlrWorker[d].hook
             c == dlrWorker[d].cb
  <1>1. c \in Callbacks /\ h \in Hook /\ hook[c] \in Hook
    BY DlrWorkerTypes DEF IInv, Correlate
  <1>2. \A a \in dlrPending : a \in Callbacks /\ hook[a] \in Hook
    BY DEF IInv, HookInv, HooksStored
  <1>3. ASSUME NEW m \in Messages, m \in Direct(h) \cup SentBy(h.sub.provider)
        PROVE  row[m] \in Row /\ RowShape(row[m]) /\ row[m].sent
    <2>1. RowShape(row[m]) /\ row[m] \in Row \cup {NoRow}
      BY DEF IInv, RowInv, RowShapes
    <2>2. h.sub.ver # NoId
      BY <1>1 DEF Hook, Submission
    <2>3. row[m].sent
      BY <1>3, <2>1, <2>2 DEF Direct, SentBy, RowShape
    <2> QED
      BY <2>1, <2>3 DEF NoRow
  <1>4. HookInv'
    <2>1. ASSUME NEW m \in Messages, m \in Direct(h) \cup SentBy(h.sub.provider),
                 dlrWorker' = [dlrWorker EXCEPT ![d] =
                    [pc |-> "settle", cb |-> c, hook |-> h, message |-> m, seen |-> row[m]]]
          PROVE  HookInv'
      <3> DEFINE b == [pc |-> "settle", cb |-> c, hook |-> h, message |-> m, seen |-> row[m]]
      <3>1. row[m] \in Row /\ RowShape(row[m]) /\ row[m].sent
        BY <1>3, <2>1
      <3>2. b \in DlrSettling /\ b.seen = row[m] /\ b.cb = c
        BY <1>1, <3>1 DEF DlrSettling
      <3>3. dlrWorker' = [dlrWorker EXCEPT ![d] = b]
        BY <2>1
      <3> HIDE DEF b
      <3> QED BY <1>1, <1>2, <3>1, <3>2, <3>3, HookWorker DEF IInv, Correlate
    <2>2. ASSUME dlrWorker' = [dlrWorker EXCEPT ![d] =
                    [pc |-> "unmatched", cb |-> c, hook |-> h]]
          PROVE  HookInv'
      <3> DEFINE b == [pc |-> "unmatched", cb |-> c, hook |-> h]
      <3>1. b \in DlrReading /\ b.pc = "unmatched" /\ b.cb = c
        BY <1>1 DEF DlrReading
      <3>2. dlrWorker' = [dlrWorker EXCEPT ![d] = b]
        BY <2>2
      <3> HIDE DEF b
      <3> QED BY <1>1, <1>2, <3>1, <3>2, HookWorker DEF IInv, Correlate
    <2>3. Direct(h) \cup SentBy(h.sub.provider) \subseteq Messages
      BY DEF Direct, SentBy
    <2> QED
      BY <2>1, <2>2, <2>3 DEF Correlate
  <1> QED
    BY <1>4, RowFrame, FlowFrame DEF IInv, Correlate

(* A report that is settled: its callback says how, and says so truly.     *)
LEMMA HookProcessed ==
    ASSUME HookInv, NEW d \in DlrWorkers, dlrWorker[d].pc # "idle",
           NEW reason \in Reasons, Processed(d, reason),
           \/ reason \in {"applied", "duplicate"} /\ UNCHANGED recon
           \/ recon' = recon \cup {[callback |-> dlrWorker[d].cb, reason |-> reason]},
           \A x \in ledger' : x \in ledger \/ x.reason # "dlr"
    PROVE  HookInv'
  <1> DEFINE c == dlrWorker[d].cb
             h == [hook[c] EXCEPT !.processed = TRUE, !.reason = reason]
  <1>1. c \in Callbacks /\ hook[c] \in Hook
    BY DlrWorkerTypes
  <1>2. h \in Hook /\ h.reason = reason
    BY <1>1 DEF Hook
  <1>3. hook' = [hook EXCEPT ![c] = h]
    BY DEF Processed
  <1> HIDE DEF h
  <1>4. \A b \in Callbacks : hook'[b] = IF b = c THEN h ELSE hook[b]
    BY <1>3 DEF HookInv
  <1>5. hook' \in [Callbacks -> Hook \cup {NoHook}]
    BY <1>2, <1>3 DEF HookInv
  <1>6. \A b \in DlrWorkers : dlrWorker'[b] = IF b = d THEN DlrIdle ELSE dlrWorker[b]
    BY DEF HookInv, Processed, DlrRelease
  <1>7. dlrWorker' \in [DlrWorkers -> DlrReading \cup DlrSettling \cup {DlrIdle}]
    BY DEF HookInv, Processed, DlrRelease
  <1>8. dlrPending' \subseteq dlrPending
    BY DEF Processed
  <1>9. /\ recon \subseteq recon' /\ recon' \subseteq [callback : Callbacks, reason : Reasons]
        /\ \/ reason \in {"applied", "duplicate"}
           \/ [callback |-> c, reason |-> reason] \in recon'
    BY <1>1 DEF HookInv
  <1>10. ReportsRead'
    BY <1>6 DEF HookInv, ReportsRead, DlrIdle
  <1>11. HooksStored'
    <2>1. \A b \in DlrWorkers : dlrWorker[b].pc # "idle" => dlrWorker[b].cb \in Callbacks
      BY DlrWorkerTypes
    <2> QED
      BY <1>2, <1>4, <1>6, <1>8, <2>1 DEF HookInv, HooksStored, DlrIdle
  <1>12. NoReportVanishes'
    <2> SUFFICES ASSUME NEW b \in Callbacks, hook'[b].processed
                 PROVE  \/ hook'[b].reason = "applied"
                        \/ hook'[b].reason = "duplicate"
                        \/ [callback |-> b, reason |-> hook'[b].reason] \in recon'
      BY DEF NoReportVanishes
    <2>1. CASE b = c
      BY <2>1, <1>2, <1>4, <1>9
    <2>2. CASE b # c
      BY <2>2, <1>4, <1>9 DEF HookInv, NoReportVanishes
    <2> QED BY <2>1, <2>2
  <1> QED
    BY <1>5, <1>7, <1>8, <1>9, <1>10, <1>11, <1>12 DEF HookInv

LEMMA ReconciledInv ==
    ASSUME IInv, NEW d \in DlrWorkers, dlrWorker[d].pc # "idle",
           NEW reason \in Reasons, Reconciled(d, reason),
           UNCHANGED <<outbox, pending, worker, taken>>
    PROVE  IInv'
  <1>1. HookInv'
    BY HookProcessed DEF IInv, Reconciled
  <1> QED
    BY <1>1, RowFrame, FlowFrame DEF IInv, Reconciled, Processed

LEMMA DlrDuplicateInv ==
    ASSUME IInv, NEW d \in DlrWorkers, DlrDuplicate(d),
           UNCHANGED <<outbox, pending, worker, taken>>
    PROVE  IInv'
  <1>1. dlrWorker[d].pc # "idle" /\ Processed(d, "duplicate") /\ UNCHANGED <<row, ledger, recon>>
    BY DEF DlrDuplicate, Settling
  <1>2. HookInv'
    BY <1>1, HookProcessed DEF IInv, Reasons
  <1> QED
    BY <1>1, <1>2, RowFrame, FlowFrame DEF IInv, Processed

(* What an invocation that settles a message knows of it.                  *)
LEMMA SettlingFacts ==
    ASSUME IInv, NEW d \in DlrWorkers, dlrWorker[d].pc = "settle"
    PROVE  /\ dlrWorker[d].message \in Messages /\ dlrWorker[d].seen \in Row
           /\ RowShape(dlrWorker[d].seen) /\ dlrWorker[d].seen.sent
           /\ dlrWorker[d].seen.status \in {"provider_accepted", "delivered", "failed"}
           /\ RowShape(row[dlrWorker[d].message])
           /\ row \in [Messages -> Row \cup {NoRow}]
  <1>1. dlrWorker[d] \in DlrSettling
    BY DlrWorkerTypes DEF IInv
  <1>2. dlrWorker[d].message \in Messages /\ dlrWorker[d].seen \in Row
    BY <1>1 DEF DlrSettling
  <1>3. RowShape(dlrWorker[d].seen) /\ dlrWorker[d].seen.sent
    BY DEF IInv, HookInv, ReportsRead
  <1>4. dlrWorker[d].seen.status \in {"provider_accepted", "delivered", "failed"}
    BY <1>2, <1>3 DEF Row, Statuses, RowShape
  <1> QED
    BY <1>2, <1>3, <1>4 DEF IInv, RowInv, RowShapes

LEMMA DlrDeliveredInv ==
    ASSUME IInv, NEW d \in DlrWorkers, DlrDelivered(d),
           UNCHANGED <<outbox, pending, worker, taken>>
    PROVE  IInv'
  <1> DEFINE m == dlrWorker[d].message
             new == Moved(row[m], "delivered")
  <1>1. /\ m \in Messages /\ dlrWorker[d].seen \in Row /\ RowShape(row[m])
        /\ row \in [Messages -> Row \cup {NoRow}]
        /\ dlrWorker[d].seen.status = "provider_accepted" /\ dlrWorker[d].pc = "settle"
    BY SettlingFacts DEF DlrDelivered, Settling
  <1>2. /\ row[m] \in Row /\ row[m].status = "provider_accepted"
        /\ row' = [row EXCEPT ![m] = [new EXCEPT !.version = row[m].version + 1]]
    BY <1>1, CompareAndSetFacts DEF DlrDelivered, TransitionMessage
  <1>3. new \in Row /\ RowShape(new) /\ new.billing = row[m].billing
    <2>1. "delivered" \in Statuses
      BY DEF Statuses
    <2>2. /\ new \in Row /\ new.status = "delivered" /\ new.billing = row[m].billing
          /\ new.sent <=> row[m].sent
      BY <1>2, <2>1, MovedType
    <2>3. row[m].billing = "debited" /\ row[m].sent
      BY <1>1, <1>2 DEF RowShape
    <2> HIDE DEF new, m
    <2> QED BY <2>2, <2>3 DEF RowShape
  <1>4. RowInv'
    <2> HIDE DEF new, m
    <2> QED BY <1>1, <1>2, <1>3, RowKeepsMoney DEF IInv, DlrDelivered
  <1>5. HookInv'
    BY <1>1, HookProcessed DEF IInv, DlrDelivered, Reasons
  <1> QED
    BY <1>4, <1>5, FlowFrame DEF IInv, DlrDelivered, Processed

(* The message was acknowledged, so its money was taken and stays taken:   *)
(* the branch that would return it is not entered.                         *)
LEMMA DlrFailedInv ==
    ASSUME IInv, NEW d \in DlrWorkers, DlrFailed(d),
           UNCHANGED <<outbox, pending, worker, taken>>
    PROVE  IInv'
  <1> DEFINE m == dlrWorker[d].message
             seen == dlrWorker[d].seen
             base == FailedRow(row[m])
             new == Moved(base, "failed")
  <1>1. /\ m \in Messages /\ seen \in Row /\ RowShape(row[m])
        /\ row \in [Messages -> Row \cup {NoRow}]
        /\ seen.status = "provider_accepted" /\ seen.billing = "debited"
        /\ dlrWorker[d].pc = "settle"
    BY SettlingFacts DEF DlrFailed, Settling, RowShape
  <1>2. /\ row[m] \in Row /\ row[m].status = "provider_accepted"
        /\ row' = [row EXCEPT ![m] = [new EXCEPT !.version = row[m].version + 1]]
    BY <1>1, CompareAndSetFacts DEF DlrFailed, TransitionMessage
  <1>3. row[m].billing = "debited" /\ row[m].sent
    BY <1>1, <1>2 DEF RowShape
  <1>4. base \in Row /\ base.billing = "debited" /\ base.sent = row[m].sent
    BY <1>2, <1>3 DEF FailedRow, Row, Errors
  <1>5. new \in Row /\ RowShape(new) /\ new.billing = row[m].billing
    <2>1. "failed" \in Statuses
      BY DEF Statuses
    <2>2. /\ new \in Row /\ new.status = "failed" /\ new.billing = "debited"
          /\ new.sent <=> row[m].sent
      <3> HIDE DEF base
      <3> QED BY <1>4, <2>1, MovedType
    <2> HIDE DEF new, base, m
    <2> QED BY <1>3, <2>2 DEF RowShape
  <1>6. UNCHANGED ledger
    BY <1>1 DEF DlrFailed
  <1>7. RowInv'
    <2> HIDE DEF new, base, m, seen
    <2> QED BY <1>1, <1>2, <1>5, <1>6, RowKeepsMoney DEF IInv
  <1>8. HookInv'
    BY <1>1, <1>6, HookProcessed DEF IInv, DlrFailed, Reasons
  <1> QED
    BY <1>6, <1>7, <1>8, FlowFrame DEF IInv, DlrFailed, Processed

LEMMA ReportsInv ==
    ASSUME IInv, DlrNext
    PROVE  IInv'
  <1>1. ASSUME NEW c \in Callbacks, AcceptWebhook(c), UNCHANGED wfVars PROVE IInv'
    BY <1>1, AcceptWebhookInv
  <1>2. CASE DlrLookup /\ UNCHANGED <<row, ledger, outbox, pending, worker, taken>>
    <2>1. ASSUME NEW d \in DlrWorkers, NEW c \in dlrPending, ReadWebhook(d, c) PROVE IInv'
      BY <1>2, <2>1, ReadWebhookInv
    <2>2. \A c \in dlrPending : c \in Callbacks /\ hook[c] \in Hook
      BY DEF IInv, HookInv, HooksStored
    <2>3. ASSUME NEW d \in DlrWorkers, NEW c \in dlrPending, SkipProcessed(d, c) PROVE IInv'
      BY <1>2, <2>2, <2>3, HookPending DEF SkipProcessed, IInv
    <2>4. ASSUME NEW d \in DlrWorkers, Correlate(d) PROVE IInv'
      BY <1>2, <2>4, CorrelateInv
    <2>5. ASSUME NEW d \in DlrWorkers, DlrConflict(d) PROVE IInv'
      BY <1>2, <2>5, DlrStoppedInv DEF DlrConflict, IInv
    <2>6. ASSUME NEW d \in DlrWorkers, DlrFail(d) PROVE IInv'
      BY <1>2, <2>6, DlrStoppedInv DEF DlrFail, IInv
    <2>7. ASSUME NEW c \in Callbacks, DlrRepublish(c) PROVE IInv'
      BY <1>2, <2>2, <2>7, HookPending DEF DlrRepublish, IInv, HookInv
    <2>8. ASSUME NEW c \in Callbacks, DlrGiveUp(c) PROVE IInv'
      BY <1>2, <2>2, <2>8, HookPending DEF DlrGiveUp, IInv
    <2> QED
      BY <1>2, <2>1, <2>3, <2>4, <2>5, <2>6, <2>7, <2>8 DEF DlrLookup
  <1>3. ASSUME NEW d \in DlrWorkers, DlrSettle(d), UNCHANGED <<outbox, pending, worker, taken>>
        PROVE  IInv'
    <2>1. CASE DlrUnmatched(d)
      BY <1>3, <2>1, ReconciledInv DEF DlrUnmatched, Reasons
    <2>2. CASE DlrUnknown(d)
      BY <1>3, <2>2, ReconciledInv DEF DlrUnknown, Settling, Reasons
    <2>3. CASE DlrDuplicate(d)
      BY <1>3, <2>3, DlrDuplicateInv
    <2>4. CASE DlrInvalid(d)
      BY <1>3, <2>4, ReconciledInv DEF DlrInvalid, Settling, Reasons
    <2>5. CASE DlrDelivered(d)
      BY <1>3, <2>5, DlrDeliveredInv
    <2>6. CASE DlrFailed(d)
      BY <1>3, <2>6, DlrFailedInv
    <2> QED
      BY <1>3, <2>1, <2>2, <2>3, <2>4, <2>5, <2>6 DEF DlrSettle
  <1> QED
    BY <1>1, <1>2, <1>3 DEF DlrNext

-----------------------------------------------------------------------------
(* The invariant holds of every reachable state.                           *)
THEOREM Invariant == Spec => []IInv
  <1>1. Init => IInv
    <2> SUFFICES ASSUME Init PROVE IInv
      OBVIOUS
    <2>1. RowInv
      BY PricedAssumption
         DEF Init, WfInit, StoreInit, RowInv, RowShapes, RowShape, LedgerMatchesBilling,
             Posted, NoRow
    <2>2. FlowInv
      BY DEF Init, WfInit, FlowInv, HandlersRead, AcceptTraced, StoreInit, Idle, Handles
    <2>3. HookInv
      BY DEF Init, WfInit, StoreInit, DlrInit, HookInv, ReportsRead, HooksStored,
             NoReportVanishes, DlrIdle, NoHook
    <2> QED BY <2>1, <2>2, <2>3 DEF Init, WfInit, IInv
  <1>2. IInv /\ [Next]_vars => IInv'
    <2> SUFFICES ASSUME IInv, [Next]_vars PROVE IInv'
      OBVIOUS
    <2>1. CASE WfNext /\ UNCHANGED dlrVars
      BY <2>1, WorkflowInv
    <2>2. CASE DlrNext
      BY <2>2, ReportsInv
    <2>3. CASE UNCHANGED vars
      BY <2>3, RowFrame, FlowFrame, HookFrame DEF vars, dlrVars, IInv
    <2> QED BY <2>1, <2>2, <2>3 DEF Next
  <1> QED
    BY <1>1, <1>2, PTL DEF Spec

(* Every variable keeps its type.                                          *)
THEOREM TypeCorrect == Spec => []TypeOK
  <1>1. IInv => TypeOK
    BY DEF IInv, RowInv, FlowInv, HookInv, TypeOK
  <1> QED BY <1>1, Invariant, PTL

(* The ledger and billing_state agree, whatever interleaves.               *)
THEOREM MoneyAccounted == Spec => []LedgerMatchesBilling
  <1>1. IInv => LedgerMatchesBilling
    BY DEF IInv, RowInv
  <1> QED BY <1>1, Invariant, PTL

(* The status of a message says where its money is.                        *)
THEOREM BillingFollowsStatus == Spec => []BillingMatchesStatus
  <1>1. IInv => BillingMatchesStatus
    BY DEF IInv, RowInv, RowShapes, RowShape, BillingMatchesStatus
  <1> QED BY <1>1, Invariant, PTL

(* No debit without a carrier that took the message.                       *)
THEOREM NoChargeWithoutCarrier == Spec => []ChargedOnlyIfTaken
  <1>1. IInv => ChargedOnlyIfTaken
    BY DEF IInv, FlowInv, AcceptTraced, IsTaken, ChargedOnlyIfTaken
  <1> QED BY <1>1, Invariant, PTL

(* A report finds only messages that were acknowledged, and none is marked *)
(* processed without an effect or a hand-over (processWebhook).            *)
THEOREM ReportsSettled == Spec => []ReportsSettle
  <1>1. IInv => ReportsFindSentOnly
    BY SettlingFacts DEF IInv, HookInv, ReportsRead, ReportsFindSentOnly
  <1>2. IInv => NoReportVanishes
    BY DEF IInv, HookInv
  <1> QED BY <1>1, <1>2, Invariant, PTL DEF ReportsSettle

-----------------------------------------------------------------------------
(* In an undisturbed system a message has one event under way, and at most   *)
(* one handler at it, whose view of the row is right.                        *)
Live(m) == {e \in pending : e.message = m /\ e.topic # "reconcile"}

Took(m) == {t \in taken : t.message = m}

Holds(w, m) == worker[w].pc # "idle" /\ worker[w].ev.message = m

(* What the carrier p took is known to it as id.                             *)
Named(T, p, id) == \E t \in T : t.provider = p /\ id \in {t.ver, NoId}

Flying == {"accepted", "routed", "submitting"}

(* The row r, the events L under way, the handler's b and the attempts taken *)
(* T of one message.                                                         *)
Fine(r, L, b, T) ==
    /\ \A e, f \in L : e = f
    /\ \A e \in L :
         /\ r.status \in Flying /\ e.provider = r.provider
         /\ e.topic = "result" /\ e.outcome = "accept" => Named(T, e.provider, e.pmid)
         /\ e.topic # "result" => r.attempt < MaxAttempts \/ b.pc \in {"call", "called"}
    /\ b # Idle =>
         /\ b.ev \in L
         /\ b.pc \in DOMAIN Handles => b.seen = r
         /\ b.pc = "call" => Cardinality(T) < r.attempt
         /\ b.pc = "called" /\ b.outcome = "accept" => Named(T, b.ev.provider, b.pmid)
    /\ IsFiniteSet(T) /\ Cardinality(T) <= r.attempt /\ r.attempt <= MaxAttempts
    /\ r.sent => Named(T, r.provider, r.pmid)

(* b is what is being done about m.                                          *)
Charge(m, b) ==
    \/ b = Idle /\ \A w \in Workers : ~Holds(w, m)
    \/ \E w \in Workers : /\ b = worker[w] /\ Holds(w, m)
                          /\ \A v \in Workers : Holds(v, m) => v = w

Orderly(m) == \E b \in Busy \cup {Idle} : Charge(m, b) /\ Fine(row[m], Live(m), b, Took(m))

Undisturbed == faults = 0 /\ \A m \in Messages : Orderly(m)

-----------------------------------------------------------------------------
(* A step about one message m leaves all others in the hands they are in.    *)
LEMMA ChargeKept ==
    ASSUME IInv, NEW m \in Messages, NEW n \in Messages \ {m}, NEW b, Charge(n, b),
           \/ UNCHANGED worker
           \/ \E w \in Workers, c \in Busy \cup {Idle} :
                /\ worker' = [worker EXCEPT ![w] = c]
                /\ worker[w].pc # "idle" => worker[w].ev.message = m
                /\ c # Idle => c.ev.message = m
    PROVE  Charge(n, b)'
  <1>1. CASE UNCHANGED worker
    BY <1>1 DEF Charge, Holds
  <1>2. CASE ~UNCHANGED worker
    <2>1. PICK w \in Workers, c \in Busy \cup {Idle} :
             /\ worker' = [worker EXCEPT ![w] = c]
             /\ worker[w].pc # "idle" => worker[w].ev.message = m
             /\ c # Idle => c.ev.message = m
      BY <1>2
    <2>2. worker'[w] = c /\ \A v \in Workers \ {w} : worker'[v] = worker[v]
      BY <2>1 DEF IInv, FlowInv
    <2>3. c = Idle => c.pc = "idle"
      BY DEF Idle
    <2>4. ~Holds(w, n) /\ ~Holds(w, n)'
      BY <2>1, <2>2, <2>3 DEF Holds
    <2>5. \A v \in Workers : /\ Holds(v, n)' <=> Holds(v, n)
                             /\ Holds(v, n) => worker'[v] = worker[v]
      BY <2>2, <2>4 DEF Holds
    <2> QED BY <2>5 DEF Charge
  <1> QED BY <1>1, <1>2

(* ... and the order of all others alone.                                    *)
LEMMA OneMessage ==
    ASSUME IInv, Undisturbed, NEW m \in Messages, NEW r, row' = [row EXCEPT ![m] = r],
           \A n \in Messages \ {m} : Live(n)' = Live(n) /\ Took(n)' = Took(n),
           \/ UNCHANGED worker
           \/ \E w \in Workers, c \in Busy \cup {Idle} :
                /\ worker' = [worker EXCEPT ![w] = c]
                /\ worker[w].pc # "idle" => worker[w].ev.message = m
                /\ c # Idle => c.ev.message = m,
           \E b \in Busy \cup {Idle} : Charge(m, b)' /\ Fine(r, Live(m)', b, Took(m)'),
           UNCHANGED faults
    PROVE  Undisturbed'
  <1>1. row'[m] = r /\ \A n \in Messages \ {m} : row'[n] = row[n]
    BY DEF IInv, RowInv
  <1>2. Orderly(m)'
    BY <1>1 DEF Orderly
  <1>3. ASSUME NEW n \in Messages \ {m} PROVE Orderly(n)'
    <2>1. PICK b \in Busy \cup {Idle} : Charge(n, b) /\ Fine(row[n], Live(n), b, Took(n))
      BY DEF Undisturbed, Orderly
    <2>2. Charge(n, b)'
      BY <2>1, ChargeKept
    <2>3. Fine(row[n], Live(n), b, Took(n))'
      BY <1>1, <2>1
    <2> QED BY <2>2, <2>3 DEF Orderly
  <1> QED BY <1>2, <1>3 DEF Undisturbed

(* A handler that is busy is the one in charge of its message.               *)
LEMMA InCharge ==
    ASSUME IInv, Undisturbed, NEW w \in Workers, worker[w].pc # "idle"
    PROVE  /\ worker[w] \in Busy /\ worker[w] # Idle
           /\ worker[w].ev.message \in Messages /\ worker[w].ev \in Event
           /\ Fine(row[worker[w].ev.message], Live(worker[w].ev.message), worker[w],
                   Took(worker[w].ev.message))
           /\ \A v \in Workers : Holds(v, worker[w].ev.message) => v = w
  <1> DEFINE m == worker[w].ev.message
  <1>1. worker[w] \in Busy /\ m \in Messages /\ worker[w].ev \in Event
    BY BusyWorker, BusyFields DEF IInv
  <1>2. worker[w] # Idle
    BY DEF Idle
  <1>3. Holds(w, m)
    BY DEF Holds
  <1>4. PICK b \in Busy \cup {Idle} : Charge(m, b) /\ Fine(row[m], Live(m), b, Took(m))
    BY <1>1 DEF Undisturbed, Orderly
  <1>5. b = worker[w] /\ \A v \in Workers : Holds(v, m) => v = w
    BY <1>3, <1>4 DEF Charge
  <1> QED BY <1>1, <1>2, <1>4, <1>5

(* A message without an event under way has no handler.                      *)
LEMMA NoneInCharge ==
    ASSUME IInv, Undisturbed, NEW m \in Messages, Live(m) = {} \/ \A w \in Workers : ~Holds(w, m)
    PROVE  (\A w \in Workers : ~Holds(w, m)) /\ Fine(row[m], Live(m), Idle, Took(m))
  <1>1. PICK b \in Busy \cup {Idle} : Charge(m, b) /\ Fine(row[m], Live(m), b, Took(m))
    BY DEF Undisturbed, Orderly
  <1>2. b = Idle
    <2>1. CASE Live(m) = {}
      BY <1>1, <2>1 DEF Fine
    <2>2. CASE \A w \in Workers : ~Holds(w, m)
      BY <1>1, <2>2 DEF Charge
    <2> QED BY <2>1, <2>2
  <1>3. \A w \in Workers : ~Holds(w, m)
    <2>1. \A w \in Workers : Holds(w, m) => worker[w] # Idle
      BY DEF Holds, Idle
    <2> QED BY <1>1, <1>2, <2>1 DEF Charge
  <1> QED BY <1>1, <1>2, <1>3

(* What is left of the events when a handler has finished with d.            *)
LEMMA LiveAfter ==
    ASSUME NEW d, NEW f, d.message = f.message, FinishAndEnqueue(d, f),
           \A e \in Live(d.message) : e = d
    PROVE  /\ \A n \in Messages \ {d.message} : Live(n)' = Live(n)
           /\ \A e \in Live(d.message)' : e = f /\ f.topic # "reconcile"
  BY DEF FinishAndEnqueue, Live

LEMMA LiveDone ==
    ASSUME NEW d, Finish(d), \A e \in Live(d.message) : e = d
    PROVE  /\ \A n \in Messages \ {d.message} : Live(n)' = Live(n)
           /\ Live(d.message)' = {}
  BY DEF Finish, Live

(* A row one version on is otherwise what was written.                       *)
LEMMA Versioned ==
    ASSUME NEW r \in Row, NEW v \in Nat
    PROVE  /\ [r EXCEPT !.version = v].status = r.status
           /\ [r EXCEPT !.version = v].provider = r.provider
           /\ [r EXCEPT !.version = v].attempt = r.attempt
           /\ [r EXCEPT !.version = v].sent = r.sent
           /\ [r EXCEPT !.version = v].pmid = r.pmid
  BY DEF Row

(* A handler that goes on with its event.                                    *)
LEMMA GoesOn ==
    ASSUME IInv, Undisturbed, NEW w \in Workers, NEW m \in Messages,
           worker[w].pc # "idle" => worker[w].ev.message = m,
           \A v \in Workers : Holds(v, m) => v = w,
           NEW c \in Busy, c.ev.message = m, c # Idle, c.pc # "idle",
           worker' = [worker EXCEPT ![w] = c],
           NEW r, row' = [row EXCEPT ![m] = r],
           UNCHANGED <<pending, faults>>,
           \A n \in Messages \ {m} : Took(n)' = Took(n),
           Fine(r, Live(m), c, Took(m)')
    PROVE  Undisturbed'
  <1>1. \A n \in Messages : Live(n)' = Live(n)
    BY DEF Live
  <1>2. worker'[w] = c /\ \A v \in Workers \ {w} : worker'[v] = worker[v]
    BY DEF IInv, FlowInv
  <1>3. Charge(m, c)'
    BY <1>2 DEF Charge, Holds
  <1>4. Fine(r, Live(m)', c, Took(m)')
    BY <1>1
  <1>5. \E b \in Busy \cup {Idle} : Charge(m, b)' /\ Fine(r, Live(m)', b, Took(m)')
    BY <1>3, <1>4
  <1> QED
    BY <1>1, <1>5, OneMessage

(* What may be left of the events of a message that nobody handles.          *)
Left(r, L, T) ==
    /\ \A e, f \in L : e = f
    /\ \A e \in L :
         /\ r.status \in Flying /\ e.provider = r.provider
         /\ e.topic = "result" /\ e.outcome = "accept" => Named(T, e.provider, e.pmid)
         /\ e.topic # "result" => r.attempt < MaxAttempts

(* A handler that ends leaves its message the attempts it had.               *)
LEMMA Ends ==
    ASSUME IInv, Undisturbed, NEW w \in Workers, worker[w].pc # "idle", Release(w),
           NEW m \in Messages, m = worker[w].ev.message,
           NEW r, row' = [row EXCEPT ![m] = r],
           r.attempt = row[m].attempt, r.sent => Named(Took(m), r.provider, r.pmid),
           \A n \in Messages \ {m} : Live(n)' = Live(n), Left(r, Live(m)', Took(m)),
           UNCHANGED <<taken, faults>>
    PROVE  Undisturbed'
  <1>1. /\ \A v \in Workers : Holds(v, m) => v = w
        /\ Fine(row[m], Live(m), worker[w], Took(m))
    BY InCharge
  <1>2. \A n \in Messages : Took(n)' = Took(n)
    BY DEF Took
  <1>3. worker'[w] = Idle /\ \A v \in Workers \ {w} : worker'[v] = worker[v]
    BY DEF IInv, FlowInv, Release
  <1>4. Charge(m, Idle)'
    BY <1>1, <1>3 DEF Charge, Holds, Idle
  <1>5. Fine(r, Live(m)', Idle, Took(m)')
    BY <1>1, <1>2 DEF Fine, Left
  <1>6. \E b \in Busy \cup {Idle} : Charge(m, b)' /\ Fine(r, Live(m)', b, Took(m)')
    BY <1>4, <1>5
  <1>7. worker' = [worker EXCEPT ![w] = Idle]
    BY DEF Release
  <1> QED
    BY <1>2, <1>6, <1>7, OneMessage

(* ... having enqueued f, or nothing.                                        *)
LEMMA EndsWith ==
    ASSUME IInv, Undisturbed, NEW w \in Workers, worker[w].pc # "idle", Release(w),
           NEW m \in Messages, m = worker[w].ev.message,
           NEW r, row' = [row EXCEPT ![m] = r],
           r.attempt = row[m].attempt, r.sent => Named(Took(m), r.provider, r.pmid),
           NEW f, f.message = m, FinishAndEnqueue(worker[w].ev, f),
           f.topic # "reconcile" =>
             /\ r.status \in Flying /\ f.provider = r.provider
             /\ f.topic = "result" /\ f.outcome = "accept" => Named(Took(m), f.provider, f.pmid)
             /\ f.topic # "result" => r.attempt < MaxAttempts,
           UNCHANGED <<taken, faults>>
    PROVE  Undisturbed'
  <1>1. Fine(row[m], Live(m), worker[w], Took(m)) /\ worker[w] # Idle
    BY InCharge
  <1>2. \A e \in Live(m) : e = worker[w].ev
    BY <1>1 DEF Fine
  <1>3. /\ \A n \in Messages \ {m} : Live(n)' = Live(n)
        /\ \A e \in Live(m)' : e = f /\ f.topic # "reconcile"
    BY <1>2, LiveAfter
  <1>4. Left(r, Live(m)', Took(m))
    BY <1>3 DEF Left
  <1> QED
    BY <1>3, <1>4, Ends

LEMMA EndsDone ==
    ASSUME IInv, Undisturbed, NEW w \in Workers, worker[w].pc # "idle", Release(w),
           NEW m \in Messages, m = worker[w].ev.message,
           NEW r, row' = [row EXCEPT ![m] = r],
           r.attempt = row[m].attempt, r.sent => Named(Took(m), r.provider, r.pmid),
           Finish(worker[w].ev),
           UNCHANGED <<taken, faults>>
    PROVE  Undisturbed'
  <1>1. Fine(row[m], Live(m), worker[w], Took(m)) /\ worker[w] # Idle
    BY InCharge
  <1>2. \A e \in Live(m) : e = worker[w].ev
    BY <1>1 DEF Fine
  <1>3. /\ \A n \in Messages \ {m} : Live(n)' = Live(n)
        /\ Live(m)' = {}
    BY <1>2, LiveDone
  <1>4. Left(r, Live(m)', Took(m))
    BY <1>3 DEF Left
  <1> QED
    BY <1>3, <1>4, Ends

(* What a handler that has read the row knows, once nothing disturbs it.     *)
LEMMA Turn ==
    ASSUME IInv, Undisturbed, NEW w \in Workers, worker[w].pc \in DOMAIN Handles
    PROVE  LET e == worker[w].ev  r == row[worker[w].ev.message] IN
           /\ worker[w].pc # "idle" /\ e.message \in Messages
           /\ worker[w].seen = r /\ r \in Row /\ r.status \in Handles[worker[w].pc] /\ ~r.sent
           /\ e.provider = r.provider /\ e.topic = worker[w].pc
           /\ e.topic = "result" /\ e.outcome = "accept" =>
                Named(Took(e.message), e.provider, e.pmid)
           /\ e.topic # "result" => r.attempt < MaxAttempts
           /\ CasMatches(e.message, worker[w].seen)
           /\ row \in [Messages -> Row \cup {NoRow}]
  <1> DEFINE b == worker[w]
             e == worker[w].ev
             r == row[e.message]
  <1>1. b.pc # "idle" /\ b.pc \notin {"call", "called"}
    BY DEF Handles
  <1>2. /\ e.message \in Messages /\ e.topic = b.pc /\ b.seen \in Row
        /\ b.seen.status \in Handles[b.pc] /\ RowShape(r)
        /\ row \in [Messages -> Row \cup {NoRow}]
    BY HandlerFacts
  <1>3. Fine(r, Live(e.message), b, Took(e.message)) /\ b # Idle
    BY <1>1, InCharge
  <1>4. e \in Live(e.message) /\ b.seen = r
    BY <1>3 DEF Fine
  <1>5. /\ e.provider = r.provider
        /\ e.topic = "result" /\ e.outcome = "accept" => Named(Took(e.message), e.provider, e.pmid)
        /\ e.topic # "result" => r.attempt < MaxAttempts
    BY <1>1, <1>3, <1>4 DEF Fine
  <1>6. r.status \in {"accepted", "routed", "submitting"}
    BY <1>2, <1>4 DEF Handles
  <1>7. ~r.sent
    BY <1>2, <1>6 DEF RowShape
  <1> HIDE DEF e, r, b
  <1> QED
    BY <1>1, <1>2, <1>4, <1>5, <1>7 DEF e, r, b, CasMatches

LEMMA SubmitOrder ==
    ASSUME IInv, Undisturbed, NEW m \in Messages, Submit(m)
    PROVE  Undisturbed'
  <1> PICK p \in Providers :
         /\ row' = [row EXCEPT ![m] = InsertedRow(p)]
         /\ pending' = pending \cup {Ev("accepted", m, 0, p)}
    BY DEF Submit
  <1> DEFINE r == InsertedRow(p)
             e == Ev("accepted", m, 0, p)
  <1>1. row[m].status = "none" /\ row[m].attempt = 0
    BY DEF Submit, NoRow
  <1>2. PICK b \in Busy \cup {Idle} : Charge(m, b) /\ Fine(row[m], Live(m), b, Took(m))
    BY DEF Undisturbed, Orderly
  <1>3. Live(m) = {}
    BY <1>1, <1>2 DEF Fine, Flying
  <1>4. (\A w \in Workers : ~Holds(w, m)) /\ Fine(row[m], Live(m), Idle, Took(m))
    BY <1>3, NoneInCharge
  <1>5. /\ r.status = "accepted" /\ r.provider = p /\ r.attempt = 0 /\ ~r.sent
        /\ e.message = m /\ e.topic = "accepted" /\ e.provider = p
    BY DEF InsertedRow, NoRow, Ev
  <1> HIDE DEF r, e
  <1>6. /\ \A n \in Messages \ {m} : Live(n)' = Live(n) /\ Took(n)' = Took(n)
        /\ Took(m)' = Took(m)
        /\ Live(m)' = {e}
    BY <1>3, <1>5 DEF Live, Took, Submit, e
  <1>7. Fine(r, Live(m)', Idle, Took(m)')
    BY <1>1, <1>4, <1>5, <1>6, BoundAssumption DEF Fine, Flying
  <1>8. Charge(m, Idle)'
    BY <1>4 DEF Charge, Holds, Submit
  <1>9. \E c \in Busy \cup {Idle} : Charge(m, c)' /\ Fine(r, Live(m)', c, Took(m)')
    BY <1>7, <1>8
  <1> QED
    BY <1>6, <1>9, OneMessage DEF Submit, r

(* Nobody handles a message whose event is not in progress.                  *)
LEMMA NobodyAtIt ==
    ASSUME IInv, Undisturbed, NEW e \in pending, e.topic # "reconcile", ~InProgress(e)
    PROVE  /\ e \in Event /\ e.message \in Messages /\ e \in Live(e.message)
           /\ \A v \in Workers : ~Holds(v, e.message)
           /\ Fine(row[e.message], Live(e.message), Idle, Took(e.message))
  <1>1. e \in Event /\ e.message \in Messages /\ e \in Live(e.message)
    BY DEF IInv, FlowInv, Event, Live
  <1>2. ASSUME NEW v \in Workers, Holds(v, e.message) PROVE FALSE
    <2>1. /\ Fine(row[e.message], Live(e.message), worker[v], Took(e.message))
          /\ worker[v] # Idle /\ worker[v].pc # "idle"
      BY <1>2, InCharge DEF Holds
    <2>2. worker[v].ev = e
      BY <1>1, <2>1 DEF Fine
    <2> QED BY <2>1, <2>2 DEF InProgress
  <1> QED
    BY <1>1, <1>2, NoneInCharge

LEMMA StartOrder ==
    ASSUME IInv, Undisturbed, MaxFaults = 0, NEW w \in Workers, NEW e \in pending, Start(w, e)
    PROVE  Undisturbed'
  <1> DEFINE m == e.message
             c == Handling(e, row[m])
  <1>1. ~InProgress(e) /\ UNCHANGED faults
    BY DEF Start, Undisturbed
  <1>2. /\ e \in Event /\ m \in Messages /\ e \in Live(m)
        /\ (\A v \in Workers : ~Holds(v, m)) /\ Fine(row[m], Live(m), Idle, Took(m))
    BY <1>1, NobodyAtIt DEF Start
  <1>3. e.topic \in DOMAIN Handles
    BY <1>2 DEF Start, Event, Topics, Handles
  <1>4. row[m] \in Row
    <2>1. row[m] \in Row \cup {NoRow} /\ row[m].status # "none"
      BY <1>2, <1>3 DEF Start, Handles, IInv, RowInv
    <2> QED BY <2>1 DEF NoRow
  <1>5. /\ c \in Busy /\ c.ev = e /\ c.seen = row[m] /\ c.pc = e.topic
    BY <1>2, <1>3, <1>4 DEF Handling, Busy, NoId, Handles
  <1>6. c.pc \notin {"idle", "call", "called"} /\ c # Idle
    BY <1>3, <1>5 DEF Handles, Idle
  <1>7. row' = [row EXCEPT ![m] = row[m]] /\ UNCHANGED <<pending, faults>>
    BY <1>1 DEF Start, IInv, RowInv
  <1>8. worker' = [worker EXCEPT ![w] = c] /\ worker[w].pc = "idle"
        /\ \A n \in Messages : Took(n)' = Took(n)
    BY DEF Start, Took
  <1> HIDE DEF c, m
  <1>9. Fine(row[m], Live(m), c, Took(m)')
    BY <1>2, <1>5, <1>6, <1>8 DEF Fine, Idle
  <1> QED
    BY <1>2, <1>5, <1>6, <1>7, <1>8, <1>9, GoesOn DEF m

LEMMA SkipOrder ==
    ASSUME IInv, Undisturbed, NEW w \in Workers, NEW e \in pending, Skip(w, e)
    PROVE  Undisturbed'
  <1> DEFINE m == e.message
  <1>1. /\ e \in Event /\ m \in Messages /\ e \in Live(m)
        /\ (\A v \in Workers : ~Holds(v, m)) /\ Fine(row[m], Live(m), Idle, Took(m))
    BY NobodyAtIt DEF Skip
  <1>2. \A f \in Live(m) : f = e
    BY <1>1 DEF Fine
  <1>3. (\A n \in Messages \ {m} : Live(n)' = Live(n)) /\ Live(m)' = {}
    BY <1>2, LiveDone DEF Skip
  <1>4. \A n \in Messages : Took(n)' = Took(n)
    BY DEF Skip, Took
  <1>5. Fine(row[m], Live(m)', Idle, Took(m)')
    BY <1>1, <1>3, <1>4 DEF Fine
  <1>6. Charge(m, Idle)'
    BY <1>1 DEF Charge, Holds, Skip
  <1>7. row' = [row EXCEPT ![m] = row[m]] /\ UNCHANGED worker /\ UNCHANGED faults
    BY DEF Skip, IInv, RowInv
  <1>8. \E c \in Busy \cup {Idle} : Charge(m, c)' /\ Fine(row[m], Live(m)', c, Took(m)')
    BY <1>5, <1>6
  <1> QED
    BY <1>1, <1>3, <1>4, <1>7, <1>8, OneMessage

LEMMA HandleAcceptedOrder ==
    ASSUME IInv, Undisturbed, NEW w \in Workers, HandleAccepted(w)
    PROVE  Undisturbed'
  <1> DEFINE e == worker[w].ev
             m == e.message
  <1>1. worker[w].pc = "accepted" /\ worker[w].pc \in DOMAIN Handles
    BY DEF HandleAccepted, Handles
  <1> PICK p \in Providers :
         /\ TransitionMessage(m, worker[w].seen, "routed", RoutedRow(row[m], p))
         /\ FinishAndEnqueue(e, Ev("dispatch", m, row[m].version + 1, p))
    BY DEF HandleAccepted
  <1>2. /\ worker[w].pc # "idle" /\ m \in Messages /\ worker[w].seen = row[m] /\ row[m] \in Row
        /\ ~row[m].sent /\ row[m].attempt < MaxAttempts
    BY <1>1, Turn
  <1> DEFINE new == Moved(RoutedRow(row[m], p), "routed")
             r == [new EXCEPT !.version = row[m].version + 1]
             f == Ev("dispatch", m, row[m].version + 1, p)
  <1>3. row' = [row EXCEPT ![m] = r]
    BY DEF TransitionMessage, CompareAndSet
  <1>4. /\ RoutedRow(row[m], p) \in Row /\ RoutedRow(row[m], p).provider = p
        /\ RoutedRow(row[m], p).sent = row[m].sent /\ RoutedRow(row[m], p).attempt = row[m].attempt
    BY <1>2 DEF RoutedRow, Row, Errors
  <1>5. /\ new \in Row /\ new.status = "routed" /\ new.provider = p /\ ~new.sent
        /\ new.attempt = row[m].attempt
    <2> HIDE DEF RoutedRow
    <2> QED BY <1>2, <1>4, MovedType DEF Statuses
  <1>6. /\ r.status = "routed" /\ r.provider = p /\ ~r.sent /\ r.attempt = row[m].attempt
    <2>1. row[m].version + 1 \in Nat
      BY <1>2, NextVersion
    <2> HIDE DEF new
    <2> QED BY <1>5, <2>1, Versioned
  <1>7. f.message = m /\ f.topic = "dispatch" /\ f.provider = p
    BY DEF Ev
  <1> HIDE DEF r, new
  <1>8. FinishAndEnqueue(e, f) /\ UNCHANGED <<taken, faults>> /\ Release(w)
    BY DEF HandleAccepted
  <1> HIDE DEF f, m, e
  <1> QED
    BY <1>2, <1>3, <1>6, <1>7, <1>8, EndsWith DEF Flying, m, e

LEMMA HandleRetryOrder ==
    ASSUME IInv, Undisturbed, NEW w \in Workers, HandleRetry(w)
    PROVE  Undisturbed'
  <1> DEFINE e == worker[w].ev
             m == e.message
             f == Ev("dispatch", m, worker[w].seen.version, worker[w].seen.provider)
  <1>1. worker[w].pc = "retry" /\ worker[w].pc \in DOMAIN Handles
    BY DEF HandleRetry, Handles
  <1>2. /\ worker[w].pc # "idle" /\ m \in Messages /\ worker[w].seen = row[m]
        /\ ~row[m].sent /\ row[m].attempt < MaxAttempts /\ row[m].status = "submitting"
    BY <1>1, Turn DEF Handles
  <1>3. f.message = m /\ f.topic = "dispatch" /\ f.provider = row[m].provider
    BY <1>2 DEF Ev
  <1>4. row' = [row EXCEPT ![m] = row[m]]
    BY DEF HandleRetry, IInv, RowInv
  <1>5. FinishAndEnqueue(e, f) /\ UNCHANGED <<taken, faults>> /\ Release(w)
    BY DEF HandleRetry
  <1> HIDE DEF f, m, e
  <1> QED
    BY <1>2, <1>3, <1>4, <1>5, EndsWith DEF Flying, m, e

(* The row after the first transaction of an attempt.                        *)
LEMMA AttemptFields ==
    ASSUME NEW r \in Row
    PROVE  /\ AttemptRow(r) \in Row /\ AttemptRow(r).status = "submitting"
           /\ AttemptRow(r).attempt = r.attempt + 1 /\ AttemptRow(r).provider = r.provider
           /\ AttemptRow(r).sent = r.sent /\ AttemptRow(r).pmid = r.pmid
  <1>1. r.attempt + 1 \in Nat /\ "submitting" \in Statuses
    BY DEF Row, Statuses
  <1> QED BY <1>1 DEF AttemptRow, Row

LEMMA BeginAttemptOrder ==
    ASSUME IInv, Undisturbed, NEW w \in Workers, BeginAttempt(w)
    PROVE  Undisturbed'
  <1>1. worker[w].pc = "dispatch" /\ worker[w].pc \in DOMAIN Handles
    BY DEF BeginAttempt, Handles
  <1> PICK m \in Messages : m = worker[w].ev.message
    BY <1>1, Turn
  <1> DEFINE b == worker[w]
             e == b.ev
             new == IF b.seen.status = "routed"
                      THEN Moved(AttemptRow(row[m]), "submitting") ELSE AttemptRow(row[m])
             r == [new EXCEPT !.version = row[m].version + 1]
             c == [b EXCEPT !.pc = "call", !.ver = row[m].version + 1]
  <1>2. /\ b.pc # "idle" /\ row[m] \in Row /\ ~row[m].sent
        /\ e.provider = row[m].provider /\ row[m].attempt < MaxAttempts /\ e.topic = "dispatch"
    BY <1>1, Turn
  <1>3. row' = [row EXCEPT ![m] = r]
    BY DEF BeginAttempt, TransitionMessage, PatchMessage, CompareAndSet
  <1>4. /\ new \in Row /\ new.status = "submitting" /\ new.provider = row[m].provider
        /\ ~new.sent /\ new.attempt = row[m].attempt + 1
    <2> HIDE DEF AttemptRow
    <2>1. "submitting" \in Statuses
      BY DEF Statuses
    <2>2. /\ AttemptRow(row[m]) \in Row /\ AttemptRow(row[m]).status = "submitting"
          /\ AttemptRow(row[m]).attempt = row[m].attempt + 1
          /\ AttemptRow(row[m]).provider = row[m].provider /\ ~AttemptRow(row[m]).sent
      BY <1>2, AttemptFields
    <2>3. /\ Moved(AttemptRow(row[m]), "submitting") \in Row
          /\ Moved(AttemptRow(row[m]), "submitting").status = "submitting"
          /\ Moved(AttemptRow(row[m]), "submitting").provider = AttemptRow(row[m]).provider
          /\ ~Moved(AttemptRow(row[m]), "submitting").sent
          /\ Moved(AttemptRow(row[m]), "submitting").attempt = AttemptRow(row[m]).attempt
      BY <2>1, <2>2, MovedType
    <2> QED BY <2>2, <2>3
  <1>5. /\ r.status = "submitting" /\ r.provider = row[m].provider /\ ~r.sent
        /\ r.attempt = row[m].attempt + 1
    <2>1. row[m].version + 1 \in Nat
      BY <1>2, NextVersion
    <2> HIDE DEF new
    <2> QED BY <1>4, <2>1, Versioned
  <1>6. b \in Busy /\ b # Idle /\ \A v \in Workers : Holds(v, m) => v = w
    BY <1>2, InCharge
  <1>7. Fine(row[m], Live(m), b, Took(m))
    BY <1>2, InCharge
  <1>8. c \in Busy /\ c.pc = "call" /\ c.ev = e
    <2>1. row[m].version + 1 \in Nat
      BY <1>2, NextVersion
    <2> QED BY <1>6, <2>1 DEF Busy
  <1>9. worker' = [worker EXCEPT ![w] = c]
    BY DEF BeginAttempt
  <1>10. UNCHANGED <<pending, faults>> /\ \A n \in Messages : Took(n)' = Took(n)
    BY DEF BeginAttempt, Took
  <1>11. row[m].attempt \in Nat
    BY <1>2 DEF Row
  <1> HIDE DEF r, new, c, e, b
  <1>12. c # Idle /\ c.pc # "idle" /\ c.pc \notin DOMAIN Handles
    BY <1>8 DEF Idle, Handles
  <1>13. \A f \in Live(m) : f = e
    BY <1>6, <1>7 DEF Fine, e
  <1>14. e \in Live(m)
    BY <1>6, <1>7 DEF Fine, e
  <1>15. IsFiniteSet(Took(m)) /\ Cardinality(Took(m)) \in Nat /\ Cardinality(Took(m)) <= row[m].attempt
    BY <1>7, FS_CardinalityType DEF Fine
  <1>16. Fine(r, Live(m), c, Took(m))
    <2>1. \A f, g \in Live(m) : f = g
      BY <1>13
    <2>2. \A f \in Live(m) : /\ r.status \in Flying /\ f.provider = r.provider
                             /\ f.topic # "result" /\ c.pc = "call"
      BY <1>2, <1>5, <1>8, <1>13 DEF Flying
    <2>3. /\ c.ev \in Live(m) /\ c.pc \notin DOMAIN Handles /\ c.pc # "called"
          /\ Cardinality(Took(m)) < r.attempt
      BY <1>5, <1>8, <1>11, <1>12, <1>14, <1>15
    <2>4. /\ IsFiniteSet(Took(m)) /\ Cardinality(Took(m)) <= r.attempt
          /\ r.attempt <= MaxAttempts /\ ~r.sent
      BY <1>2, <1>5, <1>11, <1>15, BoundAssumption
    <2> QED BY <2>1, <2>2, <2>3, <2>4 DEF Fine
  <1>17. Fine(r, Live(m), c, Took(m)')
    BY <1>2, <1>10, <1>16
  <1>18. worker[w].ev.message = m /\ c.ev.message = m
    BY <1>8 DEF e, b
  <1> QED
    <2>1. c \in Busy /\ c.ev.message = m /\ c # Idle /\ c.pc # "idle"
      BY <1>8, <1>12, <1>18
    <2>2. /\ \A v \in Workers : Holds(v, m) => v = w
          /\ \A n \in Messages \ {m} : Took(n)' = Took(n)
          /\ UNCHANGED <<pending, faults>>
      BY <1>6, <1>10
    <2> QED BY <1>3, <1>9, <1>17, <1>18, <2>1, <2>2, GoesOn

LEMMA FraudThrottleOrder ==
    ASSUME IInv, Undisturbed, NEW w \in Workers, FraudThrottle(w)
    PROVE  Undisturbed'
  <1>1. worker[w].pc = "dispatch" /\ worker[w].pc \in DOMAIN Handles
    BY DEF FraudThrottle, Handles
  <1> PICK m \in Messages : m = worker[w].ev.message
    BY <1>1, Turn
  <1> DEFINE e == worker[w].ev
             new == [row[m] EXCEPT !.error = "dispatch"]
             r == [new EXCEPT !.version = row[m].version + 1]
             f == Ev("retry", m, row[m].version + 1, e.provider)
  <1>2. /\ worker[w].pc # "idle" /\ row[m] \in Row /\ ~row[m].sent
        /\ e.provider = row[m].provider /\ row[m].attempt < MaxAttempts
        /\ row[m].status \in {"routed", "submitting"}
    BY <1>1, Turn DEF Handles
  <1>3. row' = [row EXCEPT ![m] = r]
    BY DEF FraudThrottle, PatchMessage, CompareAndSet
  <1>4. /\ new \in Row /\ new.status = row[m].status /\ new.provider = row[m].provider
        /\ new.sent = row[m].sent /\ new.attempt = row[m].attempt
    BY <1>2 DEF Row, Errors
  <1>5. /\ r.status = row[m].status /\ r.provider = row[m].provider /\ ~r.sent
        /\ r.attempt = row[m].attempt
    <2>1. row[m].version + 1 \in Nat
      BY <1>2, NextVersion
    <2> HIDE DEF new
    <2> QED BY <1>2, <1>4, <2>1, Versioned
  <1>6. f.message = m /\ f.topic = "retry" /\ f.provider = row[m].provider
    BY <1>2 DEF Ev
  <1>7. FinishAndEnqueue(e, f) /\ UNCHANGED <<taken, faults>> /\ Release(w)
    BY DEF FraudThrottle
  <1> HIDE DEF r, new, f
  <1>8. r.status \in Flying /\ f.topic # "reconcile" /\ f.topic # "result"
    BY <1>2, <1>5, <1>6 DEF Flying
  <1>9. r.attempt = row[m].attempt /\ r.attempt < MaxAttempts /\ f.provider = r.provider
    BY <1>2, <1>5, <1>6
  <1>10. FinishAndEnqueue(worker[w].ev, f)
    BY <1>7
  <1> QED
    BY <1>2, <1>3, <1>5, <1>6, <1>7, <1>8, <1>9, <1>10, EndsWith

LEMMA FraudBlockOrder ==
    ASSUME IInv, Undisturbed, NEW w \in Workers, FraudBlock(w)
    PROVE  Undisturbed'
  <1>1. worker[w].pc = "dispatch" /\ worker[w].pc \in DOMAIN Handles
    BY DEF FraudBlock, Handles
  <1> PICK m \in Messages : m = worker[w].ev.message
    BY <1>1, Turn
  <1>2. /\ worker[w].pc # "idle" /\ ~row[m].sent /\ row[m].attempt < MaxAttempts
        /\ Fine(row[m], Live(m), worker[w], Took(m)) /\ worker[w] # Idle
    BY <1>1, Turn, InCharge
  <1>3. UNCHANGED <<row, pending, taken, faults>> /\ Release(w)
    BY BlockRefused DEF FraudBlock
  <1>4. row' = [row EXCEPT ![m] = row[m]] /\ \A n \in Messages : Live(n)' = Live(n)
    BY <1>3 DEF IInv, RowInv, Live
  <1>5. Left(row[m], Live(m)', Took(m))
    BY <1>1, <1>2, <1>4 DEF Fine, Left
  <1> QED
    BY <1>2, <1>3, <1>4, <1>5, Ends

(* A carrier gets an attempt once, in the attempt's own call.                *)
LEMMA CallProviderOrder ==
    ASSUME IInv, Undisturbed, NEW w \in Workers, CallProvider(w)
    PROVE  Undisturbed'
  <1>1. worker[w].pc = "call"
    BY DEF CallProvider
  <1>2. /\ worker[w] \in Busy /\ worker[w] # Idle /\ worker[w].ev.message \in Messages
    BY <1>1, InCharge
  <1> PICK m \in Messages : m = worker[w].ev.message
    BY <1>2
  <1> DEFINE e == worker[w].ev
             t == [message |-> m, ver |-> worker[w].ver, provider |-> e.provider]
  <1>3. Fine(row[m], Live(m), worker[w], Took(m)) /\ \A v \in Workers : Holds(v, m) => v = w
    BY <1>1, InCharge
  <1>4. PICK c \in Busy : /\ worker' = [worker EXCEPT ![w] = c]
                          /\ c.pc = "called" /\ c.ev = e
                          /\ taken' = taken \/ taken' = taken \cup {t}
                          /\ c.outcome = "accept" => t \in taken' /\ c.pmid \in {t.ver, NoId}
    <2>1. CASE \E id \in {NoId, worker[w].ver} :
                  /\ taken' = taken \cup {t}
                  /\ worker' = [worker EXCEPT ![w].pc = "called",
                                   ![w].outcome = "accept", ![w].pmid = id]
      <3> PICK id \in {NoId, worker[w].ver} :
                  /\ taken' = taken \cup {t}
                  /\ worker' = [worker EXCEPT ![w].pc = "called",
                                   ![w].outcome = "accept", ![w].pmid = id]
        BY <2>1
      <3> DEFINE c == [worker[w] EXCEPT !.pc = "called", !.outcome = "accept", !.pmid = id]
      <3>1. id \in Nat
        BY <1>2, BusyFields DEF NoId
      <3>2. c \in Busy
        BY <1>2, <3>1 DEF Busy, Outcomes
      <3>3. worker' = [worker EXCEPT ![w] = c] /\ c.pc = "called" /\ c.ev = e /\ c.pmid = id
        BY <1>2 DEF Busy
      <3> QED BY <3>2, <3>3
    <2>2. CASE \E o \in {"retry", "reject", "uncertain"} :
                  /\ taken' = taken \/ taken' = taken \cup {t}
                  /\ worker' = [worker EXCEPT ![w].pc = "called", ![w].outcome = o]
      <3> PICK o \in {"retry", "reject", "uncertain"} :
                  /\ taken' = taken \/ taken' = taken \cup {t}
                  /\ worker' = [worker EXCEPT ![w].pc = "called", ![w].outcome = o]
        BY <2>2
      <3> DEFINE c == [worker[w] EXCEPT !.pc = "called", !.outcome = o]
      <3>1. c \in Busy
        BY <1>2 DEF Busy, Outcomes
      <3>2. worker' = [worker EXCEPT ![w] = c] /\ c.pc = "called" /\ c.ev = e
            /\ c.outcome # "accept"
        BY <1>2 DEF Busy
      <3> QED BY <3>1, <3>2
    <2> QED BY <2>1, <2>2 DEF CallProvider
  <1>5. t.message = m /\ t.provider = e.provider
    OBVIOUS
  <1> HIDE DEF t
  <1>6. /\ \A n \in Messages \ {m} : Took(n)' = Took(n)
        /\ Took(m)' = Took(m) \/ Took(m)' = Took(m) \cup {t}
        /\ c.outcome = "accept" => t \in Took(m)'
    BY <1>4, <1>5 DEF Took
  <1>7. PICK T : T = Took(m)'
    OBVIOUS
  <1>8. /\ IsFiniteSet(T) /\ Cardinality(T) <= row[m].attempt
    <2>1. /\ IsFiniteSet(Took(m)) /\ Cardinality(Took(m)) < row[m].attempt
          /\ row[m].attempt <= MaxAttempts
      BY <1>1, <1>2, <1>3 DEF Fine
    <2>2. Cardinality(Took(m)) \in Nat /\ row[m].attempt \in Nat
      BY <2>1, FS_CardinalityType DEF IInv, RowInv, Row, NoRow
    <2>3. CASE T = Took(m)
      BY <2>1, <2>2, <2>3
    <2>4. CASE T = Took(m) \cup {t}
      <3>1. PICK u : u = t
        OBVIOUS
      <3>2. /\ IsFiniteSet(Took(m) \cup {u})
            /\ Cardinality(Took(m) \cup {u}) =
                 IF u \in Took(m) THEN Cardinality(Took(m)) ELSE Cardinality(Took(m)) + 1
        BY <2>1, FS_AddElement
      <3>3. Cardinality(T) = Cardinality(Took(m)) \/ Cardinality(T) = Cardinality(Took(m)) + 1
        BY <2>4, <3>1, <3>2
      <3> QED BY <2>1, <2>2, <2>4, <3>1, <3>2, <3>3
    <2> QED BY <1>6, <1>7, <2>3, <2>4
  <1>9. Took(m) \subseteq T /\ \A p, id : Named(Took(m), p, id) => Named(T, p, id)
    BY <1>6, <1>7 DEF Named
  <1>10. c.outcome = "accept" => Named(T, e.provider, c.pmid)
    BY <1>4, <1>5, <1>6, <1>7 DEF Named
  <1>11. c # Idle /\ c.pc # "idle" /\ c.pc \notin DOMAIN Handles
    BY <1>4 DEF Idle, Handles
  <1>12. Fine(row[m], Live(m), c, T)
    BY <1>1, <1>2, <1>3, <1>4, <1>8, <1>9, <1>10, <1>11 DEF Fine
  <1>13. row' = [row EXCEPT ![m] = row[m]] /\ UNCHANGED <<pending, faults>>
    BY DEF CallProvider, IInv, RowInv
  <1> QED
    BY <1>3, <1>4, <1>6, <1>7, <1>11, <1>12, <1>13, GoesOn

LEMMA ReportResultOrder ==
    ASSUME IInv, Undisturbed, NEW w \in Workers, ReportResult(w)
    PROVE  Undisturbed'
  <1>1. worker[w].pc = "called"
    BY DEF ReportResult
  <1>2. /\ worker[w] \in Busy /\ worker[w] # Idle /\ worker[w].ev.message \in Messages
    BY <1>1, InCharge
  <1> PICK m \in Messages : m = worker[w].ev.message
    BY <1>2
  <1> DEFINE e == worker[w].ev
             f == ResultEvent(w)
  <1>3. Fine(row[m], Live(m), worker[w], Took(m))
    BY <1>1, InCharge
  <1>4. /\ f.message = m /\ f.topic = "result" /\ f.provider = e.provider
        /\ f.outcome = worker[w].outcome /\ f.pmid = worker[w].pmid
    BY <1>2, BusyFields DEF ResultEvent, Ev, Event
  <1>5. /\ row[m].status \in Flying /\ e.provider = row[m].provider
        /\ f.outcome = "accept" => Named(Took(m), f.provider, f.pmid)
        /\ row[m].sent => Named(Took(m), row[m].provider, row[m].pmid)
    BY <1>1, <1>2, <1>3, <1>4 DEF Fine
  <1>6. row' = [row EXCEPT ![m] = row[m]]
    BY DEF ReportResult, IInv, RowInv
  <1>7. FinishAndEnqueue(e, f) /\ UNCHANGED <<taken, faults>> /\ Release(w)
    BY DEF ReportResult
  <1> HIDE DEF f
  <1> QED
    BY <1>1, <1>4, <1>5, <1>6, <1>7, EndsWith

LEMMA ResultAcceptedOrder ==
    ASSUME IInv, Undisturbed, NEW w \in Workers, ResultAccepted(w)
    PROVE  Undisturbed'
  <1>1. worker[w].pc = "result" /\ worker[w].pc \in DOMAIN Handles
    BY DEF ResultAccepted, Handles
  <1> PICK m \in Messages : m = worker[w].ev.message
    BY <1>1, Turn
  <1> DEFINE e == worker[w].ev
             base == [row[m] EXCEPT !.pmid = e.pmid, !.error = "none"]
             new == Moved(base, "provider_accepted")
             r == [new EXCEPT !.version = row[m].version + 1]
  <1>2. /\ worker[w].pc # "idle" /\ row[m] \in Row /\ e.provider = row[m].provider
        /\ e.topic = "result" /\ e.outcome = "accept" /\ Named(Took(m), e.provider, e.pmid)
    BY <1>1, Turn DEF ResultAccepted
  <1>3. row' = [row EXCEPT ![m] = r]
    BY DEF ResultAccepted, TransitionMessage, CompareAndSet
  <1>4. e.pmid \in Nat
    BY <1>1, ResultFacts
  <1>5. /\ base \in Row /\ base.provider = row[m].provider /\ base.attempt = row[m].attempt
        /\ base.pmid = e.pmid
    BY <1>2, <1>4 DEF Row, Errors
  <1>6. /\ new \in Row /\ new.provider = row[m].provider /\ new.attempt = row[m].attempt
        /\ new.pmid = e.pmid
    <2> HIDE DEF base
    <2> QED BY <1>5, MovedType DEF Statuses
  <1>7. /\ r.provider = e.provider /\ r.attempt = row[m].attempt /\ r.pmid = e.pmid
    <2>1. row[m].version + 1 \in Nat
      BY <1>2, NextVersion
    <2> HIDE DEF new
    <2> QED BY <1>2, <1>6, <2>1, Versioned
  <1>8. Finish(e) /\ UNCHANGED <<taken, faults>> /\ Release(w)
    BY DEF ResultAccepted
  <1> HIDE DEF r, new, base
  <1> QED
    BY <1>2, <1>3, <1>7, <1>8, EndsDone

LEMMA ResultUncertainOrder ==
    ASSUME IInv, Undisturbed, NEW w \in Workers, ResultUncertain(w)
    PROVE  Undisturbed'
  <1>1. worker[w].pc = "result" /\ worker[w].pc \in DOMAIN Handles
    BY DEF ResultUncertain, Handles
  <1> PICK m \in Messages : m = worker[w].ev.message
    BY <1>1, Turn
  <1> DEFINE e == worker[w].ev
             new == [row[m] EXCEPT !.error = "dispatch"]
             r == [new EXCEPT !.version = row[m].version + 1]
             f == Ev("reconcile", m, row[m].version + 1, row[m].provider)
  <1>2. worker[w].pc # "idle" /\ row[m] \in Row /\ ~row[m].sent
    BY <1>1, Turn
  <1>3. row' = [row EXCEPT ![m] = r]
    BY DEF ResultUncertain, PatchMessage, CompareAndSet
  <1>4. new \in Row /\ new.sent = row[m].sent /\ new.attempt = row[m].attempt
    BY <1>2 DEF Row, Errors
  <1>5. ~r.sent /\ r.attempt = row[m].attempt
    <2>1. row[m].version + 1 \in Nat
      BY <1>2, NextVersion
    <2> HIDE DEF new
    <2> QED BY <1>2, <1>4, <2>1, Versioned
  <1>6. f.message = m /\ f.topic = "reconcile"
    BY DEF Ev
  <1>7. FinishAndEnqueue(e, f) /\ UNCHANGED <<taken, faults>> /\ Release(w)
    BY DEF ResultUncertain
  <1> HIDE DEF r, new, f
  <1> QED
    BY <1>2, <1>3, <1>5, <1>6, <1>7, EndsWith

LEMMA ResultRetryOrder ==
    ASSUME IInv, Undisturbed, NEW w \in Workers, ResultRetry(w)
    PROVE  Undisturbed'
  <1>1. worker[w].pc = "result" /\ worker[w].pc \in DOMAIN Handles
    BY DEF ResultRetry, Handles
  <1> PICK m \in Messages : m = worker[w].ev.message
    BY <1>1, Turn
  <1> DEFINE e == worker[w].ev
  <1> PICK p \in Providers :
         /\ PatchMessage(m, worker[w].seen, [row[m] EXCEPT !.provider = p, !.error = "dispatch"])
         /\ FinishAndEnqueue(e, Ev("retry", m, row[m].version + 1, p))
    BY DEF ResultRetry
  <1> DEFINE new == [row[m] EXCEPT !.provider = p, !.error = "dispatch"]
             r == [new EXCEPT !.version = row[m].version + 1]
             f == Ev("retry", m, row[m].version + 1, p)
  <1>2. /\ worker[w].pc # "idle" /\ row[m] \in Row /\ ~row[m].sent
        /\ row[m].status = "submitting" /\ row[m].attempt < MaxAttempts
    <2>1. /\ worker[w].pc # "idle" /\ row[m] \in Row /\ ~row[m].sent
          /\ worker[w].seen = row[m] /\ row[m].status \in Handles[worker[w].pc]
      BY <1>1, Turn
    <2>2. Handles[worker[w].pc] = {"submitting"}
      BY <1>1 DEF Handles
    <2>3. worker[w].seen.attempt < MaxAttempts
      BY DEF ResultRetry, ShouldRetry
    <2> QED BY <2>1, <2>2, <2>3
  <1>3. row' = [row EXCEPT ![m] = r]
    BY DEF PatchMessage, CompareAndSet
  <1>4. /\ new \in Row /\ new.sent = row[m].sent /\ new.attempt = row[m].attempt
        /\ new.provider = p /\ new.status = row[m].status
    BY <1>2 DEF Row, Errors
  <1>5. ~r.sent /\ r.attempt = row[m].attempt /\ r.provider = p /\ r.status = "submitting"
    <2>1. row[m].version + 1 \in Nat
      BY <1>2, NextVersion
    <2> HIDE DEF new
    <2> QED BY <1>2, <1>4, <2>1, Versioned
  <1>6. f.message = m /\ f.topic = "retry" /\ f.provider = p
    BY DEF Ev
  <1>7. FinishAndEnqueue(e, f) /\ UNCHANGED <<taken, faults>> /\ Release(w)
    BY DEF ResultRetry
  <1> HIDE DEF r, new, f
  <1>8. r.status \in Flying /\ f.topic # "reconcile" /\ f.topic # "result"
    BY <1>5, <1>6 DEF Flying
  <1>9. r.attempt = row[m].attempt /\ r.attempt < MaxAttempts /\ f.provider = r.provider
    BY <1>2, <1>5, <1>6
  <1>10. FinishAndEnqueue(worker[w].ev, f)
    BY <1>7
  <1> QED
    BY <1>2, <1>3, <1>5, <1>6, <1>7, <1>8, <1>9, <1>10, EndsWith

LEMMA ResultFailedOrder ==
    ASSUME IInv, Undisturbed, NEW w \in Workers, ResultFailed(w)
    PROVE  Undisturbed'
  <1>1. worker[w].pc = "result" /\ worker[w].pc \in DOMAIN Handles
    BY DEF ResultFailed, Handles
  <1> PICK m \in Messages : m = worker[w].ev.message
    BY <1>1, Turn
  <1> DEFINE e == worker[w].ev
             base == [row[m] EXCEPT !.billing = "released", !.error = "dispatch"]
             new == Moved(base, "failed")
             r == [new EXCEPT !.version = row[m].version + 1]
  <1>2. worker[w].pc # "idle" /\ row[m] \in Row /\ ~row[m].sent
    BY <1>1, Turn
  <1>3. row' = [row EXCEPT ![m] = r]
    BY DEF ResultFailed, TransitionMessage, CompareAndSet
  <1>4. base \in Row /\ base.sent = row[m].sent /\ base.attempt = row[m].attempt
    BY <1>2 DEF Row, Errors, BillingStates
  <1>5. new \in Row /\ ~new.sent /\ new.attempt = row[m].attempt
    <2> HIDE DEF base
    <2> QED BY <1>2, <1>4, MovedType DEF Statuses
  <1>6. ~r.sent /\ r.attempt = row[m].attempt
    <2>1. row[m].version + 1 \in Nat
      BY <1>2, NextVersion
    <2> HIDE DEF new
    <2> QED BY <1>5, <2>1, Versioned
  <1>7. Finish(e) /\ UNCHANGED <<taken, faults>> /\ Release(w)
    BY DEF ResultFailed
  <1> HIDE DEF r, new, base
  <1> QED
    BY <1>2, <1>3, <1>6, <1>7, EndsDone

LEMMA WorkflowOrder ==
    ASSUME IInv, Undisturbed, MaxFaults = 0, WfNext
    PROVE  Undisturbed'
  <1>1. ASSUME NEW m \in Messages, Submit(m) PROVE Undisturbed'
    BY <1>1, SubmitOrder
  <1>2. ASSUME NEW w \in Workers, WorkerStep(w) PROVE Undisturbed'
    <2>1. ASSUME NEW e \in pending, Start(w, e) PROVE Undisturbed'
      BY <2>1, StartOrder
    <2>2. ASSUME NEW e \in pending, Skip(w, e) PROVE Undisturbed'
      BY <2>2, SkipOrder
    <2>3. ~Conflict(w)
      <3> SUFFICES ASSUME Conflict(w) PROVE FALSE
        OBVIOUS
      <3>1. worker[w].pc \in DOMAIN Handles
        BY DEF Conflict, Handles
      <3> QED BY <3>1, Turn DEF Conflict
    <2>4. CASE HandleAccepted(w)
      BY <2>4, HandleAcceptedOrder
    <2>5. CASE HandleRetry(w)
      BY <2>5, HandleRetryOrder
    <2>6. CASE BeginAttempt(w)
      BY <2>6, BeginAttemptOrder
    <2>7. CASE FraudThrottle(w)
      BY <2>7, FraudThrottleOrder
    <2>8. CASE FraudBlock(w)
      BY <2>8, FraudBlockOrder
    <2>9. CASE CallProvider(w)
      BY <2>9, CallProviderOrder
    <2>10. CASE ReportResult(w)
      BY <2>10, ReportResultOrder
    <2>11. CASE ResultAccepted(w)
      BY <2>11, ResultAcceptedOrder
    <2>12. CASE ResultUncertain(w)
      BY <2>12, ResultUncertainOrder
    <2>13. CASE ResultRetry(w)
      BY <2>13, ResultRetryOrder
    <2>14. CASE ResultFailed(w)
      BY <2>14, ResultFailedOrder
    <2> QED
      BY <1>2, <2>1, <2>2, <2>3, <2>4, <2>5, <2>6, <2>7, <2>8, <2>9, <2>10, <2>11, <2>12, <2>13,
         <2>14 DEF WorkerStep
  <1>3. ~Disturbance
    BY DEF Disturbance, Fail, Republish, GiveUp, Undisturbed
  <1> QED
    BY <1>1, <1>2, <1>3 DEF WfNext

-----------------------------------------------------------------------------
(* A report that settles a message finds it acknowledged, with nothing left  *)
(* to be done by the consumers, and leaves its attempts alone.               *)
LEMMA SettledRow ==
    ASSUME IInv, Undisturbed, NEW m \in Messages, row[m].status = "provider_accepted",
           NEW r, row' = [row EXCEPT ![m] = r],
           r.attempt = row[m].attempt, r.provider = row[m].provider, r.pmid = row[m].pmid,
           UNCHANGED <<pending, worker, taken, faults>>
    PROVE  Undisturbed'
  <1>1. PICK b \in Busy \cup {Idle} : Charge(m, b) /\ Fine(row[m], Live(m), b, Took(m))
    BY DEF Undisturbed, Orderly
  <1>2. Live(m) = {}
    BY <1>1 DEF Fine, Flying
  <1>3. (\A w \in Workers : ~Holds(w, m)) /\ Fine(row[m], Live(m), Idle, Took(m))
    BY <1>2, NoneInCharge
  <1>4. \A n \in Messages : Live(n)' = Live(n) /\ Took(n)' = Took(n)
    BY DEF Live, Took
  <1>5. Charge(m, Idle)'
    BY <1>3 DEF Charge, Holds
  <1>6. Named(Took(m), row[m].provider, row[m].pmid)
    BY <1>3 DEF Fine, IInv, RowInv, RowShapes, RowShape
  <1>7. Fine(r, Live(m)', Idle, Took(m)')
    BY <1>2, <1>3, <1>4, <1>6 DEF Fine
  <1>8. \E c \in Busy \cup {Idle} : Charge(m, c)' /\ Fine(r, Live(m)', c, Took(m)')
    BY <1>5, <1>7
  <1> QED
    BY <1>4, <1>8, OneMessage

LEMMA OrderFrame ==
    ASSUME Undisturbed, UNCHANGED <<row, pending, worker, taken, faults>>
    PROVE  Undisturbed'
  <1>1. ASSUME NEW m \in Messages PROVE Orderly(m)'
    <2>1. PICK b \in Busy \cup {Idle} : Charge(m, b) /\ Fine(row[m], Live(m), b, Took(m))
      BY DEF Undisturbed, Orderly
    <2>2. Charge(m, b)' /\ Live(m)' = Live(m) /\ Took(m)' = Took(m) /\ row'[m] = row[m]
      BY <2>1 DEF Charge, Holds, Live, Took
    <2> QED BY <2>1, <2>2 DEF Orderly
  <1> QED
    BY <1>1 DEF Undisturbed

LEMMA DlrDeliveredOrder ==
    ASSUME IInv, Undisturbed, NEW d \in DlrWorkers, DlrDelivered(d),
           UNCHANGED <<outbox, pending, worker, taken>>
    PROVE  Undisturbed'
  <1>1. /\ dlrWorker[d].message \in Messages /\ dlrWorker[d].seen \in Row
        /\ row \in [Messages -> Row \cup {NoRow}]
        /\ dlrWorker[d].seen.status = "provider_accepted"
    BY SettlingFacts DEF DlrDelivered, Settling
  <1> PICK m \in Messages : m = dlrWorker[d].message
    BY <1>1
  <1> DEFINE new == Moved(row[m], "delivered")
             r == [new EXCEPT !.version = row[m].version + 1]
  <1>2. row[m] \in Row /\ row[m].status = "provider_accepted" /\ row' = [row EXCEPT ![m] = r]
    BY <1>1, CompareAndSetFacts DEF DlrDelivered, TransitionMessage
  <1>3. /\ new \in Row /\ new.provider = row[m].provider /\ new.attempt = row[m].attempt
        /\ new.pmid = row[m].pmid
    BY <1>2, MovedType DEF Statuses
  <1>4. r.provider = row[m].provider /\ r.attempt = row[m].attempt /\ r.pmid = row[m].pmid
    <2>1. row[m].version + 1 \in Nat
      BY <1>2, NextVersion
    <2> HIDE DEF new
    <2> QED BY <1>3, <2>1, Versioned
  <1>5. UNCHANGED faults
    BY DEF DlrDelivered, Processed
  <1> HIDE DEF r, new
  <1> QED
    BY <1>2, <1>4, <1>5, SettledRow

LEMMA DlrFailedOrder ==
    ASSUME IInv, Undisturbed, NEW d \in DlrWorkers, DlrFailed(d),
           UNCHANGED <<outbox, pending, worker, taken>>
    PROVE  Undisturbed'
  <1>1. /\ dlrWorker[d].message \in Messages /\ dlrWorker[d].seen \in Row
        /\ row \in [Messages -> Row \cup {NoRow}]
        /\ dlrWorker[d].seen.status = "provider_accepted"
    BY SettlingFacts DEF DlrFailed, Settling
  <1> PICK m \in Messages : m = dlrWorker[d].message
    BY <1>1
  <1> DEFINE base == FailedRow(row[m])
             new == Moved(base, "failed")
             r == [new EXCEPT !.version = row[m].version + 1]
  <1>2. row[m] \in Row /\ row[m].status = "provider_accepted" /\ row' = [row EXCEPT ![m] = r]
    BY <1>1, CompareAndSetFacts DEF DlrFailed, TransitionMessage
  <1>3. /\ base \in Row /\ base.provider = row[m].provider /\ base.attempt = row[m].attempt
        /\ base.pmid = row[m].pmid
    <2>1. row[m].billing = "debited"
      BY <1>2 DEF IInv, RowInv, RowShapes, RowShape
    <2> QED BY <1>2, <2>1 DEF FailedRow, Row, Errors
  <1>4. /\ new \in Row /\ new.provider = row[m].provider /\ new.attempt = row[m].attempt
        /\ new.pmid = row[m].pmid
    <2> HIDE DEF base
    <2> QED BY <1>3, MovedType DEF Statuses
  <1>5. r.provider = row[m].provider /\ r.attempt = row[m].attempt /\ r.pmid = row[m].pmid
    <2>1. row[m].version + 1 \in Nat
      BY <1>2, NextVersion
    <2> HIDE DEF new
    <2> QED BY <1>4, <2>1, Versioned
  <1>6. UNCHANGED faults
    BY DEF DlrFailed, Processed
  <1> HIDE DEF r, new, base
  <1> QED
    BY <1>2, <1>5, <1>6, SettledRow

LEMMA ReportsOrder ==
    ASSUME IInv, Undisturbed, MaxFaults = 0, DlrNext
    PROVE  Undisturbed'
  <1>1. ASSUME NEW c \in Callbacks, AcceptWebhook(c), UNCHANGED wfVars PROVE Undisturbed'
    BY <1>1, OrderFrame DEF wfVars
  <1>2. CASE DlrLookup /\ UNCHANGED <<row, ledger, outbox, pending, worker, taken>>
    <2>1. UNCHANGED faults
      BY <1>2 DEF DlrLookup, ReadWebhook, SkipProcessed, Correlate, DlrConflict, DlrFail,
                  DlrRepublish, DlrGiveUp, Undisturbed
    <2> QED BY <1>2, <2>1, OrderFrame
  <1>3. ASSUME NEW d \in DlrWorkers, DlrSettle(d), UNCHANGED <<outbox, pending, worker, taken>>
        PROVE  Undisturbed'
    <2>1. CASE DlrUnmatched(d) \/ DlrUnknown(d) \/ DlrDuplicate(d) \/ DlrInvalid(d)
      BY <1>3, <2>1, OrderFrame
         DEF DlrUnmatched, DlrUnknown, DlrDuplicate, DlrInvalid, Reconciled, Processed
    <2>2. CASE DlrDelivered(d)
      BY <1>3, <2>2, DlrDeliveredOrder
    <2>3. CASE DlrFailed(d)
      BY <1>3, <2>3, DlrFailedOrder
    <2> QED
      BY <1>3, <2>1, <2>2, <2>3 DEF DlrSettle
  <1> QED
    BY <1>1, <1>2, <1>3 DEF DlrNext

(* As long as nothing is disturbed - no exception, crash, rebalance or       *)
(* second publication around the handlers - every message is in order: one   *)
(* event, one handler, and a row that tells its attempts.                    *)
THEOREM OrderKept ==
    ASSUME MaxFaults = 0
    PROVE  Spec => []Undisturbed
  <1>1. Init => Undisturbed
    <2> SUFFICES ASSUME Init PROVE Undisturbed
      OBVIOUS
    <2>1. ASSUME NEW m \in Messages PROVE Orderly(m)
      <3>1. Live(m) = {} /\ Took(m) = {} /\ row[m] = NoRow
        BY DEF Init, WfInit, StoreInit, Live, Took
      <3>2. Charge(m, Idle)
        BY DEF Init, WfInit, Charge, Holds, Idle
      <3>3. Fine(row[m], Live(m), Idle, Took(m))
        BY <3>1, FS_EmptySet, BoundAssumption DEF Fine, NoRow
      <3> QED BY <3>2, <3>3 DEF Orderly
    <2> QED BY <2>1 DEF Undisturbed, Init, WfInit
  <1>2. IInv /\ Undisturbed /\ [Next]_vars => Undisturbed'
    <2> SUFFICES ASSUME IInv, Undisturbed, [Next]_vars PROVE Undisturbed'
      OBVIOUS
    <2>1. CASE WfNext /\ UNCHANGED dlrVars
      BY <2>1, WorkflowOrder
    <2>2. CASE DlrNext
      BY <2>2, ReportsOrder
    <2>3. CASE UNCHANGED vars
      BY <2>3, OrderFrame DEF vars
    <2> QED BY <2>1, <2>2, <2>3 DEF Next
  <1> QED
    BY <1>1, <1>2, Invariant, PTL DEF Spec
=============================================================================
