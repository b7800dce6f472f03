---------------------- MODULE MessageRefinementProofs ----------------------
(***************************************************************************)
(* What a step of the pipeline may do to the rows and the ledger, for any  *)
(* messages, carriers, workers, callbacks and bounds: it passes the        *)
(* trigger on messages, and it is a step of MessageLifecycle.  And why a   *)
(* message settles, as far as that is not a matter of fairness: in an      *)
(* undisturbed system what is left to do for it is pending, and the work   *)
(* on it runs out.                                                         *)
(***************************************************************************)
EXTENDS MessagePipelineProofs

InFlight == {"accepted", "routed", "submitting"}

(* Every step that writes writes one row, with the ledger entry that       *)
(* belongs to the change of its status.                                    *)
Inserts(m, r) ==
    row[m] = NoRow /\ r.status = "accepted" /\ ApplyWalletLedger(m, "reserve", "submit")

Moves(m, r) ==
    \/ row[m].status \in InFlight /\ r.status \in InFlight /\ UNCHANGED ledger
    \/ /\ row[m].status = "submitting" /\ r.status = "provider_accepted"
       /\ ApplyWalletLedger(m, "debit", "ack")
    \/ /\ row[m].status = "submitting" /\ r.status = "failed"
       /\ ApplyWalletLedger(m, "release", "final")
    \/ /\ row[m].status = "provider_accepted" /\ r.status \in {"delivered", "failed"}
       /\ UNCHANGED ledger

RowEffect ==
    \E m \in Messages, r \in Row :
        /\ row' = [row EXCEPT ![m] = r]
        /\ \/ Inserts(m, r)
           \/ row[m] \in Row /\ LegalUpdate(row[m], r) /\ Moves(m, r)

-----------------------------------------------------------------------------
(* A compare-and-set that writes `new` is such a step, if `new` is.        *)
LEMMA CasEffect ==
    ASSUME row \in [Messages -> Row \cup {NoRow}], NEW m \in Messages, NEW seen \in Row,
           NEW new, CompareAndSet(m, seen, new), new \in Row, Moves(m, new),
           \/ row[m].status = new.status
           \/ /\ new.status \in AllowedTransitions[row[m].status]
              /\ row[m].status = "provider_accepted" /\ new.status = "failed" =>
                    new.error = "dlr_failed"
    PROVE  RowEffect
  <1> DEFINE r == [new EXCEPT !.version = row[m].version + 1]
  <1>1. row[m] \in Row /\ row' = [row EXCEPT ![m] = r]
    BY CompareAndSetFacts
  <1>2. row[m].version + 1 \in Nat
    BY <1>1 DEF Row
  <1>3. /\ r \in Row /\ r.version = row[m].version + 1
        /\ r.status = new.status /\ r.error = new.error
    BY <1>2 DEF Row
  <1> HIDE DEF r
  <1>4. row[m].status \in Statuses
    BY <1>1 DEF Row
  <1>5. LegalUpdate(row[m], r)
    BY <1>3, <1>4 DEF LegalUpdate, AllowedTransitions, Statuses
  <1>6. Moves(m, r)
    BY <1>3 DEF Moves
  <1> QED
    BY <1>1, <1>3, <1>5, <1>6 DEF RowEffect

(* patchMessage by a handler of a message in flight.                       *)
LEMMA PatchEffect ==
    ASSUME row \in [Messages -> Row \cup {NoRow}], NEW m \in Messages, NEW seen \in Row,
           NEW new, PatchMessage(m, seen, new), row[m] \in Row => new \in Row,
           row[m] \in Row => new.status = row[m].status,
           seen.status \in InFlight, UNCHANGED ledger
    PROVE  RowEffect
  <1>1. CompareAndSet(m, seen, new)
    BY DEF PatchMessage
  <1>2. row[m] \in Row /\ row[m].status = seen.status
    BY <1>1, CompareAndSetFacts
  <1>3. Moves(m, new)
    BY <1>2 DEF Moves
  <1> QED
    BY <1>1, <1>2, <1>3, CasEffect

(* transitionMessage, with the posting its target calls for.               *)
LEMMA TransitionEffect ==
    ASSUME row \in [Messages -> Row \cup {NoRow}], NEW m \in Messages, NEW seen \in Row,
           NEW next \in Statuses, NEW new, TransitionMessage(m, seen, next, new),
           row[m] \in Row => new \in Row,
           seen.status = "provider_accepted" /\ next = "failed" => new.error = "dlr_failed",
           \/ next \in InFlight /\ UNCHANGED ledger
           \/ next = "provider_accepted" /\ ApplyWalletLedger(m, "debit", "ack")
           \/ /\ seen.status = "submitting" /\ next = "failed"
              /\ ApplyWalletLedger(m, "release", "final")
           \/ /\ seen.status = "provider_accepted" /\ next \in {"delivered", "failed"}
              /\ UNCHANGED ledger
    PROVE  RowEffect
  <1>1. next \in AllowedTransitions[seen.status] /\ CompareAndSet(m, seen, Moved(new, next))
    BY DEF TransitionMessage
  <1>2. row[m] \in Row /\ row[m].status = seen.status
    BY <1>1, CompareAndSetFacts
  <1>3. /\ Moved(new, next) \in Row /\ Moved(new, next).status = next
        /\ Moved(new, next).error = new.error
    BY <1>2, MovedType
  <1>4. seen.status \in Statuses
    BY DEF Row
  <1>5. Moves(m, Moved(new, next))
    BY <1>1, <1>2, <1>3, <1>4 DEF Moves, AllowedTransitions, InFlight, Statuses
  <1> QED
    BY <1>1, <1>2, <1>3, <1>5, CasEffect

-----------------------------------------------------------------------------
LEMMA WorkerEffect ==
    ASSUME IInv, NEW w \in Workers, WorkerStep(w)
    PROVE  UNCHANGED <<row, ledger>> \/ RowEffect
  <1> DEFINE m == worker[w].ev.message
             seen == worker[w].seen
  <1>1. row \in [Messages -> Row \cup {NoRow}]
    BY DEF IInv, RowInv
  <1>2. worker[w].pc \in DOMAIN Handles =>
           /\ m \in Messages /\ seen \in Row /\ seen.status \in Handles[worker[w].pc]
    BY HandlerFacts
  <1>3. CASE HandleAccepted(w)
    <2> PICK p \in Providers : TransitionMessage(m, seen, "routed", RoutedRow(row[m], p))
      BY <1>3 DEF HandleAccepted
    <2>1. row[m] \in Row => RoutedRow(row[m], p) \in Row
      BY DEF RoutedRow, Row, Errors
    <2>2. m \in Messages /\ seen \in Row /\ seen.status = "accepted"
      BY <1>2, <1>3 DEF HandleAccepted, Handles
    <2>3. "routed" \in Statuses /\ "routed" \in InFlight
      BY DEF Statuses, InFlight
    <2> QED
      BY <1>1, <1>3, <2>1, <2>2, <2>3, TransitionEffect DEF HandleAccepted
  <1>4. CASE BeginAttempt(w)
    <2>1. m \in Messages /\ seen \in Row /\ seen.status \in {"routed", "submitting"}
      BY <1>2, <1>4 DEF BeginAttempt, Handles
    <2>2. row[m] \in Row => AttemptRow(row[m]) \in Row /\ AttemptRow(row[m]).status = "submitting"
      <3>1. row[m] \in Row => row[m].attempt + 1 \in Nat /\ "submitting" \in Statuses
        BY DEF Row, Statuses
      <3> QED BY <3>1 DEF AttemptRow, Row
    <2>3. "submitting" \in Statuses /\ "submitting" \in InFlight
      BY DEF Statuses, InFlight
    <2>4. CASE seen.status = "routed"
      <3>1. TransitionMessage(m, seen, "submitting", AttemptRow(row[m])) /\ UNCHANGED ledger
        BY <1>4, <2>4 DEF BeginAttempt
      <3> QED BY <1>1, <2>1, <2>2, <2>3, <2>4, <3>1, TransitionEffect
    <2>5. CASE seen.status = "submitting"
      <3>1. PatchMessage(m, seen, AttemptRow(row[m])) /\ UNCHANGED ledger
        BY <1>4, <2>5 DEF BeginAttempt
      <3>2. row[m].status = "submitting"
        BY <2>5, <3>1 DEF PatchMessage, CompareAndSet, CasMatches
      <3> QED BY <1>1, <2>1, <2>2, <2>3, <2>5, <3>1, <3>2, PatchEffect
    <2> QED BY <2>1, <2>4, <2>5
  <1>5. CASE FraudThrottle(w)
    <2>1. m \in Messages /\ seen \in Row /\ seen.status \in InFlight
      BY <1>2, <1>5 DEF FraudThrottle, Handles, InFlight
    <2>2. row[m] \in Row => /\ [row[m] EXCEPT !.error = "dispatch"] \in Row
                            /\ [row[m] EXCEPT !.error = "dispatch"].status = row[m].status
      BY DEF Row, Errors
    <2> QED
      BY <1>1, <1>5, <2>1, <2>2, PatchEffect DEF FraudThrottle
  <1>6. CASE FraudBlock(w)
    BY <1>6, BlockRefused DEF FraudBlock
  <1>7. CASE ResultAccepted(w)
    <2> DEFINE new == [row[m] EXCEPT !.pmid = worker[w].ev.pmid, !.error = "none"]
    <2>1. m \in Messages /\ seen \in Row /\ seen.status = "submitting"
      BY <1>2, <1>7 DEF ResultAccepted, Handles
    <2>2. worker[w].ev.pmid \in Nat
      BY <1>7, ResultFacts DEF ResultAccepted
    <2>3. row[m] \in Row => new \in Row
      BY <2>2 DEF Row, Errors
    <2>4. TransitionMessage(m, seen, "provider_accepted", new)
          /\ ApplyWalletLedger(m, "debit", "ack")
      BY <1>7 DEF ResultAccepted
    <2>5. "provider_accepted" \in Statuses
      BY DEF Statuses
    <2> HIDE DEF new
    <2> QED
      BY <1>1, <2>1, <2>3, <2>4, <2>5, TransitionEffect
  <1>8. CASE ResultUncertain(w)
    <2>1. m \in Messages /\ seen \in Row /\ seen.status \in InFlight
      <3>1. worker[w].pc = "result" /\ worker[w].pc \in DOMAIN Handles
        BY <1>8 DEF ResultUncertain, Handles
      <3>2. seen.status \in Handles["result"] /\ m \in Messages /\ seen \in Row
        BY <1>2, <3>1
      <3> QED BY <3>2 DEF Handles, InFlight
    <2>2. row[m] \in Row => /\ [row[m] EXCEPT !.error = "dispatch"] \in Row
                            /\ [row[m] EXCEPT !.error = "dispatch"].status = row[m].status
      BY DEF Row, Errors
    <2> QED
      BY <1>1, <1>8, <2>1, <2>2, PatchEffect DEF ResultUncertain
  <1>9. CASE ResultRetry(w)
    <2> PICK p \in Providers :
          PatchMessage(m, seen, [row[m] EXCEPT !.provider = p, !.error = "dispatch"])
      BY <1>9 DEF ResultRetry
    <2>1. m \in Messages /\ seen \in Row /\ seen.status \in InFlight
      <3>1. worker[w].pc = "result" /\ worker[w].pc \in DOMAIN Handles
        BY <1>9 DEF ResultRetry, Handles
      <3>2. seen.status \in Handles["result"] /\ m \in Messages /\ seen \in Row
        BY <1>2, <3>1
      <3> QED BY <3>2 DEF Handles, InFlight
    <2>2. row[m] \in Row =>
            /\ [row[m] EXCEPT !.provider = p, !.error = "dispatch"] \in Row
            /\ [row[m] EXCEPT !.provider = p, !.error = "dispatch"].status = row[m].status
      BY DEF Row, Errors
    <2> QED
      BY <1>1, <1>9, <2>1, <2>2, PatchEffect DEF ResultRetry
  <1>10. CASE ResultFailed(w)
    <2> DEFINE new == [row[m] EXCEPT !.billing = "released", !.error = "dispatch"]
    <2>1. m \in Messages /\ seen \in Row /\ seen.status = "submitting"
      BY <1>2, <1>10 DEF ResultFailed, Handles
    <2>2. row[m] \in Row => new \in Row
      BY DEF Row, Errors, BillingStates
    <2>3. TransitionMessage(m, seen, "failed", new) /\ ApplyWalletLedger(m, "release", "final")
      BY <1>10 DEF ResultFailed
    <2>4. "failed" \in Statuses
      BY DEF Statuses
    <2> HIDE DEF new
    <2> QED
      BY <1>1, <2>1, <2>2, <2>3, <2>4, TransitionEffect
  <1>11. CASE \/ \E e \in pending : Start(w, e) \/ Skip(w, e)
              \/ Conflict(w) \/ HandleRetry(w) \/ CallProvider(w) \/ ReportResult(w)
    BY <1>11 DEF Start, Skip, Conflict, HandleRetry, CallProvider, ReportResult
  <1> QED
    BY <1>3, <1>4, <1>5, <1>6, <1>7, <1>8, <1>9, <1>10, <1>11 DEF WorkerStep

LEMMA SettleEffect ==
    ASSUME IInv, NEW d \in DlrWorkers, DlrSettle(d)
    PROVE  UNCHANGED <<row, ledger>> \/ RowEffect
  <1> DEFINE m == dlrWorker[d].message
             seen == dlrWorker[d].seen
  <1>1. row \in [Messages -> Row \cup {NoRow}]
    BY DEF IInv, RowInv
  <1>2. CASE DlrDelivered(d)
    <2>1. m \in Messages /\ seen \in Row /\ seen.status = "provider_accepted"
      BY <1>2, SettlingFacts DEF DlrDelivered, Settling
    <2>2. "delivered" \in Statuses
      BY DEF Statuses
    <2> QED
      BY <1>1, <1>2, <2>1, <2>2, TransitionEffect DEF DlrDelivered
  <1>3. CASE DlrFailed(d)
    <2> DEFINE new == FailedRow(row[m])
    <2>1. /\ m \in Messages /\ seen \in Row
          /\ seen.status = "provider_accepted" /\ seen.billing = "debited"
      BY <1>3, SettlingFacts DEF DlrFailed, Settling, RowShape
    <2>2. "failed" \in Statuses
      BY DEF Statuses
    <2>3. row[m] \in Row => new \in Row /\ new.error = "dlr_failed"
      BY DEF FailedRow, Row, Errors, BillingStates
    <2>4. TransitionMessage(m, seen, "failed", new) /\ UNCHANGED ledger
      BY <1>3, <2>1 DEF DlrFailed
    <2>5. row[m] \in Row
      BY <1>1, <2>1, <2>4, CompareAndSetFacts DEF TransitionMessage
    <2> HIDE DEF new
    <2> QED
      BY <1>1, <2>1, <2>2, <2>3, <2>4, <2>5, TransitionEffect
  <1>4. CASE DlrUnmatched(d) \/ DlrUnknown(d) \/ DlrDuplicate(d) \/ DlrInvalid(d)
    BY <1>4 DEF DlrUnmatched, DlrUnknown, DlrDuplicate, DlrInvalid, Reconciled
  <1> QED
    BY <1>2, <1>3, <1>4 DEF DlrSettle

(* Every step leaves rows and ledger alone or has such an effect.          *)
LEMMA StepEffect ==
    ASSUME IInv, [Next]_vars
    PROVE  UNCHANGED <<row, ledger>> \/ RowEffect
  <1>1. ASSUME NEW m \in Messages, Submit(m) PROVE RowEffect
    <2> PICK p \in Providers : row' = [row EXCEPT ![m] = InsertedRow(p)]
      BY <1>1 DEF Submit
    <2>1. InsertedRow(p) \in Row /\ InsertedRow(p).status = "accepted"
      BY DEF InsertedRow, NoRow, Row, Statuses, BillingStates, Errors, NoId
    <2>2. Inserts(m, InsertedRow(p))
      BY <1>1, <2>1 DEF Inserts, Submit
    <2> QED BY <2>1, <2>2 DEF RowEffect
  <1>2. CASE Disturbance
    BY <1>2 DEF Disturbance, Fail, Republish, GiveUp
  <1>3. CASE WfNext
    BY <1>1, <1>2, <1>3, WorkerEffect DEF WfNext
  <1>4. CASE DlrNext
    BY <1>4, SettleEffect DEF DlrNext, wfVars
  <1>5. CASE UNCHANGED vars
    BY <1>5 DEF vars
  <1> QED
    BY <1>3, <1>4, <1>5 DEF Next

-----------------------------------------------------------------------------
(* No handler commits an update the trigger would refuse.                  *)
THEOREM TriggerNeverRefuses == Spec => StepsPassTrigger
  <1> DEFINE Legal == \A m \in Messages : row'[m] # row[m] =>
                         row[m] = NoRow \/ TriggerAccepts(<<row[m], row'[m]>>)
  <1>1. IInv /\ [Next]_vars => [Legal]_row
    <2> SUFFICES ASSUME IInv, [Next]_vars PROVE Legal \/ row' = row
      OBVIOUS
    <2>1. CASE RowEffect
      <3> PICK m \in Messages, r \in Row :
             /\ row' = [row EXCEPT ![m] = r]
             /\ \/ Inserts(m, r)
                \/ row[m] \in Row /\ LegalUpdate(row[m], r) /\ Moves(m, r)
        BY <2>1 DEF RowEffect
      <3>1. \A n \in Messages : row'[n] = IF n = m THEN r ELSE row[n]
        BY DEF IInv, RowInv
      <3>2. LegalUpdate(row[m], r) => TriggerAccepts(<<row[m], r>>)
        BY DEF TriggerAccepts
      <3> QED BY <3>1, <3>2 DEF Inserts
    <2> QED BY <2>1, StepEffect
  <1> QED
    BY <1>1, Invariant, PTL DEF Spec, StepsPassTrigger

-----------------------------------------------------------------------------
(* The refinement.                                                         *)

(* The stage of a message, by its status, and where its price is, by the   *)
(* ledger.                                                                 *)
LEMMA StageAt ==
    ASSUME NEW m \in Messages
    PROVE  /\ row[m].status = "none" => stageBar[m] = "absent"
           /\ row[m].status \in InFlight => stageBar[m] = "in_flight"
           /\ row[m].status = "provider_accepted" => stageBar[m] = "acknowledged"
           /\ row[m].status = "delivered" => stageBar[m] = "delivered"
           /\ row[m].status = "failed" => stageBar[m] = "failed"
  BY DEF stageBar, InFlight

LEMMA MoneyAt ==
    ASSUME RowInv, NEW m \in Priced
    PROVE  /\ row[m].billing = "pending"  => moneyBar[m] = "untouched"
           /\ row[m].billing = "reserved" => moneyBar[m] = "held"
           /\ row[m].billing = "debited"  => moneyBar[m] = "taken"
           /\ row[m].billing = "released" => moneyBar[m] = "returned"
  <1>1. m \in Messages
    BY PricedAssumption
  <1>2. /\ (Posted(m, "reserve") # {}) <=> (row[m].billing # "pending")
        /\ (Posted(m, "debit")   # {}) <=> (row[m].billing = "debited")
        /\ (Posted(m, "release") # {}) <=> (row[m].billing = "released")
    BY DEF RowInv, LedgerMatchesBilling
  <1>3. moneyBar[m] = IF Posted(m, "release") # {} THEN "returned"
                      ELSE IF Posted(m, "debit") # {} THEN "taken"
                      ELSE IF Posted(m, "reserve") # {} THEN "held"
                      ELSE "untouched"
    BY <1>1 DEF moneyBar
  <1> QED
    BY <1>2, <1>3

(* A posting moves the money of its message alone.                         *)
LEMMA MoneyElsewhere ==
    ASSUME NEW m \in Messages,
           \/ UNCHANGED ledger
           \/ \E op, reason : /\ <<op, reason>> \in {<<"reserve", "submit">>,
                                    <<"debit", "ack">>, <<"release", "final">>}
                              /\ ApplyWalletLedger(m, op, reason)
    PROVE  \A n \in Messages : n # m => moneyBar'[n] = moneyBar[n]
  <1>1. \A n \in Messages, o \in {"reserve", "debit", "release"} :
           n # m => Posted(n, o)' = Posted(n, o)
    BY PostingType DEF ApplyWalletLedger, Posted
  <1> QED
    BY <1>1 DEF moneyBar

(* A change of one message, seen through the mapping.                      *)
LEMMA MappedStep ==
    ASSUME RowInv, RowInv', NEW m \in Messages,
           \A n \in Messages : n # m => row'[n] = row[n],
           \/ UNCHANGED ledger
           \/ \E op, reason : /\ <<op, reason>> \in {<<"reserve", "submit">>,
                                    <<"debit", "ack">>, <<"release", "final">>}
                              /\ ApplyWalletLedger(m, op, reason)
    PROVE  /\ stageBar' = [stageBar EXCEPT ![m] = stageBar'[m]]
           /\ moneyBar' = [moneyBar EXCEPT ![m] = moneyBar'[m]]
           /\ moneyBar'[m] = moneyBar[m] => moneyBar' = moneyBar
           /\ stageBar'[m] = stageBar[m] => stageBar' = stageBar
  <1>1. \A n \in Messages : n # m => stageBar'[n] = stageBar[n]
    BY DEF stageBar
  <1>2. \A n \in Messages : n # m => moneyBar'[n] = moneyBar[n]
    BY MoneyElsewhere
  <1>3. /\ stageBar = [x \in Messages |-> stageBar[x]]
        /\ stageBar' = [x \in Messages |-> stageBar'[x]]
        /\ moneyBar = [x \in Messages |-> moneyBar[x]]
        /\ moneyBar' = [x \in Messages |-> moneyBar'[x]]
    BY DEF stageBar, moneyBar
  <1>4. /\ stageBar' = [stageBar EXCEPT ![m] = stageBar'[m]]
        /\ moneyBar' = [moneyBar EXCEPT ![m] = moneyBar'[m]]
    <2> DEFINE sb == stageBar'
               mb == moneyBar'
    <2>1. /\ sb = [x \in Messages |-> sb[x]] /\ mb = [x \in Messages |-> mb[x]]
          /\ \A n \in Messages : n # m => sb[n] = stageBar[n] /\ mb[n] = moneyBar[n]
      BY <1>1, <1>2, <1>3
    <2> HIDE DEF sb, mb
    <2>2. sb = [stageBar EXCEPT ![m] = sb[m]]
      BY <1>3, <2>1
    <2>3. mb = [moneyBar EXCEPT ![m] = mb[m]]
      BY <1>3, <2>1
    <2> QED BY <2>2, <2>3 DEF sb, mb
  <1>5. /\ moneyBar'[m] = moneyBar[m] => moneyBar' = moneyBar
        /\ stageBar'[m] = stageBar[m] => stageBar' = stageBar
    BY <1>3, <1>4
  <1> QED
    BY <1>4, <1>5

(* Step by step the pipeline does what MessageLifecycle promises.          *)
LEMMA EffectRefines ==
    ASSUME IInv, RowInv', RowEffect
    PROVE  Lifecycle!Next \/ UNCHANGED <<stageBar, moneyBar>>
  <1> PICK m \in Messages, r \in Row :
         /\ row' = [row EXCEPT ![m] = r]
         /\ \/ Inserts(m, r)
            \/ row[m] \in Row /\ LegalUpdate(row[m], r) /\ Moves(m, r)
    BY DEF RowEffect
  <1>1. RowInv /\ row'[m] = r
        /\ \A n \in Messages : n # m => row'[n] = row[n]
    BY DEF IInv, RowInv
  <1>2. RowShape(row[m]) /\ RowShape(r)
    <2>1. RowShape(row'[m])
      BY DEF RowInv, RowShapes, RowShape
    <2> QED BY <1>1, <2>1 DEF IInv, RowInv, RowShapes
  <1>3. /\ stageBar' = [stageBar EXCEPT ![m] = stageBar'[m]]
        /\ moneyBar' = [moneyBar EXCEPT ![m] = moneyBar'[m]]
        /\ moneyBar'[m] = moneyBar[m] => moneyBar' = moneyBar
        /\ stageBar'[m] = stageBar[m] => stageBar' = stageBar
    <2>1. \/ UNCHANGED ledger
          \/ \E op, reason : /\ <<op, reason>> \in {<<"reserve", "submit">>,
                                   <<"debit", "ack">>, <<"release", "final">>}
                             /\ ApplyWalletLedger(m, op, reason)
      BY DEF Inserts, Moves
    <2> QED BY <1>1, <2>1, MappedStep
  <1>4. /\ r.status \in InFlight => stageBar'[m] = "in_flight"
        /\ r.status = "provider_accepted" => stageBar'[m] = "acknowledged"
        /\ r.status = "delivered" => stageBar'[m] = "delivered"
        /\ r.status = "failed" => stageBar'[m] = "failed"
    BY <1>1 DEF stageBar, InFlight
  <1>5. m \in Priced =>
        /\ r.billing = "reserved" => moneyBar'[m] = "held"
        /\ r.billing = "debited"  => moneyBar'[m] = "taken"
        /\ r.billing = "released" => moneyBar'[m] = "returned"
    <2> SUFFICES ASSUME m \in Priced
                 PROVE  /\ r.billing = "reserved" => moneyBar'[m] = "held"
                        /\ r.billing = "debited"  => moneyBar'[m] = "taken"
                        /\ r.billing = "released" => moneyBar'[m] = "returned"
      OBVIOUS
    <2>1. /\ (Posted(m, "debit")'   # {}) <=> (r.billing = "debited")
          /\ (Posted(m, "release")' # {}) <=> (r.billing = "released")
          /\ (Posted(m, "reserve")' # {}) <=> (r.billing # "pending")
      BY <1>1 DEF RowInv, LedgerMatchesBilling
    <2>2. moneyBar'[m] = IF Posted(m, "release")' # {} THEN "returned"
                         ELSE IF Posted(m, "debit")' # {} THEN "taken"
                         ELSE IF Posted(m, "reserve")' # {} THEN "held"
                         ELSE "untouched"
      BY DEF moneyBar
    <2> QED BY <2>1, <2>2
  <1>6. m \notin Priced => moneyBar' = moneyBar
    <2>1. m \notin Priced => moneyBar'[m] = "free" /\ moneyBar[m] = "free"
      BY DEF moneyBar
    <2> QED BY <1>3, <2>1
  <1>7. CASE Inserts(m, r)
    <2>1. row[m].status = "none" /\ row[m].billing = "pending" /\ r.status = "accepted"
          /\ r.billing = "reserved"
      BY <1>2, <1>7 DEF Inserts, NoRow, RowShape
    <2>2. stageBar[m] = "absent" /\ stageBar'[m] = "in_flight"
      BY <1>4, <2>1, StageAt DEF InFlight
    <2>3. m \in Priced => moneyBar[m] = "untouched" /\ moneyBar'[m] = "held"
      BY <1>1, <1>5, <2>1, MoneyAt
    <2>4. Lifecycle!Accept(m)
      BY <1>3, <1>6, <2>2, <2>3 DEF Lifecycle!Accept, Lifecycle!Step, Lifecycle!Money
    <2> QED BY <2>4 DEF Lifecycle!Next
  <1>8. CASE row[m].status \in InFlight /\ r.status \in InFlight
    <2>1. stageBar'[m] = stageBar[m]
      BY <1>4, <1>8, StageAt
    <2>2. row[m].billing = "reserved" /\ r.billing = "reserved"
      BY <1>2, <1>8 DEF RowShape, InFlight
    <2>3. m \in Priced => moneyBar'[m] = moneyBar[m]
      BY <1>1, <1>5, <2>2, MoneyAt
    <2> QED BY <1>3, <1>6, <2>1, <2>3
  <1>9. CASE row[m].status = "submitting" /\ r.status = "provider_accepted"
    <2>1. row[m].billing = "reserved" /\ r.billing = "debited"
      BY <1>2, <1>9 DEF RowShape
    <2>2. stageBar[m] = "in_flight" /\ stageBar'[m] = "acknowledged"
      BY <1>4, <1>9, StageAt DEF InFlight
    <2>3. m \in Priced => moneyBar[m] = "held" /\ moneyBar'[m] = "taken"
      BY <1>1, <1>5, <2>1, MoneyAt
    <2>4. Lifecycle!Acknowledge(m)
      BY <1>3, <1>6, <2>2, <2>3 DEF Lifecycle!Acknowledge, Lifecycle!Step, Lifecycle!Money
    <2> QED BY <2>4 DEF Lifecycle!Next
  <1>10. CASE row[m].status = "submitting" /\ r.status = "failed"
              /\ ApplyWalletLedger(m, "release", "final")
    <2>1. row[m].billing = "reserved"
      BY <1>2, <1>10 DEF RowShape
    <2>2. stageBar[m] = "in_flight" /\ stageBar'[m] = "failed"
      BY <1>4, <1>10, StageAt DEF InFlight
    <2>3. m \in Priced => moneyBar[m] = "held" /\ moneyBar'[m] = "returned"
      <3>1. m \in Priced => moneyBar[m] = "held"
        BY <1>1, <2>1, MoneyAt
      <3>2. m \in Priced => Posted(m, "release")' # {}
        <4>1. PICK op, reason : op = "release" /\ reason = "final"
          OBVIOUS
        <4>2. ApplyWalletLedger(m, op, reason)
          BY <1>10, <4>1
        <4>3. m \in Priced => Posted(m, op)' = Posted(m, op) \cup
                                {[message |-> m, op |-> op, reason |-> reason]}
          BY <4>1, <4>2, PostingPosted
        <4> QED BY <4>1, <4>3
      <3>3. m \in Priced => moneyBar'[m] = IF Posted(m, "release")' # {} THEN "returned"
                             ELSE IF Posted(m, "debit")' # {} THEN "taken"
                             ELSE IF Posted(m, "reserve")' # {} THEN "held"
                             ELSE "untouched"
        BY ZenonT(30) DEF moneyBar
      <3> QED BY <3>1, <3>2, <3>3
    <2>4. Lifecycle!Refuse(m)
      BY <1>3, <1>6, <2>2, <2>3 DEF Lifecycle!Refuse, Lifecycle!Step, Lifecycle!Money
    <2> QED BY <2>4 DEF Lifecycle!Next
  <1>11. CASE /\ row[m].status = "provider_accepted" /\ r.status \in {"delivered", "failed"}
              /\ UNCHANGED ledger
    <2>1. stageBar[m] = "acknowledged"
      BY <1>11, StageAt
    <2>2. UNCHANGED moneyBar
      BY <1>11 DEF moneyBar, Posted
    <2>3. CASE r.status = "delivered"
      <3>1. Lifecycle!Deliver(m)
        BY <1>3, <1>4, <2>1, <2>2, <2>3 DEF Lifecycle!Deliver, Lifecycle!Step
      <3> QED BY <3>1 DEF Lifecycle!Next
    <2>4. CASE r.status = "failed"
      <3>1. Lifecycle!Undelivered(m)
        BY <1>3, <1>4, <2>1, <2>2, <2>4 DEF Lifecycle!Undelivered, Lifecycle!Step
      <3> QED BY <3>1 DEF Lifecycle!Next
    <2> QED BY <1>11, <2>3, <2>4
  <1> QED
    BY <1>7, <1>8, <1>9, <1>10, <1>11 DEF Moves

(* The pipeline implements the promise to the tenant.                      *)
THEOREM Implements == Spec => ImplementsLifecycle
  <1>1. Init => Lifecycle!Init
    BY PricedAssumption DEF Init, WfInit, StoreInit, Lifecycle!Init, stageBar, moneyBar, Posted, NoRow
  <1>2. IInv /\ IInv' /\ [Next]_vars => [Lifecycle!Next]_(Lifecycle!vars)
    <2> SUFFICES ASSUME IInv, IInv', [Next]_vars
                 PROVE  Lifecycle!Next \/ UNCHANGED <<stageBar, moneyBar>>
      BY DEF Lifecycle!vars
    <2>1. CASE UNCHANGED <<row, ledger>>
      BY <2>1 DEF stageBar, moneyBar, Posted
    <2>2. CASE RowEffect
      BY <2>2, EffectRefines DEF IInv
    <2> QED BY <2>1, <2>2, StepEffect
  <1> QED
    BY <1>1, <1>2, Invariant, PTL DEF Spec, ImplementsLifecycle, Lifecycle!Spec
-----------------------------------------------------------------------------
(* Nothing is forgotten.  As long as nothing is disturbed, the version of  *)
(* the row is ahead of the keys already used, so what a handler enqueues   *)
(* is never swallowed by ON CONFLICT, and the event under way is one whose *)
(* handler will go on, unless a throttle stranded the message.             *)
Queued(m) == {e \in outbox : e.message = m}

(* The keys used so far, Q, against the row: dispatch after a retry keeps  *)
(* the version it read, and so does the result of a call.                  *)
Ahead(r, Q, L, b) ==
    /\ \A e \in Q : e.ver <= r.version
    /\ \A e \in L : e.topic = "retry" => \A f \in Q : f.topic = "dispatch" => f.ver < r.version
    /\ b.pc \in {"call", "called"} =>
         /\ r.status = "submitting" /\ b.ver = r.version
         /\ \A f \in Q : f.topic = "result" => f.ver < r.version

(* The event under way will be acted on, and one in flight has an event:   *)
(* of all but the stranded.                                                *)
EventDue(r, Q, L) ==
    /\ Stranded(r) => "throttle" \in Verdicts
    /\ \A e \in L : r.status \in Handles[e.topic] \/ Stranded(r)
    /\ r.status \in Flying => \/ L # {} \/ Stranded(r)
                              \/ \E e \in Q : e.topic = "reconcile"

Due(r, Q, L, b) == Ahead(r, Q, L, b) /\ EventDue(r, Q, L)

AllDue == \A m \in Messages :
    \E b \in Busy \cup {Idle} : Charge(m, b) /\ Due(row[m], Queued(m), Live(m), b)

-----------------------------------------------------------------------------
(* What each status leaves to be done.                                     *)
LEMMA HandledBy ==
    /\ "accepted" \in Handles["accepted"] /\ "routed" \in Handles["dispatch"]
    /\ "submitting" \in Handles["dispatch"] /\ "submitting" \in Handles["retry"]
    /\ "submitting" \in Handles["result"]
  BY DEF Handles

(* A step about one message leaves what is due to the others alone.        *)
LEMMA OneDue ==
    ASSUME IInv, AllDue, NEW m \in Messages, NEW r, row' = [row EXCEPT ![m] = r],
           \A n \in Messages \ {m} : Live(n)' = Live(n) /\ Queued(n)' = Queued(n),
           \/ UNCHANGED worker
           \/ \E w \in Workers, c \in Busy \cup {Idle} :
                /\ worker' = [worker EXCEPT ![w] = c]
                /\ worker[w].pc # "idle" => worker[w].ev.message = m
                /\ c # Idle => c.ev.message = m,
           \E b \in Busy \cup {Idle} : Charge(m, b)' /\ Due(r, Queued(m)', Live(m)', b)
    PROVE  AllDue'
  <1>1. row'[m] = r /\ \A n \in Messages \ {m} : row'[n] = row[n]
    BY DEF IInv, RowInv
  <1>2. ASSUME NEW n \in Messages \ {m}
        PROVE  \E b \in Busy \cup {Idle} : Charge(n, b)' /\ Due(row[n], Queued(n), Live(n), b)'
    <2>1. PICK b \in Busy \cup {Idle} : Charge(n, b) /\ Due(row[n], Queued(n), Live(n), b)
      BY DEF AllDue
    <2>2. Charge(n, b)'
      BY <2>1, ChargeKept
    <2>3. Due(row[n], Queued(n), Live(n), b)'
      BY <1>1, <2>1
    <2> QED BY <2>2, <2>3
  <1> QED BY <1>1, <1>2 DEF AllDue

(* No key of a version still to come is used.                              *)
Unused(m) == \A g \in Queued(m) : g.ver <= row[m].version

(* What is due to the message a handler is at, or to one nobody is at.     *)
LEMMA DueInCharge ==
    ASSUME IInv, Undisturbed, AllDue, NEW w \in Workers, worker[w].pc # "idle",
           NEW m \in Messages, m = worker[w].ev.message
    PROVE  /\ Due(row[m], Queued(m), Live(m), worker[w])
           /\ worker[w] \in Busy /\ worker[w].ev \in Live(m)
           /\ \A e \in Live(m) : e = worker[w].ev
           /\ \A v \in Workers : Holds(v, m) => v = w
           /\ Unused(m)
  <1>1. /\ worker[w] \in Busy /\ worker[w] # Idle
        /\ Fine(row[m], Live(m), worker[w], Took(m))
        /\ \A v \in Workers : Holds(v, m) => v = w
    BY InCharge
  <1>2. PICK b \in Busy \cup {Idle} : Charge(m, b) /\ Due(row[m], Queued(m), Live(m), b)
    BY DEF AllDue
  <1>3. b = worker[w]
    BY <1>1, <1>2 DEF Charge, Holds
  <1>4. Unused(m)
    BY <1>2 DEF Due, Ahead, Unused
  <1>5. worker[w].ev \in Live(m) /\ \A e \in Live(m) : e = worker[w].ev
    BY <1>1 DEF Fine
  <1> QED BY <1>1, <1>2, <1>3, <1>4, <1>5

LEMMA DueNobody ==
    ASSUME AllDue, NEW m \in Messages, \A w \in Workers : ~Holds(w, m)
    PROVE  Due(row[m], Queued(m), Live(m), Idle) /\ Unused(m)
  <1>1. Due(row[m], Queued(m), Live(m), Idle)
    BY DEF AllDue, Charge
  <1> QED BY <1>1 DEF Due, Ahead, Unused

(* A handler goes on with its event and leaves the events as they are.     *)
LEMMA DueGoesOn ==
    ASSUME IInv, AllDue, NEW w \in Workers, NEW m \in Messages,
           worker[w].pc # "idle" => worker[w].ev.message = m,
           \A v \in Workers : Holds(v, m) => v = w,
           NEW c \in Busy, c.ev.message = m, c.pc # "idle",
           worker' = [worker EXCEPT ![w] = c],
           NEW r, row' = [row EXCEPT ![m] = r],
           UNCHANGED <<outbox, pending>>,
           Due(r, Queued(m), Live(m), c)
    PROVE  AllDue'
  <1>1. \A n \in Messages : Live(n)' = Live(n) /\ Queued(n)' = Queued(n)
    BY DEF Live, Queued
  <1>2. worker'[w] = c /\ \A v \in Workers \ {w} : worker'[v] = worker[v]
    BY DEF IInv, FlowInv
  <1>3. Charge(m, c)'
    BY <1>2 DEF Charge, Holds
  <1>4. \E b \in Busy \cup {Idle} : Charge(m, b)' /\ Due(r, Queued(m)', Live(m)', b)
    BY <1>1, <1>3
  <1> QED
    BY <1>1, <1>4, OneDue

(* A handler ends, and what is left is due with nobody at it.              *)
LEMMA DueEnds ==
    ASSUME IInv, Undisturbed, AllDue, NEW w \in Workers, worker[w].pc # "idle", Release(w),
           NEW m \in Messages, m = worker[w].ev.message,
           NEW r, row' = [row EXCEPT ![m] = r],
           \A n \in Messages \ {m} : Live(n)' = Live(n) /\ Queued(n)' = Queued(n),
           Due(r, Queued(m)', Live(m)', Idle)
    PROVE  AllDue'
  <1>1. \A v \in Workers : Holds(v, m) => v = w
    BY DueInCharge
  <1>2. worker'[w] = Idle /\ \A v \in Workers \ {w} : worker'[v] = worker[v]
    BY DEF IInv, FlowInv, Release
  <1>3. Charge(m, Idle)'
    BY <1>1, <1>2 DEF Charge, Holds, Idle
  <1>4. \E b \in Busy \cup {Idle} : Charge(m, b)' /\ Due(r, Queued(m)', Live(m)', b)
    BY <1>3
  <1>5. worker' = [worker EXCEPT ![w] = Idle]
    BY DEF Release
  <1> QED
    BY <1>4, <1>5, OneDue

(* A handler ends, having enqueued f under a key of its own.               *)
LEMMA DueWith ==
    ASSUME IInv, Undisturbed, AllDue, NEW w \in Workers, worker[w].pc # "idle", Release(w),
           NEW m \in Messages, m = worker[w].ev.message,
           NEW r, row' = [row EXCEPT ![m] = r], r.version \in Nat,
           NEW f, f.message = m, f.ver = r.version, FinishAndEnqueue(worker[w].ev, f),
           \A g \in Queued(m) : g.ver <= r.version,
           \A g \in Queued(m) : g.topic = f.topic => g.ver < r.version,
           f.topic = "retry" => \A g \in Queued(m) : g.topic = "dispatch" => g.ver < r.version,
           Stranded(r) => "throttle" \in Verdicts,
           f.topic = "reconcile" \/ r.status \in Handles[f.topic] \/ Stranded(r)
    PROVE  AllDue'
  <1>1. \A e \in Live(m) : e = worker[w].ev
    BY DueInCharge
  <1>2. Fresh(f)
    <2>1. ASSUME NEW g \in outbox, SameKey(f, g) PROVE FALSE
      <3>1. g \in Queued(m) /\ g.topic = f.topic /\ g.ver = r.version
        BY <2>1 DEF SameKey, Queued
      <3> QED BY <3>1
    <2> QED BY <2>1 DEF Fresh
  <1>3. outbox' = outbox \cup {f} /\ pending' = (pending \ {worker[w].ev}) \cup {f}
    BY <1>2 DEF FinishAndEnqueue
  <1>4. /\ \A n \in Messages \ {m} : Live(n)' = Live(n) /\ Queued(n)' = Queued(n)
        /\ Queued(m)' = Queued(m) \cup {f}
        /\ Live(m)' = IF f.topic = "reconcile" THEN {} ELSE {f}
    BY <1>1, <1>3 DEF Live, Queued
  <1>5. Ahead(r, Queued(m)', Live(m)', Idle)
    BY <1>4 DEF Ahead, Idle
  <1>6. EventDue(r, Queued(m)', Live(m)')
    BY <1>4 DEF EventDue
  <1> QED
    BY <1>4, <1>5, <1>6, DueEnds DEF Due

(* A handler ends with nothing more to do.                                 *)
LEMMA DueDone ==
    ASSUME IInv, Undisturbed, AllDue, NEW w \in Workers, worker[w].pc # "idle", Release(w),
           NEW m \in Messages, m = worker[w].ev.message,
           NEW r, row' = [row EXCEPT ![m] = r],
           Finish(worker[w].ev), r.status \notin Flying,
           \A g \in Queued(m) : g.ver <= r.version
    PROVE  AllDue'
  <1>1. \A e \in Live(m) : e = worker[w].ev
    BY DueInCharge
  <1>2. /\ \A n \in Messages \ {m} : Live(n)' = Live(n) /\ Queued(n)' = Queued(n)
        /\ Queued(m)' = Queued(m) /\ Live(m)' = {}
    BY <1>1 DEF Finish, Live, Queued
  <1>3. Due(r, Queued(m)', Live(m)', Idle)
    BY <1>2 DEF Due, Ahead, EventDue, Idle, Stranded, Flying
  <1> QED
    BY <1>2, <1>3, DueEnds

(* The row after a patch or a transition: its status, one version on, past *)
(* every key used so far.                                                  *)
LEMMA PastKeys ==
    ASSUME IInv, NEW m \in Messages, row[m] \in Row, Unused(m), NEW new \in Row
    PROVE  /\ [new EXCEPT !.version = row[m].version + 1].status = new.status
           /\ [new EXCEPT !.version = row[m].version + 1].error = new.error
           /\ [new EXCEPT !.version = row[m].version + 1].version = row[m].version + 1
           /\ row[m].version + 1 \in Nat
           /\ \A g \in Queued(m) : g.ver < row[m].version + 1
           /\ \A g \in Queued(m) : g.ver <= row[m].version + 1
  <1>1. row[m].version \in Nat
    BY DEF Row
  <1>2. \A g \in Queued(m) : g.ver \in Nat
    BY DEF Queued, IInv, FlowInv, Event
  <1>3. \A g \in Queued(m) : g.ver <= row[m].version
    BY DEF Unused
  <1> HIDE DEF Queued
  <1>4. \A g \in Queued(m) : g.ver < row[m].version + 1 /\ g.ver <= row[m].version + 1
    BY <1>1, <1>2, <1>3
  <1>5. row[m].version + 1 \in Nat
    BY <1>1
  <1>6. /\ [new EXCEPT !.version = row[m].version + 1].status = new.status
        /\ [new EXCEPT !.version = row[m].version + 1].error = new.error
        /\ [new EXCEPT !.version = row[m].version + 1].version = row[m].version + 1
    <2> PICK v \in Nat : v = row[m].version + 1
      BY <1>5
    <2>1. /\ [new EXCEPT !.version = v].status = new.status
          /\ [new EXCEPT !.version = v].error = new.error
          /\ [new EXCEPT !.version = v].version = v
      BY DEF Row
    <2> QED BY <2>1
  <1> QED
    BY <1>4, <1>5, <1>6

(* A handler that wrote the row ends, having enqueued f under the row's    *)
(* new version.                                                            *)
LEMMA DueAnew ==
    ASSUME IInv, Undisturbed, AllDue, NEW w \in Workers, worker[w].pc # "idle", Release(w),
           NEW m \in Messages, m = worker[w].ev.message, row[m] \in Row,
           NEW new \in Row,
           row' = [row EXCEPT ![m] = [new EXCEPT !.version = row[m].version + 1]],
           NEW f, f.message = m, f.ver = row[m].version + 1, FinishAndEnqueue(worker[w].ev, f),
           Stranded(new) => "throttle" \in Verdicts,
           f.topic = "reconcile" \/ new.status \in Handles[f.topic] \/ Stranded(new)
    PROVE  AllDue'
  <1>1. Unused(m)
    BY DueInCharge
  <1> PICK r : r = [new EXCEPT !.version = row[m].version + 1]
    OBVIOUS
  <1>2. /\ r.status = new.status /\ r.error = new.error
        /\ r.version = row[m].version + 1 /\ r.version \in Nat
        /\ \A g \in Queued(m) : g.ver < r.version
        /\ \A g \in Queued(m) : g.ver <= r.version
    BY <1>1, PastKeys
  <1>3. row' = [row EXCEPT ![m] = r] /\ f.ver = r.version
    BY <1>2
  <1>4. /\ \A g \in Queued(m) : g.topic = f.topic => g.ver < r.version
        /\ f.topic = "retry" => \A g \in Queued(m) : g.topic = "dispatch" => g.ver < r.version
        /\ f.topic = "reconcile" \/ r.status \in Handles[f.topic] \/ Stranded(r)
        /\ Stranded(r) => "throttle" \in Verdicts
    BY <1>2 DEF Stranded
  <1> QED
    BY <1>2, <1>3, <1>4, DueWith

(* A handler that moved the row out of flight ends, having enqueued        *)
(* nothing.                                                                *)
LEMMA DueOver ==
    ASSUME IInv, Undisturbed, AllDue, NEW w \in Workers, worker[w].pc # "idle", Release(w),
           NEW m \in Messages, m = worker[w].ev.message, row[m] \in Row,
           NEW new \in Row, new.status \notin Flying,
           row' = [row EXCEPT ![m] = [new EXCEPT !.version = row[m].version + 1]],
           Finish(worker[w].ev)
    PROVE  AllDue'
  <1>1. Unused(m)
    BY DueInCharge
  <1> PICK r : r = [new EXCEPT !.version = row[m].version + 1]
    OBVIOUS
  <1>2. r.status = new.status /\ \A g \in Queued(m) : g.ver <= r.version
    BY <1>1, PastKeys
  <1>3. row' = [row EXCEPT ![m] = r] /\ r.status \notin Flying
    BY <1>2
  <1> QED
    BY <1>2, <1>3, DueDone

-----------------------------------------------------------------------------
LEMMA SubmitDue ==
    ASSUME IInv, Undisturbed, AllDue, NEW m \in Messages, Submit(m)
    PROVE  AllDue'
  <1> PICK p \in Providers :
         /\ row' = [row EXCEPT ![m] = InsertedRow(p)]
         /\ outbox'  = outbox  \cup {Ev("accepted", m, 0, p)}
         /\ pending' = pending \cup {Ev("accepted", m, 0, p)}
    BY DEF Submit
  <1> DEFINE r == InsertedRow(p)
             e == Ev("accepted", m, 0, p)
  <1>1. row[m].status = "none" /\ row[m].version = 0
    BY DEF Submit, NoRow
  <1>2. PICK b \in Busy \cup {Idle} : Charge(m, b) /\ Fine(row[m], Live(m), b, Took(m))
    BY DEF Undisturbed, Orderly
  <1>3. Live(m) = {}
    BY <1>1, <1>2 DEF Fine, Flying
  <1>4. (\A w \in Workers : ~Holds(w, m)) /\ Due(row[m], Queued(m), Live(m), Idle)
    BY <1>3, NoneInCharge, DueNobody
  <1>5. /\ r.status = "accepted" /\ r.version = 0
        /\ e.message = m /\ e.topic = "accepted" /\ e.ver = 0
    BY DEF InsertedRow, NoRow, Ev
  <1> HIDE DEF r, e
  <1>6. /\ \A n \in Messages \ {m} : Live(n)' = Live(n) /\ Queued(n)' = Queued(n)
        /\ Queued(m)' = Queued(m) \cup {e} /\ Live(m)' = {e}
    BY <1>3, <1>5 DEF Live, Queued, e
  <1>7. Ahead(r, Queued(m)', Live(m)', Idle)
    BY <1>1, <1>4, <1>5, <1>6 DEF Due, Ahead, Idle
  <1>8. EventDue(r, Queued(m)', Live(m)')
    BY <1>5, <1>6 DEF EventDue, Handles, Stranded
  <1>9. Charge(m, Idle)' /\ UNCHANGED worker
    BY <1>4 DEF Charge, Holds, Submit
  <1>10. \E c \in Busy \cup {Idle} : Charge(m, c)' /\ Due(r, Queued(m)', Live(m)', c)
    BY <1>7, <1>8, <1>9 DEF Due
  <1> QED
    BY <1>6, <1>9, <1>10, OneDue DEF r

LEMMA StartDue ==
    ASSUME IInv, Undisturbed, AllDue, MaxFaults = 0,
           NEW w \in Workers, NEW e \in pending, Start(w, e)
    PROVE  AllDue'
  <1> DEFINE m == e.message
             c == Handling(e, row[m])
  <1>1. ~InProgress(e)
    BY DEF Start, Undisturbed
  <1>2. e \in Event /\ m \in Messages /\ e \in Live(m) /\ \A v \in Workers : ~Holds(v, m)
    BY <1>1, NobodyAtIt DEF Start
  <1>3. e.topic \in DOMAIN Handles
    BY <1>2 DEF Start, Event, Topics, Handles
  <1>4. row[m] \in Row
    <2>1. row[m] \in Row \cup {NoRow} /\ row[m].status # "none"
      BY <1>2, <1>3 DEF Start, Handles, IInv, RowInv
    <2> QED BY <2>1 DEF NoRow
  <1>5. c \in Busy /\ c.ev = e /\ c.pc = e.topic
    BY <1>2, <1>3, <1>4 DEF Handling, Busy, NoId, Handles
  <1>6. c.pc \notin {"idle", "call", "called"}
    BY <1>3, <1>5 DEF Handles
  <1>7. /\ row' = [row EXCEPT ![m] = row[m]] /\ UNCHANGED <<outbox, pending>>
        /\ worker' = [worker EXCEPT ![w] = c] /\ worker[w].pc = "idle"
    BY DEF Start, IInv, RowInv
  <1> HIDE DEF c, m
  <1>8. Due(row[m], Queued(m), Live(m), c)
    BY <1>2, <1>6, DueNobody DEF Due, Ahead, Idle
  <1> QED
    BY <1>2, <1>5, <1>6, <1>7, <1>8, DueGoesOn DEF m

(* A handler that returns early is the last word only on a message that a  *)
(* throttle stranded.                                                      *)
LEMMA SkipDue ==
    ASSUME IInv, Undisturbed, AllDue, NEW w \in Workers, NEW e \in pending, Skip(w, e)
    PROVE  AllDue'
  <1> PICK m : m = e.message
    OBVIOUS
  <1>1. /\ m \in Messages /\ e \in Live(m)
        /\ (\A v \in Workers : ~Holds(v, m)) /\ Fine(row[m], Live(m), Idle, Took(m))
    BY NobodyAtIt DEF Skip
  <1>2. Due(row[m], Queued(m), Live(m), Idle)
    BY <1>1, DueNobody
  <1>3. Stranded(row[m]) /\ "throttle" \in Verdicts
    BY <1>1, <1>2 DEF Due, EventDue, Skip
  <1>4. \A f \in Live(m) : f = e
    BY <1>1 DEF Fine
  <1>5. /\ \A n \in Messages \ {m} : Live(n)' = Live(n) /\ Queued(n)' = Queued(n)
        /\ Live(m)' = {} /\ Queued(m)' = Queued(m)
    BY <1>4 DEF Skip, Finish, Live, Queued
  <1>6. Due(row[m], Queued(m)', Live(m)', Idle)
    BY <1>2, <1>3, <1>5 DEF Due, Ahead, EventDue
  <1>7. Charge(m, Idle)' /\ UNCHANGED worker /\ row' = [row EXCEPT ![m] = row[m]]
    BY <1>1 DEF Charge, Holds, Skip, IInv, RowInv
  <1>8. \E c \in Busy \cup {Idle} : Charge(m, c)' /\ Due(row[m], Queued(m)', Live(m)', c)
    BY <1>6, <1>7
  <1> QED
    BY <1>1, <1>5, <1>7, <1>8, OneDue

LEMMA HandleAcceptedDue ==
    ASSUME IInv, Undisturbed, AllDue, NEW w \in Workers, HandleAccepted(w)
    PROVE  AllDue'
  <1>1. worker[w].pc = "accepted" /\ worker[w].pc \in DOMAIN Handles
    BY DEF HandleAccepted, Handles
  <1> PICK m \in Messages : m = worker[w].ev.message
    BY <1>1, Turn
  <1> PICK p \in Providers :
         /\ TransitionMessage(m, worker[w].seen, "routed", RoutedRow(row[m], p))
         /\ FinishAndEnqueue(worker[w].ev, Ev("dispatch", m, row[m].version + 1, p))
         /\ Release(w)
    BY DEF HandleAccepted
  <1> DEFINE new == Moved(RoutedRow(row[m], p), "routed")
             f == Ev("dispatch", m, row[m].version + 1, p)
  <1>2. worker[w].pc # "idle" /\ row[m] \in Row
    BY <1>1, Turn
  <1>3. row' = [row EXCEPT ![m] = [new EXCEPT !.version = row[m].version + 1]]
    BY DEF TransitionMessage, CompareAndSet
  <1>4. RoutedRow(row[m], p) \in Row /\ RoutedRow(row[m], p).error = "none"
    BY <1>2 DEF RoutedRow, Row, Errors
  <1>5. new \in Row /\ new.status = "routed" /\ new.error = "none"
    <2> HIDE DEF RoutedRow
    <2> QED BY <1>4, MovedType DEF Statuses
  <1>6. f.message = m /\ f.topic = "dispatch" /\ f.ver = row[m].version + 1
    BY DEF Ev
  <1>7. new.status \in Handles[f.topic] /\ ~Stranded(new)
    BY <1>5, <1>6, HandledBy DEF Stranded
  <1>8. FinishAndEnqueue(worker[w].ev, f)
    OBVIOUS
  <1> HIDE DEF new, f
  <1> QED
    BY <1>2, <1>3, <1>5, <1>6, <1>7, <1>8, DueAnew

LEMMA HandleRetryDue ==
    ASSUME IInv, Undisturbed, AllDue, NEW w \in Workers, HandleRetry(w)
    PROVE  AllDue'
  <1>1. worker[w].pc = "retry" /\ worker[w].pc \in DOMAIN Handles
    BY DEF HandleRetry, Handles
  <1> PICK m \in Messages : m = worker[w].ev.message
    BY <1>1, Turn
  <1> DEFINE f == Ev("dispatch", m, worker[w].seen.version, worker[w].seen.provider)
  <1>2. /\ worker[w].pc # "idle" /\ worker[w].seen = row[m] /\ row[m] \in Row
        /\ row[m].status = "submitting" /\ worker[w].ev.topic = "retry"
    BY <1>1, Turn DEF Handles
  <1>3. Due(row[m], Queued(m), Live(m), worker[w]) /\ worker[w].ev \in Live(m)
    BY <1>2, DueInCharge
  <1>4. /\ \A g \in Queued(m) : g.ver <= row[m].version
        /\ \A g \in Queued(m) : g.topic = "dispatch" => g.ver < row[m].version
    BY <1>2, <1>3 DEF Due, Ahead
  <1>5. f.message = m /\ f.topic = "dispatch" /\ f.ver = row[m].version
    BY <1>2 DEF Ev
  <1>6. row' = [row EXCEPT ![m] = row[m]] /\ row[m].version \in Nat
    BY <1>2 DEF HandleRetry, IInv, RowInv, Row
  <1>7. FinishAndEnqueue(worker[w].ev, f) /\ Release(w)
    BY DEF HandleRetry
  <1> HIDE DEF f
  <1>8. row[m].status \in Handles[f.topic] /\ f.topic # "retry"
    BY <1>2, <1>5, HandledBy
  <1>9. \A g \in Queued(m) : g.topic = f.topic => g.ver < row[m].version
    BY <1>4, <1>5
  <1> PICK r : r = row[m]
    OBVIOUS
  <1>10. /\ row' = [row EXCEPT ![m] = r] /\ r.version \in Nat /\ f.ver = r.version
         /\ \A g \in Queued(m) : g.ver <= r.version
         /\ \A g \in Queued(m) : g.topic = f.topic => g.ver < r.version
         /\ r.status \in Handles[f.topic] /\ ~Stranded(r)
    BY <1>2, <1>4, <1>5, <1>6, <1>8, <1>9 DEF Stranded
  <1> QED
    BY <1>2, <1>5, <1>7, <1>8, <1>10, DueWith

LEMMA BeginAttemptDue ==
    ASSUME IInv, Undisturbed, AllDue, NEW w \in Workers, BeginAttempt(w)
    PROVE  AllDue'
  <1>1. worker[w].pc = "dispatch" /\ worker[w].pc \in DOMAIN Handles
    BY DEF BeginAttempt, Handles
  <1> PICK m \in Messages : m = worker[w].ev.message
    BY <1>1, Turn
  <1> DEFINE b == worker[w]
             new == IF b.seen.status = "routed"
                      THEN Moved(AttemptRow(row[m]), "submitting") ELSE AttemptRow(row[m])
             r == [new EXCEPT !.version = row[m].version + 1]
             c == [b EXCEPT !.pc = "call", !.ver = row[m].version + 1]
  <1>2. b.pc # "idle" /\ row[m] \in Row /\ b.ev.topic = "dispatch"
    BY <1>1, Turn
  <1>3. /\ b \in Busy /\ b.ev \in Live(m) /\ Unused(m)
        /\ (\A e \in Live(m) : e = b.ev) /\ \A v \in Workers : Holds(v, m) => v = w
    BY <1>2, DueInCharge
  <1>4. row' = [row EXCEPT ![m] = r]
    BY DEF BeginAttempt, TransitionMessage, PatchMessage, CompareAndSet
  <1>5. new \in Row /\ new.status = "submitting"
    <2> HIDE DEF AttemptRow
    <2>1. "submitting" \in Statuses
      BY DEF Statuses
    <2>2. AttemptRow(row[m]) \in Row /\ AttemptRow(row[m]).status = "submitting"
      BY <1>2, AttemptFields
    <2>3. /\ Moved(AttemptRow(row[m]), "submitting") \in Row
          /\ Moved(AttemptRow(row[m]), "submitting").status = "submitting"
      BY <2>1, <2>2, MovedType
    <2> QED BY <2>2, <2>3
  <1> HIDE DEF new
  <1>6. /\ r.status = "submitting" /\ r.version = row[m].version + 1 /\ r.version \in Nat
        /\ \A g \in Queued(m) : g.ver < r.version
        /\ \A g \in Queued(m) : g.ver <= r.version
    <2> HIDE DEF b, c
    <2> QED BY <1>2, <1>3, <1>5, PastKeys
  <1>7. c \in Busy /\ c.pc = "call" /\ c.ev = b.ev /\ c.ver = row[m].version + 1
    <2>1. row[m].version + 1 \in Nat
      BY <1>2, NextVersion
    <2> QED BY <1>3, <2>1 DEF Busy
  <1>8. worker' = [worker EXCEPT ![w] = c] /\ UNCHANGED <<outbox, pending>>
    BY DEF BeginAttempt
  <1> HIDE DEF r, c
  <1>9. Ahead(r, Queued(m), Live(m), c)
    BY <1>2, <1>3, <1>6, <1>7 DEF Ahead
  <1>10. EventDue(r, Queued(m), Live(m))
    <2>1. (\A e \in Live(m) : r.status \in Handles[e.topic]) /\ ~Stranded(r)
      BY <1>2, <1>3, <1>6, HandledBy DEF Stranded
    <2> QED BY <1>3, <2>1 DEF EventDue
  <1>11. Due(r, Queued(m), Live(m), c) /\ c.ev.message = m /\ c.pc # "idle"
    BY <1>7, <1>9, <1>10 DEF Due
  <1> HIDE DEF b
  <1> QED
    BY <1>3, <1>4, <1>7, <1>8, <1>11, DueGoesOn DEF b

(* A throttled message is retried, or stranded if it was never attempted.  *)
LEMMA FraudThrottleDue ==
    ASSUME IInv, Undisturbed, AllDue, NEW w \in Workers, FraudThrottle(w)
    PROVE  AllDue'
  <1>1. worker[w].pc = "dispatch" /\ worker[w].pc \in DOMAIN Handles
    BY DEF FraudThrottle, Handles
  <1> PICK m \in Messages : m = worker[w].ev.message
    BY <1>1, Turn
  <1> DEFINE new == [row[m] EXCEPT !.error = "dispatch"]
             f == Ev("retry", m, row[m].version + 1, worker[w].ev.provider)
  <1>2. worker[w].pc # "idle" /\ row[m] \in Row
    BY <1>1, Turn
  <1>3. row' = [row EXCEPT ![m] = [new EXCEPT !.version = row[m].version + 1]]
    BY DEF FraudThrottle, PatchMessage, CompareAndSet
  <1>4. new \in Row /\ new.status = row[m].status /\ new.error = "dispatch"
    BY <1>2 DEF Row, Errors
  <1>5. f.message = m /\ f.topic = "retry" /\ f.ver = row[m].version + 1
    BY DEF Ev
  <1>6. FinishAndEnqueue(worker[w].ev, f) /\ Release(w) /\ "throttle" \in Verdicts
    BY DEF FraudThrottle
  <1> HIDE DEF new, f
  <1>7. row[m].status \in {"routed", "submitting"}
    <2>1. row[m].status \in Handles["dispatch"]
      BY <1>1, Turn
    <2> QED BY <2>1 DEF Handles
  <1>8. new.status \in Handles[f.topic] \/ Stranded(new)
    BY <1>4, <1>5, <1>7, HandledBy DEF Stranded
  <1>9. FinishAndEnqueue(worker[w].ev, f)
    BY <1>6
  <1> QED
    BY <1>2, <1>3, <1>4, <1>5, <1>6, <1>8, <1>9, DueAnew

(* A block is refused by the trigger and leaves its event to be delivered  *)
(* again.                                                                  *)
LEMMA FraudBlockDue ==
    ASSUME IInv, Undisturbed, AllDue, NEW w \in Workers, FraudBlock(w)
    PROVE  AllDue'
  <1>1. worker[w].pc = "dispatch" /\ worker[w].pc \in DOMAIN Handles
    BY DEF FraudBlock, Handles
  <1> PICK m \in Messages : m = worker[w].ev.message
    BY <1>1, Turn
  <1>2. worker[w].pc # "idle" /\ Due(row[m], Queued(m), Live(m), worker[w])
    BY <1>1, Turn, DueInCharge
  <1>3. UNCHANGED <<row, outbox, pending>> /\ Release(w)
    BY BlockRefused DEF FraudBlock
  <1>4. /\ row' = [row EXCEPT ![m] = row[m]]
        /\ \A n \in Messages : Live(n)' = Live(n) /\ Queued(n)' = Queued(n)
    BY <1>3 DEF IInv, RowInv, Live, Queued
  <1>5. Due(row[m], Queued(m)', Live(m)', Idle)
    BY <1>2, <1>4 DEF Due, Ahead, Idle
  <1> QED
    BY <1>2, <1>3, <1>4, <1>5, DueEnds

(* The call changes what its handler knows of the answer, and nothing of   *)
(* its event or attempt.                                                   *)
LEMMA Called ==
    ASSUME NEW w \in Workers, worker[w] \in Busy, CallProvider(w)
    PROVE  \E c \in Busy : /\ worker' = [worker EXCEPT ![w] = c]
                           /\ c.pc = "called" /\ c.ev = worker[w].ev /\ c.ver = worker[w].ver
  <1>1. CASE \E id \in {NoId, worker[w].ver} :
                worker' = [worker EXCEPT ![w].pc = "called",
                              ![w].outcome = "accept", ![w].pmid = id]
    <2> PICK id \in {NoId, worker[w].ver} :
                worker' = [worker EXCEPT ![w].pc = "called",
                              ![w].outcome = "accept", ![w].pmid = id]
      BY <1>1
    <2> DEFINE c == [worker[w] EXCEPT !.pc = "called", !.outcome = "accept", !.pmid = id]
    <2>1. id \in Nat
      BY BusyFields DEF NoId
    <2>2. c \in Busy
      BY <2>1 DEF Busy, Outcomes
    <2>3. /\ worker' = [worker EXCEPT ![w] = c] /\ c.pc = "called"
          /\ c.ev = worker[w].ev /\ c.ver = worker[w].ver
      BY DEF Busy
    <2> QED BY <2>2, <2>3
  <1>2. CASE \E o \in {"retry", "reject", "uncertain"} :
                worker' = [worker EXCEPT ![w].pc = "called", ![w].outcome = o]
    <2> PICK o \in {"retry", "reject", "uncertain"} :
                worker' = [worker EXCEPT ![w].pc = "called", ![w].outcome = o]
      BY <1>2
    <2> DEFINE c == [worker[w] EXCEPT !.pc = "called", !.outcome = o]
    <2>1. c \in Busy
      BY DEF Busy, Outcomes
    <2>2. /\ worker' = [worker EXCEPT ![w] = c] /\ c.pc = "called"
          /\ c.ev = worker[w].ev /\ c.ver = worker[w].ver
      BY DEF Busy
    <2> QED BY <2>1, <2>2
  <1> QED BY <1>1, <1>2 DEF CallProvider

LEMMA CallProviderDue ==
    ASSUME IInv, Undisturbed, AllDue, NEW w \in Workers, CallProvider(w)
    PROVE  AllDue'
  <1>1. worker[w].pc = "call"
    BY DEF CallProvider
  <1>2. worker[w] \in Busy /\ worker[w].ev.message \in Messages
    BY <1>1, InCharge
  <1> PICK m \in Messages : m = worker[w].ev.message
    BY <1>2
  <1>3. /\ Due(row[m], Queued(m), Live(m), worker[w])
        /\ \A v \in Workers : Holds(v, m) => v = w
    BY <1>1, DueInCharge
  <1>4. PICK c \in Busy : /\ worker' = [worker EXCEPT ![w] = c]
                          /\ c.pc = "called" /\ c.ev = worker[w].ev /\ c.ver = worker[w].ver
    BY <1>2, Called
  <1>5. row' = [row EXCEPT ![m] = row[m]] /\ UNCHANGED <<outbox, pending>>
    BY DEF CallProvider, IInv, RowInv
  <1>6. Due(row[m], Queued(m), Live(m), c)
    BY <1>1, <1>3, <1>4 DEF Due, Ahead
  <1> QED
    BY <1>1, <1>3, <1>4, <1>5, <1>6, DueGoesOn

LEMMA ReportResultDue ==
    ASSUME IInv, Undisturbed, AllDue, NEW w \in Workers, ReportResult(w)
    PROVE  AllDue'
  <1>1. worker[w].pc = "called"
    BY DEF ReportResult
  <1>2. worker[w] \in Busy /\ worker[w].ev.message \in Messages
    BY <1>1, InCharge
  <1> PICK m \in Messages : m = worker[w].ev.message
    BY <1>2
  <1>3. Due(row[m], Queued(m), Live(m), worker[w])
    BY <1>1, DueInCharge
  <1> DEFINE f == ResultEvent(w)
  <1>4. f.message = m /\ f.topic = "result" /\ f.ver = worker[w].ver
    BY <1>2, BusyFields DEF ResultEvent, Ev, Event
  <1>5. /\ row[m].status = "submitting" /\ worker[w].ver = row[m].version
        /\ \A g \in Queued(m) : g.ver <= row[m].version
        /\ \A g \in Queued(m) : g.topic = "result" => g.ver < row[m].version
    BY <1>1, <1>3 DEF Due, Ahead
  <1>6. row' = [row EXCEPT ![m] = row[m]] /\ row[m].version \in Nat
    BY <1>2, <1>5, BusyFields DEF ReportResult, IInv, RowInv
  <1>7. FinishAndEnqueue(worker[w].ev, f) /\ Release(w)
    BY DEF ReportResult
  <1> HIDE DEF f
  <1>8. row[m].status \in Handles[f.topic] /\ f.topic # "retry"
    BY <1>4, <1>5, HandledBy
  <1> PICK r : r = row[m]
    OBVIOUS
  <1>9. /\ row' = [row EXCEPT ![m] = r] /\ r.version \in Nat /\ f.ver = r.version
        /\ \A g \in Queued(m) : g.ver <= r.version
        /\ \A g \in Queued(m) : g.topic = f.topic => g.ver < r.version
        /\ r.status \in Handles[f.topic] /\ ~Stranded(r)
    BY <1>4, <1>5, <1>6, <1>8 DEF Stranded
  <1> QED
    BY <1>1, <1>4, <1>7, <1>8, <1>9, DueWith

LEMMA ResultAcceptedDue ==
    ASSUME IInv, Undisturbed, AllDue, NEW w \in Workers, ResultAccepted(w)
    PROVE  AllDue'
  <1>1. worker[w].pc = "result" /\ worker[w].pc \in DOMAIN Handles
    BY DEF ResultAccepted, Handles
  <1> PICK m \in Messages : m = worker[w].ev.message
    BY <1>1, Turn
  <1> DEFINE base == [row[m] EXCEPT !.pmid = worker[w].ev.pmid, !.error = "none"]
             new == Moved(base, "provider_accepted")
  <1>2. worker[w].pc # "idle" /\ row[m] \in Row
    BY <1>1, Turn
  <1>3. row' = [row EXCEPT ![m] = [new EXCEPT !.version = row[m].version + 1]]
    BY DEF ResultAccepted, TransitionMessage, CompareAndSet
  <1>4. worker[w].ev.pmid \in Nat
    BY <1>1, ResultFacts
  <1>5. base \in Row
    BY <1>2, <1>4 DEF Row, Errors
  <1>6. new \in Row /\ new.status = "provider_accepted"
    <2> HIDE DEF base
    <2> QED BY <1>5, MovedType DEF Statuses
  <1>7. Finish(worker[w].ev) /\ Release(w)
    BY DEF ResultAccepted
  <1> HIDE DEF new
  <1>8. new.status \notin Flying
    BY <1>6 DEF Flying
  <1> QED
    BY <1>2, <1>3, <1>6, <1>7, <1>8, DueOver

LEMMA ResultUncertainDue ==
    ASSUME IInv, Undisturbed, AllDue, NEW w \in Workers, ResultUncertain(w)
    PROVE  AllDue'
  <1>1. worker[w].pc = "result" /\ worker[w].pc \in DOMAIN Handles
    BY DEF ResultUncertain, Handles
  <1> PICK m \in Messages : m = worker[w].ev.message
    BY <1>1, Turn
  <1> DEFINE new == [row[m] EXCEPT !.error = "dispatch"]
             f == Ev("reconcile", m, row[m].version + 1, row[m].provider)
  <1>2. worker[w].pc # "idle" /\ row[m] \in Row
    BY <1>1, Turn
  <1>3. row' = [row EXCEPT ![m] = [new EXCEPT !.version = row[m].version + 1]]
    BY DEF ResultUncertain, PatchMessage, CompareAndSet
  <1>4. new \in Row /\ ~Stranded(new)
    <2>1. row[m].status \in Handles["result"]
      BY <1>1, Turn
    <2>2. row[m].status = "submitting"
      BY <2>1 DEF Handles
    <2> QED BY <1>2, <2>2 DEF Row, Errors, Stranded
  <1>5. f.message = m /\ f.topic = "reconcile" /\ f.ver = row[m].version + 1
    BY DEF Ev
  <1>6. FinishAndEnqueue(worker[w].ev, f) /\ Release(w)
    BY DEF ResultUncertain
  <1> HIDE DEF new, f
  <1> QED
    BY <1>2, <1>3, <1>4, <1>5, <1>6, DueAnew

LEMMA ResultRetryDue ==
    ASSUME IInv, Undisturbed, AllDue, NEW w \in Workers, ResultRetry(w)
    PROVE  AllDue'
  <1>1. worker[w].pc = "result" /\ worker[w].pc \in DOMAIN Handles
    BY DEF ResultRetry, Handles
  <1> PICK m \in Messages : m = worker[w].ev.message
    BY <1>1, Turn
  <1> PICK p \in Providers :
         /\ PatchMessage(m, worker[w].seen, [row[m] EXCEPT !.provider = p, !.error = "dispatch"])
         /\ FinishAndEnqueue(worker[w].ev, Ev("retry", m, row[m].version + 1, p))
         /\ Release(w)
    BY DEF ResultRetry
  <1> DEFINE new == [row[m] EXCEPT !.provider = p, !.error = "dispatch"]
             f == Ev("retry", m, row[m].version + 1, p)
  <1>2. worker[w].pc # "idle" /\ row[m] \in Row
    BY <1>1, Turn
  <1>3. row' = [row EXCEPT ![m] = [new EXCEPT !.version = row[m].version + 1]]
    BY DEF PatchMessage, CompareAndSet
  <1>4. new \in Row /\ new.status = "submitting"
    <2>1. row[m].status \in Handles["result"]
      BY <1>1, Turn
    <2>2. row[m].status = "submitting"
      BY <2>1 DEF Handles
    <2> QED BY <1>2, <2>2 DEF Row, Errors
  <1>5. f.message = m /\ f.topic = "retry" /\ f.ver = row[m].version + 1
    BY DEF Ev
  <1>6. new.status \in Handles[f.topic] /\ ~Stranded(new)
    BY <1>4, <1>5, HandledBy DEF Stranded
  <1>7. FinishAndEnqueue(worker[w].ev, f)
    OBVIOUS
  <1> HIDE DEF new, f
  <1> QED
    BY <1>2, <1>3, <1>4, <1>5, <1>6, <1>7, DueAnew

LEMMA ResultFailedDue ==
    ASSUME IInv, Undisturbed, AllDue, NEW w \in Workers, ResultFailed(w)
    PROVE  AllDue'
  <1>1. worker[w].pc = "result" /\ worker[w].pc \in DOMAIN Handles
    BY DEF ResultFailed, Handles
  <1> PICK m \in Messages : m = worker[w].ev.message
    BY <1>1, Turn
  <1> DEFINE base == [row[m] EXCEPT !.billing = "released", !.error = "dispatch"]
             new == Moved(base, "failed")
  <1>2. worker[w].pc # "idle" /\ row[m] \in Row
    BY <1>1, Turn
  <1>3. row' = [row EXCEPT ![m] = [new EXCEPT !.version = row[m].version + 1]]
    BY DEF ResultFailed, TransitionMessage, CompareAndSet
  <1>4. base \in Row
    BY <1>2 DEF Row, Errors, BillingStates
  <1>5. new \in Row /\ new.status = "failed"
    <2> HIDE DEF base
    <2> QED BY <1>4, MovedType DEF Statuses
  <1>6. Finish(worker[w].ev) /\ Release(w)
    BY DEF ResultFailed
  <1> HIDE DEF new
  <1>7. new.status \notin Flying
    BY <1>5 DEF Flying
  <1> QED
    BY <1>2, <1>3, <1>5, <1>6, <1>7, DueOver

LEMMA WorkerDue ==
    ASSUME IInv, Undisturbed, AllDue, MaxFaults = 0, NEW w \in Workers, WorkerStep(w)
    PROVE  AllDue'
  <1>1. ASSUME NEW e \in pending, Start(w, e) PROVE AllDue'
    BY <1>1, StartDue
  <1>2. ASSUME NEW e \in pending, Skip(w, e) PROVE AllDue'
    BY <1>2, SkipDue
  <1>3. ~Conflict(w)
    <2> SUFFICES ASSUME Conflict(w) PROVE FALSE
      OBVIOUS
    <2>1. worker[w].pc \in DOMAIN Handles
      BY DEF Conflict, Handles
    <2> QED BY <2>1, Turn DEF Conflict
  <1>4. CASE HandleAccepted(w)
    BY <1>4, HandleAcceptedDue
  <1>5. CASE HandleRetry(w)
    BY <1>5, HandleRetryDue
  <1>6. CASE BeginAttempt(w)
    BY <1>6, BeginAttemptDue
  <1>7. CASE FraudThrottle(w)
    BY <1>7, FraudThrottleDue
  <1>8. CASE FraudBlock(w)
    BY <1>8, FraudBlockDue
  <1>9. CASE CallProvider(w)
    BY <1>9, CallProviderDue
  <1>10. CASE ReportResult(w)
    BY <1>10, ReportResultDue
  <1>11. CASE ResultAccepted(w)
    BY <1>11, ResultAcceptedDue
  <1>12. CASE ResultUncertain(w)
    BY <1>12, ResultUncertainDue
  <1>13. CASE ResultRetry(w)
    BY <1>13, ResultRetryDue
  <1>14. CASE ResultFailed(w)
    BY <1>14, ResultFailedDue
  <1> QED
    BY <1>1, <1>2, <1>3, <1>4, <1>5, <1>6, <1>7, <1>8, <1>9, <1>10, <1>11, <1>12, <1>13, <1>14
       DEF WorkerStep

(* A report settles a message nothing is due to any more.                  *)
LEMMA SettledDue ==
    ASSUME IInv, Undisturbed, AllDue, NEW m \in Messages,
           row[m] \in Row, row[m].status = "provider_accepted",
           NEW new \in Row, new.status \notin Flying,
           row' = [row EXCEPT ![m] = [new EXCEPT !.version = row[m].version + 1]],
           UNCHANGED <<outbox, pending, worker>>
    PROVE  AllDue'
  <1>1. PICK b \in Busy \cup {Idle} : Charge(m, b) /\ Fine(row[m], Live(m), b, Took(m))
    BY DEF Undisturbed, Orderly
  <1>2. Live(m) = {}
    BY <1>1 DEF Fine, Flying
  <1>3. (\A w \in Workers : ~Holds(w, m)) /\ Due(row[m], Queued(m), Live(m), Idle) /\ Unused(m)
    BY <1>2, NoneInCharge, DueNobody
  <1> DEFINE r == [new EXCEPT !.version = row[m].version + 1]
  <1>4. r.status = new.status /\ \A g \in Queued(m) : g.ver <= r.version
    BY <1>3, PastKeys
  <1> HIDE DEF r
  <1>5. \A n \in Messages : Live(n)' = Live(n) /\ Queued(n)' = Queued(n)
    BY DEF Live, Queued
  <1>6. Due(r, Queued(m)', Live(m)', Idle)
    BY <1>2, <1>4, <1>5 DEF Due, Ahead, EventDue, Idle, Stranded, Flying
  <1>7. Charge(m, Idle)'
    BY <1>3 DEF Charge, Holds
  <1>8. \E c \in Busy \cup {Idle} : Charge(m, c)' /\ Due(r, Queued(m)', Live(m)', c)
    BY <1>6, <1>7
  <1>9. row' = [row EXCEPT ![m] = r]
    BY DEF r
  <1> QED
    BY <1>5, <1>8, <1>9, OneDue

LEMMA SettleDue ==
    ASSUME IInv, Undisturbed, AllDue, NEW d \in DlrWorkers, DlrDelivered(d) \/ DlrFailed(d),
           UNCHANGED <<outbox, pending, worker>>
    PROVE  AllDue'
  <1>1. /\ dlrWorker[d].message \in Messages /\ dlrWorker[d].seen \in Row
        /\ row \in [Messages -> Row \cup {NoRow}]
        /\ dlrWorker[d].seen.status = "provider_accepted"
    BY SettlingFacts DEF DlrDelivered, DlrFailed, Settling
  <1> PICK m \in Messages : m = dlrWorker[d].message
    BY <1>1
  <1>2. CASE DlrDelivered(d)
    <2> DEFINE new == Moved(row[m], "delivered")
    <2>1. /\ row[m] \in Row /\ row[m].status = "provider_accepted"
          /\ row' = [row EXCEPT ![m] = [new EXCEPT !.version = row[m].version + 1]]
      BY <1>1, <1>2, CompareAndSetFacts DEF DlrDelivered, TransitionMessage
    <2>2. new \in Row /\ new.status = "delivered"
      BY <2>1, MovedType DEF Statuses
    <2> HIDE DEF new
    <2>3. new.status \notin Flying
      BY <2>2 DEF Flying
    <2> QED
      BY <2>1, <2>2, <2>3, SettledDue
  <1>3. CASE DlrFailed(d)
    <2> DEFINE base == FailedRow(row[m])
               new == Moved(base, "failed")
    <2>1. /\ row[m] \in Row /\ row[m].status = "provider_accepted"
          /\ row' = [row EXCEPT ![m] = [new EXCEPT !.version = row[m].version + 1]]
      BY <1>1, <1>3, CompareAndSetFacts DEF DlrFailed, TransitionMessage
    <2>2. base \in Row
      BY <2>1 DEF FailedRow, Row, Errors, BillingStates
    <2>3. new \in Row /\ new.status = "failed"
      <3> HIDE DEF base
      <3> QED BY <2>2, MovedType DEF Statuses
    <2> HIDE DEF new
    <2>4. new.status \notin Flying
      BY <2>3 DEF Flying
    <2> QED
      BY <2>1, <2>3, <2>4, SettledDue
  <1> QED
    BY <1>2, <1>3

LEMMA DueFrame ==
    ASSUME AllDue, UNCHANGED <<row, outbox, pending, worker>>
    PROVE  AllDue'
  <1>1. ASSUME NEW m \in Messages
        PROVE  \E b \in Busy \cup {Idle} : Charge(m, b)' /\ Due(row[m], Queued(m), Live(m), b)'
    <2>1. PICK b \in Busy \cup {Idle} : Charge(m, b) /\ Due(row[m], Queued(m), Live(m), b)
      BY DEF AllDue
    <2>2. Charge(m, b)' /\ Live(m)' = Live(m) /\ Queued(m)' = Queued(m) /\ row'[m] = row[m]
      BY <2>1 DEF Charge, Holds, Live, Queued
    <2> QED BY <2>1, <2>2
  <1> QED
    BY <1>1 DEF AllDue

LEMMA StepDue ==
    ASSUME IInv, Undisturbed, AllDue, MaxFaults = 0, [Next]_vars
    PROVE  AllDue'
  <1>1. CASE WfNext
    <2>1. ~Disturbance
      BY DEF Disturbance, Fail, Republish, GiveUp, Undisturbed
    <2> QED BY <1>1, <2>1, SubmitDue, WorkerDue DEF WfNext
  <1>2. CASE DlrNext
    <2>1. UNCHANGED <<outbox, pending, worker>>
      BY <1>2 DEF DlrNext, wfVars
    <2>2. CASE UNCHANGED row
      BY <2>1, <2>2, DueFrame
    <2>3. ASSUME NEW d \in DlrWorkers, DlrDelivered(d) \/ DlrFailed(d) PROVE AllDue'
      BY <2>1, <2>3, SettleDue
    <2>4. \/ UNCHANGED row
          \/ \E d \in DlrWorkers : DlrDelivered(d) \/ DlrFailed(d)
      BY <1>2 DEF DlrNext, wfVars, DlrSettle, DlrUnmatched, DlrUnknown, DlrDuplicate, DlrInvalid,
                  Reconciled
    <2> QED BY <2>2, <2>3, <2>4
  <1>3. CASE UNCHANGED vars
    BY <1>3, DueFrame DEF vars
  <1> QED
    BY <1>1, <1>2, <1>3 DEF Next

(* What is due to a message that has not settled is pending.               *)
LEMMA DueMeansPending ==
    ASSUME IInv, AllDue
    PROVE  NothingForgotten
  <1> SUFFICES ASSUME NEW m \in Messages, row[m].status # "none",
                      ~Settled(m), ~Stranded(row[m])
               PROVE  \E e \in pending : /\ e.message = m /\ e.topic \in DOMAIN Handles
                                         /\ row[m].status \in Handles[e.topic]
    BY DEF NothingForgotten
  <1>1. EventDue(row[m], Queued(m), Live(m))
    BY DEF AllDue, Due
  <1>2. row[m].status \in Flying
    <2>1. row[m] \in Row
      BY DEF IInv, RowInv, NoRow
    <2>2. row[m].status \in Statuses
      BY <2>1 DEF Row
    <2> QED BY <2>2 DEF Statuses, Flying, Settled
  <1>3. ~ \E e \in Queued(m) : e.topic = "reconcile"
    BY DEF Queued, Settled
  <1>4. PICK e : e \in Live(m)
    BY <1>1, <1>2, <1>3 DEF EventDue
  <1>5. row[m].status \in Handles[e.topic]
    BY <1>1, <1>4 DEF EventDue
  <1>6. e \in pending /\ e.message = m /\ e.topic # "reconcile"
    BY <1>4 DEF Live
  <1>7. e.topic \in Topics
    BY <1>6 DEF IInv, FlowInv, Event
  <1>8. e.topic \in DOMAIN Handles
    BY <1>6, <1>7 DEF Topics, Handles
  <1> QED
    BY <1>5, <1>6, <1>8

(* What is due to the messages stays due to them.                          *)
LEMMA DueKept ==
    ASSUME MaxFaults = 0
    PROVE  Spec => []AllDue
  <1>1. Init => AllDue
    <2> SUFFICES ASSUME Init, NEW m \in Messages
                 PROVE  Charge(m, Idle) /\ Due(row[m], Queued(m), Live(m), Idle)
      BY DEF AllDue
    <2>1. Live(m) = {} /\ Queued(m) = {} /\ row[m] = NoRow
      BY DEF Init, WfInit, StoreInit, Live, Queued
    <2>2. Charge(m, Idle)
      BY DEF Init, WfInit, Charge, Holds, Idle
    <2> QED BY <2>1, <2>2 DEF Due, Ahead, EventDue, Idle, NoRow, Flying, Stranded
  <1>2. IInv /\ Undisturbed /\ AllDue /\ [Next]_vars => AllDue'
    BY StepDue
  <1> QED
    BY <1>1, <1>2, Invariant, OrderKept, PTL DEF Spec

(* As long as nothing is disturbed - no exception, crash, rebalance or     *)
(* second publication around the handlers - a message is attempted at most *)
(* MaxAttempts times, a carrier gets each attempt once, an acknowledged    *)
(* message names the carrier that took it, and a message that has not      *)
(* settled has an event pending that its handler will act on, unless a     *)
(* throttle stranded it (handleDispatch, handleDispatchResult, enqueue).   *)
THEOREM AttemptsAccountedHolds ==
    ASSUME MaxFaults = 0
    PROVE  Spec => []AttemptsAccounted
  <1>1. IInv /\ Undisturbed /\ AllDue => AttemptsAccounted
    <2> SUFFICES ASSUME IInv, Undisturbed, AllDue PROVE AttemptsAccounted
      OBVIOUS
    <2>1. ASSUME NEW m \in Messages
          PROVE  /\ row[m].attempt <= MaxAttempts
                 /\ Cardinality({t \in taken : t.message = m}) <= row[m].attempt
                 /\ row[m].sent => \E t \in taken : /\ t.message = m
                                                    /\ t.provider = row[m].provider
                                                    /\ row[m].pmid \in {t.ver, NoId}
      <3>1. PICK b : Fine(row[m], Live(m), b, Took(m))
        BY DEF Undisturbed, Orderly
      <3> QED BY <3>1 DEF Fine, Took, Named
    <2> QED
      BY <2>1, DueMeansPending DEF AttemptsAccounted, AttemptsWithinPolicy, AcknowledgedByItsCarrier
  <1> QED
    BY <1>1, Invariant, OrderKept, DueKept, PTL

-----------------------------------------------------------------------------
(* Work runs out.  How many steps of the workers are left for a message,   *)
(* at most: by where its event is, and a round of twelve for each attempt  *)
(* the policy still allows.                                                *)
Waiting == [accepted |-> 11, dispatch |-> 9, result |-> 17, retry |-> 15]

AtWork == [accepted |-> 10, dispatch |-> 8, call |-> 19, called |-> 18, result |-> 16, retry |-> 14]

Remaining(a, L, b) ==
    IF L = {} THEN 0
    ELSE 12 * (MaxAttempts - a)
           + IF b = Idle THEN Waiting[(CHOOSE e \in L : TRUE).topic] ELSE AtWork[b.pc]

(* The handler at m, in the workers W.                                     *)
Who(W, m) ==
    IF \E w \in Workers : W[w].pc # "idle" /\ W[w].ev.message = m
      THEN W[CHOOSE w \in Workers : W[w].pc # "idle" /\ W[w].ev.message = m]
      ELSE Idle

StepsLeft(m) == Remaining(row[m].attempt, Live(m), Who(worker, m))

LEMMA Counts ==
    /\ {"accepted", "dispatch", "result", "retry"} = DOMAIN Waiting
    /\ Waiting["dispatch"] < AtWork["accepted"] /\ Waiting["dispatch"] < AtWork["retry"]
    /\ Waiting["result"] < AtWork["called"] /\ Waiting["retry"] < AtWork["result"]
    /\ \A t \in {"accepted", "dispatch", "result", "retry"} :
          AtWork[t] < Waiting[t] /\ AtWork[t] \in Nat /\ Waiting[t] \in Nat
  BY DEF Waiting, AtWork

(* Work was done on m, and none was added to any other message.            *)
Progress(m) ==
    /\ StepsLeft(m)' < StepsLeft(m)
    /\ \A n \in Messages \ {m} : StepsLeft(n)' = StepsLeft(n)

(* b is the one handler at m among W, or nobody is.                        *)
Only(W, m, b) ==
    \/ b = Idle /\ \A w \in Workers : ~(W[w].pc # "idle" /\ W[w].ev.message = m)
    \/ \E w \in Workers :
         /\ b = W[w] /\ W[w].pc # "idle" /\ W[w].ev.message = m
         /\ \A v \in Workers : W[v].pc # "idle" /\ W[v].ev.message = m => v = w

LEMMA WhoIs ==
    ASSUME NEW W, NEW m, NEW b, Only(W, m, b)
    PROVE  Who(W, m) = b
  BY DEF Who, Only

LEMMA StepsBefore ==
    ASSUME NEW m, NEW b, Charge(m, b)
    PROVE  StepsLeft(m) = Remaining(row[m].attempt, Live(m), b)
  <1>1. Only(worker, m, b)
    BY DEF Charge, Holds, Only
  <1>2. Who(worker, m) = b
    BY <1>1, WhoIs
  <1> QED BY <1>2 DEF StepsLeft

LEMMA StepsAfter ==
    ASSUME NEW m, NEW b, Charge(m, b)'
    PROVE  StepsLeft(m)' = Remaining(row'[m].attempt, Live(m)', b)
  <1>1. Only(worker', m, b)
    BY DEF Charge, Holds, Only
  <1>2. Who(worker', m) = b
    BY <1>1, WhoIs
  <1> QED BY <1>2 DEF StepsLeft

(* The count for one event e, and what it is of.                           *)
LEMMA RemainingIs ==
    ASSUME NEW a, NEW L, NEW b, NEW e \in L, \A f \in L : f = e
    PROVE  /\ b = Idle => Remaining(a, L, b) = 12 * (MaxAttempts - a) + Waiting[e.topic]
           /\ b # Idle => Remaining(a, L, b) = 12 * (MaxAttempts - a) + AtWork[b.pc]
  BY DEF Remaining

(* A step about one message leaves the count of the others alone.          *)
LEMMA CountKept ==
    ASSUME IInv, Undisturbed, NEW m \in Messages, NEW r, row' = [row EXCEPT ![m] = r],
           \A n \in Messages \ {m} : Live(n)' = Live(n),
           \/ UNCHANGED worker
           \/ \E w \in Workers, c \in Busy \cup {Idle} :
                /\ worker' = [worker EXCEPT ![w] = c]
                /\ worker[w].pc # "idle" => worker[w].ev.message = m
                /\ c # Idle => c.ev.message = m
    PROVE  \A n \in Messages \ {m} : StepsLeft(n)' = StepsLeft(n)
  <1>1. \A n \in Messages \ {m} : row'[n] = row[n]
    BY DEF IInv, RowInv
  <1>2. ASSUME NEW n \in Messages \ {m} PROVE StepsLeft(n)' = StepsLeft(n)
    <2>1. PICK d : Charge(n, d)
      BY DEF Undisturbed, Orderly
    <2>2. Charge(n, d)'
      BY <2>1, ChargeKept
    <2>3. /\ StepsLeft(n) = Remaining(row[n].attempt, Live(n), d)
          /\ StepsLeft(n)' = Remaining(row'[n].attempt, Live(n)', d)
      BY <2>1, <2>2, StepsBefore, StepsAfter
    <2> QED BY <1>1, <2>3
  <1> QED
    BY <1>2

LEMMA OneProgress ==
    ASSUME IInv, Undisturbed, NEW m \in Messages, NEW r, row' = [row EXCEPT ![m] = r],
           \A n \in Messages \ {m} : Live(n)' = Live(n),
           \/ UNCHANGED worker
           \/ \E w \in Workers, c \in Busy \cup {Idle} :
                /\ worker' = [worker EXCEPT ![w] = c]
                /\ worker[w].pc # "idle" => worker[w].ev.message = m
                /\ c # Idle => c.ev.message = m,
           NEW b, Charge(m, b), NEW c, Charge(m, c)',
           Remaining(r.attempt, Live(m)', c) < Remaining(row[m].attempt, Live(m), b)
    PROVE  Progress(m)
  <1>1. row'[m] = r
    BY DEF IInv, RowInv
  <1>2. StepsLeft(m)' < StepsLeft(m)
    BY <1>1, StepsBefore, StepsAfter
  <1>3. \A n \in Messages \ {m} : StepsLeft(n)' = StepsLeft(n)
    BY CountKept
  <1> QED
    BY <1>2, <1>3 DEF Progress

(* A handler goes on with its event, one step nearer.                      *)
LEMMA NearerGoesOn ==
    ASSUME IInv, Undisturbed, NEW w \in Workers, worker[w].pc # "idle",
           NEW m \in Messages, m = worker[w].ev.message,
           NEW c \in Busy, c.ev.message = m, c.pc # "idle",
           worker' = [worker EXCEPT ![w] = c],
           NEW r, row' = [row EXCEPT ![m] = r], UNCHANGED pending,
           12 * (MaxAttempts - r.attempt) + AtWork[c.pc]
             < 12 * (MaxAttempts - row[m].attempt) + AtWork[worker[w].pc]
    PROVE  Progress(m)
  <1>1. /\ worker[w] # Idle /\ Fine(row[m], Live(m), worker[w], Took(m))
        /\ \A v \in Workers : Holds(v, m) => v = w
    BY InCharge
  <1>2. worker[w].ev \in Live(m) /\ \A f \in Live(m) : f = worker[w].ev
    BY <1>1 DEF Fine
  <1>3. \A n \in Messages : Live(n)' = Live(n)
    BY DEF Live
  <1>4. worker'[w] = c /\ \A v \in Workers \ {w} : worker'[v] = worker[v]
    BY DEF IInv, FlowInv
  <1>5. Charge(m, worker[w]) /\ Charge(m, c)' /\ c # Idle
    <2>1. Holds(w, m) /\ c # Idle
      BY DEF Holds, Idle
    <2>2. Charge(m, worker[w])
      BY <1>1, <2>1 DEF Charge
    <2>3. Charge(m, c)'
      BY <1>1, <1>4 DEF Charge, Holds
    <2> QED BY <2>1, <2>2, <2>3
  <1>6. /\ Remaining(row[m].attempt, Live(m), worker[w])
             = 12 * (MaxAttempts - row[m].attempt) + AtWork[worker[w].pc]
        /\ Remaining(r.attempt, Live(m), c) = 12 * (MaxAttempts - r.attempt) + AtWork[c.pc]
    BY <1>1, <1>2, <1>5, RemainingIs
  <1> QED
    BY <1>3, <1>5, <1>6, OneProgress

(* A handler ends; if it enqueued, the event it leaves is nearer.          *)
LEMMA NearerEnds ==
    ASSUME IInv, Undisturbed, NEW w \in Workers, worker[w].pc # "idle", Release(w),
           NEW m \in Messages, m = worker[w].ev.message,
           NEW r, row' = [row EXCEPT ![m] = r], r.attempt = row[m].attempt,
           row[m].attempt \in Nat,
           \A n \in Messages \ {m} : Live(n)' = Live(n),
           \/ Live(m)' = {}
           \/ \E f : /\ Live(m)' = {f} /\ f.topic \in DOMAIN Waiting
                     /\ Waiting[f.topic] < AtWork[worker[w].pc]
    PROVE  Progress(m)
  <1>1. /\ worker[w] # Idle /\ Fine(row[m], Live(m), worker[w], Took(m)) /\ worker[w] \in Busy
        /\ \A v \in Workers : Holds(v, m) => v = w
    BY InCharge
  <1>2. worker[w].ev \in Live(m) /\ \A f \in Live(m) : f = worker[w].ev
    BY <1>1 DEF Fine
  <1>3. worker'[w] = Idle /\ \A v \in Workers \ {w} : worker'[v] = worker[v]
    BY DEF IInv, FlowInv, Release
  <1>4. Charge(m, worker[w]) /\ Charge(m, Idle)'
    <2>1. Holds(w, m) /\ Idle.pc = "idle"
      BY DEF Holds, Idle
    <2>2. Charge(m, worker[w])
      BY <1>1, <2>1 DEF Charge
    <2>3. Charge(m, Idle)'
      BY <1>1, <1>3, <2>1 DEF Charge, Holds
    <2> QED BY <2>2, <2>3
  <1>5. worker' = [worker EXCEPT ![w] = Idle]
    BY DEF Release
  <1>6. Remaining(row[m].attempt, Live(m), worker[w])
          = 12 * (MaxAttempts - row[m].attempt) + AtWork[worker[w].pc]
    BY <1>1, <1>2, RemainingIs
  <1>7. AtWork[worker[w].pc] \in 8..19 /\ 12 * (MaxAttempts - row[m].attempt) \in Nat
    <2>1. worker[w].pc \in {"accepted", "retry", "dispatch", "result", "call", "called"}
      BY <1>1, BusyFields
    <2>2. row[m].attempt <= MaxAttempts
      BY <1>1 DEF Fine
    <2> QED BY <2>1, <2>2, BoundAssumption DEF AtWork
  <1>8. Remaining(r.attempt, Live(m)', Idle) < Remaining(row[m].attempt, Live(m), worker[w])
    <2>1. CASE Live(m)' = {}
      <3>1. Remaining(r.attempt, Live(m)', Idle) = 0
        BY <2>1 DEF Remaining
      <3>2. 0 < 12 * (MaxAttempts - row[m].attempt) + AtWork[worker[w].pc]
        BY <1>7
      <3> QED BY <1>6, <3>1, <3>2
    <2>2. ASSUME NEW f, Live(m)' = {f}, f.topic \in DOMAIN Waiting,
                 Waiting[f.topic] < AtWork[worker[w].pc]
          PROVE  Remaining(r.attempt, Live(m)', Idle)
                   < Remaining(row[m].attempt, Live(m), worker[w])
      <3>1. Remaining(r.attempt, Live(m)', Idle)
              = 12 * (MaxAttempts - row[m].attempt) + Waiting[f.topic]
        BY <2>2, RemainingIs
      <3>2. Waiting[f.topic] \in Nat
        BY <2>2 DEF Waiting
      <3> QED BY <1>6, <1>7, <2>2, <3>1, <3>2
    <2> QED BY <2>1, <2>2
  <1> QED
    BY <1>4, <1>5, <1>8, OneProgress

LEMMA NearerWith ==
    ASSUME IInv, Undisturbed, NEW w \in Workers, worker[w].pc # "idle", Release(w),
           NEW m \in Messages, m = worker[w].ev.message,
           NEW r, row' = [row EXCEPT ![m] = r], r.attempt = row[m].attempt,
           row[m].attempt \in Nat,
           NEW f, f.message = m, FinishAndEnqueue(worker[w].ev, f),
           f.topic # "reconcile" =>
              f.topic \in DOMAIN Waiting /\ Waiting[f.topic] < AtWork[worker[w].pc]
    PROVE  Progress(m)
  <1>1. worker[w] # Idle /\ Fine(row[m], Live(m), worker[w], Took(m))
    BY InCharge
  <1>2. \A e \in Live(m) : e = worker[w].ev
    BY <1>1 DEF Fine
  <1>3. /\ \A n \in Messages \ {m} : Live(n)' = Live(n)
        /\ \A e \in Live(m)' : e = f /\ f.topic # "reconcile"
    BY <1>2, LiveAfter
  <1>4. Live(m)' = {} \/ (Live(m)' = {f} /\ f.topic # "reconcile")
    BY <1>3
  <1> QED
    BY <1>3, <1>4, NearerEnds

LEMMA NearerDone ==
    ASSUME IInv, Undisturbed, NEW w \in Workers, worker[w].pc # "idle", Release(w),
           NEW m \in Messages, m = worker[w].ev.message,
           NEW r, row' = [row EXCEPT ![m] = r], r.attempt = row[m].attempt,
           row[m].attempt \in Nat, Finish(worker[w].ev)
    PROVE  Progress(m)
  <1>1. worker[w] # Idle /\ Fine(row[m], Live(m), worker[w], Took(m))
    BY InCharge
  <1>2. \A e \in Live(m) : e = worker[w].ev
    BY <1>1 DEF Fine
  <1>3. (\A n \in Messages \ {m} : Live(n)' = Live(n)) /\ Live(m)' = {}
    BY <1>2, LiveDone
  <1> QED
    BY <1>3, NearerEnds

(* A write that is not the start of an attempt leaves the attempts alone.  *)
LEMMA AttemptKept ==
    ASSUME NEW m, row[m] \in Row, NEW new \in Row, new.attempt = row[m].attempt
    PROVE  /\ [new EXCEPT !.version = row[m].version + 1].attempt = row[m].attempt
           /\ row[m].attempt \in Nat
  <1>1. row[m].version + 1 \in Nat
    BY NextVersion
  <1>2. [new EXCEPT !.version = row[m].version + 1].attempt = new.attempt
    BY <1>1, Versioned
  <1> QED BY <1>2 DEF Row

LEMMA StartNearer ==
    ASSUME IInv, Undisturbed, MaxFaults = 0, NEW w \in Workers, NEW e \in pending, Start(w, e)
    PROVE  \E m \in Messages : Progress(m)
  <1> PICK m, c : m = e.message /\ c = Handling(e, row[m])
    OBVIOUS
  <1>1. ~InProgress(e)
    BY DEF Start, Undisturbed
  <1>2. /\ e \in Event /\ m \in Messages /\ e \in Live(m) /\ (\A v \in Workers : ~Holds(v, m))
        /\ Fine(row[m], Live(m), Idle, Took(m))
    BY <1>1, NobodyAtIt DEF Start
  <1>3. e.topic \in DOMAIN Handles
    BY <1>2 DEF Start, Event, Topics, Handles
  <1>4. row[m] \in Row
    <2>1. row[m] \in Row \cup {NoRow} /\ row[m].status # "none"
      BY <1>2, <1>3 DEF Start, Handles, IInv, RowInv
    <2> QED BY <2>1 DEF NoRow
  <1>5. c \in Busy /\ c.ev = e /\ c.pc = e.topic /\ c.ev.message = m
    BY <1>2, <1>3, <1>4 DEF Handling, Busy, NoId, Handles
  <1>6. c.pc # "idle" /\ c # Idle /\ AtWork[c.pc] < Waiting[e.topic]
        /\ AtWork[c.pc] \in Nat /\ Waiting[e.topic] \in Nat
    BY <1>3, <1>5 DEF Handles, Idle, AtWork, Waiting
  <1>7. /\ row' = [row EXCEPT ![m] = row[m]] /\ UNCHANGED pending
        /\ worker' = [worker EXCEPT ![w] = c] /\ worker[w].pc = "idle"
    BY DEF Start, IInv, RowInv
  <1>8. \A f \in Live(m) : f = e
    BY <1>2 DEF Fine
  <1>9. 12 * (MaxAttempts - row[m].attempt) \in Int
    BY <1>4, BoundAssumption DEF Row
  <1>10. \A n \in Messages : Live(n)' = Live(n)
    BY <1>7 DEF Live
  <1>11. worker'[w] = c /\ \A v \in Workers \ {w} : worker'[v] = worker[v]
    BY <1>7 DEF IInv, FlowInv
  <1>12. Charge(m, Idle) /\ Charge(m, c)'
    BY <1>2, <1>5, <1>6, <1>11 DEF Charge, Holds
  <1>13. Remaining(row[m].attempt, Live(m)', c) < Remaining(row[m].attempt, Live(m), Idle)
    <2>1. /\ Remaining(row[m].attempt, Live(m), c)
               = 12 * (MaxAttempts - row[m].attempt) + AtWork[c.pc]
          /\ Remaining(row[m].attempt, Live(m), Idle)
               = 12 * (MaxAttempts - row[m].attempt) + Waiting[e.topic]
      BY <1>2, <1>6, <1>8, RemainingIs
    <2> QED BY <1>2, <1>6, <1>9, <1>10, <2>1
  <1> QED
    BY <1>2, <1>5, <1>7, <1>10, <1>12, <1>13, OneProgress

LEMMA SkipNearer ==
    ASSUME IInv, Undisturbed, NEW w \in Workers, NEW e \in pending, Skip(w, e)
    PROVE  \E m \in Messages : Progress(m)
  <1> PICK m : m = e.message
    OBVIOUS
  <1>1. /\ e \in Event /\ m \in Messages /\ e \in Live(m) /\ (\A v \in Workers : ~Holds(v, m))
        /\ Fine(row[m], Live(m), Idle, Took(m))
    BY NobodyAtIt DEF Skip
  <1>2. \A f \in Live(m) : f = e
    BY <1>1 DEF Fine
  <1>3. (\A n \in Messages \ {m} : Live(n)' = Live(n)) /\ Live(m)' = {}
    BY <1>2, LiveDone DEF Skip
  <1>4. /\ Charge(m, Idle) /\ Charge(m, Idle)' /\ UNCHANGED worker
        /\ row' = [row EXCEPT ![m] = row[m]]
    BY <1>1 DEF Charge, Holds, Skip, IInv, RowInv
  <1>5. row[m].attempt <= MaxAttempts /\ row[m].attempt \in Nat
    BY <1>1 DEF Fine, IInv, RowInv, Row, NoRow
  <1>6. Waiting[e.topic] \in 9..17
    BY <1>1 DEF Skip, Event, Topics, Waiting
  <1>7. Remaining(row[m].attempt, Live(m)', Idle) < Remaining(row[m].attempt, Live(m), Idle)
    <2>1. Remaining(row[m].attempt, Live(m), Idle)
            = 12 * (MaxAttempts - row[m].attempt) + Waiting[e.topic]
      BY <1>1, <1>2, RemainingIs
    <2>2. Remaining(row[m].attempt, Live(m)', Idle) = 0
      BY <1>3 DEF Remaining
    <2> QED BY <1>5, <1>6, <2>1, <2>2, BoundAssumption
  <1> QED
    BY <1>1, <1>3, <1>4, <1>7, OneProgress

LEMMA HandleAcceptedNearer ==
    ASSUME IInv, Undisturbed, NEW w \in Workers, HandleAccepted(w)
    PROVE  \E m \in Messages : Progress(m)
  <1>1. worker[w].pc = "accepted" /\ worker[w].pc \in DOMAIN Handles
    BY DEF HandleAccepted, Handles
  <1> PICK m \in Messages : m = worker[w].ev.message
    BY <1>1, Turn
  <1> PICK p \in Providers :
         /\ TransitionMessage(m, worker[w].seen, "routed", RoutedRow(row[m], p))
         /\ FinishAndEnqueue(worker[w].ev, Ev("dispatch", m, row[m].version + 1, p))
         /\ Release(w)
    BY DEF HandleAccepted
  <1> DEFINE new == Moved(RoutedRow(row[m], p), "routed")
             r == [new EXCEPT !.version = row[m].version + 1]
             f == Ev("dispatch", m, row[m].version + 1, p)
  <1>2. worker[w].pc # "idle" /\ row[m] \in Row
    BY <1>1, Turn
  <1>3. row' = [row EXCEPT ![m] = r]
    BY DEF TransitionMessage, CompareAndSet
  <1>4. RoutedRow(row[m], p) \in Row /\ RoutedRow(row[m], p).attempt = row[m].attempt
    BY <1>2 DEF RoutedRow, Row, Errors
  <1>5. new \in Row /\ new.attempt = row[m].attempt
    <2> HIDE DEF RoutedRow
    <2> QED BY <1>4, MovedType DEF Statuses
  <1>6. f.message = m /\ f.topic = "dispatch"
    BY DEF Ev
  <1> HIDE DEF new
  <1>7. r.attempt = row[m].attempt /\ row[m].attempt \in Nat
    BY <1>2, <1>5, AttemptKept
  <1>8. f.topic \in DOMAIN Waiting /\ Waiting[f.topic] < AtWork[worker[w].pc]
    BY <1>1, <1>6, Counts
  <1> HIDE DEF r, f
  <1>9. FinishAndEnqueue(worker[w].ev, f)
    BY DEF f
  <1> QED
    BY <1>2, <1>3, <1>6, <1>7, <1>8, <1>9, NearerWith

LEMMA HandleRetryNearer ==
    ASSUME IInv, Undisturbed, NEW w \in Workers, HandleRetry(w)
    PROVE  \E m \in Messages : Progress(m)
  <1>1. worker[w].pc = "retry" /\ worker[w].pc \in DOMAIN Handles
    BY DEF HandleRetry, Handles
  <1> PICK m \in Messages : m = worker[w].ev.message
    BY <1>1, Turn
  <1> DEFINE f == Ev("dispatch", m, worker[w].seen.version, worker[w].seen.provider)
  <1>2. worker[w].pc # "idle" /\ row[m] \in Row
    BY <1>1, Turn
  <1>3. f.message = m /\ f.topic = "dispatch"
    BY DEF Ev
  <1>4. FinishAndEnqueue(worker[w].ev, f) /\ Release(w) /\ row' = [row EXCEPT ![m] = row[m]]
    BY DEF HandleRetry, IInv, RowInv
  <1>5. f.topic \in DOMAIN Waiting /\ Waiting[f.topic] < AtWork[worker[w].pc]
    BY <1>1, <1>3, Counts
  <1>6. row[m].attempt \in Nat
    BY <1>2 DEF Row
  <1> HIDE DEF f
  <1> QED
    BY <1>2, <1>3, <1>4, <1>5, <1>6, NearerWith

(* An attempt takes one of those the policy allows.                        *)
LEMMA BeginAttemptNearer ==
    ASSUME IInv, Undisturbed, NEW w \in Workers, BeginAttempt(w)
    PROVE  \E m \in Messages : Progress(m)
  <1>1. worker[w].pc = "dispatch" /\ worker[w].pc \in DOMAIN Handles
    BY DEF BeginAttempt, Handles
  <1> PICK m \in Messages : m = worker[w].ev.message
    BY <1>1, Turn
  <1> DEFINE b == worker[w]
             new == IF b.seen.status = "routed"
                      THEN Moved(AttemptRow(row[m]), "submitting") ELSE AttemptRow(row[m])
             r == [new EXCEPT !.version = row[m].version + 1]
             c == [b EXCEPT !.pc = "call", !.ver = row[m].version + 1]
  <1>2. b.pc # "idle" /\ row[m] \in Row
    BY <1>1, Turn
  <1>3. row' = [row EXCEPT ![m] = r]
    BY DEF BeginAttempt, TransitionMessage, PatchMessage, CompareAndSet
  <1>4. new \in Row /\ new.attempt = row[m].attempt + 1
    <2> HIDE DEF AttemptRow
    <2>1. "submitting" \in Statuses
      BY DEF Statuses
    <2>2. AttemptRow(row[m]) \in Row /\ AttemptRow(row[m]).attempt = row[m].attempt + 1
      BY <1>2, AttemptFields
    <2>3. /\ Moved(AttemptRow(row[m]), "submitting") \in Row
          /\ Moved(AttemptRow(row[m]), "submitting").attempt = AttemptRow(row[m]).attempt
      BY <2>1, <2>2, MovedType
    <2> QED BY <2>2, <2>3
  <1>5. row[m].version + 1 \in Nat
    BY <1>2, NextVersion
  <1>6. r.attempt = row[m].attempt + 1
    <2> HIDE DEF new
    <2> QED BY <1>4, <1>5, Versioned
  <1>7. b \in Busy
    BY <1>2, InCharge
  <1>8. c \in Busy /\ c.pc = "call" /\ c.ev = b.ev
    BY <1>5, <1>7 DEF Busy
  <1>9. worker' = [worker EXCEPT ![w] = c] /\ UNCHANGED pending
    BY DEF BeginAttempt
  <1> HIDE DEF r, new, c
  <1>10. row[m].attempt \in Nat
    BY <1>2 DEF Row
  <1>11. 12 * (MaxAttempts - r.attempt) + AtWork[c.pc]
           < 12 * (MaxAttempts - row[m].attempt) + AtWork[b.pc]
    <2>1. AtWork[c.pc] = 19 /\ AtWork[b.pc] = 8
      BY <1>1, <1>8 DEF AtWork
    <2> HIDE DEF b
    <2> QED BY <1>6, <1>10, <2>1, BoundAssumption
  <1>12. c.ev.message = m /\ c.pc # "idle"
    BY <1>8
  <1> QED
    BY <1>2, <1>3, <1>8, <1>9, <1>11, <1>12, NearerGoesOn

LEMMA CallProviderNearer ==
    ASSUME IInv, Undisturbed, NEW w \in Workers, CallProvider(w)
    PROVE  \E m \in Messages : Progress(m)
  <1>1. worker[w].pc = "call"
    BY DEF CallProvider
  <1>2. worker[w] \in Busy /\ worker[w].ev.message \in Messages
    BY <1>1, InCharge
  <1> PICK m \in Messages : m = worker[w].ev.message
    BY <1>2
  <1>3. PICK c \in Busy : /\ worker' = [worker EXCEPT ![w] = c]
                          /\ c.pc = "called" /\ c.ev = worker[w].ev
    BY <1>2, Called
  <1>4. row' = [row EXCEPT ![m] = row[m]] /\ UNCHANGED pending
    BY DEF CallProvider, IInv, RowInv
  <1>5. 12 * (MaxAttempts - row[m].attempt) + AtWork[c.pc]
          < 12 * (MaxAttempts - row[m].attempt) + AtWork[worker[w].pc]
    <2>1. AtWork[c.pc] = 18 /\ AtWork[worker[w].pc] = 19
      BY <1>1, <1>3 DEF AtWork
    <2>2. row[m].attempt \in Nat
      BY DEF IInv, RowInv, Row, NoRow
    <2> QED BY <2>1, <2>2, BoundAssumption
  <1> QED
    BY <1>1, <1>3, <1>4, <1>5, NearerGoesOn

LEMMA ReportResultNearer ==
    ASSUME IInv, Undisturbed, NEW w \in Workers, ReportResult(w)
    PROVE  \E m \in Messages : Progress(m)
  <1>1. worker[w].pc = "called"
    BY DEF ReportResult
  <1>2. worker[w] \in Busy /\ worker[w].ev.message \in Messages
    BY <1>1, InCharge
  <1> PICK m \in Messages : m = worker[w].ev.message
    BY <1>2
  <1> DEFINE f == ResultEvent(w)
  <1>3. f.message = m /\ f.topic = "result"
    BY <1>2, BusyFields DEF ResultEvent, Ev, Event
  <1>4. FinishAndEnqueue(worker[w].ev, f) /\ Release(w) /\ row' = [row EXCEPT ![m] = row[m]]
    BY DEF ReportResult, IInv, RowInv
  <1>5. f.topic \in DOMAIN Waiting /\ Waiting[f.topic] < AtWork[worker[w].pc]
    BY <1>1, <1>3, Counts
  <1>6. row[m].attempt \in Nat
    BY DEF IInv, RowInv, Row, NoRow
  <1> HIDE DEF f
  <1> QED
    BY <1>1, <1>3, <1>4, <1>5, <1>6, NearerWith

LEMMA ResultAcceptedNearer ==
    ASSUME IInv, Undisturbed, NEW w \in Workers, ResultAccepted(w)
    PROVE  \E m \in Messages : Progress(m)
  <1>1. worker[w].pc = "result" /\ worker[w].pc \in DOMAIN Handles
    BY DEF ResultAccepted, Handles
  <1> PICK m \in Messages : m = worker[w].ev.message
    BY <1>1, Turn
  <1> DEFINE base == [row[m] EXCEPT !.pmid = worker[w].ev.pmid, !.error = "none"]
             new == Moved(base, "provider_accepted")
             r == [new EXCEPT !.version = row[m].version + 1]
  <1>2. worker[w].pc # "idle" /\ row[m] \in Row
    BY <1>1, Turn
  <1>3. row' = [row EXCEPT ![m] = r]
    BY DEF ResultAccepted, TransitionMessage, CompareAndSet
  <1>4. worker[w].ev.pmid \in Nat
    BY <1>1, ResultFacts
  <1>5. base \in Row /\ base.attempt = row[m].attempt
    BY <1>2, <1>4 DEF Row, Errors
  <1>6. new \in Row /\ new.attempt = row[m].attempt
    <2> HIDE DEF base
    <2> QED BY <1>5, MovedType DEF Statuses
  <1>7. Finish(worker[w].ev) /\ Release(w)
    BY DEF ResultAccepted
  <1> HIDE DEF new
  <1>8. r.attempt = row[m].attempt /\ row[m].attempt \in Nat
    BY <1>2, <1>6, AttemptKept
  <1> HIDE DEF r
  <1> QED
    BY <1>2, <1>3, <1>7, <1>8, NearerDone

LEMMA ResultUncertainNearer ==
    ASSUME IInv, Undisturbed, NEW w \in Workers, ResultUncertain(w)
    PROVE  \E m \in Messages : Progress(m)
  <1>1. worker[w].pc = "result" /\ worker[w].pc \in DOMAIN Handles
    BY DEF ResultUncertain, Handles
  <1> PICK m \in Messages : m = worker[w].ev.message
    BY <1>1, Turn
  <1> DEFINE new == [row[m] EXCEPT !.error = "dispatch"]
             r == [new EXCEPT !.version = row[m].version + 1]
             f == Ev("reconcile", m, row[m].version + 1, row[m].provider)
  <1>2. worker[w].pc # "idle" /\ row[m] \in Row
    BY <1>1, Turn
  <1>3. row' = [row EXCEPT ![m] = r]
    BY DEF ResultUncertain, PatchMessage, CompareAndSet
  <1>4. new \in Row /\ new.attempt = row[m].attempt
    BY <1>2 DEF Row, Errors
  <1>5. f.message = m /\ f.topic = "reconcile"
    BY DEF Ev
  <1>6. FinishAndEnqueue(worker[w].ev, f) /\ Release(w)
    BY DEF ResultUncertain
  <1> HIDE DEF new, f
  <1>7. r.attempt = row[m].attempt /\ row[m].attempt \in Nat
    BY <1>2, <1>4, AttemptKept
  <1> HIDE DEF r
  <1> QED
    BY <1>2, <1>3, <1>5, <1>6, <1>7, NearerWith

LEMMA ResultRetryNearer ==
    ASSUME IInv, Undisturbed, NEW w \in Workers, ResultRetry(w)
    PROVE  \E m \in Messages : Progress(m)
  <1>1. worker[w].pc = "result" /\ worker[w].pc \in DOMAIN Handles
    BY DEF ResultRetry, Handles
  <1> PICK m \in Messages : m = worker[w].ev.message
    BY <1>1, Turn
  <1> PICK p \in Providers :
         /\ PatchMessage(m, worker[w].seen, [row[m] EXCEPT !.provider = p, !.error = "dispatch"])
         /\ FinishAndEnqueue(worker[w].ev, Ev("retry", m, row[m].version + 1, p))
         /\ Release(w)
    BY DEF ResultRetry
  <1> DEFINE new == [row[m] EXCEPT !.provider = p, !.error = "dispatch"]
             r == [new EXCEPT !.version = row[m].version + 1]
             f == Ev("retry", m, row[m].version + 1, p)
  <1>2. worker[w].pc # "idle" /\ row[m] \in Row
    BY <1>1, Turn
  <1>3. row' = [row EXCEPT ![m] = r]
    BY DEF PatchMessage, CompareAndSet
  <1>4. new \in Row /\ new.attempt = row[m].attempt
    BY <1>2 DEF Row, Errors
  <1>5. f.message = m /\ f.topic = "retry"
    BY DEF Ev
  <1>6. f.topic \in DOMAIN Waiting /\ Waiting[f.topic] < AtWork[worker[w].pc]
    BY <1>1, <1>5, Counts
  <1>7. FinishAndEnqueue(worker[w].ev, f)
    OBVIOUS
  <1> HIDE DEF new, f
  <1>8. r.attempt = row[m].attempt /\ row[m].attempt \in Nat
    BY <1>2, <1>4, AttemptKept
  <1> HIDE DEF r
  <1> QED
    BY <1>2, <1>3, <1>5, <1>6, <1>7, <1>8, NearerWith

LEMMA ResultFailedNearer ==
    ASSUME IInv, Undisturbed, NEW w \in Workers, ResultFailed(w)
    PROVE  \E m \in Messages : Progress(m)
  <1>1. worker[w].pc = "result" /\ worker[w].pc \in DOMAIN Handles
    BY DEF ResultFailed, Handles
  <1> PICK m \in Messages : m = worker[w].ev.message
    BY <1>1, Turn
  <1> DEFINE base == [row[m] EXCEPT !.billing = "released", !.error = "dispatch"]
             new == Moved(base, "failed")
             r == [new EXCEPT !.version = row[m].version + 1]
  <1>2. worker[w].pc # "idle" /\ row[m] \in Row
    BY <1>1, Turn
  <1>3. row' = [row EXCEPT ![m] = r]
    BY DEF ResultFailed, TransitionMessage, CompareAndSet
  <1>4. base \in Row /\ base.attempt = row[m].attempt
    BY <1>2 DEF Row, Errors, BillingStates
  <1>5. new \in Row /\ new.attempt = row[m].attempt
    <2> HIDE DEF base
    <2> QED BY <1>4, MovedType DEF Statuses
  <1>6. Finish(worker[w].ev) /\ Release(w)
    BY DEF ResultFailed
  <1> HIDE DEF new
  <1>7. r.attempt = row[m].attempt /\ row[m].attempt \in Nat
    BY <1>2, <1>5, AttemptKept
  <1> HIDE DEF r
  <1> QED
    BY <1>2, <1>3, <1>6, <1>7, NearerDone

LEMMA WorkerNearer ==
    ASSUME IInv, Undisturbed, MaxFaults = 0, Verdicts \subseteq {"allow"},
           NEW w \in Workers, WorkerStep(w)
    PROVE  \E m \in Messages : Progress(m)
  <1>1. ASSUME NEW e \in pending, Start(w, e) PROVE \E m \in Messages : Progress(m)
    BY <1>1, StartNearer
  <1>2. ASSUME NEW e \in pending, Skip(w, e) PROVE \E m \in Messages : Progress(m)
    BY <1>2, SkipNearer
  <1>3. ~Conflict(w)
    <2> SUFFICES ASSUME Conflict(w) PROVE FALSE
      OBVIOUS
    <2>1. worker[w].pc \in DOMAIN Handles
      BY DEF Conflict, Handles
    <2> QED BY <2>1, Turn DEF Conflict
  <1>4. ~FraudThrottle(w) /\ ~FraudBlock(w)
    BY DEF FraudThrottle, FraudBlock
  <1>5. CASE HandleAccepted(w)
    BY <1>5, HandleAcceptedNearer
  <1>6. CASE HandleRetry(w)
    BY <1>6, HandleRetryNearer
  <1>7. CASE BeginAttempt(w)
    BY <1>7, BeginAttemptNearer
  <1>8. CASE CallProvider(w)
    BY <1>8, CallProviderNearer
  <1>9. CASE ReportResult(w)
    BY <1>9, ReportResultNearer
  <1>10. CASE ResultAccepted(w)
    BY <1>10, ResultAcceptedNearer
  <1>11. CASE ResultUncertain(w)
    BY <1>11, ResultUncertainNearer
  <1>12. CASE ResultRetry(w)
    BY <1>12, ResultRetryNearer
  <1>13. CASE ResultFailed(w)
    BY <1>13, ResultFailedNearer
  <1> QED
    BY <1>1, <1>2, <1>3, <1>4, <1>5, <1>6, <1>7, <1>8, <1>9, <1>10, <1>11, <1>12, <1>13
       DEF WorkerStep

(* Every step of a worker takes one message nearer to its end, and nothing *)
(* but its submission adds to the work on a message.                       *)
WorkShrinks ==
    /\ \A w \in Workers : WorkerStep(w) => \E m \in Messages : Progress(m)
    /\ \A m \in Messages : row[m] = NoRow \/ StepsLeft(m)' <= StepsLeft(m)

(* The count is bounded, and is zero for settled messages alone.           *)
WorkBounded == \A m \in Messages :
    /\ StepsLeft(m) \in 0..(12 * MaxAttempts + 19)
    /\ StepsLeft(m) = 0 => row[m] = NoRow \/ Settled(m)

LEMMA CountBounded ==
    ASSUME IInv, Undisturbed, AllDue, "throttle" \notin Verdicts
    PROVE  WorkBounded
  <1> SUFFICES ASSUME NEW m \in Messages
               PROVE  /\ StepsLeft(m) \in 0..(12 * MaxAttempts + 19)
                      /\ StepsLeft(m) = 0 => row[m] = NoRow \/ Settled(m)
    BY DEF WorkBounded
  <1>1. PICK b \in Busy \cup {Idle} : Charge(m, b) /\ Fine(row[m], Live(m), b, Took(m))
    BY DEF Undisturbed, Orderly
  <1>2. StepsLeft(m) = Remaining(row[m].attempt, Live(m), b)
    BY <1>1, StepsBefore
  <1>3. CASE Live(m) = {}
    <2>1. StepsLeft(m) = 0 /\ StepsLeft(m) \in 0..(12 * MaxAttempts + 19)
      BY <1>2, <1>3, BoundAssumption DEF Remaining
    <2>2. row[m] = NoRow \/ Settled(m)
      <3>1. NothingForgotten /\ ~Stranded(row[m])
        BY DueMeansPending DEF AllDue, Due, EventDue
      <3>2. CASE row[m].status = "none"
        BY <3>2 DEF IInv, RowInv, Row, Statuses
      <3>3. ASSUME NEW e \in pending, e.message = m, e.topic \in DOMAIN Handles PROVE FALSE
        <4>1. e.topic # "reconcile"
          BY <3>3 DEF Handles
        <4> QED BY <1>3, <3>3, <4>1 DEF Live
      <3> QED BY <3>1, <3>2, <3>3 DEF NothingForgotten
    <2> QED BY <2>1, <2>2
  <1>4. ASSUME NEW e \in Live(m)
        PROVE  StepsLeft(m) \in 8..(12 * MaxAttempts + 19)
    <2>1. \A f \in Live(m) : f = e
      BY <1>1 DEF Fine
    <2>2. row[m].attempt <= MaxAttempts /\ row[m].attempt \in Nat
      BY <1>1 DEF Fine, IInv, RowInv, Row, NoRow
    <2>3. e.topic \in Topics /\ e.topic # "reconcile"
      BY DEF Live, IInv, FlowInv, Event
    <2>4. Waiting[e.topic] \in 8..19
      BY <2>3 DEF Topics, Waiting
    <2>5. b # Idle => AtWork[b.pc] \in 8..19
      BY <1>1, BusyFields DEF AtWork
    <2>6. \/ StepsLeft(m) = 12 * (MaxAttempts - row[m].attempt) + Waiting[e.topic]
          \/ b # Idle /\ StepsLeft(m) = 12 * (MaxAttempts - row[m].attempt) + AtWork[b.pc]
      BY <1>2, <2>1, RemainingIs
    <2> QED BY <2>2, <2>4, <2>5, <2>6, BoundAssumption
  <1>5. CASE \E e \in Live(m) : TRUE
    <2>1. StepsLeft(m) \in 8..(12 * MaxAttempts + 19)
      BY <1>4, <1>5
    <2> QED BY <2>1, BoundAssumption
  <1> QED
    BY <1>3, <1>5

LEMMA StepShrinks ==
    ASSUME IInv, Undisturbed, MaxFaults = 0, Verdicts \subseteq {"allow"},
           WorkBounded, WorkBounded', [Next]_vars
    PROVE  WorkShrinks
  <1>1. \A w \in Workers : WorkerStep(w) => \E m \in Messages : Progress(m)
    BY WorkerNearer
  <1>2. \A m \in Messages : StepsLeft(m) \in Int /\ StepsLeft(m)' \in Int
    BY BoundAssumption DEF WorkBounded
  <1>3. ASSUME NEW m \in Messages, row[m] # NoRow PROVE StepsLeft(m)' <= StepsLeft(m)
    <2>1. StepsLeft(m) \in Int
      BY <1>2
    <2>2. StepsLeft(m)' = StepsLeft(m) => StepsLeft(m)' <= StepsLeft(m)
      BY <2>1
    <2>3. ASSUME NEW w \in Workers, WorkerStep(w) PROVE StepsLeft(m)' <= StepsLeft(m)
      <3>1. PICK n \in Messages : Progress(n)
        BY <1>1, <2>3
      <3>2. CASE n = m
        <4>1. StepsLeft(m)' < StepsLeft(m)
          BY <3>1, <3>2 DEF Progress
        <4> QED BY <1>2, <4>1
      <3>3. CASE n # m
        BY <2>2, <3>1, <3>3 DEF Progress
      <3> QED BY <3>2, <3>3
    <2>4. ASSUME NEW n \in Messages, Submit(n) PROVE StepsLeft(m)' <= StepsLeft(m)
      <3> PICK p \in Providers :
             /\ row' = [row EXCEPT ![n] = InsertedRow(p)]
             /\ pending' = pending \cup {Ev("accepted", n, 0, p)}
             /\ UNCHANGED worker
        BY <2>4 DEF Submit
      <3>1. n # m
        BY <1>3, <2>4 DEF Submit
      <3>2. Ev("accepted", n, 0, p).message = n
        BY DEF Ev
      <3>3. \A k \in Messages \ {n} : Live(k)' = Live(k)
        BY <3>2 DEF Live
      <3>4. StepsLeft(m)' = StepsLeft(m)
        BY <3>1, <3>3, CountKept
      <3> QED BY <2>2, <3>4
    <2>5. CASE UNCHANGED <<pending, worker>> /\ (row'[m].attempt = row[m].attempt \/ Live(m) = {})
      <3>1. PICK b : Charge(m, b)
        BY DEF Undisturbed, Orderly
      <3>2. Charge(m, b)' /\ Live(m)' = Live(m)
        BY <2>5, <3>1 DEF Charge, Holds, Live
      <3>3. /\ StepsLeft(m) = Remaining(row[m].attempt, Live(m), b)
            /\ StepsLeft(m)' = Remaining(row'[m].attempt, Live(m), b)
        BY <3>1, <3>2, StepsBefore, StepsAfter
      <3>4. StepsLeft(m)' = StepsLeft(m)
        BY <2>5, <3>3 DEF Remaining
      <3> QED BY <2>2, <3>4
    <2>6. CASE DlrNext
      <3>1. UNCHANGED <<pending, worker>>
        BY <2>6 DEF DlrNext, wfVars
      <3>2. CASE UNCHANGED <<row, ledger>>
        BY <2>5, <3>1, <3>2
      <3>3. CASE ~UNCHANGED <<row, ledger>>
        <4>1. PICK d \in DlrWorkers : DlrSettle(d)
          BY <2>6, <3>3 DEF DlrNext, wfVars
        <4>2. DlrDelivered(d) \/ DlrFailed(d)
          BY <3>3, <4>1 DEF DlrSettle, DlrUnmatched, DlrUnknown, DlrDuplicate, DlrInvalid,
                            Reconciled
        <4>3. /\ dlrWorker[d].message \in Messages /\ dlrWorker[d].seen \in Row
              /\ row \in [Messages -> Row \cup {NoRow}]
              /\ dlrWorker[d].seen.status = "provider_accepted"
          BY <4>2, SettlingFacts DEF DlrDelivered, DlrFailed, Settling
        <4> PICK n \in Messages : n = dlrWorker[d].message
          BY <4>3
        <4>4. row[n].status = "provider_accepted" /\ \A k \in Messages : k # n => row'[k] = row[k]
          BY <4>2, <4>3, CompareAndSetFacts DEF DlrDelivered, DlrFailed, TransitionMessage
        <4>5. Live(n) = {}
          <5>1. PICK b : Fine(row[n], Live(n), b, Took(n))
            BY DEF Undisturbed, Orderly
          <5> QED BY <4>4, <5>1 DEF Fine, Flying
        <4> QED BY <2>5, <3>1, <4>4, <4>5
      <3> QED BY <3>2, <3>3
    <2>7. CASE UNCHANGED vars
      BY <2>5, <2>7 DEF vars
    <2>8. ~Disturbance
      BY DEF Disturbance, Fail, Republish, GiveUp, Undisturbed
    <2> QED
      BY <2>3, <2>4, <2>6, <2>7, <2>8 DEF Next, WfNext
  <1> QED
    BY <1>1, <1>3 DEF WorkShrinks

(* As long as nothing is disturbed and the fraud rules let every message   *)
(* pass, there is no loop without end in dispatch, result and retry: every *)
(* step of a worker takes some message nearer to its end, none but its     *)
(* submission adds to the work on a message, and a message on which        *)
(* nothing is left to do has settled.                                      *)
THEOREM WorkRunsOut ==
    ASSUME MaxFaults = 0, Verdicts \subseteq {"allow"}
    PROVE  Spec => []WorkBounded /\ [][WorkShrinks]_vars
  <1>1. IInv /\ Undisturbed /\ AllDue => WorkBounded
    BY CountBounded
  <1>2. IInv /\ Undisturbed /\ WorkBounded /\ WorkBounded' /\ [Next]_vars => [WorkShrinks]_vars
    BY StepShrinks
  <1> QED
    BY <1>1, <1>2, Invariant, OrderKept, DueKept, PTL DEF Spec

-----------------------------------------------------------------------------
(* A callback that was stored and is not processed has its event pending.  *)
ReportsDue == \A c \in Callbacks :
    hook[c] # NoHook /\ ~hook[c].processed => c \in dlrPending

LEMMA ProcessedDue ==
    ASSUME HookInv, ReportsDue, NEW d \in DlrWorkers, NEW reason, Processed(d, reason)
    PROVE  ReportsDue'
  <1> PICK b : b = dlrWorker[d].cb
    OBVIOUS
  <1>1. /\ hook' = [hook EXCEPT ![b].processed = TRUE, ![b].reason = reason]
        /\ dlrPending' = dlrPending \ {b}
    BY DEF Processed
  <1>2. hook \in [Callbacks -> Hook \cup {NoHook}]
    BY DEF HookInv
  <1>3. ASSUME NEW c \in Callbacks, c # b, hook'[c] # NoHook, ~hook'[c].processed
        PROVE  c \in dlrPending'
    <2>1. hook'[c] = hook[c]
      BY <1>1, <1>2, <1>3
    <2> QED BY <1>1, <1>3, <2>1 DEF ReportsDue
  <1>4. b \in Callbacks => hook'[b].processed
    BY <1>1, <1>2 DEF Hook, NoHook
  <1> QED
    BY <1>3, <1>4 DEF ReportsDue

LEMMA AcceptDue ==
    ASSUME HookInv, ReportsDue, NEW b \in Callbacks, AcceptWebhook(b)
    PROVE  ReportsDue'
  <1>1. hook \in [Callbacks -> Hook \cup {NoHook}]
    BY DEF HookInv
  <1>2. \A c \in Callbacks : c # b => hook'[c] = hook[c]
    BY <1>1 DEF AcceptWebhook
  <1>3. dlrPending \subseteq dlrPending'
    BY DEF AcceptWebhook
  <1>4. CASE b \in dlrPending'
    BY <1>2, <1>3, <1>4 DEF ReportsDue
  <1>5. CASE b \notin dlrPending'
    <2>1. hook[b] # NoHook /\ \E s \in ReportStatuses, n \in BOOLEAN : hook'[b] = Resent(hook[b], s, n)
      BY <1>1, <1>5 DEF AcceptWebhook
    <2>2. hook[b] \in Hook
      BY <1>1, <2>1
    <2>3. hook'[b].processed = hook[b].processed
      BY <2>1, <2>2 DEF Resent, Hook
    <2>4. hook[b].processed
      BY <1>3, <1>5, <2>1 DEF ReportsDue
    <2> QED BY <1>2, <1>3, <2>3, <2>4 DEF ReportsDue
  <1> QED
    BY <1>4, <1>5

(* As long as nothing is disturbed, a callback that acceptWebhook stored   *)
(* keeps its event until processWebhook has marked it, whatever is sent    *)
(* again, conflicts or overtakes.                                          *)
THEOREM ReportsStayDue ==
    ASSUME MaxFaults = 0
    PROVE  Spec => []ReportsDue
  <1>1. Init => ReportsDue
    BY DEF Init, DlrInit, ReportsDue
  <1>2. IInv /\ Undisturbed /\ ReportsDue /\ [Next]_vars => ReportsDue'
    <2> SUFFICES ASSUME IInv, Undisturbed, ReportsDue, [Next]_vars PROVE ReportsDue'
      OBVIOUS
    <2>1. HookInv
      BY DEF IInv
    <2>2. CASE UNCHANGED <<hook, dlrPending>>
      BY <2>2 DEF ReportsDue
    <2>3. ASSUME NEW c \in Callbacks, AcceptWebhook(c) PROVE ReportsDue'
      BY <2>1, <2>3, AcceptDue
    <2>4. ASSUME NEW d \in DlrWorkers, DlrSettle(d) PROVE ReportsDue'
      <3>1. \E reason : Processed(d, reason)
        BY <2>4 DEF DlrSettle, DlrUnmatched, DlrUnknown, DlrDuplicate, DlrInvalid, DlrDelivered,
                    DlrFailed, Reconciled
      <3> QED BY <2>1, <3>1, ProcessedDue
    <2>5. ASSUME NEW d \in DlrWorkers, NEW c \in dlrPending, SkipProcessed(d, c)
          PROVE  ReportsDue'
      BY <2>5 DEF SkipProcessed, ReportsDue
    <2>6. CASE DlrLookup
      <3>1. ~ \E c \in Callbacks : DlrRepublish(c) \/ DlrGiveUp(c)
        BY DEF DlrRepublish, DlrGiveUp, Undisturbed
      <3>2. PICK d \in DlrWorkers :
               \/ \E c \in dlrPending : ReadWebhook(d, c) \/ SkipProcessed(d, c)
               \/ Correlate(d) \/ DlrConflict(d) \/ DlrFail(d)
        BY <2>6, <3>1 DEF DlrLookup
      <3>3. CASE \E c \in dlrPending : SkipProcessed(d, c)
        BY <2>5, <3>3
      <3>4. CASE (\E c \in dlrPending : ReadWebhook(d, c)) \/ Correlate(d) \/ DlrConflict(d) \/ DlrFail(d)
        BY <2>2, <3>4 DEF ReadWebhook, Correlate, DlrConflict, DlrFail
      <3> QED BY <3>2, <3>3, <3>4
    <2>7. CASE DlrNext
      BY <2>3, <2>4, <2>6, <2>7 DEF DlrNext
    <2>8. CASE WfNext /\ UNCHANGED dlrVars
      BY <2>2, <2>8 DEF dlrVars
    <2>9. CASE UNCHANGED vars
      BY <2>2, <2>9 DEF vars
    <2> QED BY <2>7, <2>8, <2>9 DEF Next
  <1> QED
    BY <1>1, <1>2, Invariant, OrderKept, PTL DEF Spec
=============================================================================
