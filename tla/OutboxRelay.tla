---------------------------- MODULE OutboxRelay ----------------------------
(***************************************************************************)
(* OutboxRelayService.flushBatch: how a committed outbox event gets to     *)
(* Kafka.  A timer starts an invocation every second whether or not the    *)
(* previous one has ended, in every worker-outbox replica.  An invocation  *)
(* claims a batch in one transaction, with one lease for all of it, and    *)
(* then publishes and marks the events one by one outside any transaction. *)
(*                                                                         *)
(* MessageWorkflow and DlrProcessor see of all this that an event arrives, *)
(* arrives again (Republish) or is given up (GiveUp), in any order.        *)
(***************************************************************************)
EXTENDS Integers, Sequences, FiniteSets, SequencesExt

CONSTANTS
    Events,
    Relays,      \* invocations of flushBatch that may overlap
    BatchSize,   \* outbox.batchSize
    MaxTries,    \* failures after which an event is given up; 10 in the code
    MaxFaults,   \* bound on failed calls and crashes
    MaxLate      \* bound on leases that run out under a living relay

ASSUME RelayAssumption ==
    /\ IsFiniteSet(Relays)
    /\ BatchSize \in Nat \ {0} /\ MaxTries \in Nat \ {0}
    /\ MaxFaults \in Nat /\ MaxLate \in Nat

VARIABLES
    created,   \* events in the order of created_at
    status,    \* status of each outbox_events row, "absent" before its INSERT
    due,       \* next_attempt_at <= now()
    tries,     \* retry_count
    relay,     \* what each invocation is doing: [pc, batch]
    sent,      \* external: how many copies of each event Kafka has
    faults, late

vars == <<created, status, due, tries, relay, sent, faults, late>>

-----------------------------------------------------------------------------
RelayIdle == [pc |-> "idle", batch |-> <<>>]

Init ==
    /\ created = <<>>
    /\ status = [e \in Events |-> "absent"]
    /\ due    = [e \in Events |-> FALSE]
    /\ tries  = [e \in Events |-> 0]
    /\ relay  = [r \in Relays |-> RelayIdle]
    /\ sent   = [e \in Events |-> 0]
    /\ faults = 0 /\ late = 0

(* An event may be enqueued for later (a retry's nextAttemptAt).           *)
Enqueue(e) ==
    /\ status[e] = "absent"
    /\ created' = Append(created, e)
    /\ status'  = [status EXCEPT ![e] = "pending"]
    /\ \E now \in BOOLEAN : due' = [due EXCEPT ![e] = now]
    /\ UNCHANGED <<tries, relay, sent, faults, late>>

(* The events whose next attempt a living relay has in hand.               *)
Held(e) == \E r \in Relays : Contains(relay[r].batch, e)

(* Time passes next_attempt_at: the end of a delay, or of a lease.         *)
Elapse(e) ==
    /\ status[e] \in {"pending", "publishing"} /\ ~due[e]
    /\ due' = [due EXCEPT ![e] = TRUE]
    /\ \/ ~Held(e) /\ UNCHANGED late
       \/ Held(e) /\ late < MaxLate /\ late' = late + 1
    /\ UNCHANGED <<created, status, tries, relay, sent, faults>>

-----------------------------------------------------------------------------
(* A plausible slip: the lease has no one to take an event back.           *)
ClaimableUnleased(e) == due[e] /\ status[e] = "pending"

(* The first UPDATE makes 'publishing' rows whose lease is over 'pending'. *)
Claimable(e) == due[e] /\ status[e] \in {"pending", "publishing"}

(* A plausible slip: rows are selected and left as they are.               *)
LeasedNot(S) == UNCHANGED <<status, due>>

(* The rows of a batch are 'publishing' until the lease is over; the other *)
(* rows taken back stay 'pending'.                                         *)
Leased(S) ==
    /\ status' = [e \in Events |-> IF e \in S THEN "publishing"
                                   ELSE IF Claimable(e) THEN "pending" ELSE status[e]]
    /\ due' = [e \in Events |-> due[e] /\ e \notin S]

(* SELECT ... ORDER BY created_at LIMIT batchSize: the positions, in       *)
(* created, of the first n rows that can be claimed.                       *)
FirstRows(n, at) ==
    /\ \A i, j \in 1..n : i < j => at[i] < at[j]
    /\ \A i \in 1..n : Claimable(created[at[i]])
    /\ \A p \in DOMAIN created : Claimable(created[p]) =>
           \/ \E i \in 1..n : at[i] = p
           \/ n = BatchSize /\ p > at[n]

Claim(r) ==
    /\ relay[r].pc = "idle"
    /\ \E n \in 1..BatchSize : \E at \in [1..n -> DOMAIN created] :
           LET batch == [i \in 1..n |-> created[at[i]]] IN
           /\ FirstRows(n, at)
           /\ Leased(ToSet(batch))
           /\ relay' = [relay EXCEPT ![r] = [pc |-> "publish", batch |-> batch]]
    /\ UNCHANGED <<created, tries, sent, faults, late>>

(* On to the next row of the batch.                                        *)
Advance(r) ==
    relay' = [relay EXCEPT ![r] =
                 IF Len(@.batch) = 1 THEN RelayIdle
                 ELSE [pc |-> "publish", batch |-> Tail(@.batch)]]

Fault == faults < MaxFaults /\ faults' = faults + 1

(* A plausible slip: the row is marked whether Kafka took the event or not.*)
PublishUnawaited(r) ==
    /\ relay[r].pc = "publish"
    /\ relay' = [relay EXCEPT ![r].pc = "mark"]
    /\ UNCHANGED <<created, status, due, tries, sent, faults, late>>

Publish(r) ==
    /\ relay[r].pc = "publish"
    /\ sent'  = [sent EXCEPT ![Head(relay[r].batch)] = @ + 1]
    /\ relay' = [relay EXCEPT ![r].pc = "mark"]
    /\ UNCHANGED <<created, status, due, tries, faults, late>>

(* publish throws; the broker may have the event all the same.             *)
PublishFails(r) ==
    /\ relay[r].pc = "publish" /\ Fault
    /\ \/ sent' = [sent EXCEPT ![Head(relay[r].batch)] = @ + 1]
       \/ UNCHANGED sent
    /\ relay' = [relay EXCEPT ![r].pc = "retry"]
    /\ UNCHANGED <<created, status, due, tries, late>>

(* The UPDATE names the row only: neither the status nor the lease it may  *)
(* have lost.                                                              *)
MarkPublished(r) ==
    /\ relay[r].pc = "mark"
    /\ status' = [status EXCEPT ![Head(relay[r].batch)] = "published"]
    /\ Advance(r)
    /\ UNCHANGED <<created, due, tries, sent, faults, late>>

(* That UPDATE is in the same try block as publish.                        *)
MarkFails(r) ==
    /\ relay[r].pc = "mark" /\ Fault
    /\ relay' = [relay EXCEPT ![r].pc = "retry"]
    /\ UNCHANGED <<created, status, due, tries, sent, late>>

Counted(n) == n + 1

MarkRetry(r) ==
    LET e == Head(relay[r].batch) IN
    /\ relay[r].pc = "retry"
    /\ tries'  = [tries EXCEPT ![e] = Counted(@)]
    /\ status' = [status EXCEPT ![e] = IF Counted(tries[e]) >= MaxTries
                                                THEN "failed" ELSE "pending"]
    /\ due'    = [due EXCEPT ![e] = FALSE]
    /\ Advance(r)
    /\ UNCHANGED <<created, sent, faults, late>>

(* The process ends, or the UPDATE after a failure throws: the rest of the *)
(* batch stays 'publishing'.                                               *)
Crash(r) ==
    /\ relay[r].pc # "idle" /\ Fault
    /\ relay' = [relay EXCEPT ![r] = RelayIdle]
    /\ UNCHANGED <<created, status, due, tries, sent, late>>

RelayStep(r) == Claim(r) \/ Publish(r) \/ MarkPublished(r) \/ MarkRetry(r)

Next ==
    \/ \E e \in Events : Enqueue(e) \/ Elapse(e)
    \/ \E r \in Relays : \/ RelayStep(r)
                         \/ PublishFails(r) \/ MarkFails(r) \/ Crash(r)

Spec == Init /\ [][Next]_vars

(* The timer keeps starting invocations, an invocation goes on to its end, *)
(* and time passes.  Leases need not run out under a living relay.         *)
Fairness ==
    /\ \A r \in Relays : WF_vars(RelayStep(r))
    /\ \A e \in Events : WF_vars(~Held(e) /\ Elapse(e))

FairSpec == Spec /\ Fairness

-----------------------------------------------------------------------------
(* Every variable has the type its comment says.                           *)
TypeOK ==
    /\ created \in Seq(Events)
    /\ status \in [Events -> {"absent", "pending", "publishing", "published", "failed"}]
    /\ due \in [Events -> BOOLEAN]
    /\ tries \in [Events -> Nat] /\ sent \in [Events -> Nat]
    /\ relay \in [Relays -> [pc : {"idle", "publish", "mark", "retry"}, batch : Seq(Events)]]
    /\ faults \in Nat /\ late \in Nat

(* No event is marked published that Kafka does not have, whichever of     *)
(* several relays that hold it marks it, in whatever order.                *)
PublishedIsSent == \A e \in Events : status[e] = "published" => sent[e] > 0

(* Overlapping invocations never have the same event in hand unless a      *)
(* lease ran out under one of them.                                        *)
ClaimsExclusive ==
    late = 0 => \A r, s \in Relays : r # s =>
        ToSet(relay[r].batch) \cap ToSet(relay[s].batch) = {}

(* Kafka gets a second copy of an event only after a failed call, a crash  *)
(* or an expired lease, and each of these costs at most one copy for each  *)
(* event: consumers that see an event twice see it for such a reason.      *)
CopiesAccounted == \A e \in Events : sent[e] <= 1 + faults + late

(* Every event is published or given up in the end and stays so, in spite  *)
(* of crashes that leave it 'publishing' and of relays that mark it after  *)
(* their lease.                                                            *)
EventsLeave ==
    <>[](\A e \in Events : status[e] \in {"absent", "published", "failed"})
=============================================================================
