-------------------------- MODULE OutboxRelayProofs --------------------------
(***************************************************************************)
(* Theorems about OutboxRelay for any events, invocations, batch size and  *)
(* numbers of failures, crashes and expired leases.                        *)
(***************************************************************************)
EXTENDS OutboxRelay, FiniteSetTheorems, TLAPS

-----------------------------------------------------------------------------
(* The rows an invocation has in hand.                                     *)
Hand(r) == ToSet(relay[r].batch)

(* A row is in created once, from its INSERT on.                           *)
Enqueued ==
    /\ \A i, j \in DOMAIN created : created[i] = created[j] => i = j
    /\ \A i \in DOMAIN created : status[created[i]] # "absent"

(* An invocation has each row once, and none when idle.                    *)
Distinct(batch) == \A i, j \in DOMAIN batch : batch[i] = batch[j] => i = j

InHand ==
    \A r \in Relays :
        /\ relay[r].pc = "idle" <=> relay[r].batch = <<>>
        /\ Distinct(relay[r].batch)
        /\ \A e \in Hand(r) : status[e] # "absent"

(* An invocation about to mark a row has seen Kafka take the event.        *)
MarksSent ==
    /\ PublishedIsSent
    /\ \A r \in Relays : relay[r].pc = "mark" => sent[Head(relay[r].batch)] > 0

(* While no lease has run out under an invocation, the rows it has in hand *)
(* are leased to it alone.                                                 *)
Leases ==
    late = 0 => /\ \A r, s \in Relays : r # s => Hand(r) \cap Hand(s) = {}
                /\ \A r \in Relays : \A e \in Hand(r) : status[e] = "publishing" /\ ~due[e]

(* The invocations that may still send a copy of e, or have e sent again.  *)
MaySend(r, e) == e \in Hand(r) /\ ~(relay[r].pc = "mark" /\ Head(relay[r].batch) = e)

Senders(e) == {r \in Relays : MaySend(r, e)}

(* e will be claimed, or be claimed again, with no further mishap.         *)
Open(e) ==
    /\ status[e] \in {"absent", "pending", "publishing"}
    /\ due[e] \/ \A r \in Relays : e \notin Hand(r)

OpenCopy(e) == IF Open(e) THEN 1 ELSE 0

(* The copies that are paid for, and those sent and still to come.         *)
Credit == 1 + faults + late

Copies(e) == sent[e] + Cardinality(Senders(e)) + OpenCopy(e)

CopiesBudget == \A e \in Events : Copies(e) <= Credit

IInv == TypeOK /\ Enqueued /\ InHand /\ MarksSent /\ Leases /\ CopiesBudget

-----------------------------------------------------------------------------
(* What the first row of a batch and the rest of it are.                   *)
LEMMA HeadAndTail ==
    ASSUME NEW S, NEW b \in Seq(S), b # <<>>, Distinct(b)
    PROVE  /\ Head(b) \in S /\ Head(b) \in ToSet(b) /\ ToSet(b) \subseteq S
           /\ Tail(b) \in Seq(S) /\ Distinct(Tail(b))
           /\ ToSet(Tail(b)) = ToSet(b) \ {Head(b)}
           /\ Tail(b) = <<>> <=> Len(b) = 1
  <1>1. Len(b) \in Nat \ {0} /\ DOMAIN b = 1..Len(b) /\ Head(b) = b[1]
    OBVIOUS
  <1>2. /\ Tail(b) \in Seq(S) /\ Len(Tail(b)) = Len(b) - 1
        /\ DOMAIN Tail(b) = 1..(Len(b) - 1)
        /\ \A i \in 1..(Len(b) - 1) : Tail(b)[i] = b[i + 1]
    BY <1>1
  <1>3. Distinct(Tail(b))
    BY <1>1, <1>2 DEF Distinct
  <1>4. ToSet(Tail(b)) \subseteq ToSet(b) \ {Head(b)}
    BY <1>1, <1>2 DEF Distinct, ToSet
  <1>5. ASSUME NEW e \in ToSet(b), e # Head(b) PROVE e \in ToSet(Tail(b))
    <2>1. PICK i \in 1..Len(b) : b[i] = e
      BY <1>1 DEF ToSet
    <2>2. i - 1 \in 1..(Len(b) - 1) /\ Tail(b)[i - 1] = e
      BY <2>1, <1>1, <1>2, <1>5
    <2> QED BY <2>2, <1>2 DEF ToSet
  <1>6. Head(b) \in S /\ Head(b) \in ToSet(b) /\ ToSet(b) \subseteq S
    BY <1>1 DEF ToSet
  <1>7. Tail(b) = <<>> <=> Len(b) = 1
    BY <1>1, <1>2
  <1> QED BY <1>2, <1>3, <1>4, <1>5, <1>6, <1>7

(* What a busy invocation has in hand.                                     *)
LEMMA BusyHand ==
    ASSUME TypeOK, InHand, NEW r \in Relays, relay[r].pc # "idle"
    PROVE  /\ Head(relay[r].batch) \in Events /\ Head(relay[r].batch) \in Hand(r)
           /\ Hand(r) \subseteq Events
  <1>1. relay[r].batch \in Seq(Events) /\ relay[r].batch # <<>> /\ Distinct(relay[r].batch)
    BY DEF TypeOK, InHand
  <1> QED BY <1>1, HeadAndTail DEF Hand

(* Advance lets the first row go and keeps the others.                     *)
LEMMA AdvanceHand ==
    ASSUME TypeOK, InHand, NEW r \in Relays, relay[r].pc # "idle", Advance(r)
    PROVE  /\ relay' \in [Relays -> [pc : {"idle", "publish", "mark", "retry"},
                                     batch : Seq(Events)]]
           /\ \A s \in Relays \ {r} : relay'[s] = relay[s]
           /\ relay'[r].pc \in {"idle", "publish"}
           /\ relay'[r].pc = "idle" <=> relay'[r].batch = <<>>
           /\ Distinct(relay'[r].batch)
           /\ ToSet(relay'[r].batch) = Hand(r) \ {Head(relay[r].batch)}
  <1> DEFINE b == relay[r].batch
             w == IF Len(b) = 1 THEN RelayIdle ELSE [pc |-> "publish", batch |-> Tail(b)]
  <1>1. b \in Seq(Events) /\ b # <<>> /\ Distinct(b)
    BY DEF TypeOK, InHand
  <1>2. /\ Tail(b) \in Seq(Events) /\ Distinct(Tail(b))
        /\ ToSet(Tail(b)) = ToSet(b) \ {Head(b)}
        /\ Tail(b) = <<>> <=> Len(b) = 1
    BY <1>1, HeadAndTail
  <1>3. relay' = [relay EXCEPT ![r] = w]
    BY DEF Advance
  <1>4. w.batch = Tail(b) /\ w.pc \in {"idle", "publish"} /\ (w.pc = "idle" <=> Len(b) = 1)
        /\ w \in [pc : {"idle", "publish", "mark", "retry"}, batch : Seq(Events)]
    <2>1. CASE Len(b) = 1
      BY <2>1, <1>2 DEF RelayIdle
    <2>2. CASE Len(b) # 1
      BY <2>2, <1>2
    <2> QED BY <2>1, <2>2
  <1> HIDE DEF w
  <1>5. relay'[r] = w /\ \A s \in Relays \ {r} : relay'[s] = relay[s]
    BY <1>3 DEF TypeOK
  <1>6. relay' \in [Relays -> [pc : {"idle", "publish", "mark", "retry"}, batch : Seq(Events)]]
    BY <1>3, <1>4 DEF TypeOK
  <1> QED BY <1>2, <1>4, <1>5, <1>6 DEF Hand

(* What the steps of an invocation that keep its batch leave alone.        *)
LEMMA SameHands ==
    ASSUME TypeOK, NEW r \in Relays, NEW pc \in {"idle", "publish", "mark", "retry"},
           relay' = [relay EXCEPT ![r].pc = pc]
    PROVE  /\ relay' \in [Relays -> [pc : {"idle", "publish", "mark", "retry"},
                                     batch : Seq(Events)]]
           /\ \A s \in Relays : relay'[s].batch = relay[s].batch /\ Hand(s)' = Hand(s)
           /\ relay'[r].pc = pc /\ \A s \in Relays \ {r} : relay'[s] = relay[s]
  <1> DEFINE w == [relay[r] EXCEPT !.pc = pc]
  <1>1. relay[r] \in [pc : {"idle", "publish", "mark", "retry"}, batch : Seq(Events)]
    BY DEF TypeOK
  <1>2. /\ w \in [pc : {"idle", "publish", "mark", "retry"}, batch : Seq(Events)]
        /\ w.pc = pc /\ w.batch = relay[r].batch
    BY <1>1
  <1>3. relay' = [relay EXCEPT ![r] = w]
    OBVIOUS
  <1> HIDE DEF w
  <1>4. relay'[r] = w /\ \A s \in Relays \ {r} : relay'[s] = relay[s]
    BY <1>3 DEF TypeOK
  <1>5. \A s \in Relays : relay'[s].batch = relay[s].batch
    BY <1>2, <1>4
  <1>6. relay' \in [Relays -> [pc : {"idle", "publish", "mark", "retry"}, batch : Seq(Events)]]
    BY <1>2, <1>3 DEF TypeOK
  <1> QED BY <1>2, <1>4, <1>5, <1>6 DEF Hand

(* What a claim hands over: rows that can be claimed, each once.           *)
LEMMA ClaimHand ==
    ASSUME TypeOK, Enqueued, NEW r \in Relays, Claim(r)
    PROVE  \E batch \in Seq(Events) :
               /\ batch # <<>> /\ Distinct(batch)
               /\ \A e \in ToSet(batch) : Claimable(e) /\ status[e] # "absent"
               /\ Leased(ToSet(batch))
               /\ relay' = [relay EXCEPT ![r] = [pc |-> "publish", batch |-> batch]]
  <1> DEFINE Rows(n, at) == [i \in 1..n |-> created[at[i]]]
             Taken(n, at) ==
                 /\ FirstRows(n, at)
                 /\ Leased(ToSet(Rows(n, at)))
                 /\ relay' = [relay EXCEPT ![r] = [pc |-> "publish", batch |-> Rows(n, at)]]
  <1>0. PICK n \in 1..BatchSize : \E at \in [1..n -> DOMAIN created] : Taken(n, at)
    BY DEF Claim
  <1>1. PICK at \in [1..n -> DOMAIN created] : Taken(n, at)
    BY <1>0
  <1> DEFINE batch == Rows(n, at)
  <1>2. n \in Nat \ {0}
    BY RelayAssumption
  <1>3. \A i \in 1..n : at[i] \in DOMAIN created /\ created[at[i]] \in Events
    BY DEF TypeOK
  <1>4. batch \in Seq(Events) /\ DOMAIN batch = 1..n /\ batch # <<>>
    BY <1>2, <1>3
  <1>5. Distinct(batch)
    <2> SUFFICES ASSUME NEW i \in 1..n, NEW j \in 1..n, batch[i] = batch[j] PROVE i = j
      BY <1>4 DEF Distinct
    <2>1. at[i] = at[j]
      BY <1>3 DEF Enqueued
    <2>2. at[i] \in Int /\ at[j] \in Int
      <3>1. Len(created) \in Nat /\ DOMAIN created = 1..Len(created)
        BY DEF TypeOK
      <3> QED BY <1>3, <3>1
    <2>3. \A k, l \in 1..n : k < l => at[k] < at[l]
      BY <1>1 DEF FirstRows
    <2>4. ~(i < j) /\ ~(j < i)
      BY <2>1, <2>2, <2>3
    <2> QED BY <2>4, <1>2
  <1>6. \A e \in ToSet(batch) : Claimable(e) /\ status[e] # "absent"
    BY <1>1, <1>3, <1>4 DEF FirstRows, ToSet, Enqueued
  <1> QED BY <1>1, <1>4, <1>5, <1>6

-----------------------------------------------------------------------------
(* Every step keeps the types.                                             *)
LEMMA TypesKept == TypeOK /\ Enqueued /\ InHand /\ [Next]_vars => TypeOK'
  <1> SUFFICES ASSUME TypeOK, Enqueued, InHand, [Next]_vars PROVE TypeOK'
    OBVIOUS
  <1>1. ASSUME NEW e \in Events, Enqueue(e) PROVE TypeOK'
    <2>1. created' \in Seq(Events)
      BY <1>1 DEF Enqueue, TypeOK
    <2>2. due' \in [Events -> BOOLEAN]
      BY <1>1 DEF Enqueue, TypeOK
    <2> QED BY <1>1, <2>1, <2>2 DEF Enqueue, TypeOK
  <1>2. ASSUME NEW e \in Events, Elapse(e) PROVE TypeOK'
    BY <1>2, RelayAssumption DEF Elapse, TypeOK
  <1>3. ASSUME NEW r \in Relays, Claim(r) PROVE TypeOK'
    <2>1. PICK batch \in Seq(Events) :
              /\ Leased(ToSet(batch))
              /\ relay' = [relay EXCEPT ![r] = [pc |-> "publish", batch |-> batch]]
      BY <1>3, ClaimHand
    <2>2. relay' \in [Relays -> [pc : {"idle", "publish", "mark", "retry"},
                                 batch : Seq(Events)]]
      BY <2>1 DEF TypeOK
    <2>3. /\ status' \in [Events -> {"absent", "pending", "publishing", "published", "failed"}]
          /\ due' \in [Events -> BOOLEAN]
      BY <2>1 DEF Leased, TypeOK
    <2> QED BY <1>3, <2>2, <2>3 DEF Claim, TypeOK
  <1>4. ASSUME NEW r \in Relays, Publish(r) PROVE TypeOK'
    <2>1. Head(relay[r].batch) \in Events
      BY <1>4, BusyHand DEF Publish
    <2>2. sent' \in [Events -> Nat]
      BY <1>4, <2>1 DEF Publish, TypeOK
    <2>3. relay' \in [Relays -> [pc : {"idle", "publish", "mark", "retry"},
                                 batch : Seq(Events)]]
      BY <1>4, SameHands DEF Publish
    <2>4. UNCHANGED <<created, status, due, tries, faults, late>>
      BY <1>4 DEF Publish
    <2> QED BY <2>2, <2>3, <2>4 DEF TypeOK
  <1>5. ASSUME NEW r \in Relays, PublishFails(r) PROVE TypeOK'
    <2>1. sent' \in [Events -> Nat]
      <3>1. relay[r].pc # "idle"
        BY <1>5 DEF PublishFails
      <3>2. PICK e \in Events : e = Head(relay[r].batch)
        BY <3>1, BusyHand
      <3>3. sent' = [sent EXCEPT ![e] = @ + 1] \/ sent' = sent
        BY <1>5, <3>2 DEF PublishFails
      <3>4. sent \in [Events -> Nat] /\ sent[e] + 1 \in Nat
        BY DEF TypeOK
      <3> QED BY <3>3, <3>4
    <2>2. relay' \in [Relays -> [pc : {"idle", "publish", "mark", "retry"},
                                 batch : Seq(Events)]]
      BY <1>5, SameHands DEF PublishFails
    <2>3. UNCHANGED <<created, status, due, tries, late>> /\ faults' = faults + 1
      BY <1>5 DEF PublishFails, Fault
    <2> QED BY <2>1, <2>2, <2>3 DEF TypeOK
  <1>6. ASSUME NEW r \in Relays, MarkPublished(r) PROVE TypeOK'
    <2>1. relay[r].pc # "idle" /\ Advance(r)
      BY <1>6 DEF MarkPublished
    <2>2. status' \in [Events -> {"absent", "pending", "publishing", "published", "failed"}]
      BY <1>6, <2>1, BusyHand DEF MarkPublished, TypeOK
    <2>3. relay' \in [Relays -> [pc : {"idle", "publish", "mark", "retry"},
                                 batch : Seq(Events)]]
      BY <2>1, AdvanceHand
    <2> QED BY <1>6, <2>2, <2>3 DEF MarkPublished, TypeOK
  <1>7. ASSUME NEW r \in Relays, MarkFails(r) PROVE TypeOK'
    <2>1. relay' \in [Relays -> [pc : {"idle", "publish", "mark", "retry"},
                                 batch : Seq(Events)]]
      BY <1>7, SameHands DEF MarkFails
    <2> QED BY <1>7, <2>1 DEF MarkFails, Fault, TypeOK
  <1>8. ASSUME NEW r \in Relays, MarkRetry(r) PROVE TypeOK'
    <2>1. relay[r].pc # "idle" /\ Advance(r)
      BY <1>8 DEF MarkRetry
    <2>2. relay' \in [Relays -> [pc : {"idle", "publish", "mark", "retry"},
                                 batch : Seq(Events)]]
      BY <2>1, AdvanceHand
    <2>3. /\ status' \in [Events -> {"absent", "pending", "publishing", "published", "failed"}]
          /\ due' \in [Events -> BOOLEAN]
      BY <1>8 DEF MarkRetry, TypeOK
    <2>4. tries' \in [Events -> Nat]
      BY <1>8, <2>1, BusyHand DEF MarkRetry, Counted, TypeOK
    <2> QED BY <1>8, <2>2, <2>3, <2>4 DEF MarkRetry, TypeOK
  <1>9. ASSUME NEW r \in Relays, Crash(r) PROVE TypeOK'
    <2>1. RelayIdle \in [pc : {"idle", "publish", "mark", "retry"}, batch : Seq(Events)]
      BY DEF RelayIdle
    <2> QED BY <1>9, <2>1 DEF Crash, Fault, TypeOK
  <1>10. CASE UNCHANGED vars
    BY <1>10 DEF vars, TypeOK
  <1> QED
    BY <1>1, <1>2, <1>3, <1>4, <1>5, <1>6, <1>7, <1>8, <1>9, <1>10 DEF Next, RelayStep

-----------------------------------------------------------------------------
(* Rows stay in created and, once inserted, are never absent again.        *)
LEMMA RowsStay ==
    TypeOK /\ Enqueued /\ InHand /\ [Next]_vars =>
        \A e \in Events : status[e] # "absent" => status'[e] # "absent"
  <1> SUFFICES ASSUME TypeOK, Enqueued, InHand, [Next]_vars,
                      NEW e \in Events, status[e] # "absent"
               PROVE  status'[e] # "absent"
    OBVIOUS
  <1>1. ASSUME NEW f \in Events, Enqueue(f) \/ Elapse(f) PROVE status'[e] # "absent"
    BY <1>1 DEF Enqueue, Elapse, TypeOK
  <1>2. ASSUME NEW r \in Relays, Claim(r) PROVE status'[e] # "absent"
    <2>1. \E batch \in Seq(Events) : Leased(ToSet(batch))
      BY <1>2, ClaimHand
    <2> QED BY <2>1 DEF Leased
  <1>3. ASSUME NEW r \in Relays, Publish(r) \/ PublishFails(r) \/ MarkFails(r) \/ Crash(r)
        PROVE  status'[e] # "absent"
    BY <1>3 DEF Publish, PublishFails, MarkFails, Crash
  <1>4. ASSUME NEW r \in Relays, MarkPublished(r) PROVE status'[e] # "absent"
    BY <1>4 DEF MarkPublished, TypeOK
  <1>5. ASSUME NEW r \in Relays, MarkRetry(r) PROVE status'[e] # "absent"
    BY <1>5 DEF MarkRetry, TypeOK
  <1>6. CASE UNCHANGED vars
    BY <1>6 DEF vars
  <1> QED BY <1>1, <1>2, <1>3, <1>4, <1>5, <1>6 DEF Next, RelayStep

(* created only grows, by a row that was absent.                           *)
LEMMA RowsOnce == TypeOK /\ Enqueued /\ InHand /\ [Next]_vars => Enqueued'
  <1> SUFFICES ASSUME TypeOK, Enqueued, InHand, [Next]_vars PROVE Enqueued'
    OBVIOUS
  <1>1. ASSUME NEW f \in Events, Enqueue(f) PROVE Enqueued'
    <2>1. /\ created' \in Seq(Events) /\ DOMAIN created' = 1..(Len(created) + 1)
          /\ DOMAIN created = 1..Len(created) /\ Len(created) \in Nat
          /\ \A i \in 1..Len(created) : created'[i] = created[i] /\ created[i] \in Events
          /\ created'[Len(created) + 1] = f
      BY <1>1 DEF Enqueue, TypeOK
    <2>2. \A i \in 1..Len(created) : created[i] # f
      BY <1>1, <2>1 DEF Enqueue, Enqueued
    <2>3. \A i, j \in DOMAIN created' : created'[i] = created'[j] => i = j
      <3> SUFFICES ASSUME NEW i \in 1..(Len(created) + 1), NEW j \in 1..(Len(created) + 1),
                          created'[i] = created'[j]
                   PROVE  i = j
        BY <2>1
      <3>1. CASE i \in 1..Len(created) /\ j \in 1..Len(created)
        BY <3>1, <2>1 DEF Enqueued
      <3>2. CASE i = Len(created) + 1 \/ j = Len(created) + 1
        BY <3>2, <2>1, <2>2
      <3> QED BY <3>1, <3>2, <2>1
    <2>4. \A i \in DOMAIN created' : status'[created'[i]] # "absent"
      <3> SUFFICES ASSUME NEW i \in 1..(Len(created) + 1) PROVE status'[created'[i]] # "absent"
        BY <2>1
      <3>1. status'[f] = "pending"
        BY <1>1 DEF Enqueue, TypeOK
      <3>2. CASE i \in 1..Len(created)
        BY <3>2, <2>1, RowsStay DEF Enqueued
      <3>3. CASE i = Len(created) + 1
        BY <3>3, <3>1, <2>1
      <3> QED BY <3>2, <3>3, <2>1
    <2> QED BY <2>3, <2>4 DEF Enqueued
  <1>2. CASE created' = created
    BY <1>2, RowsStay DEF Enqueued, TypeOK
  <1>3. CASE UNCHANGED vars
    BY <1>3, <1>2 DEF vars
  <1>4. ASSUME NEW f \in Events, Elapse(f) PROVE created' = created
    BY <1>4 DEF Elapse
  <1>5. ASSUME NEW r \in Relays,
               RelayStep(r) \/ PublishFails(r) \/ MarkFails(r) \/ Crash(r)
        PROVE  created' = created
    BY <1>5 DEF RelayStep, Claim, Publish, MarkPublished, MarkRetry, PublishFails, MarkFails, Crash
  <1> QED BY <1>1, <1>2, <1>3, <1>4, <1>5 DEF Next

-----------------------------------------------------------------------------
(* What a claim hands over, seen from each invocation.                     *)
LEMMA ClaimEffect ==
    ASSUME TypeOK, Enqueued, InHand, NEW r \in Relays, Claim(r)
    PROVE  /\ Hand(r) = {} /\ relay'[r].pc = "publish"
           /\ relay'[r].batch # <<>> /\ Distinct(relay'[r].batch)
           /\ \A s \in Relays \ {r} : relay'[s] = relay[s] /\ Hand(s)' = Hand(s)
           /\ \A e \in Hand(r)' : e \in Events /\ Claimable(e) /\ status[e] # "absent"
           /\ Leased(Hand(r)')
  <1>1. PICK batch \in Seq(Events) :
            /\ batch # <<>> /\ Distinct(batch)
            /\ \A e \in ToSet(batch) : Claimable(e) /\ status[e] # "absent"
            /\ Leased(ToSet(batch))
            /\ relay' = [relay EXCEPT ![r] = [pc |-> "publish", batch |-> batch]]
    BY ClaimHand
  <1>2. relay'[r] = [pc |-> "publish", batch |-> batch]
        /\ \A s \in Relays \ {r} : relay'[s] = relay[s]
    BY <1>1 DEF TypeOK
  <1>3. Hand(r) = {}
    BY DEF Claim, InHand, Hand, ToSet
  <1>4. ToSet(batch) \subseteq Events
    BY <1>1, HeadAndTail
  <1>5. Hand(r)' = ToSet(batch) /\ \A s \in Relays \ {r} : Hand(s)' = Hand(s)
    BY <1>2 DEF Hand
  <1> QED BY <1>1, <1>2, <1>3, <1>4, <1>5

(* What the end of an attempt does to what is in hand.                     *)
LEMMA AdvanceEffect ==
    ASSUME TypeOK, InHand, NEW r \in Relays, MarkPublished(r) \/ MarkRetry(r)
    PROVE  /\ Head(relay[r].batch) \in Events /\ Head(relay[r].batch) \in Hand(r)
           /\ relay'[r].pc \in {"idle", "publish"}
           /\ relay'[r].pc = "idle" <=> relay'[r].batch = <<>>
           /\ Distinct(relay'[r].batch)
           /\ Hand(r)' = Hand(r) \ {Head(relay[r].batch)}
           /\ \A s \in Relays \ {r} : relay'[s] = relay[s] /\ Hand(s)' = Hand(s)
  <1>1. relay[r].pc # "idle" /\ Advance(r)
    BY DEF MarkPublished, MarkRetry
  <1>2. Hand(r)' = ToSet(relay'[r].batch) /\ \A s \in Relays : Hand(s)' = ToSet(relay'[s].batch)
    BY DEF Hand
  <1>3. \A s \in Relays \ {r} : relay'[s] = relay[s] /\ Hand(s)' = Hand(s)
    BY <1>1, <1>2, AdvanceHand DEF Hand
  <1> QED BY <1>1, <1>2, <1>3, AdvanceHand, BusyHand

(* What a crash does to what is in hand.                                   *)
LEMMA CrashEffect ==
    ASSUME TypeOK, NEW r \in Relays, Crash(r)
    PROVE  /\ relay'[r] = RelayIdle /\ Hand(r)' = {}
           /\ \A s \in Relays \ {r} : relay'[s] = relay[s] /\ Hand(s)' = Hand(s)
  <1>1. relay'[r] = RelayIdle /\ \A s \in Relays \ {r} : relay'[s] = relay[s]
    BY DEF Crash, TypeOK
  <1> QED BY <1>1 DEF Hand, ToSet, RelayIdle

(* The steps that keep the batch they work on.                             *)
LEMMA CallEffect ==
    ASSUME TypeOK, InHand, NEW r \in Relays, Publish(r) \/ PublishFails(r) \/ MarkFails(r)
    PROVE  /\ Head(relay[r].batch) \in Events /\ Head(relay[r].batch) \in Hand(r)
           /\ relay[r].pc \in {"publish", "mark"} /\ relay'[r].pc \in {"mark", "retry"}
           /\ \A s \in Relays : relay'[s].batch = relay[s].batch /\ Hand(s)' = Hand(s)
           /\ \A s \in Relays \ {r} : relay'[s] = relay[s]
  <1>1. \E pc \in {"mark", "retry"} : relay' = [relay EXCEPT ![r].pc = pc]
    BY DEF Publish, PublishFails, MarkFails
  <1>2. relay[r].pc \in {"publish", "mark"}
    BY DEF Publish, PublishFails, MarkFails
  <1>3. PICK pc \in {"mark", "retry"} : relay' = [relay EXCEPT ![r].pc = pc]
    BY <1>1
  <1> QED BY <1>2, <1>3, SameHands, BusyHand

(* Every step keeps what is in hand in order.                              *)
LEMMA HandsKept == TypeOK /\ Enqueued /\ InHand /\ [Next]_vars => InHand'
  <1> SUFFICES ASSUME TypeOK, Enqueued, InHand, [Next]_vars, NEW s \in Relays
               PROVE  /\ relay'[s].pc = "idle" <=> relay'[s].batch = <<>>
                      /\ Distinct(relay'[s].batch)
                      /\ \A e \in Hand(s)' : status'[e] # "absent"
    BY DEF InHand, Hand
  <1>0. Hand(s) \subseteq Events
    BY BusyHand DEF InHand, Hand, ToSet
  <1> DEFINE Kept == relay'[s] = relay[s]
  <1>1. CASE Kept
    <2>1. Hand(s)' = Hand(s)
      BY <1>1 DEF Hand
    <2> QED BY <1>0, <1>1, <2>1, RowsStay DEF InHand
  <1> HIDE DEF Kept
  <1>2. CASE UNCHANGED vars
    BY <1>2, <1>1 DEF vars, Kept
  <1>3. ASSUME NEW f \in Events, Enqueue(f) \/ Elapse(f) PROVE Kept
    BY <1>3 DEF Enqueue, Elapse, Kept
  <1>4. ASSUME NEW r \in Relays, r # s,
               RelayStep(r) \/ PublishFails(r) \/ MarkFails(r) \/ Crash(r)
        PROVE  Kept
    BY <1>4, ClaimEffect, AdvanceEffect, CrashEffect, CallEffect DEF RelayStep, Kept
  <1>5. CASE Claim(s)
    <2>1. relay'[s].pc = "publish" /\ relay'[s].batch # <<>> /\ Distinct(relay'[s].batch)
      BY <1>5, ClaimEffect
    <2>2. \A e \in Hand(s)' : e \in Events /\ status[e] # "absent"
      BY <1>5, ClaimEffect
    <2> QED BY <2>1, <2>2, RowsStay
  <1>6. CASE Publish(s) \/ PublishFails(s) \/ MarkFails(s)
    <2>1. /\ relay'[s].batch = relay[s].batch /\ Hand(s)' = Hand(s)
          /\ relay[s].pc \in {"publish", "mark"} /\ relay'[s].pc \in {"mark", "retry"}
      BY <1>6, CallEffect
    <2> QED BY <2>1, <1>0, RowsStay DEF InHand
  <1>7. CASE MarkPublished(s) \/ MarkRetry(s)
    <2>1. /\ relay'[s].pc = "idle" <=> relay'[s].batch = <<>>
          /\ Distinct(relay'[s].batch)
          /\ Hand(s)' \subseteq Hand(s)
      BY <1>7, AdvanceEffect
    <2> QED BY <2>1, <1>0, RowsStay DEF InHand
  <1>8. CASE Crash(s)
    BY <1>8, CrashEffect DEF RelayIdle, Distinct
  <1> QED
    BY <1>1, <1>2, <1>3, <1>4, <1>5, <1>6, <1>7, <1>8 DEF Next, RelayStep

-----------------------------------------------------------------------------
(* Copies are never taken back.                                            *)
LEMMA SentGrows ==
    TypeOK /\ [Next]_vars => \A e \in Events : sent[e] <= sent'[e]
  <1> SUFFICES ASSUME TypeOK, [Next]_vars, NEW e \in Events PROVE sent[e] <= sent'[e]
    OBVIOUS
  <1>0. sent[e] \in Nat
    BY DEF TypeOK
  <1>1. ASSUME NEW r \in Relays, Publish(r) \/ PublishFails(r) PROVE sent[e] <= sent'[e]
    <2>1. sent' = [sent EXCEPT ![Head(relay[r].batch)] = @ + 1] \/ sent' = sent
      BY <1>1 DEF Publish, PublishFails
    <2>2. \/ e = Head(relay[r].batch) /\ sent'[e] = sent[e] + 1
          \/ sent'[e] = sent[e]
      BY <2>1 DEF TypeOK
    <2> QED BY <2>2, <1>0
  <1>2. CASE sent' = sent
    BY <1>0, <1>2
  <1> QED
    BY <1>1, <1>2 DEF Next, RelayStep, Enqueue, Elapse, Claim, MarkPublished, MarkRetry,
                      MarkFails, Crash, vars

(* An event that Kafka has stays with it.                                  *)
LEMMA StaysSent ==
    ASSUME TypeOK, TypeOK', [Next]_vars, NEW e \in Events, sent[e] > 0
    PROVE  sent'[e] > 0
  <1>1. sent[e] \in Nat /\ sent'[e] \in Nat
    BY DEF TypeOK
  <1> QED BY <1>1, SentGrows

(* Only an invocation that has seen Kafka take the event marks the row.    *)
LEMMA MarksKept ==
    TypeOK /\ TypeOK' /\ Enqueued /\ InHand /\ MarksSent /\ [Next]_vars => MarksSent'
  <1> SUFFICES ASSUME TypeOK, TypeOK', Enqueued, InHand, MarksSent, [Next]_vars
               PROVE  MarksSent'
    OBVIOUS
  <1>1. ASSUME NEW e \in Events, status'[e] = "published" PROVE sent'[e] > 0
    <2>1. CASE status[e] = "published"
      BY <2>1, StaysSent DEF MarksSent, PublishedIsSent
    <2>2. ASSUME status[e] # "published", NEW f \in Events, Enqueue(f) \/ Elapse(f) PROVE FALSE
      BY <1>1, <2>2 DEF Enqueue, Elapse, TypeOK
    <2>3. ASSUME status[e] # "published", NEW r \in Relays, Claim(r) PROVE FALSE
      BY <1>1, <2>3, ClaimEffect DEF Leased
    <2>4. ASSUME status[e] # "published", NEW r \in Relays, MarkRetry(r) PROVE FALSE
      BY <1>1, <2>4 DEF MarkRetry, TypeOK
    <2>5. ASSUME status[e] # "published", NEW r \in Relays, MarkPublished(r) PROVE sent'[e] > 0
      <3>1. e = Head(relay[r].batch) /\ relay[r].pc = "mark"
        BY <1>1, <2>5 DEF MarkPublished, TypeOK
      <3> QED BY <3>1, StaysSent DEF MarksSent
    <2>6. CASE status' = status
      BY <2>6, <2>1, <1>1
    <2> QED
      BY <2>1, <2>2, <2>3, <2>4, <2>5, <2>6
         DEF Next, RelayStep, Publish, PublishFails, MarkFails, Crash, vars
  <1>2. ASSUME NEW s \in Relays, relay'[s].pc = "mark" PROVE sent'[Head(relay'[s].batch)] > 0
    <2>1. CASE relay'[s] = relay[s]
      <3>1. Head(relay[s].batch) \in Events
        BY <2>1, <1>2, BusyHand
      <3> QED BY <2>1, <3>1, <1>2, StaysSent DEF MarksSent
    <2>2. CASE Publish(s)
      <3>1. Head(relay[s].batch) \in Events /\ relay'[s].batch = relay[s].batch
        BY <2>2, CallEffect
      <3> QED BY <2>2, <3>1 DEF Publish, TypeOK
    <2>3. CASE PublishFails(s) \/ MarkFails(s)
      <3>1. relay'[s].pc = "retry"
        BY <2>3, SameHands DEF PublishFails, MarkFails
      <3> QED BY <3>1, <1>2
    <2>4. CASE Claim(s) \/ MarkPublished(s) \/ MarkRetry(s) \/ Crash(s)
      BY <2>4, <1>2, ClaimEffect, AdvanceEffect, CrashEffect DEF RelayIdle
    <2>5. ASSUME NEW r \in Relays, r # s,
                 RelayStep(r) \/ PublishFails(r) \/ MarkFails(r) \/ Crash(r)
          PROVE  relay'[s] = relay[s]
      BY <2>5, ClaimEffect, AdvanceEffect, CrashEffect, CallEffect DEF RelayStep
    <2> QED
      BY <2>1, <2>2, <2>3, <2>4, <2>5 DEF Next, RelayStep, Enqueue, Elapse, vars
  <1> QED BY <1>1, <1>2 DEF MarksSent, PublishedIsSent

-----------------------------------------------------------------------------
(* A lease is handed to one invocation and lost only when it runs out.     *)
LEMMA LeasesKept ==
    TypeOK /\ TypeOK' /\ Enqueued /\ InHand /\ Leases /\ [Next]_vars => Leases'
  <1> SUFFICES ASSUME TypeOK, TypeOK', Enqueued, InHand, Leases, [Next]_vars, late' = 0
               PROVE  /\ \A r, s \in Relays : r # s => Hand(r)' \cap Hand(s)' = {}
                      /\ \A r \in Relays : \A e \in Hand(r)' :
                             status'[e] = "publishing" /\ ~due'[e]
    BY DEF Leases, Hand
  <1>1. late = 0
    <2>1. late \in Nat
      BY DEF TypeOK
    <2>3. ASSUME NEW e \in Events, Enqueue(e) PROVE late' = late
      BY <2>3 DEF Enqueue
    <2>4. ASSUME NEW e \in Events, Elapse(e) PROVE late' \in {late, late + 1}
      BY <2>4 DEF Elapse
    <2>5. ASSUME NEW r \in Relays, RelayStep(r) \/ PublishFails(r) \/ MarkFails(r) \/ Crash(r)
          PROVE  late' = late
      <3>1. ASSUME Claim(r) PROVE late' = late
        BY <3>1 DEF Claim
      <3>2. ASSUME Publish(r) \/ MarkPublished(r) \/ MarkRetry(r) PROVE late' = late
        BY <3>2 DEF Publish, MarkPublished, MarkRetry
      <3>3. ASSUME PublishFails(r) \/ MarkFails(r) \/ Crash(r) PROVE late' = late
        BY <3>3 DEF PublishFails, MarkFails, Crash
      <3> QED BY <2>5, <3>1, <3>2, <3>3 DEF RelayStep
    <2>6. late' \in {late, late + 1}
      <3>1. CASE UNCHANGED vars
        BY <3>1 DEF vars
      <3>2. CASE Next
        BY <2>3, <2>4, <2>5, <3>2 DEF Next
      <3> QED BY <3>1, <3>2
    <2> QED BY <2>1, <2>6
  <1>2. /\ \A r, s \in Relays : r # s => Hand(r) \cap Hand(s) = {}
        /\ \A r \in Relays : \A e \in Hand(r) : status[e] = "publishing" /\ ~due[e]
        /\ \A r \in Relays : Hand(r) \subseteq Events
    <2>1. \A r \in Relays : Hand(r) \subseteq Events
      BY BusyHand DEF InHand, Hand, ToSet
    <2> QED BY <1>1, <2>1 DEF Leases
  <1> DEFINE Same(r) == Hand(r)' = Hand(r)
             Goal == /\ \A r, s \in Relays : r # s => Hand(r)' \cap Hand(s)' = {}
                     /\ \A r \in Relays : \A e \in Hand(r)' :
                            status'[e] = "publishing" /\ ~due'[e]
  <1>3. ASSUME \A r \in Relays : Same(r),
               \A r \in Relays : \A e \in Hand(r) :
                   status'[e] = status[e] /\ due'[e] = due[e]
        PROVE  Goal
    BY <1>2, <1>3
  <1>4. ASSUME NEW f \in Events, Enqueue(f) \/ Elapse(f) PROVE Goal
    <2>1. \A r \in Relays : Same(r)
      BY <1>4 DEF Enqueue, Elapse, Hand
    <2>2. \A r \in Relays : f \notin Hand(r)
      <3>1. CASE Enqueue(f)
        BY <3>1 DEF Enqueue, InHand
      <3>2. CASE Elapse(f)
        BY <3>2, <1>1 DEF Elapse, Held, Contains, Hand, ToSet, TypeOK
      <3> QED BY <1>4, <3>1, <3>2
    <2>3. \A e \in Events \ {f} : status'[e] = status[e] /\ due'[e] = due[e]
      BY <1>4 DEF Enqueue, Elapse, TypeOK
    <2> QED BY <1>2, <1>3, <2>1, <2>2, <2>3
  <1>5. ASSUME NEW r \in Relays, Claim(r) PROVE Goal
    <2>1. \A s \in Relays \ {r} : Same(s)
      BY <1>5, ClaimEffect
    <2>2. /\ Leased(Hand(r)') /\ \A e \in Hand(r)' : e \in Events /\ Claimable(e)
      BY <1>5, ClaimEffect
    <2>3. \A s \in Relays : \A e \in Hand(s) : ~Claimable(e)
      BY <1>2 DEF Claimable
    <2>4. \A e \in Hand(r)' : status'[e] = "publishing" /\ ~due'[e]
      BY <2>2 DEF Leased
    <2>5. \A s \in Relays \ {r} : \A e \in Hand(s) : status'[e] = status[e] /\ ~due'[e]
      BY <1>2, <2>2, <2>3 DEF Leased
    <2> QED BY <1>2, <2>1, <2>2, <2>3, <2>4, <2>5
  <1>6. ASSUME NEW r \in Relays, Publish(r) \/ PublishFails(r) \/ MarkFails(r) PROVE Goal
    <2>1. \A s \in Relays : Same(s)
      BY <1>6, CallEffect
    <2>2. status' = status /\ due' = due
      BY <1>6 DEF Publish, PublishFails, MarkFails
    <2> QED BY <1>3, <2>1, <2>2
  <1>7. ASSUME NEW r \in Relays, MarkPublished(r) \/ MarkRetry(r) PROVE Goal
    <2> DEFINE h == Head(relay[r].batch)
    <2>1. /\ h \in Hand(r) /\ Hand(r)' = Hand(r) \ {h}
          /\ \A s \in Relays \ {r} : Same(s)
      BY <1>7, AdvanceEffect
    <2>2. \A e \in Events \ {h} : status'[e] = status[e] /\ due'[e] = due[e]
      BY <1>7 DEF MarkPublished, MarkRetry, TypeOK
    <2> HIDE DEF h
    <2> QED BY <1>2, <2>1, <2>2
  <1>8. ASSUME NEW r \in Relays, Crash(r) PROVE Goal
    <2>1. Hand(r)' = {} /\ \A s \in Relays \ {r} : Same(s)
      BY <1>8, CrashEffect
    <2>2. status' = status /\ due' = due
      BY <1>8 DEF Crash
    <2> QED BY <1>2, <2>1, <2>2
  <1>9. CASE UNCHANGED vars
    BY <1>9, <1>3 DEF vars, Hand
  <1> QED BY <1>4, <1>5, <1>6, <1>7, <1>8, <1>9 DEF Next, RelayStep

-----------------------------------------------------------------------------
(* Counting the invocations that may still send an event.                  *)
LEMMA CountSenders ==
    ASSUME NEW S \in SUBSET Relays
    PROVE  /\ Cardinality(S) \in Nat
           /\ \A x : /\ Cardinality(S \cup {x}) \in Nat
                     /\ Cardinality(S \cup {x}) <= Cardinality(S) + 1
           /\ \A x \in S : Cardinality(S \ {x}) = Cardinality(S) - 1
           /\ \A T \in SUBSET S : Cardinality(T) \in Nat /\ Cardinality(T) <= Cardinality(S)
  <1>1. IsFiniteSet(S)
    BY FS_Subset, RelayAssumption
  <1>2. Cardinality(S) \in Nat
    BY <1>1, FS_CardinalityType
  <1>3. ASSUME NEW x
        PROVE  Cardinality(S \cup {x}) \in Nat /\ Cardinality(S \cup {x}) <= Cardinality(S) + 1
    <2>1. Cardinality(S \cup {x}) = IF x \in S THEN Cardinality(S) ELSE Cardinality(S) + 1
      BY <1>1, FS_AddElement
    <2> QED BY <2>1, <1>2
  <1>4. ASSUME NEW x \in S PROVE Cardinality(S \ {x}) = Cardinality(S) - 1
    BY <1>1, FS_RemoveElement
  <1>5. ASSUME NEW T \in SUBSET S PROVE Cardinality(T) \in Nat /\ Cardinality(T) <= Cardinality(S)
    <2>1. IsFiniteSet(T)
      BY <1>1, FS_Subset
    <2> QED BY <2>1, <1>1, FS_Subset, FS_CardinalityType
  <1> QED BY <1>2, <1>3, <1>4, <1>5

(* What the budget of an event counts is a number.                         *)
LEMMA BudgetType ==
    ASSUME TypeOK, NEW e \in Events
    PROVE  /\ Senders(e) \in SUBSET Relays /\ Cardinality(Senders(e)) \in Nat
           /\ sent[e] \in Nat /\ faults \in Nat /\ late \in Nat
           /\ OpenCopy(e) \in {0, 1}
  BY CountSenders DEF Senders, TypeOK, OpenCopy

LEMMA OpenNotMore ==
    ASSUME NEW e \in Events, Open(e)' => Open(e)
    PROVE  OpenCopy(e)' \in {0, 1} /\ OpenCopy(e)' <= OpenCopy(e)
  <1>1. OpenCopy(e)' = IF Open(e)' THEN 1 ELSE 0
    BY DEF OpenCopy
  <1>2. CASE Open(e)'
    BY <1>1, <1>2 DEF OpenCopy
  <1>3. CASE ~Open(e)'
    BY <1>1, <1>3 DEF OpenCopy
  <1> QED BY <1>2, <1>3

(* An event no step of an invocation is about keeps what is counted.       *)
LEMMA Untouched ==
    ASSUME TypeOK, CopiesBudget, NEW e \in Events, Credit' \in Nat, Credit' >= Credit,
           sent'[e] = sent[e], Senders(e)' \subseteq Senders(e), Open(e)' => Open(e)
    PROVE  Copies(e)' <= Credit'
  <1> DEFINE C == Cardinality(Senders(e))
             D == Cardinality(Senders(e)')
             O == OpenCopy(e)
             P == OpenCopy(e)'
  <1>1. Senders(e) \in SUBSET Relays /\ C \in Nat /\ sent[e] \in Nat /\ O \in {0, 1}
        /\ Credit \in Nat
    BY BudgetType DEF Credit
  <1>2. D \in Nat /\ D <= C
    BY <1>1, CountSenders
  <1>3. P \in {0, 1} /\ P <= O
    BY OpenNotMore
  <1>4. sent[e] + C + O <= Credit /\ Copies(e)' = sent[e] + D + P
    BY DEF CopiesBudget, Copies
  <1> HIDE DEF C, D, O, P
  <1>5. sent[e] + D + P <= sent[e] + C + O
    BY <1>1, <1>2, <1>3
  <1> QED BY <1>1, <1>2, <1>3, <1>4, <1>5

(* A mishap pays for one more copy: e is left to be claimed again, is to   *)
(* be tried again by its invocation, or was sent all the same.             *)
LEMMA Mishap ==
    ASSUME TypeOK, CopiesBudget, NEW e \in Events, NEW r \in Relays,
           Credit' = Credit + 1,
           \/ sent'[e] = sent[e] /\ Senders(e)' \subseteq Senders(e)
           \/ /\ sent'[e] = sent[e] /\ Senders(e)' \subseteq Senders(e) \cup {r}
              /\ Open(e)' => Open(e)
           \/ /\ sent'[e] = sent[e] + 1 /\ Senders(e)' \subseteq Senders(e)
              /\ Open(e)' => Open(e)
    PROVE  Copies(e)' <= Credit'
  <1> DEFINE S == Senders(e)
             T == Senders(e)'
             C == Cardinality(S)
             D == Cardinality(T)
             O == OpenCopy(e)
             P == OpenCopy(e)'
  <1>1. S \in SUBSET Relays /\ C \in Nat /\ sent[e] \in Nat /\ O \in {0, 1} /\ Credit \in Nat
    BY BudgetType DEF Credit
  <1>2. P \in {0, 1} /\ ((Open(e)' => Open(e)) => P <= O)
    BY OpenNotMore DEF OpenCopy
  <1>3. sent[e] + C + O <= Credit /\ Copies(e)' = sent'[e] + D + P
    BY DEF CopiesBudget, Copies
  <1>4. S \cup {r} \in SUBSET Relays /\ Cardinality(S \cup {r}) \in Nat
        /\ Cardinality(S \cup {r}) <= C + 1
    BY <1>1, CountSenders
  <1>5. \A Z \in SUBSET Relays : T \subseteq Z => D \in Nat /\ D <= Cardinality(Z)
    BY CountSenders
  <1> HIDE DEF C, D, O, P
  <1>6. CASE sent'[e] = sent[e] /\ T \subseteq S
    <2>1. D \in Nat /\ D <= C
      BY <1>1, <1>5, <1>6 DEF C
    <2>2. sent[e] + D + P <= sent[e] + C + O + 1
      BY <1>1, <1>2, <2>1
    <2> QED BY <1>1, <1>2, <1>3, <1>6, <2>1, <2>2
  <1>7. CASE sent'[e] = sent[e] /\ T \subseteq S \cup {r} /\ (Open(e)' => Open(e))
    <2>1. D \in Nat /\ D <= C + 1
      BY <1>1, <1>4, <1>5, <1>7
    <2>2. sent[e] + D + P <= sent[e] + C + O + 1
      BY <1>1, <1>2, <1>7, <2>1
    <2> QED BY <1>1, <1>2, <1>3, <1>7, <2>1, <2>2
  <1>8. CASE sent'[e] = sent[e] + 1 /\ T \subseteq S /\ (Open(e)' => Open(e))
    <2>1. D \in Nat /\ D <= C
      BY <1>1, <1>5, <1>8 DEF C
    <2>2. sent[e] + 1 + D + P <= sent[e] + C + O + 1
      BY <1>1, <1>2, <1>8, <2>1
    <2> QED BY <1>1, <1>2, <1>3, <1>8, <2>1, <2>2
  <1> QED BY <1>6, <1>7, <1>8

-----------------------------------------------------------------------------
(* Whose hands an invocation's step leaves alone, seen from an event.      *)
LEMMA SendersFrame ==
    ASSUME NEW e \in Events, NEW r \in Relays,
           \A s \in Relays \ {r} : relay'[s] = relay[s] /\ Hand(s)' = Hand(s)
    PROVE  /\ \A s \in Relays \ {r} : MaySend(s, e)' <=> MaySend(s, e)
           /\ Senders(e)' \subseteq Senders(e) \cup {r}
           /\ ~MaySend(r, e)' => Senders(e)' = Senders(e) \ {r}
           /\ MaySend(r, e) => Senders(e)' \subseteq Senders(e)
  <1>1. \A s \in Relays \ {r} : MaySend(s, e)' <=> MaySend(s, e)
    BY DEF MaySend
  <1>2. \A s : s \in Senders(e)' <=> s \in Relays /\ MaySend(s, e)'
    BY DEF Senders
  <1>3. \A s : s \in Senders(e) <=> s \in Relays /\ MaySend(s, e)
    BY DEF Senders
  <1> QED BY <1>1, <1>2, <1>3

(* Every step pays for the copies it makes possible.                       *)
LEMMA BudgetKept ==
    TypeOK /\ TypeOK' /\ Enqueued /\ InHand /\ CopiesBudget /\ [Next]_vars => CopiesBudget'
  <1> SUFFICES ASSUME TypeOK, TypeOK', Enqueued, InHand, CopiesBudget, [Next]_vars,
                      NEW e \in Events
               PROVE  Copies(e)' <= Credit'
    BY DEF CopiesBudget
  <1>0. Credit \in Nat /\ Credit' \in Nat
    <2>1. faults \in Nat /\ late \in Nat /\ faults' \in Nat /\ late' \in Nat
      BY DEF TypeOK
    <2>2. \A f, l \in Nat : 1 + f + l \in Nat
      OBVIOUS
    <2>3. Credit = 1 + faults + late /\ Credit' = 1 + faults' + late'
      BY DEF Credit
    <2>4. 1 + faults + late \in Nat /\ 1 + faults' + late' \in Nat
      BY <2>1, <2>2, Zenon
    <2> QED BY <2>3, <2>4, Zenon
  <1>1. ASSUME NEW f \in Events, Enqueue(f) PROVE Copies(e)' <= Credit'
    <2>1. \A r \in Relays : Hand(r)' = Hand(r) /\ relay'[r] = relay[r]
      BY <1>1 DEF Enqueue, Hand
    <2>2. Senders(e)' = Senders(e)
      BY <2>1 DEF Senders, MaySend
    <2>3. Open(e)' => Open(e)
      <3>1. CASE e = f
        BY <1>1, <3>1 DEF Open, Enqueue, InHand
      <3>2. CASE e # f
        BY <1>1, <2>1, <3>2 DEF Open, Enqueue, TypeOK
      <3> QED BY <3>1, <3>2
    <2>4. sent' = sent /\ Credit' = Credit
      BY <1>1 DEF Enqueue, Credit
    <2> QED BY <1>0, <2>2, <2>3, <2>4, Untouched
  <1>2. ASSUME NEW f \in Events, Elapse(f) PROVE Copies(e)' <= Credit'
    <2>1. \A r \in Relays : Hand(r)' = Hand(r) /\ relay'[r] = relay[r]
      BY <1>2 DEF Elapse, Hand
    <2>2. Senders(e)' = Senders(e) /\ sent' = sent
      BY <1>2, <2>1 DEF Senders, MaySend, Elapse
    <2>3. CASE Held(f)
      <3>1. Credit' = Credit + 1
        BY <1>2, <2>3 DEF Elapse, Credit, TypeOK
      <3>2. PICK r \in Relays : TRUE
        BY <2>3 DEF Held
      <3> QED BY <2>2, <3>1, <3>2, Mishap
    <2>4. CASE ~Held(f)
      <3>1. Credit' = Credit
        BY <1>2, <2>4 DEF Elapse, Credit
      <3>2. \A r \in Relays : f \notin Hand(r)
        BY <2>4 DEF Held, Contains, Hand, ToSet, TypeOK
      <3>3. Open(e)' => Open(e)
        <4>1. CASE e = f
          BY <1>2, <3>2, <4>1 DEF Open, Elapse
        <4>2. CASE e # f
          BY <1>2, <2>1, <4>2 DEF Open, Elapse, TypeOK
        <4> QED BY <4>1, <4>2
      <3> QED BY <1>0, <2>2, <3>1, <3>3, Untouched
    <2> QED BY <2>3, <2>4
  <1>3. ASSUME NEW r \in Relays, Claim(r) PROVE Copies(e)' <= Credit'
    <2>1. /\ Hand(r) = {} /\ relay'[r].pc = "publish" /\ Leased(Hand(r)')
          /\ \A s \in Relays \ {r} : relay'[s] = relay[s] /\ Hand(s)' = Hand(s)
          /\ \A f \in Hand(r)' : Claimable(f)
      BY <1>3, ClaimEffect
    <2>2. sent' = sent /\ Credit' = Credit
      BY <1>3 DEF Claim, Credit
    <2>3. CASE e \in Hand(r)'
      <3>1. Open(e)
        BY <2>1, <2>3 DEF Claimable, Open
      <3>2. ~Open(e)'
        BY <2>1, <2>3 DEF Leased, Open
      <3> DEFINE C == Cardinality(Senders(e))
                 D == Cardinality(Senders(e)')
      <3>3. Senders(e) \in SUBSET Relays /\ C \in Nat /\ sent[e] \in Nat
        BY BudgetType
      <3>4. Senders(e)' \subseteq Senders(e) \cup {r}
        BY <2>1, SendersFrame
      <3>5. Senders(e) \cup {r} \in SUBSET Relays /\ Cardinality(Senders(e) \cup {r}) \in Nat
            /\ Cardinality(Senders(e) \cup {r}) <= C + 1
        BY <3>3, CountSenders
      <3>6. D \in Nat /\ D <= Cardinality(Senders(e) \cup {r})
        BY <3>4, <3>5, CountSenders
      <3>7. sent[e] + C + 1 <= Credit
        BY <3>1 DEF CopiesBudget, Copies, OpenCopy
      <3>8. OpenCopy(e)' = 0
        BY <3>2 DEF OpenCopy
      <3>9. Copies(e)' = sent[e] + D + 0
        BY <2>2, <3>8 DEF Copies
      <3> HIDE DEF C, D
      <3> QED BY <1>0, <2>2, <3>3, <3>5, <3>6, <3>7, <3>9
    <2>4. CASE e \notin Hand(r)'
      <3>1. Senders(e)' \subseteq Senders(e)
        BY <2>1, <2>4, SendersFrame DEF MaySend
      <3>2. Open(e)' => Open(e)
        <4>1. due'[e] = due[e]
          BY <2>1, <2>4 DEF Leased, TypeOK
        <4>2. status'[e] = status[e] \/ Claimable(e)
          BY <2>1, <2>4 DEF Leased
        <4>3. \A s \in Relays : e \in Hand(s)' <=> e \in Hand(s)
          BY <2>1, <2>4
        <4> QED BY <4>1, <4>2, <4>3 DEF Claimable, Open
      <3> QED BY <1>0, <2>2, <3>1, <3>2, Untouched
    <2> QED BY <2>3, <2>4
  <1>4. ASSUME NEW r \in Relays, Publish(r) \/ PublishFails(r) \/ MarkFails(r)
        PROVE  Copies(e)' <= Credit'
    <2> DEFINE h == Head(relay[r].batch)
    <2>1. /\ h \in Hand(r) /\ relay'[r].batch = relay[r].batch
          /\ \A s \in Relays : Hand(s)' = Hand(s)
          /\ \A s \in Relays \ {r} : relay'[s] = relay[s]
      BY <1>4, CallEffect
    <2>2. Open(e)' => Open(e)
      BY <1>4, <2>1 DEF Open, Publish, PublishFails, MarkFails
    <2>3. Senders(e)' \subseteq Senders(e) \cup {r}
      BY <2>1, SendersFrame
    <2>4. MaySend(r, e) => Senders(e)' \subseteq Senders(e)
      BY <2>1, SendersFrame
    <2>5. CASE Publish(r)
      <3>1. relay'[r].pc = "mark" /\ relay[r].pc = "publish"
        BY <2>5, SameHands DEF Publish
      <3>2. Credit' = Credit
        BY <2>5 DEF Publish, Credit
      <3>3. CASE e = h
        <4> DEFINE C == Cardinality(Senders(e))
                   D == Cardinality(Senders(e)')
        <4>1. MaySend(r, e) /\ ~MaySend(r, e)'
          BY <2>1, <3>1, <3>3 DEF MaySend
        <4>2. r \in Senders(e) /\ Senders(e)' = Senders(e) \ {r}
          BY <2>1, <4>1, SendersFrame DEF Senders
        <4>3. Senders(e) \in SUBSET Relays /\ C \in Nat /\ sent[e] \in Nat
              /\ OpenCopy(e) \in {0, 1}
          BY BudgetType
        <4>4. D = C - 1
          BY <4>2, <4>3, CountSenders
        <4>5. sent'[e] = sent[e] + 1
          BY <2>5, <3>3 DEF Publish, TypeOK
        <4>6. OpenCopy(e)' \in {0, 1} /\ OpenCopy(e)' <= OpenCopy(e)
          BY <2>2, OpenNotMore
        <4>7. sent[e] + C + OpenCopy(e) <= Credit /\ Copies(e)' = sent'[e] + D + OpenCopy(e)'
          BY DEF CopiesBudget, Copies
        <4> HIDE DEF C, D
        <4> QED BY <1>0, <3>2, <4>3, <4>4, <4>5, <4>6, <4>7
      <3>4. CASE e # h
        <4>1. sent'[e] = sent[e]
          BY <2>5, <3>4 DEF Publish, TypeOK
        <4>2. MaySend(r, e)' => MaySend(r, e)
          BY <2>1, <3>1, <3>4 DEF MaySend
        <4>3. Senders(e)' \subseteq Senders(e)
          BY <2>1, <4>2, SendersFrame
        <4> QED BY <1>0, <2>2, <3>2, <4>1, <4>3, Untouched
      <3> QED BY <3>3, <3>4
    <2>6. CASE PublishFails(r)
      <3>1. Credit' = Credit + 1 /\ relay[r].pc = "publish"
        BY <2>6 DEF PublishFails, Fault, Credit, TypeOK
      <3>2. sent'[e] = sent[e] \/ (e = h /\ sent'[e] = sent[e] + 1)
        BY <2>6 DEF PublishFails, TypeOK
      <3>3. e = h => MaySend(r, e)
        BY <2>1, <3>1 DEF MaySend
      <3> HIDE DEF h
      <3> QED BY <2>2, <2>3, <2>4, <3>1, <3>2, <3>3, Mishap
    <2>7. CASE MarkFails(r)
      <3>1. Credit' = Credit + 1 /\ sent' = sent
        BY <2>7 DEF MarkFails, Fault, Credit, TypeOK
      <3> QED BY <2>2, <2>3, <3>1, Mishap
    <2> QED BY <1>4, <2>5, <2>6, <2>7
  <1>5. ASSUME NEW r \in Relays, MarkPublished(r) \/ MarkRetry(r)
        PROVE  Copies(e)' <= Credit'
    <2> DEFINE h == Head(relay[r].batch)
    <2>1. /\ h \in Hand(r) /\ Hand(r)' = Hand(r) \ {h} /\ relay'[r].pc \in {"idle", "publish"}
          /\ \A s \in Relays \ {r} : relay'[s] = relay[s] /\ Hand(s)' = Hand(s)
      BY <1>5, AdvanceEffect
    <2>2. sent' = sent /\ Credit' = Credit
      BY <1>5 DEF MarkPublished, MarkRetry, Credit
    <2>3. MaySend(r, e)' => MaySend(r, e)
      BY <2>1 DEF MaySend
    <2>4. Senders(e)' \subseteq Senders(e)
      BY <2>1, <2>3, SendersFrame
    <2>5. CASE e # h
      <3>1. status'[e] = status[e] /\ due'[e] = due[e]
        BY <1>5, <2>5 DEF MarkPublished, MarkRetry, TypeOK
      <3>2. \A s \in Relays : e \in Hand(s)' <=> e \in Hand(s)
        BY <2>1, <2>5
      <3>3. Open(e)' => Open(e)
        BY <3>1, <3>2 DEF Open
      <3> QED BY <1>0, <2>2, <2>4, <3>3, Untouched
    <2>6. CASE e = h /\ MarkPublished(r)
      <3>1. ~Open(e)'
        BY <2>6 DEF MarkPublished, Open, TypeOK
      <3> QED BY <1>0, <2>2, <2>4, <3>1, Untouched
    <2>7. CASE e = h /\ MarkRetry(r)
      <3> DEFINE C == Cardinality(Senders(e))
                 D == Cardinality(Senders(e)')
      <3>1. relay[r].pc = "retry"
        BY <2>7 DEF MarkRetry
      <3>2. MaySend(r, e) /\ ~MaySend(r, e)'
        BY <2>1, <2>7, <3>1 DEF MaySend
      <3>3. r \in Senders(e) /\ Senders(e)' = Senders(e) \ {r}
        BY <2>1, <3>2, SendersFrame DEF Senders
      <3>4. Senders(e) \in SUBSET Relays /\ C \in Nat /\ sent[e] \in Nat
            /\ OpenCopy(e) \in {0, 1}
        BY BudgetType
      <3>5. D = C - 1
        BY <3>3, <3>4, CountSenders
      <3>6. OpenCopy(e)' \in {0, 1}
        BY DEF OpenCopy
      <3>7. sent[e] + C + OpenCopy(e) <= Credit /\ Copies(e)' = sent[e] + D + OpenCopy(e)'
        BY <2>2 DEF CopiesBudget, Copies
      <3> HIDE DEF C, D
      <3> QED BY <1>0, <2>2, <3>4, <3>5, <3>6, <3>7
    <2> QED BY <1>5, <2>5, <2>6, <2>7
  <1>6. ASSUME NEW r \in Relays, Crash(r) PROVE Copies(e)' <= Credit'
    <2>1. Hand(r)' = {} /\ \A s \in Relays \ {r} : relay'[s] = relay[s] /\ Hand(s)' = Hand(s)
      BY <1>6, CrashEffect
    <2>2. Senders(e)' \subseteq Senders(e)
      BY <2>1, SendersFrame DEF MaySend
    <2>3. Credit' = Credit + 1 /\ sent' = sent
      BY <1>6 DEF Crash, Fault, Credit, TypeOK
    <2> QED BY <2>2, <2>3, Mishap
  <1>7. CASE UNCHANGED vars
    BY <1>7 DEF vars, CopiesBudget, Copies, Credit, Senders, MaySend, OpenCopy, Open, Hand
  <1> QED BY <1>1, <1>2, <1>3, <1>4, <1>5, <1>6, <1>7 DEF Next, RelayStep

-----------------------------------------------------------------------------
(* The initial state has no rows, no copies and nothing in hand.           *)
LEMMA InitInv == Init => IInv
  <1> SUFFICES ASSUME Init PROVE IInv
    OBVIOUS
  <1>1. TypeOK
    <2>1. RelayIdle \in [pc : {"idle", "publish", "mark", "retry"}, batch : Seq(Events)]
      BY DEF RelayIdle
    <2> QED BY <2>1 DEF Init, TypeOK
  <1>2. \A r \in Relays : relay[r].pc = "idle" /\ relay[r].batch = <<>> /\ Hand(r) = {}
    BY DEF Init, RelayIdle, Hand, ToSet
  <1>3. Enqueued /\ InHand /\ MarksSent /\ Leases
    BY <1>2 DEF Init, Enqueued, InHand, Distinct, MarksSent, PublishedIsSent, Leases
  <1>4. CopiesBudget
    <2> SUFFICES ASSUME NEW e \in Events PROVE Copies(e) <= Credit
      BY DEF CopiesBudget
    <2>1. Senders(e) = {}
      BY <1>2 DEF Senders, MaySend
    <2>2. Cardinality(Senders(e)) = 0
      BY <2>1, FS_EmptySet
    <2>3. sent[e] = 0 /\ faults = 0 /\ late = 0
      BY DEF Init
    <2>4. OpenCopy(e) \in {0, 1}
      BY DEF OpenCopy
    <2> QED BY <2>2, <2>3, <2>4 DEF Copies, Credit
  <1> QED BY <1>1, <1>3, <1>4 DEF IInv

LEMMA NextInv == IInv /\ [Next]_vars => IInv'
  BY TypesKept, RowsOnce, HandsKept, MarksKept, LeasesKept, BudgetKept DEF IInv

(* The types hold, each invocation has distinct rows in hand, leases are   *)
(* exclusive until one runs out, and every copy is paid for.               *)
THEOREM Invariant == Spec => []IInv
  <1>1. Init => IInv
    BY InitInv
  <1>2. IInv /\ [Next]_vars => IInv'
    BY NextInv
  <1> QED BY <1>1, <1>2, PTL DEF Spec

(* No event is marked published that Kafka does not have, with any number  *)
(* of overlapping invocations, in whatever order they publish, fail and    *)
(* mark.                                                                   *)
THEOREM PublishedMeansSent == Spec => []PublishedIsSent
  <1>1. IInv => PublishedIsSent
    BY DEF IInv, MarksSent
  <1> QED BY <1>1, Invariant, PTL

(* Two invocations of flushBatch have the same row in hand only if a lease *)
(* ran out under one of them.                                              *)
THEOREM LeasesExclude == Spec => []ClaimsExclusive
  <1>1. IInv => ClaimsExclusive
    BY DEF IInv, Leases, ClaimsExclusive, Hand
  <1> QED BY <1>1, Invariant, PTL

(* Kafka gets no copy of an event beyond the first but for a failed call,  *)
(* a crash or a lease that ran out, at most one for each of these.         *)
THEOREM CopiesArePaidFor == Spec => []CopiesAccounted
  <1>1. ASSUME IInv PROVE CopiesAccounted
    <2> SUFFICES ASSUME NEW e \in Events PROVE sent[e] <= 1 + faults + late
      BY DEF CopiesAccounted
    <2> DEFINE C == Cardinality(Senders(e))
    <2>1. C \in Nat /\ sent[e] \in Nat /\ OpenCopy(e) \in {0, 1} /\ Credit \in Nat
      BY <1>1, BudgetType DEF IInv, Credit
    <2>2. sent[e] + C + OpenCopy(e) <= Credit
      BY <1>1 DEF IInv, CopiesBudget, Copies
    <2> HIDE DEF C
    <2>3. sent[e] <= Credit
      BY <2>1, <2>2
    <2> QED BY <2>3 DEF Credit
  <1> QED BY <1>1, Invariant, PTL
=============================================================================
