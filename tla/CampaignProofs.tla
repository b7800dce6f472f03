--------------------------- MODULE CampaignProofs ---------------------------
(***************************************************************************)
(* Theorems about Campaigns for any campaigns, schedules, overlapping      *)
(* invocations, recurrences and bounds.                                    *)
(***************************************************************************)
EXTENDS Campaigns, TLAPS

-----------------------------------------------------------------------------
(* What an invocation read is still in the row when it commits: the row is *)
(* locked, by it alone, and by no cancellation.                            *)
ClaimsCurrent ==
    \A i \in Invocation, s \in Schedule : claimed[i][s] # NoRow =>
        /\ claimed[i][s] = sched[s]
        /\ sched[s].active /\ sched[s].next # Far

ClaimsApart ==
    \A i, j \in Invocation, s \in Schedule :
        claimed[i][s] # NoRow /\ claimed[j][s] # NoRow => i = j

CancelsApart ==
    \A c \in Campaign, s \in Schedule :
        /\ s \in cancel[c].todo \cup cancel[c].held => sched[s] # NoRow
        /\ s \in cancel[c].held => \A i \in Invocation : claimed[i][s] = NoRow

IInv == TypeOK /\ ClaimsCurrent /\ ClaimsApart /\ CancelsApart /\ EachRunOnce

(* EachRunOnce of one schedule, its row r and its jobs js.                 *)
Following(r, run) == IF r.period = Once THEN Far ELSE run + r.period

RunsOf(r, js) ==
    /\ Len(js) >= 1 /\ js[1] = PendingJob
    /\ \A k \in 2..Len(js) :
          js[k] = QueuedJob(IF k = 2 THEN r.first ELSE Following(r, js[k - 1].run))
    /\ r.next = IF Len(js) = 1 THEN r.first ELSE Following(r, js[Len(js)].run)
    /\ r.period = Once => Len(js) <= 2

LEMMA RunsOfAll ==
    EachRunOnce <=> \A s \in Schedule : sched[s] # NoRow => RunsOf(sched[s], jobs[s])
  BY DEF EachRunOnce, RunsOf, Following, RunAfter

LEMMA RunsOfAllNext ==
    EachRunOnce' <=> \A s \in Schedule : sched'[s] # NoRow => RunsOf(sched'[s], jobs'[s])
  BY DEF EachRunOnce, RunsOf, Following, RunAfter

(* Only these columns of the row matter.                                   *)
LEMMA RunsOfSame ==
    ASSUME NEW r, NEW q, NEW js, RunsOf(r, js),
           q.period = r.period, q.first = r.first, q.next = r.next
    PROVE  RunsOf(q, js)
  BY DEF RunsOf, Following

(* A run is made from the row that was due.                                *)
LEMMA RunsOfAppend ==
    ASSUME NEW r \in Row, NEW q, NEW js \in Seq(Job), RunsOf(r, js), r.next # Far,
           q.period = r.period, q.first = r.first, q.next = AfterRun(r)
    PROVE  RunsOf(q, Append(js, QueuedJob(r.next)))
  <1> DEFINE ks == Append(js, QueuedJob(r.next))
             n  == Len(js)
  <1>1. /\ n \in Nat /\ n >= 1 /\ Len(ks) = n + 1
        /\ ks[n + 1] = QueuedJob(r.next)
        /\ \A k \in 1..n : ks[k] = js[k]
    BY DEF RunsOf
  <1>2. /\ js[1] = PendingJob
        /\ \A k \in 2..n :
              js[k] = QueuedJob(IF k = 2 THEN r.first ELSE Following(r, js[k - 1].run))
        /\ r.next = IF n = 1 THEN r.first ELSE Following(r, js[n].run)
    BY DEF RunsOf
  <1>3. r.period = Once => n = 1
    BY <1>1 DEF RunsOf, Following
  <1>4. /\ QueuedJob(r.next).run = r.next
        /\ \A x : Following(q, x) = Following(r, x)
        /\ AfterRun(r) = Following(r, r.next)
    BY DEF QueuedJob, Following, AfterRun
  <1> HIDE DEF ks, n
  <1>5. ASSUME NEW k \in 2..Len(ks)
        PROVE  ks[k] = QueuedJob(IF k = 2 THEN q.first ELSE Following(q, ks[k - 1].run))
    <2>1. CASE k = n + 1
      BY <1>1, <1>2, <1>4, <2>1
    <2>2. CASE k # n + 1
      <3>1. k \in 2..n /\ k - 1 \in 1..n
        BY <1>1, <2>2
      <3> QED
        BY <1>1, <1>2, <1>4, <3>1
    <2> QED
      BY <2>1, <2>2
  <1>6. q.next = Following(q, ks[Len(ks)].run)
    BY <1>1, <1>4
  <1>7. /\ Len(ks) >= 1 /\ Len(ks) # 1 /\ ks[1] = PendingJob
        /\ q.period = Once => Len(ks) <= 2
    BY <1>1, <1>2, <1>3
  <1>8. RunsOf(q, ks)
    BY <1>5, <1>6, <1>7 DEF RunsOf
  <1> QED
    BY <1>8 DEF ks

-----------------------------------------------------------------------------
LEMMA InitInv == Init => IInv
  <1> SUFFICES ASSUME Init PROVE IInv
    OBVIOUS
  <1>1. TypeOK
    BY BoundAssumption DEF Init, TypeOK, Nothing, NoCancel
  <1>2. ClaimsCurrent /\ ClaimsApart /\ CancelsApart /\ EachRunOnce
    BY DEF Init, ClaimsCurrent, ClaimsApart, CancelsApart, EachRunOnce, Nothing, NoCancel
  <1> QED
    BY <1>1, <1>2 DEF IInv

LEMMA LockedFacts ==
    ASSUME TypeOK, NEW s \in Schedule, ~Locked(s)
    PROVE  /\ \A i \in Invocation : claimed[i][s] = NoRow
           /\ \A c \in Campaign : s \notin cancel[c].held
  BY DEF Locked, Batch

(* A new schedule.                                                         *)
LEMMA ScheduleInv ==
    ASSUME IInv, NEW s \in Schedule, NEW c \in Campaign, NEW p \in Periods,
           NEW start \in 0..Horizon, ScheduleCampaign(s, c, p, start)
    PROVE  IInv'
  <1> USE DEF IInv
  <1> DEFINE r == [ campaign |-> c, period |-> p, first |-> start,
                    next |-> start, active |-> TRUE ]
  <1>1. /\ r \in Row /\ r.first = start /\ r.next = start
        /\ sched[s] = NoRow /\ sched' = [sched EXCEPT ![s] = r]
        /\ jobs' = [jobs EXCEPT ![s] = <<PendingJob>>]
        /\ UNCHANGED <<now, claimed, cancel, commands, faults>>
    BY PeriodAssumption, BoundAssumption DEF ScheduleCampaign, Row
  <1>2. status' \in [Campaign -> {"none", "scheduled", "cancelled"}]
    BY DEF ScheduleCampaign, TypeOK
  <1> HIDE DEF r
  <1>3. /\ Len(<<PendingJob>>) = 1 /\ <<PendingJob>>[1] = PendingJob
        /\ <<PendingJob>> \in Seq(Job)
    BY DEF PendingJob, Job
  <1>4. /\ sched'[s] = r /\ \A t \in Schedule : t # s => sched'[t] = sched[t]
        /\ jobs'[s] = <<PendingJob>> /\ \A t \in Schedule : t # s => jobs'[t] = jobs[t]
    BY <1>1 DEF TypeOK
  <1>5. TypeOK'
    BY <1>1, <1>2, <1>3 DEF TypeOK
  <1>6. ClaimsCurrent' /\ ClaimsApart'
    BY <1>1, <1>4 DEF ClaimsCurrent, ClaimsApart
  <1>7. CancelsApart'
    BY <1>1, <1>4, NoRowAssumption DEF CancelsApart, TypeOK
  <1>8. RunsOf(r, <<PendingJob>>)
    BY <1>1, <1>3 DEF RunsOf
  <1>9. EachRunOnce'
    BY <1>4, <1>8, RunsOfAll, RunsOfAllNext
  <1> QED
    BY <1>5, <1>6, <1>7, <1>9

(* A row nobody has locked, changed in its active column.                  *)
LEMMA ActiveInv ==
    ASSUME IInv, NEW s \in Schedule, NEW active \in BOOLEAN, SetScheduleActive(s, active)
    PROVE  IInv'
  <1> USE DEF IInv
  <1> DEFINE r == [sched[s] EXCEPT !.active = active]
  <1>1. sched[s] \in Row /\ sched[s] # NoRow /\ ~Locked(s) /\ commands' \in Nat
        /\ sched' = [sched EXCEPT ![s] = r]
        /\ UNCHANGED <<now, status, jobs, claimed, cancel, faults>>
    BY DEF SetScheduleActive, TypeOK, Command
  <1>2. /\ r \in Row /\ r.period = sched[s].period
        /\ r.first = sched[s].first /\ r.next = sched[s].next
    BY <1>1 DEF Row
  <1> HIDE DEF r
  <1>3. sched'[s] = r /\ \A t \in Schedule : t # s => sched'[t] = sched[t]
    BY <1>1 DEF TypeOK
  <1>4. TypeOK'
    BY <1>1, <1>2 DEF TypeOK
  <1>5. ClaimsCurrent' /\ ClaimsApart'
    BY <1>1, <1>3, LockedFacts DEF ClaimsCurrent, ClaimsApart
  <1>6. CancelsApart'
    BY <1>1, <1>2, <1>3, NoRowAssumption DEF CancelsApart
  <1>7. EachRunOnce'
    <2>1. RunsOf(r, jobs[s])
      BY <1>1, <1>2, RunsOfAll, RunsOfSame
    <2> QED
      BY <1>1, <1>3, <2>1, RunsOfAll, RunsOfAllNext
  <1> QED
    BY <1>4, <1>5, <1>6, <1>7

(* The steps that leave schedules and jobs alone.                          *)
LEMMA RunsKept ==
    ASSUME EachRunOnce, UNCHANGED <<sched, jobs>>
    PROVE  EachRunOnce'
  BY RunsOfAll, RunsOfAllNext

LEMMA CancelStartsInv ==
    ASSUME IInv, NEW c \in Campaign, CancelStarts(c)
    PROVE  IInv'
  <1> USE DEF IInv
  <1> DEFINE todo == {s \in Schedule : sched[s] # NoRow /\ sched[s].campaign = c}
             t == [pc |-> "locking", held |-> {}, todo |-> todo]
  <1>1. /\ cancel' = [cancel EXCEPT ![c] = t] /\ commands' \in Nat
        /\ UNCHANGED <<now, status, sched, jobs, claimed, faults>>
    BY DEF CancelStarts, Command, TypeOK
  <1>2. /\ t \in [ pc : {"idle", "locking"}, todo : SUBSET Schedule, held : SUBSET Schedule ]
        /\ t.held = {} /\ \A s \in t.todo : sched[s] # NoRow
    OBVIOUS
  <1> HIDE DEF t
  <1>3. TypeOK'
    BY <1>1, <1>2 DEF TypeOK
  <1>4. ClaimsCurrent' /\ ClaimsApart' /\ EachRunOnce'
    BY <1>1, RunsKept DEF ClaimsCurrent, ClaimsApart
  <1>5. CancelsApart'
    BY <1>1, <1>2 DEF CancelsApart, TypeOK
  <1> QED
    BY <1>3, <1>4, <1>5

LEMMA CancelLocksInv ==
    ASSUME IInv, NEW c \in Campaign, NEW s \in Schedule, CancelLocks(c, s)
    PROVE  IInv'
  <1> USE DEF IInv
  <1> DEFINE Tx == [ pc : {"idle", "locking"}, todo : SUBSET Schedule, held : SUBSET Schedule ]
             t  == [cancel[c] EXCEPT !.todo = @ \ {s}, !.held = @ \cup {s}]
  <1>1. /\ cancel[c] \in Tx /\ s \in cancel[c].todo /\ ~Locked(s)
        /\ cancel' = [cancel EXCEPT ![c] = t]
        /\ UNCHANGED <<now, status, sched, jobs, claimed, commands, faults>>
    BY DEF CancelLocks, TypeOK
  <1>2. /\ t \in Tx /\ t.todo = cancel[c].todo \ {s}
        /\ t.held = cancel[c].held \cup {s}
    BY <1>1
  <1> HIDE DEF t
  <1>3. TypeOK'
    BY <1>1, <1>2 DEF TypeOK
  <1>4. ClaimsCurrent' /\ ClaimsApart' /\ EachRunOnce'
    BY <1>1, RunsKept DEF ClaimsCurrent, ClaimsApart
  <1>5. CancelsApart'
    BY <1>1, <1>2, LockedFacts DEF CancelsApart, TypeOK
  <1> QED
    BY <1>3, <1>4, <1>5

LEMMA CancelCommitsInv ==
    ASSUME IInv, NEW c \in Campaign, CancelCommits(c)
    PROVE  IInv'
  <1> USE DEF IInv
  <1> DEFINE H == cancel[c].held
             off(s) == [sched[s] EXCEPT !.active = FALSE]
  <1>1. /\ status' \in [Campaign -> {"none", "scheduled", "cancelled"}]
        /\ sched' = [s \in Schedule |-> IF s \in H THEN off(s) ELSE sched[s]]
        /\ cancel' = [cancel EXCEPT ![c] = NoCancel]
        /\ UNCHANGED <<now, jobs, claimed, commands, faults>>
    BY DEF CancelCommits, TypeOK
  <1>2. ASSUME NEW s \in H
        PROVE  /\ s \in Schedule /\ sched[s] # NoRow /\ sched[s] \in Row /\ off(s) \in Row
               /\ off(s).period = sched[s].period /\ off(s).first = sched[s].first
               /\ off(s).next = sched[s].next
               /\ \A i \in Invocation : claimed[i][s] = NoRow
    <2>1. s \in Schedule
      BY DEF TypeOK
    <2>2. sched[s] # NoRow /\ sched[s] \in Row
      BY <2>1 DEF CancelsApart, TypeOK
    <2>3. \A i \in Invocation : claimed[i][s] = NoRow
      BY <2>1 DEF CancelsApart
    <2> QED
      BY <2>1, <2>2, <2>3 DEF Row
  <1> HIDE DEF off
  <1>3. \A s \in Schedule : sched'[s] = IF s \in H THEN off(s) ELSE sched[s]
    BY <1>1
  <1>4. TypeOK'
    BY <1>1, <1>2 DEF TypeOK, NoCancel
  <1>5. ClaimsCurrent' /\ ClaimsApart'
    BY <1>1, <1>2, <1>3 DEF ClaimsCurrent, ClaimsApart
  <1>6. CancelsApart'
    BY <1>1, <1>2, <1>3, NoRowAssumption DEF CancelsApart, NoCancel, TypeOK
  <1>7. EachRunOnce'
    <2> SUFFICES ASSUME NEW s \in Schedule, sched'[s] # NoRow
                 PROVE  RunsOf(sched'[s], jobs'[s])
      BY RunsOfAllNext
    <2>1. CASE s \in H
      BY <1>1, <1>2, <1>3, <2>1, RunsOfAll, RunsOfSame
    <2>2. CASE s \notin H
      BY <1>1, <1>3, <2>2, RunsOfAll
    <2> QED
      BY <2>1, <2>2
  <1> QED
    BY <1>4, <1>5, <1>6, <1>7

LEMMA CancelRollsBackInv ==
    ASSUME IInv, NEW c \in Campaign, CancelRollsBack(c)
    PROVE  IInv'
  <1> USE DEF IInv
  <1>1. /\ cancel' = [cancel EXCEPT ![c] = NoCancel] /\ faults' \in Nat
        /\ UNCHANGED <<now, status, sched, jobs, claimed, commands>>
    BY DEF CancelRollsBack, TypeOK
  <1>2. TypeOK'
    BY <1>1 DEF TypeOK, NoCancel
  <1>3. ClaimsCurrent' /\ ClaimsApart' /\ EachRunOnce'
    BY <1>1, RunsKept DEF ClaimsCurrent, ClaimsApart
  <1>4. CancelsApart'
    BY <1>1 DEF CancelsApart, TypeOK, NoCancel
  <1> QED
    BY <1>2, <1>3, <1>4

-----------------------------------------------------------------------------
(* A claim takes unlocked due rows as they are.                            *)
LEMMA ClaimInv ==
    ASSUME IInv, NEW i \in Invocation, Claim(i)
    PROVE  IInv'
  <1> USE DEF IInv
  <1> PICK B \in SUBSET {s \in Schedule : Due(s) /\ ~Locked(s)} :
         claimed' = [claimed EXCEPT ![i] =
                       [s \in Schedule |-> IF s \in B THEN sched[s] ELSE NoRow]]
    BY DEF Claim
  <1>1. UNCHANGED <<now, status, sched, jobs, cancel, commands, faults>>
    BY DEF Claim
  <1>2. \A s \in B : /\ s \in Schedule /\ ~Locked(s)
                     /\ sched[s].active /\ sched[s].next # Far
    BY DEF Due, Active
  <1>3. /\ \A s \in Schedule : claimed'[i][s] = IF s \in B THEN sched[s] ELSE NoRow
        /\ \A j \in Invocation : j # i => claimed'[j] = claimed[j]
    BY DEF TypeOK
  <1>4. TypeOK'
    BY <1>1 DEF TypeOK
  <1>5. ClaimsCurrent'
    BY <1>1, <1>2, <1>3 DEF ClaimsCurrent
  <1>6. ClaimsApart'
    BY <1>2, <1>3, LockedFacts DEF ClaimsApart
  <1>7. CancelsApart'
    BY <1>1, <1>2, <1>3, LockedFacts DEF CancelsApart
  <1> QED
    BY <1>1, <1>4, <1>5, <1>6, <1>7, RunsKept

(* The commit: every claimed row is as it was read.                        *)
LEMMA MaterializeInv ==
    ASSUME IInv, NEW i \in Invocation, Materialize(i)
    PROVE  IInv'
  <1> USE DEF IInv
  <1> DEFINE ran(s)  == [sched[s] EXCEPT !.next = AfterRun(claimed[i][s]),
                                         !.active = sched[s].period # Once]
             more(s) == Append(jobs[s], QueuedJob(claimed[i][s].next))
  <1>1. /\ jobs'  = [s \in Schedule |-> IF s \in Batch(i) THEN more(s) ELSE jobs[s]]
        /\ sched' = [s \in Schedule |-> IF s \in Batch(i) THEN ran(s) ELSE sched[s]]
        /\ claimed' = [claimed EXCEPT ![i] = Nothing]
        /\ UNCHANGED <<now, status, cancel, commands, faults>>
    BY DEF Materialize
  <1>2. ASSUME NEW s \in Batch(i)
        PROVE  /\ s \in Schedule /\ sched[s] # NoRow /\ sched[s] \in Row
               /\ claimed[i][s] = sched[s] /\ sched[s].next # Far
    <2>1. s \in Schedule /\ claimed[i][s] # NoRow
      BY DEF Batch
    <2> QED
      BY <2>1 DEF ClaimsCurrent, TypeOK
  <1>3. ASSUME NEW s \in Batch(i)
        PROVE  /\ ran(s) \in Row /\ ran(s).next = AfterRun(sched[s])
               /\ ran(s).period = sched[s].period /\ ran(s).first = sched[s].first
    <2>1. AfterRun(sched[s]) \in Nat \cup {Far}
      BY <1>2 DEF AfterRun, Row
    <2> QED
      BY <1>2, <2>1 DEF Row
  <1>4. ASSUME NEW s \in Batch(i)
        PROVE  more(s) = Append(jobs[s], QueuedJob(sched[s].next)) /\ more(s) \in Seq(Job)
    <2>1. QueuedJob(sched[s].next) \in Job /\ jobs[s] \in Seq(Job)
      BY <1>2 DEF QueuedJob, Job, Row, TypeOK
    <2> QED
      BY <1>2, <2>1
  <1> HIDE DEF ran, more
  <1>5. /\ \A s \in Schedule : sched'[s] = IF s \in Batch(i) THEN ran(s) ELSE sched[s]
        /\ \A s \in Schedule : jobs'[s] = IF s \in Batch(i) THEN more(s) ELSE jobs[s]
        /\ \A s \in Schedule : claimed'[i][s] = NoRow
        /\ \A j \in Invocation : j # i => claimed'[j] = claimed[j]
    BY <1>1 DEF Nothing, TypeOK
  <1>6. TypeOK'
    <2>1. sched' \in [Schedule -> Row \cup {NoRow}]
      BY <1>1, <1>3 DEF TypeOK
    <2>2. jobs' \in [Schedule -> Seq(Job)]
      BY <1>1, <1>4 DEF TypeOK
    <2> QED
      BY <1>1, <2>1, <2>2 DEF TypeOK, Nothing
  <1>7. ASSUME NEW j \in Invocation, NEW s \in Schedule, claimed'[j][s] # NoRow
        PROVE  j # i /\ claimed'[j][s] = claimed[j][s] /\ sched'[s] = sched[s]
    BY <1>5, <1>7 DEF ClaimsApart, Batch
  <1>8. ClaimsCurrent' /\ ClaimsApart'
    BY <1>7 DEF ClaimsCurrent, ClaimsApart
  <1>9. CancelsApart'
    BY <1>1, <1>3, <1>5, NoRowAssumption DEF CancelsApart, Batch
  <1>10. EachRunOnce'
    <2> SUFFICES ASSUME NEW s \in Schedule, sched'[s] # NoRow
                 PROVE  RunsOf(sched'[s], jobs'[s])
      BY RunsOfAllNext
    <2>1. CASE s \in Batch(i)
      <3>1. RunsOf(sched[s], jobs[s]) /\ jobs[s] \in Seq(Job)
        BY <1>2, <2>1, RunsOfAll DEF TypeOK
      <3>2. sched'[s] = ran(s) /\ jobs'[s] = more(s)
        BY <1>5, <2>1
      <3> QED
        BY <1>2, <1>3, <1>4, <2>1, <3>1, <3>2, RunsOfAppend
    <2>2. CASE s \notin Batch(i)
      BY <1>5, <2>2, RunsOfAll
    <2> QED
      BY <2>1, <2>2
  <1> QED
    BY <1>6, <1>8, <1>9, <1>10

LEMMA RollBackInv ==
    ASSUME IInv, NEW i \in Invocation, RollBack(i)
    PROVE  IInv'
  <1> USE DEF IInv
  <1>1. /\ claimed' = [claimed EXCEPT ![i] = Nothing] /\ faults' \in Nat
        /\ UNCHANGED <<now, status, sched, jobs, cancel, commands>>
    BY DEF RollBack, TypeOK
  <1>2. TypeOK'
    BY <1>1 DEF TypeOK, Nothing
  <1>3. \A j \in Invocation, s \in Schedule :
           claimed'[j][s] = IF j = i THEN NoRow ELSE claimed[j][s]
    BY <1>1 DEF TypeOK, Nothing
  <1>4. ClaimsCurrent' /\ ClaimsApart' /\ CancelsApart'
    BY <1>1, <1>3 DEF ClaimsCurrent, ClaimsApart, CancelsApart
  <1> QED
    BY <1>1, <1>2, <1>4, RunsKept

LEMMA StutterInv ==
    ASSUME IInv, UNCHANGED vars \/ Tick
    PROVE  IInv'
  <1> USE DEF IInv
  <1>1. /\ now' \in Nat
        /\ UNCHANGED <<status, sched, jobs, claimed, cancel, commands, faults>>
    BY DEF Tick, vars, TypeOK
  <1>2. TypeOK' /\ ClaimsCurrent' /\ ClaimsApart' /\ CancelsApart'
    BY <1>1 DEF TypeOK, ClaimsCurrent, ClaimsApart, CancelsApart
  <1> QED
    BY <1>1, <1>2, RunsKept

-----------------------------------------------------------------------------
(* The invariant holds however many scheduler processes there are and      *)
(* whatever requests come while they work.                                 *)
THEOREM Invariant == Spec => []IInv
  <1>1. IInv /\ [Next]_vars => IInv'
    BY ScheduleInv, ActiveInv, CancelStartsInv, CancelLocksInv, CancelCommitsInv,
       CancelRollsBackInv, ClaimInv, MaterializeInv, RollBackInv, StutterInv
       DEF Next, Scheduler, Cancelling
  <1> QED
    BY InitInv, <1>1, PTL DEF Spec

(* Every variable keeps its type.                                          *)
THEOREM TypeCorrect == Spec => []TypeOK
  <1>1. IInv => TypeOK
    BY DEF IInv
  <1> QED
    BY <1>1, Invariant, PTL

(* materializeDueSchedules turns every run of a schedule into one job and  *)
(* leaves none out, for any number of overlapping invocations.             *)
THEOREM RunsMadeOnce == Spec => []EachRunOnce
  <1>1. IInv => EachRunOnce
    BY DEF IInv
  <1> QED
    BY <1>1, Invariant, PTL

(* A paused schedule runs only after it was resumed: the row lock orders   *)
(* setScheduleActive and cancelCampaign against the scheduler.             *)
THEOREM PausedStays == Spec => PauseHolds
  <1> DEFINE Quiet == \A s \in Schedule : sched[s] # NoRow /\ ~sched[s].active =>
                         /\ jobs'[s] = jobs[s]
                         /\ sched'[s].next = sched[s].next
  <1>1. IInv /\ [Next]_vars => [Quiet]_vars
    <2> SUFFICES ASSUME IInv, Next, NEW s \in Schedule, sched[s] # NoRow, ~sched[s].active
                 PROVE  jobs'[s] = jobs[s] /\ sched'[s].next = sched[s].next
      OBVIOUS
    <2> USE DEF IInv
    <2>1. sched[s] \in Row
      BY DEF TypeOK
    <2>2. ASSUME NEW b \in BOOLEAN PROVE [sched[s] EXCEPT !.active = b].next = sched[s].next
      BY <2>1 DEF Row
    <2>3. ASSUME NEW t \in Schedule, NEW c \in Campaign, NEW p \in Periods,
                 NEW start \in 0..Horizon, ScheduleCampaign(t, c, p, start)
          PROVE  sched'[s] = sched[s] /\ jobs'[s] = jobs[s]
      BY <2>3 DEF ScheduleCampaign, TypeOK
    <2>4. ASSUME NEW t \in Schedule, NEW b \in BOOLEAN, SetScheduleActive(t, b)
          PROVE  jobs'[s] = jobs[s] /\ sched'[s].next = sched[s].next
      BY <2>2, <2>4 DEF SetScheduleActive, TypeOK
    <2>5. ASSUME NEW c \in Campaign, CancelCommits(c)
          PROVE  jobs'[s] = jobs[s] /\ sched'[s].next = sched[s].next
      BY <2>2, <2>5 DEF CancelCommits
    <2>6. ASSUME NEW i \in Invocation, Materialize(i)
          PROVE  sched'[s] = sched[s] /\ jobs'[s] = jobs[s]
      <3>1. s \notin Batch(i)
        BY DEF ClaimsCurrent, Batch
      <3> QED
        BY <2>6, <3>1 DEF Materialize
    <2> QED
      BY <2>3, <2>4, <2>5, <2>6
         DEF Next, Scheduler, Cancelling, CancelStarts, CancelLocks, CancelRollsBack,
             Claim, RollBack, Tick
  <1> QED
    BY <1>1, Invariant, PTL DEF Spec, PauseHolds
=============================================================================
