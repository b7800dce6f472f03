----------------------------- MODULE Campaigns -----------------------------
(***************************************************************************)
(* Campaign schedules and the jobs they become.  A timer in every          *)
(* scheduler process starts materializeDueSchedules each 30 seconds and    *)
(* waits for none of them, so any number of invocations overlap.  One      *)
(* claims due rows with FOR UPDATE SKIP LOCKED, inserts a job for each,    *)
(* moves the row to its next run and commits; the API pauses, resumes and  *)
(* cancels meanwhile, waiting for the rows an invocation has locked.       *)
(*                                                                         *)
(* What a transaction writes is seen when it commits, so an invocation is  *)
(* two steps, its SELECT and its COMMIT, and a cancellation has a step for *)
(* every row it locks.  Time is counted in the smallest distance of two    *)
(* runs; a recurrence is its period.                                       *)
(***************************************************************************)
EXTENDS Integers, Sequences, FiniteSets

CONSTANTS
    Campaign,      \* campaigns
    Schedule,      \* ids of campaign_schedules
    Invocation,    \* overlapping calls of materializeDueSchedules
    NoRow,         \* no such schedule, or one an invocation did not claim
    Periods,       \* recurrences a request may ask for; Once for none
    BatchLimit,    \* LIMIT 25
    Horizon,       \* bound on the time
    MaxCommands,   \* bound on pauses, resumptions and cancellations
    MaxFaults      \* bound on transactions rolled back

Once == 0

ASSUME PeriodAssumption == Periods \subseteq Nat
ASSUME LimitAssumption  == BatchLimit \in Nat \ {0}
ASSUME BoundAssumption  == {Horizon, MaxCommands, MaxFaults} \subseteq Nat

VARIABLES
    now,
    status,     \* campaigns.status
    sched,      \* the committed row of each schedule
    jobs,       \* the campaign_jobs each schedule led to, oldest first
    claimed,    \* the rows each invocation read and has locked
    cancel,     \* the transaction of cancelCampaign under way, if any
    commands, faults

vars == <<now, status, sched, jobs, claimed, cancel, commands, faults>>

-----------------------------------------------------------------------------
Far == -1      \* the hundred years a schedule that ran once is moved by

(* first is the next_run_at the row was inserted with.                     *)
Row == [ campaign : Campaign, period : Nat, first : Nat,
         next : Nat \cup {Far}, active : BOOLEAN ]

ASSUME NoRowAssumption == NoRow \notin Row

Job == [status : {"pending", "queued"}, run : Nat \cup {Far}]

PendingJob   == [status |-> "pending", run |-> Far]
QueuedJob(r) == [status |-> "queued",  run |-> r]

Batch(i) == {s \in Schedule : claimed[i][s] # NoRow}

Nothing == [s \in Schedule |-> NoRow]

NoCancel == [pc |-> "idle", todo |-> {}, held |-> {}]

(* A plausible slip: the SELECT without FOR UPDATE.                        *)
LockedByCancel(s) == \E c \in Campaign : s \in cancel[c].held

(* Rows locked by a transaction.                                           *)
Locked(s) ==
    \/ \E i \in Invocation : s \in Batch(i)
    \/ \E c \in Campaign : s \in cancel[c].held

Active(s) == sched[s] # NoRow /\ sched[s].active

Due(s) == Active(s) /\ sched[s].next # Far /\ sched[s].next <= now

Smaller(a, b) == IF a < b THEN a ELSE b

-----------------------------------------------------------------------------
Init ==
    /\ now = 0
    /\ status  = [c \in Campaign |-> "none"]
    /\ sched   = [s \in Schedule |-> NoRow]
    /\ jobs    = [s \in Schedule |-> <<>>]
    /\ claimed = [i \in Invocation |-> Nothing]
    /\ cancel  = [c \in Campaign |-> NoCancel]
    /\ commands = 0 /\ faults = 0

(* scheduleCampaign: a new campaign or, whatever its status, an old one;   *)
(* the schedule; and a job nobody will ever look at.  The start may be in  *)
(* the past.                                                               *)
ScheduleCampaign(s, c, p, start) ==
    /\ sched[s] = NoRow
    /\ status' = [status EXCEPT ![c] = IF @ = "none" THEN "scheduled" ELSE @]
    /\ sched'  = [sched EXCEPT ![s] =
                    [ campaign |-> c, period |-> p, first |-> start,
                      next |-> start, active |-> TRUE ]]
    /\ jobs'   = [jobs EXCEPT ![s] = <<PendingJob>>]
    /\ UNCHANGED <<now, claimed, cancel, commands, faults>>

Command == commands < MaxCommands /\ commands' = commands + 1

(* setScheduleActive waits for the row and then sets the one column.       *)
SetScheduleActive(s, active) ==
    /\ sched[s] # NoRow /\ ~Locked(s) /\ Command
    /\ sched' = [sched EXCEPT ![s].active = active]
    /\ UNCHANGED <<now, status, jobs, claimed, cancel, faults>>

(* cancelCampaign: the campaign, then the schedules its second UPDATE can  *)
(* see, each as soon as it is free, then the commit.                       *)
CancelStarts(c) ==
    /\ status[c] # "none" /\ cancel[c].pc = "idle" /\ Command
    /\ cancel' = [cancel EXCEPT ![c] =
                    [ pc |-> "locking", held |-> {},
                      todo |-> {s \in Schedule : sched[s] # NoRow /\ sched[s].campaign = c} ]]
    /\ UNCHANGED <<now, status, sched, jobs, claimed, faults>>

CancelLocks(c, s) ==
    /\ s \in cancel[c].todo /\ ~Locked(s)
    /\ cancel' = [cancel EXCEPT ![c].todo = @ \ {s}, ![c].held = @ \cup {s}]
    /\ UNCHANGED <<now, status, sched, jobs, claimed, commands, faults>>

CancelCommits(c) ==
    /\ cancel[c].pc = "locking" /\ cancel[c].todo = {}
    /\ status' = [status EXCEPT ![c] = "cancelled"]
    /\ sched'  = [s \in Schedule |-> IF s \in cancel[c].held
                                     THEN [sched[s] EXCEPT !.active = FALSE] ELSE sched[s]]
    /\ cancel' = [cancel EXCEPT ![c] = NoCancel]
    /\ UNCHANGED <<now, jobs, claimed, commands, faults>>

-----------------------------------------------------------------------------
(* materializeDueSchedules.  The SELECT locks as many due rows as its      *)
(* limit allows, in no particular order, and passes over locked ones.      *)
Claim(i) ==
    /\ Batch(i) = {}
    /\ \E B \in SUBSET {s \in Schedule : Due(s) /\ ~Locked(s)} :
          /\ B # {}
          /\ Cardinality(B) =
                Smaller(BatchLimit, Cardinality({s \in Schedule : Due(s) /\ ~Locked(s)}))
          /\ claimed' = [claimed EXCEPT ![i] =
                           [s \in Schedule |-> IF s \in B THEN sched[s] ELSE NoRow]]
    /\ UNCHANGED <<now, status, sched, jobs, cancel, commands, faults>>

(* A plausible slip: runs missed during an outage are skipped.             *)
AfterNow(r) == IF r.period = Once THEN Far ELSE now + r.period

(* The next run, from the row as the SELECT delivered it: the next  *)
(* occurrence after the run that was due, however late it is.              *)
AfterRun(r) == IF r.period = Once THEN Far ELSE r.next + r.period

Materialize(i) ==
    /\ Batch(i) # {}
    /\ jobs'  = [s \in Schedule |-> IF s \in Batch(i)
                    THEN Append(jobs[s], QueuedJob(claimed[i][s].next)) ELSE jobs[s]]
    /\ sched' = [s \in Schedule |-> IF s \in Batch(i)
                    THEN [sched[s] EXCEPT !.next = AfterRun(claimed[i][s]),
                                          !.active = sched[s].period # Once]
                    ELSE sched[s]]
    /\ claimed' = [claimed EXCEPT ![i] = Nothing]
    /\ UNCHANGED <<now, status, cancel, commands, faults>>

(* An exception or a crash: withTransaction rolls the whole batch back.    *)
RollBack(i) ==
    /\ Batch(i) # {}
    /\ faults < MaxFaults /\ faults' = faults + 1
    /\ claimed' = [claimed EXCEPT ![i] = Nothing]
    /\ UNCHANGED <<now, status, sched, jobs, cancel, commands>>

(* A plausible slip: the connection goes back to the pool as it is.        *)
CancelForgotten(c) ==
    /\ cancel[c].pc # "idle"
    /\ faults < MaxFaults /\ faults' = faults + 1
    /\ cancel' = [cancel EXCEPT ![c].pc = "idle", ![c].todo = {}]
    /\ UNCHANGED <<now, status, sched, jobs, claimed, commands>>

CancelRollsBack(c) ==
    /\ cancel[c].pc # "idle"
    /\ faults < MaxFaults /\ faults' = faults + 1
    /\ cancel' = [cancel EXCEPT ![c] = NoCancel]
    /\ UNCHANGED <<now, status, sched, jobs, claimed, commands>>

Tick ==
    /\ now < Horizon /\ now' = now + 1
    /\ UNCHANGED <<status, sched, jobs, claimed, cancel, commands, faults>>

Scheduler(i) == Claim(i) \/ Materialize(i)

Cancelling(c) == (\E s \in Schedule : CancelLocks(c, s)) \/ CancelCommits(c)

Next ==
    \/ \E s \in Schedule, c \in Campaign, p \in Periods, start \in 0..Horizon :
          ScheduleCampaign(s, c, p, start)
    \/ \E s \in Schedule, active \in BOOLEAN : SetScheduleActive(s, active)
    \/ \E c \in Campaign : CancelStarts(c) \/ Cancelling(c) \/ CancelRollsBack(c)
    \/ \E i \in Invocation : Scheduler(i) \/ RollBack(i)
    \/ Tick

Spec == Init /\ [][Next]_vars

(* The timer keeps starting invocations, and a transaction goes on to its  *)
(* end unless it is rolled back.                                           *)
Fairness ==
    /\ \A i \in Invocation : WF_vars(Scheduler(i))
    /\ \A c \in Campaign : WF_vars(Cancelling(c))

FairSpec == Spec /\ Fairness

-----------------------------------------------------------------------------
(* Every variable has the type its comment says.                           *)
TypeOK ==
    /\ now \in Nat /\ commands \in Nat /\ faults \in Nat
    /\ status  \in [Campaign -> {"none", "scheduled", "cancelled"}]
    /\ sched   \in [Schedule -> Row \cup {NoRow}]
    /\ jobs    \in [Schedule -> Seq(Job)]
    /\ claimed \in [Invocation -> [Schedule -> Row \cup {NoRow}]]
    /\ cancel  \in [Campaign -> [ pc : {"idle", "locking"}, todo : SUBSET Schedule,
                                  held : SUBSET Schedule ]]

(* However many invocations overlap, roll back or come late, the jobs of a *)
(* schedule are its runs, each once and in order: the first run, then one  *)
(* period after another without a gap, and next_run_at is the run after    *)
(* the last.  A schedule without recurrence has one run.                   *)
RunAfter(s, r) == IF sched[s].period = Once THEN Far ELSE r + sched[s].period

EachRunOnce ==
    \A s \in Schedule : sched[s] # NoRow =>
        LET n == Len(jobs[s]) IN
        /\ n >= 1 /\ jobs[s][1] = PendingJob
        /\ \A k \in 2..n : jobs[s][k] =
              QueuedJob(IF k = 2 THEN sched[s].first ELSE RunAfter(s, jobs[s][k - 1].run))
        /\ sched[s].next = IF n = 1 THEN sched[s].first ELSE RunAfter(s, jobs[s][n].run)
        /\ sched[s].period = Once => n <= 2

(* A schedule that is paused stays as it is until it is resumed: no run    *)
(* that was claimed before becomes a job after, and no invocation sets it  *)
(* active again when it writes the row back.                               *)
PauseHolds ==
    [][\A s \in Schedule : sched[s] # NoRow /\ ~sched[s].active =>
          /\ jobs'[s] = jobs[s]
          /\ sched'[s].next = sched[s].next]_vars

(* Every run that is due becomes a job, in spite of invocations rolled     *)
(* back, unless its schedule is paused or cancelled meanwhile.             *)
DueRunsAreMade ==
    \A s \in Schedule, r \in 0..Horizon :
        Due(s) /\ sched[s].next = r ~>
            ~Active(s) \/ \E k \in DOMAIN jobs[s] : jobs[s][k] = QueuedJob(r)

(* What the web interface says of a cancellation: it stops the campaign's  *)
(* schedules and prevents further materialization.                         *)
CancelIsFinal ==
    [][\A s \in Schedule : sched[s] # NoRow /\ status[sched[s].campaign] = "cancelled" =>
          jobs'[s] = jobs[s]]_vars
=============================================================================
