--------------------------- MODULE CircuitBreaker ---------------------------
(***************************************************************************)
(* The circuit breaker of one carrier.  Its state is one JSON value in     *)
(* Redis that expires, a probe key that expires, and a copy in PostgreSQL  *)
(* that every process reads when it starts.  Nothing is locked: a failure  *)
(* is a GET and a SET, a permission to dispatch up to three GETs and SETs, *)
(* and any number of dispatches in any number of processes do them at      *)
(* once.                                                                   *)
(*                                                                         *)
(* Time is counted in ticks.  An absolute time (nextProbeAt) is kept as    *)
(* the ticks left until then: 0 once it is over, Never for null.  A key    *)
(* with no ticks left goes before the next tick; until then it can still   *)
(* be read, as nextProbeAt is a time in milliseconds and the key's expiry  *)
(* is rounded up to a second.  Routing, which avoids open circuits, and    *)
(* the carrier are left open: a dispatch may start at any time, for a      *)
(* message routed earlier or one allowed to probe, and end either way.     *)
(***************************************************************************)
EXTENDS Integers

CONSTANTS
    Slots,          \* concurrent callers of the breaker
    Threshold,      \* circuitBreaker.failureThreshold
    OpenTicks,      \* circuitBreaker.openSeconds
    HalfTicks,      \* circuitBreaker.halfOpenProbeSeconds
    LinkTicks,      \* providers.smppEnquireLinkSeconds
    MaxOverrides,   \* bound on states set by operators and SMPP sessions
    MaxRestarts     \* bound on processes that start

ASSUME TimeAssumption ==
    {Threshold, OpenTicks, HalfTicks, LinkTicks} \subseteq Nat \ {0}
ASSUME BoundAssumption == MaxOverrides \in Nat /\ MaxRestarts \in Nat

VARIABLES
    snap,        \* the value under circuit:provider:<id>, with its time to live
    probe,       \* time to live of the probe key; 0 when there is none
    saved,       \* the provider_circuit_state row
    slot,        \* what each caller is doing
    overrides, restarts

vars == <<snap, probe, saved, slot, overrides, restarts>>

-----------------------------------------------------------------------------
Never  == -1
Left   == Nat \cup {Never}
States == {"closed", "open", "half_open"}

(* failureCount is only ever compared with the threshold, so it stops there.*)
Snapshot == [state : States, failures : 0..Threshold, probeIn : Left]

(* defaultSnapshot: what a missing key means.                              *)
Default == [state |-> "closed", failures |-> 0, probeIn |-> Never]

NoKey == [state |-> "none"]

(* A plausible slip: every value lives as long as a probe.                 *)
TtlOfProbe(s) == HalfTicks

Larger(a, b) == IF a > b THEN a ELSE b

(* calculateSnapshotTtlSeconds.                                            *)
Ttl(s) ==
    IF s.state = "closed" THEN Larger(OpenTicks, HalfTicks)
    ELSE IF s.probeIn # Never THEN Larger(1, s.probeIn)
    ELSE IF s.state = "half_open" THEN HalfTicks ELSE OpenTicks

Stored(s, ttl) == [value |-> s, ttl |-> ttl]

Persist(s) == snap' = Stored(s, Ttl(s))

(* getSnapshot.                                                            *)
Current == IF snap = NoKey THEN Default ELSE snap.value

-----------------------------------------------------------------------------
Idle == [pc |-> "idle", read |-> Default]

At(d, pc) == slot[d].pc = pc

Goto(d, pc) == slot' = [slot EXCEPT ![d].pc = pc]

GotoWith(d, pc, s) == slot' = [slot EXCEPT ![d] = [pc |-> pc, read |-> s]]

Init ==
    /\ snap = NoKey /\ probe = 0 /\ saved = NoKey
    /\ slot = [d \in Slots |-> Idle]
    /\ overrides = 0 /\ restarts = 0

(* allowDispatch: the first look.                                          *)
Ask(d) ==
    /\ At(d, "idle")
    /\ LET due == Current.state = "open" /\ Current.probeIn = 0
       IN GotoWith(d, IF Current.state = "closed" THEN "call"
                      ELSE IF due THEN "halve" ELSE "look", Current)
    /\ UNCHANGED <<snap, probe, saved, overrides, restarts>>

(* The cool-down is over: half-open, on top of what was read.              *)
Halve(d) ==
    /\ At(d, "halve")
    /\ Persist([slot[d].read EXCEPT !.state = "half_open", !.probeIn = HalfTicks])
    /\ Goto(d, "look")
    /\ UNCHANGED <<probe, saved, overrides, restarts>>

(* The second look decides.                                                *)
Look(d) ==
    /\ At(d, "look")
    /\ Goto(d, CASE Current.state = "closed"    -> "call"
                 [] Current.state = "open"      -> "failed"
                 [] Current.state = "half_open" -> "probe")
    /\ UNCHANGED <<snap, probe, saved, overrides, restarts>>

(* SET NX EX: one caller gets the probe, the others are refused.           *)
TakeProbe(d) ==
    /\ At(d, "probe")
    /\ IF probe = 0 THEN probe' = HalfTicks /\ Goto(d, "call")
                    ELSE UNCHANGED probe    /\ Goto(d, "failed")
    /\ UNCHANGED <<snap, saved, overrides, restarts>>

(* The carrier answers, or the rate limiter or the connector throws.  A    *)
(* refusal of the breaker takes the same way as a failure.                 *)
Call(d) ==
    /\ At(d, "call")
    /\ Goto(d, "succeeded") \/ Goto(d, "failed")
    /\ UNCHANGED <<snap, probe, saved, overrides, restarts>>

(* registerSuccess: SET, then DEL of the probe key.                        *)
Succeed(d) ==
    /\ At(d, "succeeded")
    /\ Persist(Default)
    /\ GotoWith(d, "clear", Default)
    /\ UNCHANGED <<probe, saved, overrides, restarts>>

ClearProbe(d) ==
    /\ At(d, "clear")
    /\ probe' = 0
    /\ Goto(d, "save")
    /\ UNCHANGED <<snap, saved, overrides, restarts>>

(* registerFailure: GET, then SET of what follows from it.                 *)
ReadFailed(d) ==
    /\ At(d, "failed")
    /\ GotoWith(d, "count", Current)
    /\ UNCHANGED <<snap, probe, saved, overrides, restarts>>

(* A plausible slip: > for >=.                                             *)
CountedLate(s) ==
    LET n == IF s.failures < Threshold THEN s.failures + 1 ELSE Threshold
        opens == s.failures >= Threshold
    IN [ state |-> IF opens THEN "open" ELSE s.state, failures |-> n,
         probeIn |-> IF opens THEN OpenTicks ELSE s.probeIn ]

Counted(s) ==
    LET n == IF s.failures < Threshold THEN s.failures + 1 ELSE Threshold
        next == IF n >= Threshold THEN "open" ELSE s.state
    IN [ state |-> next, failures |-> n,
         probeIn |-> IF next = "open" THEN OpenTicks ELSE s.probeIn ]

CountFailed(d) ==
    /\ At(d, "count")
    /\ Persist(Counted(slot[d].read))
    /\ GotoWith(d, "save", Counted(slot[d].read))
    /\ UNCHANGED <<probe, saved, overrides, restarts>>

(* persistCircuitSnapshot, whatever has happened to the key since.         *)
Save(d) ==
    /\ At(d, "save")
    /\ saved' = slot[d].read
    /\ GotoWith(d, "idle", Default)
    /\ UNCHANGED <<snap, probe, overrides, restarts>>

-----------------------------------------------------------------------------
(* setState, which keeps the key for at least the ttl it is called with.   *)
Override(s, ttl) ==
    LET new == [ state |-> s, failures |-> IF s = "closed" THEN 0 ELSE 1,
                 probeIn |-> IF s = "open" THEN ttl ELSE Never ]
    IN
    /\ overrides < MaxOverrides /\ overrides' = overrides + 1
    /\ snap' = Stored(new, Larger(ttl, Ttl(new)))
    /\ UNCHANGED <<probe, restarts>>

(* An operator's override is copied to PostgreSQL, a session's is not.     *)
Operate(d, s) ==
    /\ At(d, "idle")
    /\ Override(s, OpenTicks)
    /\ GotoWith(d, "save", snap'.value)
    /\ UNCHANGED saved

SessionLost(s) ==
    /\ s \in {"half_open", "open"}
    /\ Override(s, LinkTicks)
    /\ UNCHANGED <<saved, slot>>

(* A process starts (onModuleInit): SELECT, GET, and SET if there was      *)
(* nothing to get or something older than the row.  Which is older, the    *)
(* clocks of the processes that set lastChangedAt say: left open, as SETs  *)
(* may overtake each other and clocks disagree.                            *)
Restart(d) ==
    /\ At(d, "idle") /\ saved # NoKey
    /\ restarts < MaxRestarts /\ restarts' = restarts + 1
    /\ GotoWith(d, "warm", saved)
    /\ UNCHANGED <<snap, probe, saved, overrides>>

Warm(d) ==
    /\ At(d, "warm")
    /\ \/ Goto(d, "hydrate")
       \/ snap # NoKey /\ GotoWith(d, "idle", Default)
    /\ UNCHANGED <<snap, probe, saved, overrides, restarts>>

Hydrate(d) ==
    /\ At(d, "hydrate")
    /\ Persist(slot[d].read)
    /\ GotoWith(d, "idle", Default)
    /\ UNCHANGED <<probe, saved, overrides, restarts>>

(* A process ends in the middle of anything.                               *)
Die(d) ==
    /\ ~At(d, "idle")
    /\ GotoWith(d, "idle", Default)
    /\ UNCHANGED <<snap, probe, saved, overrides, restarts>>

-----------------------------------------------------------------------------
Less(n) == IF n > 0 THEN n - 1 ELSE n

Aged(s) == IF s = NoKey THEN s ELSE [s EXCEPT !.probeIn = Less(@)]

Tick ==
    /\ snap # NoKey => snap.ttl > 0
    /\ snap' = IF snap = NoKey THEN snap ELSE Stored(Aged(snap.value), snap.ttl - 1)
    /\ probe' = Less(probe)
    /\ saved' = Aged(saved)
    /\ slot'  = [d \in Slots |-> [slot[d] EXCEPT !.read = Aged(@)]]
    /\ UNCHANGED <<overrides, restarts>>

(* A plausible slip: an open circuit is stored without an expiry.          *)
ExpireUnlessOpen ==
    /\ snap # NoKey /\ snap.ttl = 0 /\ snap.value.state # "open"
    /\ snap' = NoKey
    /\ UNCHANGED <<probe, saved, slot, overrides, restarts>>

Expire ==
    /\ snap # NoKey /\ snap.ttl = 0
    /\ snap' = NoKey
    /\ UNCHANGED <<probe, saved, slot, overrides, restarts>>

Register(d) ==
    Succeed(d) \/ ClearProbe(d) \/ ReadFailed(d) \/ CountFailed(d) \/ Save(d)

Dispatch(d) ==
    Ask(d) \/ Halve(d) \/ Look(d) \/ TakeProbe(d) \/ Call(d) \/ Register(d)

Next ==
    \/ \E d \in Slots : \/ Dispatch(d) \/ Restart(d) \/ Warm(d) \/ Hydrate(d) \/ Die(d)
                        \/ \E s \in States : Operate(d, s)
    \/ \E s \in States : SessionLost(s)
    \/ Tick \/ Expire

Spec == Init /\ [][Next]_vars

(* Time passes and Redis expires its keys; nobody has to dispatch.         *)
BreakerFairness == WF_vars(Tick) /\ WF_vars(Expire)

FairSpec == Spec /\ BreakerFairness

-----------------------------------------------------------------------------
Steps == {"idle", "halve", "look", "probe", "call", "succeeded", "clear",
          "failed", "count", "save", "warm", "hydrate"}

(* Every variable has the type its comment says.                           *)
TypeOK ==
    /\ snap \in [value : Snapshot, ttl : Nat] \cup {NoKey}
    /\ probe \in Nat
    /\ saved \in Snapshot \cup {NoKey}
    /\ slot \in [Slots -> [pc : Steps, read : Snapshot]]
    /\ overrides \in Nat /\ restarts \in Nat

(* An open circuit is not forgotten before its cool-down is over: its key  *)
(* lives at least until nextProbeAt, however it was opened and whoever     *)
(* overwrote it.                                                           *)
CoolsDown ==
    snap # NoKey /\ snap.value.state = "open" => snap.ttl >= snap.value.probeIn

(* As long as nobody sets a state by hand, a circuit is closed exactly if  *)
(* it has fewer failures than the threshold - in Redis, in PostgreSQL and  *)
(* in whatever a caller has read, in spite of all lost updates.  So the    *)
(* threshold opens it, and one failed probe opens it again.                *)
Consistent(s) == s.state = "closed" <=> s.failures < Threshold

OpensAtThreshold ==
    overrides = 0 =>
        /\ Consistent(Current)
        /\ saved # NoKey => Consistent(saved)
        /\ \A d \in Slots : Consistent(slot[d].read)

(* Routing avoids an open circuit, so it must not take a dispatch to close *)
(* it: once nobody touches it, it is closed in the end.                    *)
QuietCloses ==
    <>[](\A d \in Slots : At(d, "idle")) => <>[](Current.state = "closed")

(* What the runbook asks: an open circuit stays in place until a success   *)
(* shows that the carrier recovered (or an operator says so).              *)
OpenUntilRecovery ==
    [][Current.state = "open" /\ Current'.state = "closed" =>
          \/ \E d \in Slots : At(d, "succeeded")
          \/ overrides' # overrides]_vars
=============================================================================
