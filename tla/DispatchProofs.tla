--------------------------- MODULE DispatchProofs ---------------------------
(***************************************************************************)
(* Theorems about what stands between a dispatch and a carrier: the        *)
(* circuit breaker, the caches of rules, and the sessions of the           *)
(* connectors.                                                             *)
(***************************************************************************)
EXTENDS CircuitBreaker, RuleCache, Connectors, TLAPS

-----------------------------------------------------------------------------
(* What holds of the circuit breaker for any number of callers, any        *)
(* threshold and any times.  Neither invariant is inductive without the    *)
(* types; OpensAtThreshold also needs to know that a caller about to set   *)
(* half-open read an open circuit.                                         *)

(* A caller that will write 'half_open' builds it from an open circuit.    *)
HalvesOpen == \A d \in Slots : At(d, "halve") => slot[d].read.state = "open"

BreakerIInv == TypeOK /\ CoolsDown /\ HalvesOpen /\ OpensAtThreshold

-----------------------------------------------------------------------------
LEMMA Constants == /\ Threshold \in Nat /\ Threshold > 0
                   /\ OpenTicks \in Nat /\ OpenTicks > 0
                   /\ HalfTicks \in Nat /\ HalfTicks > 0
                   /\ LinkTicks \in Nat /\ LinkTicks > 0
                   /\ MaxOverrides \in Nat /\ MaxRestarts \in Nat
  BY TimeAssumption, BoundAssumption

(* The time to live of an open snapshot reaches as far as its next probe.  *)
LEMMA TtlLong == ASSUME NEW s \in Snapshot
                 PROVE  Ttl(s) \in Nat /\ (s.state = "open" => Ttl(s) >= s.probeIn)
  BY Constants DEF Ttl, Larger, Snapshot, Left, Never

LEMMA DefaultType == Default \in Snapshot /\ Consistent(Default)
  BY Constants DEF Default, Snapshot, States, Left, Never, Consistent

LEMMA CurrentType == ASSUME TypeOK PROVE Current \in Snapshot
  BY DefaultType DEF TypeOK, Current

LEMMA CountedType ==
    ASSUME NEW s \in Snapshot
    PROVE  Counted(s) \in Snapshot /\ (Consistent(s) => Consistent(Counted(s)))
  BY Constants DEF Counted, Snapshot, States, Left, Never, Consistent

LEMMA AgedType ==
    ASSUME NEW s \in Snapshot
    PROVE  /\ Aged(s) \in Snapshot
           /\ Consistent(s) => Consistent(Aged(s))
           /\ Aged(s).state = s.state
           /\ Aged(s).probeIn = Less(s.probeIn)
  BY DEF Aged, NoKey, Snapshot, Left, Never, Less, Consistent

(* A snapshot that is written keeps what the invariant says of the key.    *)
LEMMA PersistInv ==
    ASSUME NEW s \in Snapshot, Persist(s)
    PROVE  /\ snap' \in [value : Snapshot, ttl : Nat]
           /\ CoolsDown'
           /\ Current' = s
  BY TtlLong DEF Persist, Stored, CoolsDown, Current, NoKey

LEMMA GotoType ==
    ASSUME TypeOK, NEW d \in Slots, NEW pc \in Steps, NEW s \in Snapshot, GotoWith(d, pc, s)
    PROVE  /\ slot' \in [Slots -> [pc : Steps, read : Snapshot]]
           /\ \A e \in Slots : slot'[e] = IF e = d THEN [pc |-> pc, read |-> s] ELSE slot[e]
  BY DEF TypeOK, GotoWith

LEMMA GotoKeeps ==
    ASSUME TypeOK, NEW d \in Slots, NEW pc \in Steps, Goto(d, pc)
    PROVE  /\ slot' \in [Slots -> [pc : Steps, read : Snapshot]]
           /\ \A e \in Slots : slot'[e] = IF e = d THEN [pc |-> pc, read |-> slot[d].read] ELSE slot[e]
  BY DEF TypeOK, Goto

(* Steps that leave the key, the row and what was read alone.              *)
LEMMA LookingInv ==
    ASSUME BreakerIInv, NEW d \in Slots, NEW pc \in Steps \ {"halve"}, Goto(d, pc),
           probe' \in Nat, UNCHANGED <<snap, saved, overrides, restarts>>
    PROVE  BreakerIInv'
  <1>1. slot' \in [Slots -> [pc : Steps, read : Snapshot]]
    BY GotoKeeps DEF BreakerIInv
  <1>2. \A e \in Slots : slot'[e] = IF e = d THEN [pc |-> pc, read |-> slot[d].read] ELSE slot[e]
    BY GotoKeeps DEF BreakerIInv
  <1>3. TypeOK' /\ CoolsDown' /\ Current' = Current
    BY <1>1 DEF BreakerIInv, TypeOK, CoolsDown, Current
  <1>4. HalvesOpen'
    BY <1>2 DEF BreakerIInv, HalvesOpen, At
  <1>5. OpensAtThreshold'
    BY <1>2, <1>3 DEF BreakerIInv, OpensAtThreshold
  <1> QED BY <1>3, <1>4, <1>5 DEF BreakerIInv

(* Steps of a caller that remembers a snapshot and leaves the key alone.   *)
LEMMA RememberingInv ==
    ASSUME BreakerIInv, NEW d \in Slots, NEW pc \in Steps, NEW s \in Snapshot, GotoWith(d, pc, s),
           pc = "halve" => s.state = "open",
           overrides = 0 => Consistent(s),
           saved' \in Snapshot \cup {NoKey},
           overrides = 0 /\ saved' # NoKey => Consistent(saved'),
           restarts' \in Nat, UNCHANGED <<snap, probe, overrides>>
    PROVE  BreakerIInv'
  <1>1. slot' \in [Slots -> [pc : Steps, read : Snapshot]]
    BY GotoType DEF BreakerIInv
  <1>2. \A e \in Slots : slot'[e] = IF e = d THEN [pc |-> pc, read |-> s] ELSE slot[e]
    BY GotoType DEF BreakerIInv
  <1>3. TypeOK' /\ CoolsDown' /\ Current' = Current
    BY <1>1 DEF BreakerIInv, TypeOK, CoolsDown, Current
  <1>4. HalvesOpen'
    BY <1>2 DEF BreakerIInv, HalvesOpen, At
  <1>5. OpensAtThreshold'
    BY <1>2, <1>3 DEF BreakerIInv, OpensAtThreshold
  <1> QED BY <1>3, <1>4, <1>5 DEF BreakerIInv

(* Steps of a caller that writes the key.                                  *)
LEMMA WritingInv ==
    ASSUME BreakerIInv, NEW d \in Slots, NEW s \in Snapshot, Persist(s),
           NEW pc \in Steps \ {"halve"}, NEW t \in Snapshot, GotoWith(d, pc, t),
           overrides = 0 => Consistent(s) /\ Consistent(t),
           UNCHANGED <<probe, saved, overrides, restarts>>
    PROVE  BreakerIInv'
  <1>1. slot' \in [Slots -> [pc : Steps, read : Snapshot]]
    BY GotoType DEF BreakerIInv
  <1>2. \A e \in Slots : slot'[e] = IF e = d THEN [pc |-> pc, read |-> t] ELSE slot[e]
    BY GotoType DEF BreakerIInv
  <1>3. snap' \in [value : Snapshot, ttl : Nat] /\ CoolsDown' /\ Current' = s
    BY PersistInv
  <1>4. TypeOK'
    BY <1>1, <1>3 DEF BreakerIInv, TypeOK
  <1>5. HalvesOpen'
    BY <1>2 DEF BreakerIInv, HalvesOpen, At
  <1>6. OpensAtThreshold'
    BY <1>2, <1>3 DEF BreakerIInv, OpensAtThreshold
  <1> QED BY <1>3, <1>4, <1>5, <1>6 DEF BreakerIInv

LEMMA GotoRemembers ==
    ASSUME TypeOK, NEW d \in Slots, NEW pc \in Steps, Goto(d, pc)
    PROVE  GotoWith(d, pc, slot[d].read)
  <1>1. slot[d] \in [pc : Steps, read : Snapshot]
    BY DEF TypeOK
  <1>2. [slot[d] EXCEPT !.pc = pc] = [pc |-> pc, read |-> slot[d].read]
    BY <1>1
  <1> QED BY <1>2 DEF Goto, GotoWith

(* A state set by hand: the promise about the threshold ends there.        *)
LEMMA OverrideInv ==
    ASSUME BreakerIInv, NEW st \in States, NEW ttl \in Nat \ {0}, Override(st, ttl),
           saved' = saved, slot' \in [Slots -> [pc : Steps, read : Snapshot]], HalvesOpen'
    PROVE  BreakerIInv' /\ snap'.value \in Snapshot
  <1> DEFINE new == [ state |-> st, failures |-> IF st = "closed" THEN 0 ELSE 1,
                      probeIn |-> IF st = "open" THEN ttl ELSE Never ]
  <1>1. new \in Snapshot
    BY Constants DEF Snapshot, States, Left, Never
  <1>2. Ttl(new) \in Nat
    BY <1>1, TtlLong
  <1>3. snap' = [value |-> new, ttl |-> Larger(ttl, Ttl(new))]
    BY DEF Override, Stored
  <1>4. Larger(ttl, Ttl(new)) \in Nat /\ Larger(ttl, Ttl(new)) >= ttl
    BY <1>2 DEF Larger
  <1>5. snap' \in [value : Snapshot, ttl : Nat]
    BY <1>1, <1>3, <1>4
  <1>6. CoolsDown'
    BY <1>3, <1>4 DEF CoolsDown
  <1>7. overrides' \in Nat /\ overrides' # 0
    BY DEF BreakerIInv, TypeOK, Override
  <1>8. TypeOK' /\ OpensAtThreshold'
    BY <1>5, <1>7 DEF BreakerIInv, TypeOK, OpensAtThreshold, Override
  <1> QED BY <1>3, <1>1, <1>6, <1>8 DEF BreakerIInv

(* Time passes for the key, the row and what was read alike.               *)
LEMMA TickInv ==
    ASSUME BreakerIInv, Tick
    PROVE  BreakerIInv'
  <1>1. \A d \in Slots : slot[d] \in [pc : Steps, read : Snapshot]
    BY DEF BreakerIInv, TypeOK
  <1>2. \A d \in Slots : /\ slot'[d] = [pc |-> slot[d].pc, read |-> slot'[d].read]
                         /\ slot'[d].pc = slot[d].pc
                         /\ slot'[d].read = Aged(slot[d].read)
    <2> TAKE d \in Slots
    <2>1. slot'[d] = [slot[d] EXCEPT !.read = Aged(slot[d].read)]
      BY DEF Tick
    <2> DEFINE a == Aged(slot[d].read)
    <2> HIDE DEF a
    <2>2. [slot[d] EXCEPT !.read = a] = [pc |-> slot[d].pc, read |-> a]
      BY <1>1
    <2>3. slot'[d] = [pc |-> slot[d].pc, read |-> a]
      BY <2>1, <2>2 DEF a
    <2>4. slot'[d].pc = slot[d].pc /\ slot'[d].read = a
      BY <2>3
    <2> QED BY <2>3, <2>4 DEF a
  <1>3. \A d \in Slots : slot'[d] \in [pc : Steps, read : Snapshot]
    <2> TAKE d \in Slots
    <2>1. slot[d].read \in Snapshot /\ slot[d].pc \in Steps
      BY <1>1
    <2>2. Aged(slot[d].read) \in Snapshot
      BY <2>1, AgedType
    <2> DEFINE r == slot'[d].read
    <2>3. r \in Snapshot
      BY <1>2, <2>2
    <2>4. slot'[d] = [pc |-> slot[d].pc, read |-> r]
      BY <1>2
    <2> HIDE DEF r
    <2>5. [pc |-> slot[d].pc, read |-> r] \in [pc : Steps, read : Snapshot]
      BY <2>1, <2>3
    <2> QED BY <2>4, <2>5
  <1>4. slot' \in [Slots -> [pc : Steps, read : Snapshot]]
    BY <1>3 DEF Tick
  <1>5. saved' \in Snapshot \cup {NoKey}
    BY AgedType DEF BreakerIInv, TypeOK, Tick, Aged
  <1>6. probe' \in Nat
    BY DEF BreakerIInv, TypeOK, Tick, Less
  <1>7. snap' \in [value : Snapshot, ttl : Nat] \cup {NoKey}
    BY AgedType DEF BreakerIInv, TypeOK, Tick, Stored
  <1>8. TypeOK'
    BY <1>4, <1>5, <1>6, <1>7 DEF BreakerIInv, TypeOK, Tick
  <1>9. CoolsDown'
    <2>1. CASE snap = NoKey
      BY <2>1 DEF Tick, CoolsDown
    <2>2. CASE snap # NoKey
      <3>1. snap.value \in Snapshot /\ snap.ttl \in Nat /\ snap.ttl > 0
        BY <2>2 DEF BreakerIInv, TypeOK, Tick
      <3>2. snap' = [value |-> Aged(snap.value), ttl |-> snap.ttl - 1]
        BY <2>2 DEF Tick, Stored
      <3>3. Aged(snap.value).state = snap.value.state
            /\ Aged(snap.value).probeIn = Less(snap.value.probeIn)
        BY <3>1, AgedType
      <3>4. snap.value.probeIn \in Nat \cup {-1}
        BY <3>1 DEF Snapshot, Left, Never
      <3> QED
        BY <2>2, <3>1, <3>2, <3>3, <3>4 DEF BreakerIInv, CoolsDown, Less
    <2> QED BY <2>1, <2>2
  <1>10. HalvesOpen'
    <2> SUFFICES ASSUME NEW d \in Slots, At(d, "halve")'
                 PROVE  slot'[d].read.state = "open"
      BY DEF HalvesOpen
    <2>1. slot[d].pc = "halve" /\ slot[d].read \in Snapshot
      BY <1>1, <1>2 DEF At
    <2>2. slot[d].read.state = "open"
      BY <2>1 DEF BreakerIInv, HalvesOpen, At
    <2>3. Aged(slot[d].read).state = "open"
      BY <2>1, <2>2, AgedType
    <2> QED BY <1>2, <2>3
  <1>11. ASSUME overrides' = 0 PROVE Consistent(Current')
    <2>1. overrides = 0
      BY <1>11 DEF Tick
    <2>2. CASE snap = NoKey
      BY <2>2, DefaultType DEF Tick, Current
    <2>3. CASE snap # NoKey
      <3>1. snap.value \in Snapshot /\ Current = snap.value
        BY <2>3 DEF BreakerIInv, TypeOK, Current
      <3>2. Current' = Aged(snap.value)
        BY <2>3 DEF Tick, Stored, Current, NoKey
      <3> QED BY <2>1, <3>1, <3>2, AgedType DEF BreakerIInv, OpensAtThreshold
    <2> QED BY <2>2, <2>3
  <1>12. ASSUME overrides' = 0, saved' # NoKey PROVE Consistent(saved')
    BY <1>12, AgedType DEF BreakerIInv, TypeOK, Tick, OpensAtThreshold, Aged
  <1>13. ASSUME overrides' = 0, NEW d \in Slots PROVE Consistent(slot'[d].read)
    BY <1>13, <1>1, <1>2, AgedType DEF BreakerIInv, OpensAtThreshold, Tick
  <1>14. OpensAtThreshold'
    BY <1>11, <1>12, <1>13 DEF OpensAtThreshold
  <1> QED BY <1>8, <1>9, <1>10, <1>14 DEF BreakerIInv

-----------------------------------------------------------------------------
LEMMA InitInv == Init => BreakerIInv
  BY DefaultType DEF Init, BreakerIInv, TypeOK, CoolsDown, HalvesOpen, OpensAtThreshold,
                     Idle, At, Current, Steps, NoKey

(* What a caller has in hand.                                              *)
LEMMA ReadFacts ==
    ASSUME BreakerIInv, NEW d \in Slots
    PROVE  /\ slot[d].read \in Snapshot
           /\ overrides = 0 => Consistent(slot[d].read)
           /\ Current \in Snapshot
           /\ overrides = 0 => Consistent(Current)
           /\ saved \in Snapshot \cup {NoKey} /\ restarts \in Nat /\ probe \in Nat
           /\ overrides = 0 /\ saved # NoKey => Consistent(saved)
  BY CurrentType DEF BreakerIInv, TypeOK, OpensAtThreshold

(* allowDispatch, and the call to the carrier.                             *)
LEMMA AllowInv ==
    ASSUME BreakerIInv, NEW d \in Slots, Ask(d) \/ Halve(d) \/ Look(d) \/ TakeProbe(d) \/ Call(d)
    PROVE  BreakerIInv'
  <1>1. CASE Ask(d)
    <2> DEFINE due == Current.state = "open" /\ Current.probeIn = 0
               pc  == IF Current.state = "closed" THEN "call"
                      ELSE IF due THEN "halve" ELSE "look"
    <2>1. GotoWith(d, pc, Current) /\ pc \in Steps /\ (pc = "halve" => Current.state = "open")
      BY <1>1 DEF Ask, Steps
    <2>2. UNCHANGED <<snap, probe, saved, overrides, restarts>>
      BY <1>1 DEF Ask
    <2> HIDE DEF pc
    <2> QED BY <2>1, <2>2, ReadFacts, RememberingInv
  <1>2. CASE Halve(d)
    <2> DEFINE s == [slot[d].read EXCEPT !.state = "half_open", !.probeIn = HalfTicks]
    <2>1. slot[d].read \in Snapshot /\ slot[d].read.state = "open"
          /\ (overrides = 0 => Consistent(slot[d].read))
      BY <1>2, ReadFacts DEF Halve, BreakerIInv, HalvesOpen
    <2>2. s \in Snapshot /\ (overrides = 0 => Consistent(s))
      BY <2>1, Constants DEF Snapshot, States, Left, Consistent
    <2>3. GotoWith(d, "look", slot[d].read)
      BY <1>2, GotoRemembers DEF Halve, BreakerIInv, Steps
    <2>4. Persist(s) /\ UNCHANGED <<probe, saved, overrides, restarts>>
      BY <1>2 DEF Halve
    <2>5. "look" \in Steps \ {"halve"}
      BY DEF Steps
    <2> HIDE DEF s
    <2> QED BY <2>1, <2>2, <2>3, <2>4, <2>5, WritingInv
  <1>3. CASE Look(d)
    <2>1. Current.state \in States
      BY ReadFacts DEF Snapshot
    <2>2. \E pc \in Steps \ {"halve"} : Goto(d, pc)
      BY <1>3, <2>1 DEF Look, States, Steps
    <2> QED BY <1>3, <2>2, ReadFacts, LookingInv DEF Look
  <1>4. CASE TakeProbe(d)
    <2>1. "call" \in Steps \ {"halve"} /\ "failed" \in Steps \ {"halve"}
      BY DEF Steps
    <2>2. (Goto(d, "call") \/ Goto(d, "failed")) /\ probe' \in Nat
      BY <1>4, ReadFacts, Constants DEF TakeProbe
    <2> QED BY <1>4, <2>1, <2>2, LookingInv DEF TakeProbe
  <1>5. CASE Call(d)
    <2>1. "succeeded" \in Steps \ {"halve"} /\ "failed" \in Steps \ {"halve"}
      BY DEF Steps
    <2> QED BY <1>5, <2>1, ReadFacts, LookingInv DEF Call
  <1> QED BY <1>1, <1>2, <1>3, <1>4, <1>5

(* registerSuccess, registerFailure and persistCircuitSnapshot.            *)
LEMMA RegisterInv ==
    ASSUME BreakerIInv, NEW d \in Slots, Register(d)
    PROVE  BreakerIInv'
  <1> USE DefaultType
  <1>0. {"clear", "save", "count", "idle"} \subseteq Steps \ {"halve"}
    BY DEF Steps
  <1>1. CASE Succeed(d)
    BY <1>0, <1>1, WritingInv DEF Succeed
  <1>2. CASE ClearProbe(d)
    BY <1>0, <1>2, LookingInv DEF ClearProbe
  <1>3. CASE ReadFailed(d)
    BY <1>0, <1>3, ReadFacts, RememberingInv DEF ReadFailed
  <1>4. CASE CountFailed(d)
    BY <1>0, <1>4, ReadFacts, CountedType, WritingInv DEF CountFailed
  <1>5. CASE Save(d)
    BY <1>0, <1>5, ReadFacts, RememberingInv DEF Save
  <1> QED BY <1>1, <1>2, <1>3, <1>4, <1>5 DEF Register

(* A process that starts or ends.                                          *)
LEMMA ProcessInv ==
    ASSUME BreakerIInv, NEW d \in Slots, Restart(d) \/ Warm(d) \/ Hydrate(d) \/ Die(d)
    PROVE  BreakerIInv'
  <1> USE DefaultType
  <1>0. {"warm", "hydrate", "idle"} \subseteq Steps \ {"halve"}
    BY DEF Steps
  <1>1. CASE Restart(d)
    BY <1>0, <1>1, ReadFacts, RememberingInv DEF Restart
  <1>2. CASE Warm(d)
    <2>1. CASE Goto(d, "hydrate")
      BY <1>0, <1>2, <2>1, ReadFacts, LookingInv DEF Warm
    <2>2. CASE GotoWith(d, "idle", Default)
      BY <1>0, <1>2, <2>2, ReadFacts, RememberingInv DEF Warm
    <2> QED BY <1>2, <2>1, <2>2 DEF Warm
  <1>3. CASE Hydrate(d)
    BY <1>0, <1>3, ReadFacts, WritingInv DEF Hydrate
  <1>4. CASE Die(d)
    BY <1>0, <1>4, ReadFacts, RememberingInv DEF Die
  <1> QED BY <1>1, <1>2, <1>3, <1>4

LEMMA OperateInv ==
    ASSUME BreakerIInv, NEW d \in Slots, NEW s \in States, Operate(d, s)
    PROVE  BreakerIInv'
  <1> DEFINE new == [ state |-> s, failures |-> IF s = "closed" THEN 0 ELSE 1,
                      probeIn |-> IF s = "open" THEN OpenTicks ELSE Never ]
  <1>1. snap'.value = new /\ new \in Snapshot
    BY Constants DEF Operate, Override, Stored, Snapshot, States, Left, Never
  <1>2. GotoWith(d, "save", new)
    BY <1>1 DEF Operate
  <1>3. /\ slot' \in [Slots -> [pc : Steps, read : Snapshot]]
        /\ \A e \in Slots : slot'[e] = IF e = d THEN [pc |-> "save", read |-> new] ELSE slot[e]
    <2>1. "save" \in Steps
      BY DEF Steps
    <2> HIDE DEF new
    <2> QED BY <1>1, <1>2, <2>1, GotoType DEF BreakerIInv
  <1>4. HalvesOpen'
    BY <1>3 DEF BreakerIInv, HalvesOpen, At
  <1> QED BY <1>3, <1>4, OverrideInv, Constants DEF Operate

LEMMA SessionLostInv ==
    ASSUME BreakerIInv, NEW s \in States, SessionLost(s)
    PROVE  BreakerIInv'
  <1>1. slot' \in [Slots -> [pc : Steps, read : Snapshot]] /\ HalvesOpen'
    BY DEF BreakerIInv, TypeOK, HalvesOpen, At, SessionLost
  <1> QED BY <1>1, OverrideInv, Constants DEF SessionLost

LEMMA ExpireInv ==
    ASSUME BreakerIInv, Expire
    PROVE  BreakerIInv'
  <1>1. TypeOK' /\ CoolsDown' /\ HalvesOpen'
    BY DEF BreakerIInv, TypeOK, CoolsDown, HalvesOpen, At, Expire
  <1>2. Current' = Default
    BY DEF Expire, Current
  <1>3. OpensAtThreshold'
    BY <1>2, DefaultType DEF BreakerIInv, OpensAtThreshold, Expire
  <1> QED BY <1>1, <1>3 DEF BreakerIInv

LEMMA StutterInv ==
    ASSUME BreakerIInv, UNCHANGED vars
    PROVE  BreakerIInv'
  BY DEF vars, BreakerIInv, TypeOK, CoolsDown, HalvesOpen, OpensAtThreshold, Current, At

(* The breaker's invariant, for every step.                                *)
THEOREM BreakerInvariant == Spec => []BreakerIInv
  <1>1. ASSUME BreakerIInv, [Next]_vars PROVE BreakerIInv'
    <2>1. CASE Next
      BY <1>1, <2>1, AllowInv, RegisterInv, ProcessInv, OperateInv, SessionLostInv,
         TickInv, ExpireInv DEF Next, Dispatch
    <2> QED BY <1>1, <2>1, StutterInv
  <1> QED BY InitInv, <1>1, PTL DEF Spec

(* Every variable keeps its type.                                          *)
THEOREM BreakerTypeCorrect == Spec => []TypeOK
  BY BreakerInvariant, PTL DEF BreakerIInv

(* calculateSnapshotTtlSeconds never lets an open circuit be forgotten     *)
(* before its cool-down is over, whatever the configured times are.        *)
THEOREM NotForgotten == Spec => []CoolsDown
  BY BreakerInvariant, PTL DEF BreakerIInv

(* registerFailure opens the circuit at the threshold, and a failed probe  *)
(* opens it again, for any number of callers that overwrite each other.    *)
THEOREM ThresholdHolds == Spec => []OpensAtThreshold
  BY BreakerInvariant, PTL DEF BreakerIInv

-----------------------------------------------------------------------------
(* Rule caches: a copy that is out of date has one of the three excuses    *)
(* for as long as it exists, for any keys, readers, savers and life of a   *)
(* copy. The invariant is inductive with the types: a reader that has      *)
(* asked knows what it saw, and storing after a change marks the copy      *)
(* late.                                                                   *)

Copies == [seen : Nat, left : Nat, late : BOOLEAN]

Lookups == [pc : {"idle", "query", "store"}, key : CacheKeys \cup {None}, seen : Nat]

CacheTypeOK ==
    /\ rules \in [CacheKeys -> Nat]
    /\ copy \in [CacheKeys -> Copies \cup {None}]
    /\ reader \in [Readers -> Lookups]
    /\ \A r \in Readers : reader[r].pc # "idle" => reader[r].key \in CacheKeys
    /\ saver \in [Savers -> CacheKeys \cup {None}]

CacheIInv == CacheTypeOK /\ StaleNeedsRace

LEMMA CacheInitHolds == CacheInit => CacheIInv
  BY CacheAssumption
  DEF CacheInit, CacheIInv, CacheTypeOK, Copies, Lookups, Unasked, StaleNeedsRace, Stale

(* Readers: only storing touches a copy, and what is stored is late or right. *)
LEMMA ReaderInv ==
    ASSUME CacheIInv, NEW r \in Readers,
           \/ \E k \in CacheKeys : Lookup(r, k)
           \/ ReaderStep(r) \/ ReaderDies(r)
    PROVE  CacheIInv'
  <1> USE DEF CacheIInv
  <1>1. ASSUME NEW k \in CacheKeys, Lookup(r, k) PROVE CacheIInv'
    <2>1. [pc |-> "query", key |-> k, seen |-> 0] \in Lookups
      BY DEF Lookups
    <2>2. CacheTypeOK'
      BY <1>1, <2>1 DEF Lookup, CacheTypeOK
    <2>3. StaleNeedsRace'
      BY <1>1 DEF Lookup, StaleNeedsRace, Stale
    <2> QED BY <2>2, <2>3
  <1>2. CASE Query(r)
    <2> DEFINE new == [reader[r] EXCEPT !.pc = "store", !.seen = rules[reader[r].key]]
    <2>1. reader[r] \in Lookups /\ reader[r].key \in CacheKeys /\ rules[reader[r].key] \in Nat
      BY <1>2 DEF Query, CacheTypeOK
    <2>2. new \in Lookups /\ new.key \in CacheKeys
      BY <2>1 DEF Lookups
    <2>3. reader' = [reader EXCEPT ![r] = new]
      BY <1>2 DEF Query
    <2> HIDE DEF new
    <2>4. CacheTypeOK'
      BY <1>2, <2>2, <2>3 DEF Query, CacheTypeOK
    <2>5. StaleNeedsRace'
      BY <1>2 DEF Query, StaleNeedsRace, Stale
    <2> QED BY <2>4, <2>5
  <1>3. CASE Store(r)
    <2> DEFINE k == reader[r].key
               new == [seen |-> reader[r].seen, left |-> Lifetime, late |-> reader[r].seen # rules[k]]
    <2>1. k \in CacheKeys /\ new \in Copies
      BY <1>3, CacheAssumption DEF Store, CacheTypeOK, Copies, Lookups
    <2>2. copy' = [copy EXCEPT ![k] = new] /\ UNCHANGED <<rules, saver, missed>>
      BY <1>3 DEF Store, SetJson
    <2>3. new.seen # rules[k] => new.late
      OBVIOUS
    <2>4. CacheTypeOK'
      <3> HIDE DEF new
      <3> QED BY <1>3, <2>1, <2>2 DEF Store, Unasked, Lookups, CacheTypeOK
    <2> HIDE DEF k, new
    <2>5. StaleNeedsRace'
      BY <2>1, <2>2, <2>3 DEF CacheTypeOK, StaleNeedsRace, Stale
    <2> QED BY <2>4, <2>5
  <1>4. CASE ReaderDies(r)
    BY <1>4 DEF ReaderDies, CacheTypeOK, Unasked, Lookups, StaleNeedsRace, Stale
  <1> QED BY <1>1, <1>2, <1>3, <1>4 DEF ReaderStep

(* A change leaves the keys it touches missed or somebody's to delete.        *)
LEMMA ChangeInv ==
    ASSUME CacheIInv, NEW ks \in SUBSET CacheKeys, Changed(ks),
           saver' \in [Savers -> CacheKeys \cup {None}],
           \A v \in Savers : saver[v] # None => saver'[v] = saver[v],
           missed \subseteq missed',
           \A k \in ks : k \in missed' \/ \E w \in Savers : saver'[w] = k,
           UNCHANGED <<copy, reader>>
    PROVE  CacheIInv'
  <1> USE DEF CacheIInv
  <1>1. CacheTypeOK'
    BY DEF Changed, CacheTypeOK
  <1>2. \A k \in CacheKeys \ ks : rules'[k] = rules[k]
    BY DEF Changed
  <1>3. StaleNeedsRace'
    BY <1>2, CacheAssumption DEF StaleNeedsRace, Stale
  <1> QED BY <1>1, <1>3

LEMMA SaveInv ==
    ASSUME CacheIInv, NEW w \in Savers, NEW ks \in SUBSET CacheKeys, NEW k \in CacheKeys,
           SaveRules(w, ks, k)
    PROVE  CacheIInv'
  <1>1. /\ saver' \in [Savers -> CacheKeys \cup {None}]
        /\ \A v \in Savers : saver[v] # None => saver'[v] = saver[v]
        /\ saver'[w] = k
    BY DEF SaveRules, CacheIInv, CacheTypeOK
  <1> QED BY <1>1, ChangeInv DEF SaveRules

LEMMA SaverInv ==
    ASSUME CacheIInv, NEW w \in Savers, SaveRoute(w) \/ SaveFraudRule(w) \/ Drop(w) \/ SaverDies(w)
    PROVE  CacheIInv'
  <1>1. CASE SaveRoute(w)
    BY <1>1, SaveInv DEF SaveRoute, CacheKeys
  <1>2. CASE SaveFraudRule(w)
    BY <1>2, SaveInv DEF SaveFraudRule, CacheKeys
  <1>3. CASE Drop(w)
    <2>1. saver[w] \in CacheKeys
      BY <1>3 DEF Drop, CacheIInv, CacheTypeOK
    <2> QED BY <1>3, <2>1 DEF Drop, CacheIInv, CacheTypeOK, StaleNeedsRace, Stale
  <1>4. CASE SaverDies(w)
    BY <1>4 DEF SaverDies, CacheIInv, CacheTypeOK, StaleNeedsRace, Stale
  <1> QED BY <1>1, <1>2, <1>3, <1>4

LEMMA TierInv == ASSUME CacheIInv, ChangeTier PROVE CacheIInv'
  <1>1. PICK k \in TierKeys : Changed({k}) /\ missed' = missed \cup {k}
    BY DEF ChangeTier
  <1> QED BY <1>1, ChangeInv DEF ChangeTier, CacheKeys, CacheIInv, CacheTypeOK

(* Growing older does not change what a copy has seen.                       *)
LEMMA MinuteInv == ASSUME CacheIInv, Minute PROVE CacheIInv'
  <1>1. \A c \in Copies \cup {None} :
          /\ CopyAged(c) \in Copies \cup {None}
          /\ CopyAged(c) # None => c # None /\ CopyAged(c).seen = c.seen /\ CopyAged(c).late = c.late
    BY DEF CopyAged, Copies
  <1>2. \A k \in CacheKeys : copy[k] \in Copies \cup {None} /\ copy'[k] = CopyAged(copy[k])
    BY DEF Minute, CacheIInv, CacheTypeOK
  <1>3. CacheTypeOK'
    BY <1>1, <1>2 DEF Minute, CacheIInv, CacheTypeOK
  <1>4. StaleNeedsRace'
    BY <1>1, <1>2 DEF Minute, CacheIInv, StaleNeedsRace, Stale
  <1> QED BY <1>3, <1>4 DEF CacheIInv

LEMMA CacheStepKeeps == CacheIInv /\ [CacheNext]_cacheVars => CacheIInv'
  <1> SUFFICES ASSUME CacheIInv, [CacheNext]_cacheVars
               PROVE  CacheIInv'
    OBVIOUS
  <1>1. CASE UNCHANGED cacheVars
    BY <1>1 DEF cacheVars, CacheIInv, CacheTypeOK, StaleNeedsRace, Stale
  <1>2. CASE CacheNext
    BY <1>2, ReaderInv, SaverInv, TierInv, MinuteInv
    DEF CacheNext, LookupRoutes, LookupFraud, LookupTier, CacheKeys
  <1> QED BY <1>1, <1>2

(* A copy of a rule that is out of date was stored late, was missed by the *)
(* invalidation, or is about to be deleted (the readers' and the writers'  *)
(* halves of the rule caches), whatever the number of processes.           *)
THEOREM StaleNeedsRaceHolds == CacheSpec => []StaleNeedsRace
  <1>1. CacheIInv => StaleNeedsRace
    BY DEF CacheIInv
  <1> QED BY <1>1, CacheInitHolds, CacheStepKeeps, PTL DEF CacheSpec

-----------------------------------------------------------------------------
(* Connectors: what is in the pool, who waits for which link, and what a   *)
(* handler has been told so far are one invariant, for any links, slots    *)
(* and handlers.                                                           *)

ConnResults == {"none", "accepted", "refused", "failed", "uncertain"}

LinkStates == {"unopened", "binding", "refused", "up", "closed"}

LinkRow == [ slot : LinkSlots \cup {NoLink}, state : LinkStates,
             healthy : BOOLEAN, timer : BOOLEAN, beside : BOOLEAN ]

ConnTypeOK ==
    /\ pool \in [LinkSlots -> Links \cup {NoLink}]
    /\ link \in [Links -> LinkRow]
    /\ handler \in [Handlers -> [ step : {"idle", "binding", "pacing", "waiting", "posting"},
                                  slot : LinkSlots \cup {NoLink}, link : Links \cup {NoLink} ]]
    /\ accepted \in [Handlers -> BOOLEAN]
    /\ result \in [Handlers -> ConnResults]

(* What is in the pool is up, healthy and of its slot; a session that is up  *)
(* has a slot, and no other has a timer.                                     *)
PoolUp ==
    /\ \A k \in LinkSlots :
         pool[k] # NoLink =>
             link[pool[k]].slot = k /\ link[pool[k]].state = "up" /\ link[pool[k]].healthy
    /\ \A c \in Links : link[c].state = "up" => link[c].slot \in LinkSlots
    /\ \A c \in Links : link[c].timer => link[c].healthy

(* Only a bound session is healthy, and it is the slot's own or was bound    *)
(* beside another; two that are bound to one slot both were.                 *)
InSight ==
    /\ \A c \in Links : link[c].healthy => link[c].state = "up"
    /\ \A c \in Links : link[c].healthy /\ pool[link[c].slot] # c => link[c].beside = TRUE
    /\ \A c, d \in Links :
         c # d /\ link[c].state = "up" /\ link[d].state = "up" /\ link[c].slot = link[d].slot
             => link[c].beside = TRUE

(* Each bind is awaited by one handler, and nobody else has the session.     *)
BindsOwned ==
    /\ \A h \in Handlers : handler[h].step = "binding" =>
         /\ handler[h].slot \in LinkSlots /\ handler[h].link \in Links
         /\ link[handler[h].link].state = "binding"
    /\ \A g, h \in Handlers :
         handler[g].step = "binding" /\ handler[h].step = "binding" /\ g # h
             => handler[g].link # handler[h].link

(* A handler that is at work has no result yet, and until it has submitted   *)
(* the carrier has nothing.                                                  *)
NoResultYet ==
    \A h \in Handlers :
        /\ handler[h].step # "idle" => result[h] = "none"
        /\ handler[h].step \in {"binding", "pacing"} => ~accepted[h]

ConnIInv ==
    ConnTypeOK /\ PoolUp /\ InSight /\ BindsOwned /\ NoResultYet /\ RefusedMeansNotTaken

LEMMA ConnInitHolds == ConnInit => ConnIInv
  BY NoLinkAssumption
  DEF ConnInit, ConnIInv, ConnTypeOK, LinkRow, PoolUp, InSight, BindsOwned, NoResultYet, RefusedMeansNotTaken,
      Idling, Unopened, LinkStates, ConnResults

(* A step that leaves the pool and the sessions alone changes one handler,   *)
(* what was taken of it and its result.                                      *)
LEMMA HandlerInv ==
    ASSUME ConnIInv, NEW h \in Handlers,
           NEW to \in [ step : {"idle", "pacing", "waiting", "posting"},
                        slot : LinkSlots \cup {NoLink}, link : Links \cup {NoLink} ],
           NEW took \in BOOLEAN, NEW res \in ConnResults,
           handler' = [handler EXCEPT ![h] = to],
           accepted' = [accepted EXCEPT ![h] = took],
           result' = [result EXCEPT ![h] = res],
           to.step # "idle" => res = "none",
           to.step = "pacing" => ~took,
           res \in {"refused", "failed"} => ~took,
           UNCHANGED <<pool, link>>
    PROVE  ConnIInv'
  <1> USE DEF ConnIInv
  <1>1. ConnTypeOK'
    BY DEF ConnTypeOK
  <1>2. PoolUp' /\ InSight'
    BY DEF PoolUp, InSight
  <1>3. \A g \in Handlers : handler'[g].step = "binding" => handler'[g] = handler[g]
    BY DEF ConnTypeOK
  <1>4. BindsOwned'
    BY <1>3 DEF BindsOwned
  <1>5. NoResultYet' /\ RefusedMeansNotTaken'
    BY DEF ConnTypeOK, NoResultYet, RefusedMeansNotTaken
  <1> QED BY <1>1, <1>2, <1>4, <1>5

(* The dispatch ends with a result that is not a refusal of what was taken.  *)
LEMMA SettleInv ==
    ASSUME ConnIInv, NEW h \in Handlers, NEW r \in ConnResults, Settle(h, r),
           r \in {"refused", "failed"} => ~accepted[h],
           UNCHANGED <<pool, link, accepted>>
    PROVE  ConnIInv'
  <1>1. /\ accepted[h] \in BOOLEAN /\ accepted' = [accepted EXCEPT ![h] = accepted[h]]
        /\ Idling \in [ step : {"idle", "pacing", "waiting", "posting"},
                        slot : LinkSlots \cup {NoLink}, link : Links \cup {NoLink} ]
        /\ Idling.step = "idle"
    BY DEF ConnIInv, ConnTypeOK, Idling
  <1> QED BY <1>1, HandlerInv DEF Settle

LEMMA AnswerInv ==
    ASSUME ConnIInv, NEW h \in Handlers,
           Paced(h) \/ Answered(h) \/ TimedOut(h) \/ Responded(h) \/ NoResponse(h)
    PROVE  ConnIInv'
  <1>1. CASE Paced(h)
    BY <1>1, SettleInv DEF Paced, ConnIInv, NoResultYet, ConnResults
  <1>2. CASE Answered(h)
    BY <1>2, SettleInv DEF Answered, ConnResults
  <1>3. CASE TimedOut(h)
    BY <1>3, SettleInv DEF TimedOut, TimerResult, ConnResults
  <1>4. CASE Responded(h)
    BY <1>4, SettleInv DEF Responded, ConnResults
  <1>5. CASE NoResponse(h)
    BY <1>5, SettleInv DEF NoResponse, TimerResult, ConnResults
  <1> QED BY <1>1, <1>2, <1>3, <1>4, <1>5

(* A dispatch begins, goes on or is taken.                                   *)
LEMMA ForwardInv ==
    ASSUME ConnIInv, NEW h \in Handlers,
           \/ \E k \in LinkSlots : Reuse(h, k)
           \/ Post(h) \/ Submit(h) \/ Take(h)
    PROVE  ConnIInv'
  <1> DEFINE Going == [ step : {"idle", "pacing", "waiting", "posting"},
                        slot : LinkSlots \cup {NoLink}, link : Links \cup {NoLink} ]
  <1>0. /\ handler[h].step \in {"pacing", "waiting", "posting"} => handler[h] \in Going /\ result[h] = "none"
        /\ accepted[h] \in BOOLEAN /\ result[h] \in ConnResults
        /\ accepted = [accepted EXCEPT ![h] = accepted[h]]
        /\ result = [result EXCEPT ![h] = result[h]]
        /\ handler = [handler EXCEPT ![h] = handler[h]]
    BY DEF ConnIInv, ConnTypeOK, NoResultYet
  <1>1. ASSUME NEW k \in LinkSlots, Reuse(h, k) PROVE ConnIInv'
    <2> DEFINE to == [step |-> "pacing", slot |-> k, link |-> pool[k]]
    <2>1. to \in Going /\ to.step = "pacing"
      BY DEF ConnIInv, ConnTypeOK
    <2>2. handler' = [handler EXCEPT ![h] = to]
      BY <1>1 DEF Reuse
    <2> HIDE DEF to
    <2> QED BY <1>1, <2>1, <2>2, HandlerInv DEF Reuse, ConnResults
  <1>2. CASE Post(h)
    <2> DEFINE to == [Idling EXCEPT !.step = "posting"]
    <2>1. to \in Going /\ to.step = "posting"
      BY DEF Idling
    <2>2. handler' = [handler EXCEPT ![h] = to]
      BY <1>2 DEF Post
    <2> HIDE DEF to
    <2> QED BY <1>2, <2>1, <2>2, HandlerInv DEF Post, ConnResults
  <1>3. CASE Submit(h)
    <2> DEFINE to == [handler[h] EXCEPT !.step = "waiting"]
    <2>1. to \in Going /\ to.step = "waiting" /\ handler' = [handler EXCEPT ![h] = to]
      BY <1>0, <1>3 DEF Submit, ConnIInv, ConnTypeOK
    <2>2. result[h] = "none" /\ UNCHANGED <<pool, link, accepted, result>>
      BY <1>0, <1>3 DEF Submit
    <2> HIDE DEF to
    <2> QED BY <1>0, <2>1, <2>2, HandlerInv DEF ConnResults
  <1>4. CASE Take(h)
    <2>1. handler[h] \in Going /\ handler[h].step \in {"waiting", "posting"} /\ result[h] = "none"
      BY <1>0, <1>4 DEF Take
    <2>2. /\ accepted' = [accepted EXCEPT ![h] = TRUE]
          /\ UNCHANGED <<pool, link, handler, result>>
      BY <1>4 DEF Take
    <2> QED BY <1>0, <2>1, <2>2, HandlerInv
  <1> QED BY <1>1, <1>2, <1>3, <1>4

LEMMA ConnectInv ==
    ASSUME ConnIInv, NEW h \in Handlers, NEW k \in LinkSlots, Connect(h, k)
    PROVE  ConnIInv'
  <1> DEFINE new == [Unopened EXCEPT !.slot = k, !.state = "binding"]
  <1>1. PICK c \in Links :
          /\ link[c].state = "unopened"
          /\ link' = [link EXCEPT ![c] = new]
          /\ handler' = [handler EXCEPT ![h] = [step |-> "binding", slot |-> k, link |-> c]]
    BY Zenon DEF Connect
  <1>2. /\ UNCHANGED pool /\ accepted' = [accepted EXCEPT ![h] = FALSE]
        /\ result' = [result EXCEPT ![h] = "none"]
    BY DEF Connect
  <1>3. new \in LinkRow /\ new.slot = k /\ new.state = "binding" /\ ~new.healthy /\ ~new.timer
    BY DEF Unopened, LinkRow, LinkStates
  <1> HIDE DEF new
  <1> USE DEF ConnIInv
  <1>4. ConnTypeOK'
    <2>1. accepted' \in [Handlers -> BOOLEAN] /\ result' \in [Handlers -> ConnResults]
      BY <1>2 DEF ConnTypeOK, ConnResults
    <2>2. link' \in [Links -> LinkRow]
      BY <1>1, <1>3 DEF ConnTypeOK
    <2> QED BY <1>1, <1>2, <2>1, <2>2 DEF ConnTypeOK
  <1>5. link'[c] = new /\ \A d \in Links \ {c} : link'[d] = link[d]
    BY <1>1 DEF ConnTypeOK
  <1>6. PoolUp'
    BY <1>1, <1>2, <1>3, <1>5 DEF ConnTypeOK, PoolUp
  <1>7. InSight'
    BY <1>2, <1>3, <1>5 DEF InSight
  <1>8. BindsOwned'
    BY <1>1, <1>3 DEF ConnTypeOK, BindsOwned
  <1>9. NoResultYet' /\ RefusedMeansNotTaken'
    BY <1>1, <1>2 DEF ConnTypeOK, NoResultYet, RefusedMeansNotTaken
  <1> QED BY <1>4, <1>6, <1>7, <1>8, <1>9

LEMMA BoundInv ==
    ASSUME ConnIInv, NEW h \in Handlers, Bound(h)
    PROVE  ConnIInv'
  <1> USE DEF ConnIInv
  <1> DEFINE c == handler[h].link
             k == handler[h].slot
             new == [ slot |-> k, state |-> "up", healthy |-> TRUE, timer |-> TRUE,
                      beside |-> Fellows(c, k) # {} ]
  <1>1. /\ c \in Links /\ k \in LinkSlots /\ link[c].state = "binding"
        /\ link' = [d \in Links |-> IF d = c THEN new
                                    ELSE [link[d] EXCEPT !.beside = @ \/ d \in Fellows(c, k)]]
        /\ pool' = [pool EXCEPT ![k] = c]
        /\ handler' = [handler EXCEPT ![h].step = "pacing"]
        /\ handler[h].step = "binding"
        /\ UNCHANGED <<accepted, result>>
    BY DEF Bound, BindsOwned
  <1>2. /\ new \in LinkRow /\ new.slot = k /\ new.state = "up"
        /\ new.beside = TRUE <=> Fellows(c, k) # {}
    BY <1>1 DEF LinkRow, LinkStates
  <1> HIDE DEF c, k, new
  <1>3. link'[c] = new
    BY <1>1
  <1>4. ASSUME NEW d \in Links, d # c
        PROVE  /\ link'[d] \in LinkRow
               /\ link'[d].slot = link[d].slot /\ link'[d].state = link[d].state
               /\ link'[d].healthy = link[d].healthy /\ link'[d].timer = link[d].timer
               /\ link[d].beside = TRUE \/ d \in Fellows(c, k) => link'[d].beside = TRUE
    <2>1. link[d] \in LinkRow
      BY DEF ConnTypeOK
    <2>2. PICK b \in BOOLEAN : b = (link[d].beside \/ d \in Fellows(c, k))
      BY Zenon
    <2>3. link'[d] = [link[d] EXCEPT !.beside = b]
      BY <1>1, <1>4, <2>2, Zenon
    <2>4. link[d].beside = TRUE \/ d \in Fellows(c, k) => b = TRUE
      BY <2>2, Zenon
    <2> QED BY <2>1, <2>3, <2>4 DEF LinkRow
  <1>5. ConnTypeOK'
    <2>1. link' \in [Links -> LinkRow]
      BY <1>1, <1>2, <1>3, <1>4
    <2> QED BY <1>1, <2>1 DEF ConnTypeOK, ConnResults
  <1>6. PoolUp'
    <2>1. new.healthy = TRUE
      BY DEF new
    <2>2. ASSUME NEW j \in LinkSlots, pool'[j] # NoLink
          PROVE  /\ link'[pool'[j]].slot = j /\ link'[pool'[j]].state = "up"
                 /\ link'[pool'[j]].healthy
      <3>1. CASE j = k
        BY <1>1, <1>2, <1>3, <2>1, <3>1 DEF ConnTypeOK
      <3>2. CASE j # k
        <4>1. pool'[j] = pool[j] /\ pool[j] \in Links
          BY <1>1, <2>2, <3>2 DEF ConnTypeOK
        <4>2. link[pool[j]].slot = j /\ link[pool[j]].state = "up" /\ link[pool[j]].healthy
          BY <2>2, <4>1 DEF PoolUp
        <4>3. pool[j] # c
          BY <1>1, <4>2
        <4>4. /\ link'[pool[j]].slot = link[pool[j]].slot
              /\ link'[pool[j]].state = link[pool[j]].state
              /\ link'[pool[j]].healthy = link[pool[j]].healthy
          BY <1>4, <4>1, <4>3
        <4> QED BY <4>1, <4>2, <4>4
      <3> QED BY <3>1, <3>2
    <2>3. ASSUME NEW d \in Links
          PROVE  /\ link'[d].state = "up" => link'[d].slot \in LinkSlots
                 /\ link'[d].timer => link'[d].healthy
      <3>1. CASE d = c
        BY <1>1, <1>2, <1>3, <2>1, <3>1
      <3>2. CASE d # c
        BY <1>4, <3>2 DEF PoolUp
      <3> QED BY <3>1, <3>2
    <2> QED BY <2>2, <2>3 DEF PoolUp
  <1>7. InSight'
    <2>1. \A d \in Links : link'[d].healthy => link'[d].state = "up"
      BY <1>2, <1>3, <1>4 DEF InSight
    <2>2. ASSUME NEW d \in Links, link'[d].healthy, pool'[link'[d].slot] # d
          PROVE  link'[d].beside = TRUE
      <3>1. d # c
        BY <1>1, <1>2, <1>3, <2>2 DEF ConnTypeOK
      <3>2. /\ link[d].healthy /\ link[d].state = "up" /\ link[d].slot \in LinkSlots
            /\ link'[d].slot = link[d].slot
        BY <1>4, <2>2, <3>1 DEF InSight, PoolUp
      <3>3. CASE link[d].slot = k
        <4>1. d \in Fellows(c, k)
          BY <3>1, <3>2, <3>3 DEF Fellows
        <4> QED BY <1>4, <3>1, <4>1
      <3>4. CASE link[d].slot # k
        <4>1. pool[link[d].slot] # d
          BY <1>1, <2>2, <3>2, <3>4 DEF ConnTypeOK
        <4> QED BY <1>4, <3>1, <3>2, <4>1 DEF InSight
      <3> QED BY <3>3, <3>4
    <2>3. ASSUME NEW d \in Links, NEW e \in Links, d # e, link'[d].state = "up",
                 link'[e].state = "up", link'[d].slot = link'[e].slot
          PROVE  link'[d].beside = TRUE
      <3>1. CASE d = c
        <4>1. link[e].state = "up" /\ link[e].slot = k
          BY <1>2, <1>3, <1>4, <2>3, <3>1
        <4>2. e \in Fellows(c, k)
          BY <2>3, <3>1, <4>1 DEF Fellows
        <4> QED BY <1>2, <1>3, <3>1, <4>2
      <3>2. CASE e = c
        <4>1. link[d].state = "up" /\ link[d].slot = k
          BY <1>2, <1>3, <1>4, <2>3, <3>2
        <4>2. d \in Fellows(c, k)
          BY <2>3, <3>2, <4>1 DEF Fellows
        <4> QED BY <1>4, <2>3, <3>2, <4>2
      <3>3. CASE d # c /\ e # c
        <4>1. link[d].state = "up" /\ link[e].state = "up" /\ link[d].slot = link[e].slot
          BY <1>4, <2>3, <3>3
        <4>2. link[d].beside = TRUE
          BY <2>3, <4>1 DEF InSight
        <4> QED BY <1>4, <3>3, <4>2
      <3> QED BY <3>1, <3>2, <3>3
    <2> QED BY <2>1, <2>2, <2>3 DEF InSight
  <1>8. BindsOwned'
    <2>1. \A g \in Handlers : handler'[g].step = "binding" => g # h /\ handler'[g] = handler[g]
      BY <1>1 DEF ConnTypeOK
    <2>2. ASSUME NEW g \in Handlers, g # h, handler[g].step = "binding"
          PROVE  handler[g].link \in Links /\ handler[g].link # c
      BY <1>1, <2>2 DEF BindsOwned, c
    <2>3. ASSUME NEW g \in Handlers, handler'[g].step = "binding"
          PROVE  /\ handler'[g].slot \in LinkSlots /\ handler'[g].link \in Links
                 /\ link'[handler'[g].link].state = "binding"
      <3>1. g # h /\ handler'[g] = handler[g] /\ handler[g].step = "binding"
        BY <2>1, <2>3
      <3>2. handler[g].slot \in LinkSlots /\ link[handler[g].link].state = "binding"
        BY <3>1 DEF BindsOwned
      <3>3. link'[handler[g].link].state = link[handler[g].link].state
        BY <1>4, <2>2, <3>1
      <3> QED BY <2>2, <3>1, <3>2, <3>3
    <2>4. ASSUME NEW f \in Handlers, NEW g \in Handlers, f # g,
                 handler'[f].step = "binding", handler'[g].step = "binding"
          PROVE  handler'[f].link # handler'[g].link
      <3>1. /\ handler'[f] = handler[f] /\ handler[f].step = "binding"
            /\ handler'[g] = handler[g] /\ handler[g].step = "binding"
        BY <2>1, <2>4
      <3> QED BY <2>4, <3>1 DEF BindsOwned
    <2> QED BY <2>3, <2>4 DEF BindsOwned
  <1>9. NoResultYet' /\ RefusedMeansNotTaken'
    BY <1>1 DEF ConnTypeOK, NoResultYet, RefusedMeansNotTaken
  <1> QED BY <1>5, <1>6, <1>7, <1>8, <1>9

LEMMA BindRefusedInv ==
    ASSUME ConnIInv, NEW h \in Handlers, BindRefused(h)
    PROVE  ConnIInv'
  <1> USE DEF ConnIInv, Settle, Idling
  <1> DEFINE c == handler[h].link
             new == [link[c] EXCEPT !.state = "refused"]
  <1>1. /\ c \in Links /\ link[c].state = "binding" /\ link[c] \in LinkRow
        /\ link' = [link EXCEPT ![c] = new]
        /\ handler[h].step = "binding" /\ UNCHANGED pool
    BY DEF BindRefused, BindsOwned, ConnTypeOK
  <1>2. /\ new \in LinkRow /\ new.state = "refused" /\ new.slot = link[c].slot
        /\ new.healthy = link[c].healthy /\ new.timer = link[c].timer
    BY <1>1 DEF LinkRow, LinkStates
  <1> HIDE DEF c, new
  <1>3. link'[c] = new /\ \A d \in Links \ {c} : link'[d] = link[d]
    BY <1>1 DEF ConnTypeOK
  <1>4. ConnTypeOK'
    <2>1. link' \in [Links -> LinkRow]
      BY <1>1, <1>2 DEF ConnTypeOK
    <2> QED BY <2>1 DEF BindRefused, ConnTypeOK, ConnResults
  <1>5. PoolUp'
    BY <1>1, <1>2, <1>3 DEF ConnTypeOK, PoolUp
  <1>6. ~link[c].healthy
    BY <1>1 DEF InSight
  <1>7. InSight'
    BY <1>1, <1>2, <1>3, <1>6 DEF InSight
  <1>8. BindsOwned'
    BY <1>1, <1>3 DEF BindRefused, ConnTypeOK, BindsOwned, c
  <1>9. NoResultYet' /\ RefusedMeansNotTaken'
    BY <1>1 DEF BindRefused, ConnTypeOK, NoResultYet, RefusedMeansNotTaken
  <1> QED BY <1>4, <1>5, <1>7, <1>8, <1>9

LEMMA LostInv ==
    ASSUME ConnIInv, NEW c \in Links, Error(c) \/ Close(c)
    PROVE  ConnIInv'
  <1> USE DEF ConnIInv, Dropped
  <1>1. /\ link[c].state = "up" /\ link[c].slot \in LinkSlots
        /\ pool' = [pool EXCEPT ![link[c].slot] = NoLink]
        /\ UNCHANGED <<handler, accepted, result>>
    BY DEF Error, Close, PoolUp
  <1> DEFINE Ended == [ slot : LinkSlots, state : {"up", "closed"},
                        healthy : {FALSE}, timer : {FALSE}, beside : BOOLEAN ]
  <1>2. PICK new \in Ended : /\ link' = [link EXCEPT ![c] = new]
                             /\ new.slot = link[c].slot /\ new.beside = link[c].beside
    <2> USE DEF LinkStates
    <2>0. link[c] \in LinkRow
      BY DEF ConnTypeOK
    <2>1. CASE Error(c)
      <3> DEFINE new == [link[c] EXCEPT !.healthy = FALSE, !.timer = FALSE]
      <3>1. new \in Ended /\ new.slot = link[c].slot /\ new.beside = link[c].beside
        BY <1>1, <2>0 DEF LinkRow
      <3>2. link' = [link EXCEPT ![c] = new]
        BY <2>1 DEF Error
      <3> QED BY <3>1, <3>2
    <2>2. CASE Close(c)
      <3> DEFINE new == [link[c] EXCEPT !.state = "closed", !.healthy = FALSE, !.timer = FALSE]
      <3>1. new \in Ended /\ new.slot = link[c].slot /\ new.beside = link[c].beside
        BY <1>1, <2>0 DEF LinkRow
      <3>2. link' = [link EXCEPT ![c] = new]
        BY <2>2 DEF Close
      <3> QED BY <3>1, <3>2
    <2> QED BY <2>1, <2>2
  <1>3. link'[c] = new /\ \A d \in Links \ {c} : link'[d] = link[d]
    BY <1>2 DEF ConnTypeOK
  <1>4. /\ new \in LinkRow /\ ~new.healthy /\ ~new.timer
        /\ new.slot = link[c].slot /\ new.beside = link[c].beside
    BY <1>2 DEF LinkRow, LinkStates
  <1>5. ConnTypeOK'
    BY <1>1, <1>2, <1>4 DEF ConnTypeOK
  <1>6. PoolUp'
    <2>1. \A k \in LinkSlots : pool'[k] # NoLink =>
              k # link[c].slot /\ pool'[k] = pool[k] /\ pool[k] \in Links
      BY <1>1 DEF ConnTypeOK
    <2>2. \A k \in LinkSlots : pool'[k] # NoLink => pool'[k] \in Links \ {c}
      BY <2>1 DEF PoolUp
    <2> QED BY <1>1, <1>3, <1>4, <2>1, <2>2 DEF PoolUp
  <1>7. InSight'
    <2>1. \A d \in Links : link'[d].healthy => d # c /\ link[d].healthy
      BY <1>3, <1>4
    <2>2. ASSUME NEW d \in Links, d # c, link[d].healthy, pool'[link[d].slot] # d
          PROVE  link[d].beside = TRUE
      <3>1. link[d].state = "up" /\ link[d].slot \in LinkSlots
        BY <2>2 DEF InSight, PoolUp
      <3>2. CASE link[d].slot = link[c].slot
        BY <1>1, <2>2, <3>1, <3>2 DEF InSight
      <3>3. CASE link[d].slot # link[c].slot
        <4>1. pool[link[d].slot] # d
          BY <1>1, <2>2, <3>1, <3>3 DEF ConnTypeOK
        <4> QED BY <2>2, <4>1 DEF InSight
      <3> QED BY <3>2, <3>3
    <2>3. \A d \in Links : /\ link'[d].slot = link[d].slot /\ link'[d].beside = link[d].beside
                           /\ link'[d].state = "up" => link[d].state = "up"
      BY <1>1, <1>3, <1>4
    <2>4. \A d \in Links : link'[d].healthy => link'[d].state = "up"
      BY <1>3, <2>1 DEF InSight
    <2>5. \A d \in Links : link'[d].healthy /\ pool'[link'[d].slot] # d => link'[d].beside = TRUE
      BY <2>1, <2>2, <2>3
    <2> QED BY <2>3, <2>4, <2>5 DEF InSight
  <1>8. BindsOwned'
    BY <1>1, <1>3 DEF BindsOwned
  <1>9. NoResultYet' /\ RefusedMeansNotTaken'
    BY <1>1 DEF NoResultYet, RefusedMeansNotTaken
  <1> QED BY <1>5, <1>6, <1>7, <1>8, <1>9

(* The process ends, with everything it held.                                *)
LEMMA UnheardInv ==
    ASSUME ConnIInv, NEW c \in Links, Unheard(c)
    PROVE  ConnIInv'
  <1> USE DEF ConnIInv
  <1>1. \A k \in LinkSlots : pool'[k] = NoLink
    BY DEF Unheard
  <1>2. ASSUME NEW d \in Links
        PROVE  /\ link'[d] \in LinkRow /\ link'[d].state # "up"
               /\ ~link'[d].healthy /\ ~link'[d].timer
    <2>1. link[d] \in LinkRow
      BY DEF ConnTypeOK
    <2>2. CASE link[d].state = "unopened"
      <3>1. link'[d] = link[d]
        BY <2>2 DEF Unheard
      <3> QED BY <2>1, <2>2, <3>1 DEF InSight, PoolUp
    <2>3. CASE link[d].state # "unopened"
      <3>1. link'[d] = [link[d] EXCEPT !.state = "closed", !.healthy = FALSE, !.timer = FALSE]
        BY <2>3 DEF Unheard
      <3> QED BY <2>1, <3>1 DEF LinkRow, LinkStates
    <2> QED BY <2>2, <2>3
  <1>3. \A h \in Handlers : handler'[h] = Idling /\ result'[h] = "none"
    BY DEF Unheard
  <1>4. ConnTypeOK'
    <2>1. link' \in [Links -> LinkRow]
      <3>1. link' = [d \in Links |-> link'[d]]
        BY DEF Unheard
      <3> QED BY <1>2, <3>1
    <2>2. pool' \in [LinkSlots -> Links \cup {NoLink}]
      BY DEF Unheard
    <2>3. handler' \in [Handlers -> [ step : {"idle", "binding", "pacing", "waiting", "posting"},
                                     slot : LinkSlots \cup {NoLink}, link : Links \cup {NoLink} ]]
      BY DEF Unheard, Idling
    <2>4. accepted' \in [Handlers -> BOOLEAN] /\ result' \in [Handlers -> ConnResults]
      BY DEF Unheard, ConnTypeOK, ConnResults
    <2> QED BY <2>1, <2>2, <2>3, <2>4 DEF ConnTypeOK
  <1>5. PoolUp'
    BY <1>1, <1>2 DEF PoolUp
  <1>6. InSight'
    BY <1>2 DEF InSight
  <1>7. BindsOwned' /\ NoResultYet' /\ RefusedMeansNotTaken'
    BY <1>3 DEF Idling, BindsOwned, NoResultYet, RefusedMeansNotTaken
  <1> QED BY <1>4, <1>5, <1>6, <1>7

LEMMA ConnStepKeeps == ConnIInv /\ [ConnNext]_connVars => ConnIInv'
  <1> SUFFICES ASSUME ConnIInv, [ConnNext]_connVars
               PROVE  ConnIInv'
    OBVIOUS
  <1>1. CASE UNCHANGED connVars
    BY <1>1 DEF connVars, ConnIInv, ConnTypeOK, PoolUp, InSight, BindsOwned, NoResultYet,
               RefusedMeansNotTaken
  <1>2. CASE ConnNext
    BY <1>2, AnswerInv, ForwardInv, ConnectInv, BoundInv, BindRefusedInv, LostInv,
       UnheardInv DEF ConnNext
  <1> QED BY <1>1, <1>2

LEMMA ConnInvariant == ConnSpec => []ConnIInv
  BY ConnInitHolds, ConnStepKeeps, PTL DEF ConnSpec

(* Whatever sessions open, bind, break and close, the pool holds only      *)
(* healthy bound sessions, none of them is lost from sight unless another  *)
(* was bound beside it, and a refusal is never reported of a message that  *)
(* the carrier took (SmppConnectorService, HttpProviderService).           *)
THEOREM CarriersToldTrueHolds == ConnSpec => []CarriersToldTrue
  <1>1. ConnIInv => CarriersToldTrue
    <2> SUFFICES ASSUME ConnIInv PROVE CarriersToldTrue
      OBVIOUS
    <2>1. {k \in LinkSlots : pool[k] # NoLink} = {k \in LinkSlots : Healthy(pool[k])}
      BY DEF ConnIInv, PoolUp, Healthy
    <2>2. TotalSessions = HealthySessions
      BY <2>1 DEF TotalSessions, HealthySessions
    <2>3. NoneLostFromSight
      BY DEF ConnIInv, InSight, NoneLostFromSight
    <2> QED BY <2>2, <2>3 DEF ConnIInv, PoolUp, PoolIsHealthy, CarriersToldTrue
  <1> QED BY <1>1, ConnInvariant, PTL
=============================================================================
