------------------------------ MODULE RateLimit ------------------------------
(***************************************************************************)
(* The token buckets in Redis behind every rate limit and daily quota.     *)
(* The script that changes a bucket is atomic, but the time it counts with *)
(* is the caller's: read before the call, by a clock of the caller's own.  *)
(* A reading may be evaluated late, after a later one, or come from a      *)
(* clock that is ahead.                                                    *)
(*                                                                         *)
(* Tokens are counted in parts of a token, Period(s) of them to the token, *)
(* so that a tick refills Limit[s] parts and no fraction is left.          *)
(***************************************************************************)
EXTENDS Integers

CONSTANTS
    Callers,       \* calls of the limiter under way
    Limit,         \* [Scopes -> Nat]: capacity, and tokens per period
    Second, Day,   \* ticks in the period of a limit and of a daily quota
    Ahead,         \* how far a caller's clock may be ahead of Redis's
    MaxTicks,      \* bound on time
    MaxCalls       \* bound on calls

Scopes == {"limit", "quota"}

ASSUME LimitAssumption == Limit \in [Scopes -> Nat \ {0}]
ASSUME PeriodAssumption == {Second, Day} \subseteq Nat \ {0}
ASSUME ClockAssumption == {Ahead, MaxTicks, MaxCalls} \subseteq Nat

VARIABLES
    ticks,      \* Redis's clock, by which keys expire
    reading,    \* what each caller is about to send
    bucket,     \* the hash under each key, and when it was written
    calls,      \* how many there have been
    grants      \* for the properties: what each key has let through

limitVars == <<ticks, reading, bucket, calls, grants>>

-----------------------------------------------------------------------------
(* enforceLimit and enforceDailyQuota differ in the period and the key.    *)
Period(s) == IF s = "quota" THEN Day ELSE Second

(* The date is part of a quota's key.                                      *)
KeyAt(s, t) == [scope |-> s, day |-> IF s = "quota" THEN t \div Day ELSE 0]

Keys == [scope : Scopes, day : 0..(MaxTicks + Ahead)]

Full(k) == Limit[k.scope] * Period(k.scope)

NoHash == [tokens |-> -1]

NoCall == [key |-> "none"]

(* The ttl, for a refill as large as the capacity.                         *)
TtlOf(k) == Period(k.scope)

Present(k) == bucket[k] # NoHash /\ ticks < bucket[k].written + TtlOf(k)

Least(a, b) == IF a < b THEN a ELSE b

(* What the script finds at the time it is given.                          *)
Refilled(k, at) ==
    IF ~Present(k) THEN Full(k)
    ELSE IF at > bucket[k].updated
         THEN Least(Full(k), bucket[k].tokens + (at - bucket[k].updated) * Limit[k.scope])
         ELSE bucket[k].tokens

Suffices(k, parts) == parts >= Period(k.scope)

RetryAfter(k, parts) ==
    (Period(k.scope) - parts + Limit[k.scope] - 1) \div Limit[k.scope]

-----------------------------------------------------------------------------
LimitInit ==
    /\ ticks = 0 /\ calls = 0
    /\ reading = [c \in Callers |-> NoCall]
    /\ bucket = [k \in Keys |-> NoHash]
    /\ grants = [k \in Keys |-> [count |-> 0, first |-> 0, lag |-> 0, drift |-> 0]]

(* A caller names its key and reads its clock; by the time it reads it     *)
(* again for the quota's refill, the day may have changed.                 *)
ReadClock(c, s) ==
    /\ reading[c] = NoCall
    /\ calls < MaxCalls /\ calls' = calls + 1
    /\ \E ahead \in 0..Ahead, between \in {0, 1} :
         /\ between = 1 => s = "quota"
         /\ reading' = [reading EXCEPT ![c] =
                [key |-> KeyAt(s, ticks + ahead), at |-> ticks + ahead + between]]
    /\ UNCHANGED <<ticks, bucket, grants>>

(* A plausible slip: a refused call keeps the time of the bucket it found, *)
(* but not its tokens.                                                     *)
WrittenIfGranted(k, at) ==
    LET parts == Refilled(k, at)
    IN IF Suffices(k, parts)
       THEN [tokens |-> parts - Period(k.scope), updated |-> at, written |-> ticks]
       ELSE [tokens |-> parts, updated |-> bucket[k].updated, written |-> ticks]

Written(k, at) ==
    LET parts == Refilled(k, at)
    IN [ tokens  |-> IF Suffices(k, parts) THEN parts - Period(k.scope) ELSE parts,
         updated |-> at,
         written |-> ticks ]

(* How much older, against Redis's clock, a reading is than the last one.  *)
Later(a, b) == IF a > b THEN a - b ELSE 0

(* drift is the time that counts twice: what updated_at goes back by, and, *)
(* when the bucket is a new one, how much later this reading comes.        *)
Granted(k, at) ==
    LET g == grants[k]
        b == bucket[k]
        lag == ticks - at
    IN [ count |-> IF Suffices(k, Refilled(k, at)) THEN g.count + 1 ELSE g.count,
         first |-> IF b = NoHash THEN at ELSE g.first,
         lag   |-> lag,
         drift |-> IF b = NoHash THEN 0
                   ELSE g.drift + (IF Present(k) THEN Later(b.updated, at) ELSE Later(lag, g.lag)) ]

(* The script: HMGET, HSET and PEXPIRE in one go.                          *)
Evaluate(c) ==
    /\ reading[c] # NoCall
    /\ LET k == reading[c].key
           at == reading[c].at
       IN /\ bucket' = [bucket EXCEPT ![k] = Written(k, at)]
          /\ grants' = [grants EXCEPT ![k] = Granted(k, at)]
    /\ reading' = [reading EXCEPT ![c] = NoCall]
    /\ UNCHANGED <<ticks, calls>>

ClockTick ==
    /\ ticks < MaxTicks
    /\ ticks' = ticks + 1
    /\ UNCHANGED <<reading, bucket, calls, grants>>

(* Keys do not affect each other, and neither do the scopes.               *)
ScopeNext(s) == ClockTick \/ \E c \in Callers : ReadClock(c, s) \/ Evaluate(c)

LimitNext == \E s \in Scopes : ScopeNext(s)

LimitSpec == LimitInit /\ [][LimitNext]_limitVars

-----------------------------------------------------------------------------
Hash == [tokens : Nat, updated : Nat, written : Nat]

LimitTypeOK ==
    /\ ticks \in 0..MaxTicks /\ calls \in Nat
    /\ reading \in [Callers -> [key : Keys, at : Nat] \cup {NoCall}]
    /\ bucket \in [Keys -> Hash \cup {NoHash}]
    /\ \A k \in Keys : bucket[k] # NoHash => bucket[k].tokens <= Full(k)
    /\ grants \in [Keys -> [count : Nat, first : Int, lag : Int, drift : Nat]]

(* However late, out of order or ahead the readings are, a key lets no     *)
(* more through than its capacity, what the time between its first and its *)
(* last reading refills, and what the time counted twice refills: neither  *)
(* refused calls nor an expired bucket give anything away.                 *)
GrantsAccounted ==
    \A k \in Keys : bucket[k] # NoHash =>
        grants[k].count * Period(k.scope) + bucket[k].tokens
            <= Full(k) + Limit[k.scope] * (bucket[k].updated - grants[k].first + grants[k].drift)

(* The quota of a day refills all day, so a day may pass more than the     *)
(* quota; but never more than twice, if the readings come in order.        *)
DayAtMostTwice ==
    \A k \in Keys : k.scope = "quota" /\ grants[k].drift = 0 =>
        grants[k].count <= 2 * Limit["quota"]

(* The limiter gives away nothing it was not configured to: the two bounds *)
(* above, and the wait a refused caller is told is right - a call that     *)
(* comes then is let through, one that comes a tick before is refused.     *)
Passes(k, at) == Suffices(k, Refilled(k, at))

WaitIsRight ==
    \A k \in Keys : Present(k) /\ ~Suffices(k, bucket[k].tokens) =>
        LET wait == RetryAfter(k, bucket[k].tokens)
        IN Passes(k, bucket[k].updated + wait) /\ ~Passes(k, bucket[k].updated + wait - 1)

WithinBudget == GrantsAccounted /\ DayAtMostTwice /\ WaitIsRight
=============================================================================
