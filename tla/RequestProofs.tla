--------------------------- MODULE RequestProofs ----------------------------
(***************************************************************************)
(* Theorems about what a tenant may ask for, and what it is charged: the   *)
(* token buckets, the submission of a message, the wallet, the lists of    *)
(* contacts, fraud scoring, and templates.                                 *)
(***************************************************************************)
EXTENDS RateLimit, Submission, Wallet, Contacts, Fraud, Templates, FiniteSetTheorems,
        WellFoundedInduction, TLAPS

-----------------------------------------------------------------------------
(* Theorems about RateLimit for any limits, periods, callers and clocks.   *)

(* Arithmetic the solver is told once.                                     *)
LEMMA Distribute ==
    \A l, x, y \in Int : l * (x + y) = l * x + l * y /\ l * (x - y) = l * x - l * y
  BY SMT

LEMMA Monotone == \A l \in Nat, x, y \in Int : x <= y => l * x <= l * y
  BY SMT

LEMMA Commute == \A x, y \in Int : x * y = y * x /\ x * y \in Int
  BY SMT

LEMMA Quotient ==
    \A x \in Int, d \in Nat \ {0} :
        x \div d \in Int /\ d * (x \div d) <= x /\ x < d * (x \div d) + d
  BY SMT

LEMMA QuotientSmaller == \A x \in Nat, d \in Nat \ {0} : x \div d \in 0..x
  BY SMT

-----------------------------------------------------------------------------
(* A bucket's parts of a token.                                            *)
LEMMA Capacity ==
    ASSUME NEW k \in Keys
    PROVE  /\ k.scope \in Scopes /\ k.day \in Int
           /\ Limit[k.scope] \in Nat \ {0} /\ Period(k.scope) \in Nat \ {0}
           /\ Full(k) = Limit[k.scope] * Period(k.scope)
           /\ Full(k) \in Nat /\ Period(k.scope) <= Full(k)
  <1>1. k.scope \in Scopes /\ k.day \in Int
    BY ClockAssumption DEF Keys
  <1>2. Limit[k.scope] \in Nat \ {0} /\ Period(k.scope) \in Nat \ {0}
    BY <1>1, LimitAssumption, PeriodAssumption DEF Period
  <1>3. \A l, p \in Nat \ {0} : l * p \in Nat /\ p <= l * p
    BY SMT
  <1> QED BY <1>1, <1>2, <1>3 DEF Full

(* The hash of a key that has one, and the reading of a caller under way.  *)
LEMMA HashType ==
    ASSUME LimitTypeOK, NEW k \in Keys, bucket[k] # NoHash
    PROVE  /\ bucket[k].tokens \in Nat /\ bucket[k].updated \in Nat
           /\ bucket[k].written \in Nat /\ bucket[k].tokens <= Full(k)
  BY DEF LimitTypeOK, Hash

LEMMA GrantType ==
    ASSUME LimitTypeOK, NEW k \in Keys
    PROVE  /\ grants[k].count \in Nat /\ grants[k].first \in Int
           /\ grants[k].lag \in Int /\ grants[k].drift \in Nat
  BY DEF LimitTypeOK

LEMMA RefilledType ==
    ASSUME LimitTypeOK, NEW k \in Keys, NEW at \in Nat
    PROVE  Refilled(k, at) \in 0..Full(k)
  <1>1. CASE ~Present(k)
    BY <1>1, Capacity DEF Refilled
  <1>2. CASE Present(k)
    <2> DEFINE more == (at - bucket[k].updated) * Limit[k.scope]
    <2>1. bucket[k].tokens \in Nat /\ bucket[k].updated \in Nat /\ bucket[k].tokens <= Full(k)
      BY <1>2, HashType DEF Present
    <2>2. Full(k) \in Nat
      BY Capacity
    <2>3. at > bucket[k].updated => more \in Nat
      <3>1. \A x, l \in Nat : x * l \in Nat
        BY SMT
      <3> QED BY <2>1, <3>1, Capacity
    <2>4. Refilled(k, at) = IF at > bucket[k].updated THEN Least(Full(k), bucket[k].tokens + more)
                            ELSE bucket[k].tokens
      BY <1>2 DEF Refilled
    <2> HIDE DEF more
    <2> QED BY <2>1, <2>2, <2>3, <2>4 DEF Least
  <1> QED BY <1>1, <1>2

-----------------------------------------------------------------------------
(* The day a key is of, up to its last midnight: a quota's second reading  *)
(* of the clock may be in the next day already.                            *)
InDay(k, t) == k.scope = "quota" => Day * k.day <= t /\ t <= Day * k.day + Day

Accounted(k, b, g) ==
    g.count * Period(k.scope) + b.tokens
        <= Full(k) + Limit[k.scope] * (b.updated - g.first + g.drift)

KeyInv(k, b, g) ==
    IF b = NoHash THEN g.count = 0
    ELSE /\ Accounted(k, b, g)
         /\ g.lag = b.written - b.updated
         /\ InDay(k, b.updated) /\ InDay(k, g.first)

BucketIInv ==
    /\ LimitTypeOK
    /\ \A k \in Keys : KeyInv(k, bucket[k], grants[k])
    /\ \A c \in Callers : reading[c] # NoCall => InDay(reading[c].key, reading[c].at)

LEMMA BucketInitHolds == LimitInit => BucketIInv
  <1> SUFFICES ASSUME LimitInit PROVE BucketIInv
    OBVIOUS
  <1>1. LimitTypeOK
    BY ClockAssumption DEF LimitInit, LimitTypeOK
  <1>2. \A k \in Keys : KeyInv(k, bucket[k], grants[k])
    BY DEF LimitInit, KeyInv
  <1> QED BY <1>1, <1>2 DEF BucketIInv, LimitInit

(* What ReadClock names and reads.                                         *)
LEMMA ReadingFits ==
    ASSUME LimitTypeOK, NEW s \in Scopes, NEW ahead \in 0..Ahead, NEW between \in {0, 1},
           between = 1 => s = "quota"
    PROVE  LET k == KeyAt(s, ticks + ahead)
               at == ticks + ahead + between
           IN k \in Keys /\ at \in Nat /\ InDay(k, at)
  <1> DEFINE t == ticks + ahead
             q == t \div Day
  <1>1. t \in Nat /\ t <= MaxTicks + Ahead /\ MaxTicks + Ahead \in Nat /\ Day \in Nat \ {0}
    BY ClockAssumption, PeriodAssumption DEF LimitTypeOK
  <1>2. q \in 0..t /\ Day * q <= t /\ t < Day * q + Day
    BY <1>1, Quotient, QuotientSmaller
  <1>3. Day * q \in Int
    BY <1>1, <1>2, Commute
  <1> HIDE DEF t, q
  <1>4. [scope |-> s, day |-> IF s = "quota" THEN q ELSE 0] \in Keys
    BY <1>1, <1>2 DEF Keys
  <1>5. InDay([scope |-> s, day |-> IF s = "quota" THEN q ELSE 0], t + between)
    BY <1>1, <1>2, <1>3 DEF InDay
  <1> QED BY <1>1, <1>4, <1>5 DEF KeyAt, t, q

-----------------------------------------------------------------------------
(* What a call leaves behind has been paid for: its token comes out of     *)
(* what the bucket was refilled to.                                        *)
LEMMA Conserved ==
    ASSUME LimitTypeOK, NEW k \in Keys, NEW at \in Nat
    PROVE  /\ Written(k, at) \in Hash /\ Written(k, at) # NoHash
           /\ Written(k, at).tokens <= Full(k)
           /\ Written(k, at).updated = at /\ Written(k, at).written = ticks
           /\ Granted(k, at).count \in Nat
           /\ Granted(k, at).count * Period(k.scope) + Written(k, at).tokens
                = grants[k].count * Period(k.scope) + Refilled(k, at)
  <1> DEFINE parts == Refilled(k, at)
             p == Period(k.scope)
             n == grants[k].count
  <1>1. parts \in Nat /\ parts <= Full(k) /\ Full(k) \in Nat
    BY RefilledType, Capacity
  <1>2. p \in Nat \ {0} /\ n \in Nat /\ ticks \in Nat
    BY Capacity, GrantType DEF LimitTypeOK
  <1>3. (n + 1) * p = n * p + p /\ n * p \in Int
    BY <1>2, SMT
  <1>4. /\ Written(k, at).tokens = (IF parts >= p THEN parts - p ELSE parts)
        /\ Written(k, at).updated = at /\ Written(k, at).written = ticks
        /\ Written(k, at) = [ tokens |-> IF parts >= p THEN parts - p ELSE parts,
                              updated |-> at, written |-> ticks ]
    BY DEF Written, Suffices
  <1>5. Granted(k, at).count = IF parts >= p THEN n + 1 ELSE n
    BY DEF Granted, Suffices
  <1> HIDE DEF parts, p, n
  <1>6. Written(k, at).tokens \in Nat /\ Written(k, at).tokens <= Full(k)
    BY <1>1, <1>2, <1>4
  <1>7. Written(k, at) \in Hash
    BY <1>2, <1>4, <1>6 DEF Hash
  <1>8. Written(k, at) # NoHash
    BY <1>6 DEF NoHash
  <1>9. /\ Granted(k, at).count \in Nat
        /\ Granted(k, at).count * p + Written(k, at).tokens = n * p + parts
    BY <1>1, <1>2, <1>3, <1>4, <1>5
  <1> QED BY <1>4, <1>6, <1>7, <1>8, <1>9 DEF parts, p, n

(* The heart of it: whatever the reading, a refill gives no more than the  *)
(* time between the first reading and this one, and the time that drift    *)
(* says counts twice.                                                      *)
LEMMA RefillPaid ==
    ASSUME LimitTypeOK, NEW k \in Keys, NEW at \in Nat, KeyInv(k, bucket[k], grants[k])
    PROVE  LET g == Granted(k, at)
           IN /\ g.first \in Int /\ g.drift \in Nat /\ g.lag = ticks - at
              /\ grants[k].count * Period(k.scope) + Refilled(k, at)
                    <= Full(k) + Limit[k.scope] * (at - g.first + g.drift)
  <1> DEFINE b == bucket[k]
             f == grants[k].first
             d == grants[k].drift
             n == grants[k].count
             l == Limit[k.scope]
             p == Period(k.scope)
             g == Granted(k, at)
             r == Refilled(k, at)
             e == at - g.first + g.drift
  <1> SUFFICES /\ g.first \in Int /\ g.drift \in Nat /\ g.lag = ticks - at
               /\ n * p + r <= Full(k) + l * e
    OBVIOUS
  <1>1. /\ f \in Int /\ d \in Nat /\ n \in Nat /\ grants[k].lag \in Int /\ ticks \in Nat
        /\ l \in Nat \ {0} /\ p \in Nat \ {0} /\ Full(k) = l * p /\ Full(k) \in Nat
        /\ n * p \in Int
    BY GrantType, Capacity, Commute DEF LimitTypeOK
  <1>2. /\ g.first = (IF b = NoHash THEN at ELSE f)
        /\ g.lag = ticks - at
        /\ g.drift = IF b = NoHash THEN 0
                     ELSE d + (IF Present(k) THEN Later(b.updated, at)
                               ELSE Later(ticks - at, grants[k].lag))
    BY DEF Granted
  <1>3. CASE b = NoHash
    <2>1. r = Full(k) /\ n = 0
      BY <1>3 DEF Refilled, Present, KeyInv
    <2>2. e = 0
      BY <1>2, <1>3
    <2> HIDE DEF e, r, g, n, l, p
    <2>3. n * p = 0 /\ l * e = 0
      BY <1>1, <2>1, <2>2
    <2> QED BY <1>1, <1>2, <1>3, <2>1, <2>3
  <1>4. CASE b # NoHash
    <2> DEFINE u == b.updated
               x == u - f + d
    <2>1. /\ u \in Nat /\ b.written \in Nat /\ b.tokens \in Nat /\ b.tokens <= Full(k)
          /\ n * p + b.tokens <= Full(k) + l * x
          /\ grants[k].lag = b.written - u
      BY <1>4, HashType DEF KeyInv, Accounted
    <2>2. x \in Int /\ l * x \in Int
      BY <1>1, <2>1, Commute
    <2>3. CASE Present(k) /\ at > u
      <3>1. g.first = f /\ g.drift = d
        BY <1>1, <1>2, <1>4, <2>1, <2>3 DEF Later
      <3>2. r <= b.tokens + (at - u) * l /\ (at - u) * l \in Int
        BY <1>1, <2>1, <2>3, Commute DEF Refilled, Least
      <3>3. l * e = l * x + (at - u) * l
        <4>1. e = x + (at - u) /\ at - u \in Int
          BY <1>1, <2>1, <3>1
        <4> QED BY <1>1, <2>2, <4>1, Distribute, Commute
      <3>4. r \in Int
        BY RefilledType
      <3> HIDE DEF u, x, l, p, n, f, d, r, g, e
      <3> QED BY <1>1, <1>2, <2>1, <2>2, <3>1, <3>2, <3>3, <3>4
    <2>4. CASE Present(k) /\ ~(at > u)
      <3>0. Later(u, at) = u - at
        BY <2>1, <2>4 DEF Later
      <3>1. g.first = f /\ g.drift = d + (u - at)
        BY <1>2, <1>4, <2>4, <3>0
      <3>2. r = b.tokens
        BY <2>4 DEF Refilled
      <3>3. e = x
        BY <1>1, <2>1, <3>1
      <3> HIDE DEF u, x, l, p, n, f, d, r, g, e
      <3> QED BY <1>1, <1>2, <2>1, <2>2, <2>4, <3>1, <3>2, <3>3
    <2>5. CASE ~Present(k)
      <3> DEFINE lag == ticks - at
      <3>1. g.first = f /\ g.drift = d + Later(lag, b.written - u)
        BY <1>2, <1>4, <2>1, <2>5
      <3>2. r = Full(k)
        BY <2>5 DEF Refilled
      <3>3. ticks >= b.written + p
        BY <1>1, <1>4, <2>1, <2>5 DEF Present, TtlOf
      <3>4. /\ Later(lag, b.written - u) \in Nat
            /\ Later(lag, b.written - u) >= lag - (b.written - u)
        BY <1>1, <2>1 DEF Later
      <3>5. e \in Int /\ x + p <= e
        BY <1>1, <2>1, <3>1, <3>3, <3>4
      <3>6. l * (x + p) = l * x + l * p /\ l * (x + p) <= l * e /\ l * e \in Int
        BY <1>1, <2>2, <3>5, Distribute, Monotone, Commute
      <3> HIDE DEF u, x, e, l, p, n, f, d, lag, r, g
      <3>7. n * p + Full(k) <= Full(k) + l * e
        BY <1>1, <2>1, <2>2, <3>5, <3>6
      <3>8. g.first \in Int /\ g.drift \in Nat
        BY <1>1, <3>1, <3>4
      <3> QED BY <1>2, <3>1, <3>2, <3>7, <3>8
    <2> QED BY <2>3, <2>4, <2>5
  <1> QED BY <1>3, <1>4

(* One call of the limiter.                                                *)
LEMMA EvaluationKeeps ==
    ASSUME LimitTypeOK, NEW k \in Keys, NEW at \in Nat, KeyInv(k, bucket[k], grants[k]),
           InDay(k, at)
    PROVE  KeyInv(k, Written(k, at), Granted(k, at))
  <1>1. Written(k, at) # NoHash /\ Written(k, at).updated = at /\ Written(k, at).written = ticks
    BY Conserved
  <1>2. Accounted(k, Written(k, at), Granted(k, at))
    BY Conserved, RefillPaid, Zenon DEF Accounted
  <1>3. Granted(k, at).lag = ticks - at
    BY RefillPaid
  <1>4. InDay(k, Granted(k, at).first)
    <2>1. Granted(k, at).first = IF bucket[k] = NoHash THEN at ELSE grants[k].first
      BY DEF Granted
    <2> QED BY <2>1 DEF KeyInv
  <1> QED BY <1>1, <1>2, <1>3, <1>4 DEF KeyInv

-----------------------------------------------------------------------------
LEMMA BucketStepKeeps ==
    ASSUME BucketIInv, [LimitNext]_limitVars
    PROVE  BucketIInv'
  <1>1. CASE UNCHANGED limitVars
    BY <1>1 DEF limitVars, BucketIInv, LimitTypeOK, KeyInv, Accounted, InDay
  <1>2. CASE ClockTick
    <2>1. LimitTypeOK'
      BY <1>2, ClockAssumption DEF ClockTick, BucketIInv, LimitTypeOK
    <2> QED BY <1>2, <2>1 DEF ClockTick, BucketIInv, KeyInv, Accounted, InDay
  <1>3. ASSUME NEW c \in Callers, NEW s \in Scopes, ReadClock(c, s)
        PROVE  BucketIInv'
    <2>1. PICK ahead \in 0..Ahead, between \in {0, 1} :
             /\ between = 1 => s = "quota"
             /\ reading' = [reading EXCEPT ![c] =
                   [key |-> KeyAt(s, ticks + ahead), at |-> ticks + ahead + between]]
      BY <1>3 DEF ReadClock
    <2> DEFINE k == KeyAt(s, ticks + ahead)
               at == ticks + ahead + between
    <2>2. k \in Keys /\ at \in Nat /\ InDay(k, at)
      BY <2>1, ReadingFits DEF BucketIInv
    <2> HIDE DEF k, at
    <2>3. reading' = [reading EXCEPT ![c] = [key |-> k, at |-> at]]
      BY <2>1 DEF k, at
    <2>4. LimitTypeOK'
      BY <1>3, <2>2, <2>3 DEF ReadClock, BucketIInv, LimitTypeOK
    <2>5. \A d \in Callers : reading'[d] # NoCall => InDay(reading'[d].key, reading'[d].at)
      BY <2>2, <2>3 DEF BucketIInv, LimitTypeOK
    <2> QED BY <1>3, <2>4, <2>5 DEF ReadClock, BucketIInv, KeyInv, Accounted, InDay
  <1>4. ASSUME NEW c \in Callers, Evaluate(c)
        PROVE  BucketIInv'
    <2> DEFINE k == reading[c].key
               at == reading[c].at
    <2>1. k \in Keys /\ at \in Nat /\ InDay(k, at)
      BY <1>4 DEF Evaluate, BucketIInv, LimitTypeOK
    <2>2. KeyInv(k, bucket[k], grants[k])
      BY <2>1 DEF BucketIInv
    <2>3. /\ Written(k, at) \in Hash /\ Written(k, at).tokens <= Full(k)
          /\ Granted(k, at).count \in Nat
      BY <2>1, Conserved DEF BucketIInv
    <2>4. /\ Granted(k, at).first \in Int /\ Granted(k, at).drift \in Nat
          /\ Granted(k, at).lag \in Int
      BY <2>1, <2>2, RefillPaid DEF BucketIInv, LimitTypeOK
    <2>5. Granted(k, at) \in [count : Nat, first : Int, lag : Int, drift : Nat]
      BY <2>3, <2>4 DEF Granted
    <2>6. KeyInv(k, Written(k, at), Granted(k, at))
      BY <2>1, <2>2, EvaluationKeeps DEF BucketIInv
    <2>7. /\ bucket' = [bucket EXCEPT ![k] = Written(k, at)]
          /\ grants' = [grants EXCEPT ![k] = Granted(k, at)]
          /\ reading' = [reading EXCEPT ![c] = NoCall]
          /\ UNCHANGED <<ticks, calls>>
      BY <1>4 DEF Evaluate
    <2> HIDE DEF k, at
    <2>8. /\ \A j \in Keys : bucket'[j] = IF j = k THEN Written(k, at) ELSE bucket[j]
          /\ \A j \in Keys : grants'[j] = IF j = k THEN Granted(k, at) ELSE grants[j]
      BY <2>7 DEF BucketIInv, LimitTypeOK
    <2>9. LimitTypeOK'
      <3>1. bucket' \in [Keys -> Hash \cup {NoHash}]
        BY <2>3, <2>7 DEF BucketIInv, LimitTypeOK
      <3>2. grants' \in [Keys -> [count : Nat, first : Int, lag : Int, drift : Nat]]
        BY <2>5, <2>7 DEF BucketIInv, LimitTypeOK
      <3>3. reading' \in [Callers -> [key : Keys, at : Nat] \cup {NoCall}]
        BY <2>7 DEF BucketIInv, LimitTypeOK
      <3>4. \A j \in Keys : bucket'[j] # NoHash => bucket'[j].tokens <= Full(j)
        BY <2>3, <2>8 DEF BucketIInv, LimitTypeOK
      <3> QED BY <2>7, <3>1, <3>2, <3>3, <3>4 DEF BucketIInv, LimitTypeOK
    <2>10. \A j \in Keys : KeyInv(j, bucket'[j], grants'[j])
      BY <2>6, <2>8 DEF BucketIInv
    <2>11. \A d \in Callers : reading'[d] # NoCall => InDay(reading'[d].key, reading'[d].at)
      BY <2>7 DEF BucketIInv, LimitTypeOK
    <2> QED BY <2>9, <2>10, <2>11 DEF BucketIInv, KeyInv, Accounted, InDay
  <1> QED BY <1>1, <1>2, <1>3, <1>4 DEF LimitNext, ScopeNext

(* What the script has granted from a hash and what is left in it never    *)
(* exceed the capacity and the refill of the time between its first and    *)
(* its last reading, which the daily key keeps inside one day.             *)
THEOREM BucketInvariant == LimitSpec => []BucketIInv
  <1> QED BY BucketInitHolds, BucketStepKeeps, PTL DEF LimitSpec

-----------------------------------------------------------------------------
LEMMA TwiceADay ==
    \A n, l, t \in Nat, d \in Nat \ {0}, x \in Int :
        n * d + t <= l * d + l * x /\ x <= d => n <= 2 * l
  <1> TAKE n, l, t \in Nat, d \in Nat \ {0}, x \in Int
  <1> HAVE n * d + t <= l * d + l * x /\ x <= d
  <1>1. l * x <= l * d /\ l * x \in Int /\ l * d \in Int /\ n * d \in Int
    BY Monotone, Commute
  <1>2. n * d <= l * d + l * d
    BY <1>1
  <1>3. d * n <= d * (2 * l)
    <2>1. d * (2 * l) = l * d + l * d /\ d * n = n * d
      BY SMT
    <2> QED BY <1>2, <2>1
  <1>4. n >= 2 * l + 1 => d * (2 * l + 1) <= d * n
    BY Monotone
  <1>5. d * (2 * l + 1) = d * (2 * l) + d /\ d * (2 * l) \in Int
    BY SMT
  <1> QED BY <1>1, <1>3, <1>4, <1>5

(* A wait is the shortest that suffices.                                   *)
LEMMA WaitSuffices ==
    ASSUME LimitTypeOK, NEW k \in Keys, Present(k), ~Suffices(k, bucket[k].tokens)
    PROVE  LET wait == RetryAfter(k, bucket[k].tokens)
           IN Passes(k, bucket[k].updated + wait) /\ ~Passes(k, bucket[k].updated + wait - 1)
  <1> DEFINE l == Limit[k.scope]
             p == Period(k.scope)
             b == bucket[k]
             n == b.tokens
             u == b.updated
             w == RetryAfter(k, n)
  <1>1. /\ l \in Nat \ {0} /\ p \in Nat \ {0} /\ Full(k) \in Nat /\ p <= Full(k)
        /\ n \in Nat /\ u \in Nat
    BY Capacity, HashType DEF Present
  <1>2. n < p
    BY <1>1 DEF Suffices
  <1>3. w = (p - n + l - 1) \div l
    BY DEF RetryAfter
  <1>4. \A x \in Int : Passes(k, u + x) <=>
                          (x > 0 /\ Least(Full(k), n + x * l) >= p) \/ (~(x > 0) /\ n >= p)
    <2> TAKE x \in Int
    <2> DEFINE y == u + x
    <2>1. Refilled(k, y) = IF y > u THEN Least(Full(k), n + (y - u) * l) ELSE n
      BY DEF Refilled
    <2>2. Passes(k, y) <=> Refilled(k, y) >= p
      BY DEF Passes, Suffices
    <2>3. (y > u <=> x > 0) /\ y - u = x
      BY <1>1
    <2> HIDE DEF y, u, n, l, p
    <2>4. Passes(k, y) <=> (x > 0 /\ Least(Full(k), n + x * l) >= p) \/ (~(x > 0) /\ n >= p)
      BY <2>1, <2>2, <2>3
    <2> QED BY <2>4 DEF y
  <1> HIDE DEF l, p, n, u, w
  <1>5. /\ w \in Int /\ l * w <= p - n + l - 1 /\ p - n + l - 1 < l * w + l
    BY <1>1, <1>3, Quotient
  <1>6. /\ w * l = l * w /\ l * w \in Int
        /\ (w - 1) * l = l * w - l /\ (w - 1) * l \in Int
    BY <1>1, <1>5, SMT
  <1>7. w > 0
    <2>1. l * w >= 1
      BY <1>1, <1>2, <1>5, <1>6
    <2>2. w <= 0 => l * w <= l * 0
      BY <1>1, <1>5, Monotone
    <2>3. l * 0 = 0
      BY <1>1
    <2> QED BY <1>5, <1>6, <2>1, <2>2, <2>3
  <1>8. Passes(k, u + w)
    BY <1>1, <1>4, <1>5, <1>6, <1>7 DEF Least
  <1>9. ~Passes(k, u + (w - 1))
    BY <1>1, <1>2, <1>4, <1>5, <1>6, <1>7 DEF Least
  <1>10. u + (w - 1) = u + w - 1
    BY <1>1, <1>5
  <1> QED BY <1>8, <1>9, <1>10 DEF u, w, n

(* For any limits, periods and clocks the limiter gives away nothing that  *)
(* the time between readings, or the time counted twice, does not pay for; *)
(* a quota passes at most twice a day; a told wait is right (the script    *)
(* TOKEN_BUCKET_LUA, enforceDailyQuota).                                   *)
THEOREM BudgetKept == LimitSpec => []WithinBudget
  <1>1. ASSUME BucketIInv PROVE GrantsAccounted
    BY <1>1 DEF BucketIInv, KeyInv, Accounted, GrantsAccounted
  <1>2. ASSUME BucketIInv PROVE DayAtMostTwice
    <2> SUFFICES ASSUME NEW k \in Keys, k.scope = "quota", grants[k].drift = 0
                 PROVE  grants[k].count <= 2 * Limit["quota"]
      BY DEF DayAtMostTwice
    <2> DEFINE l == Limit["quota"]
               n == grants[k].count
               f == grants[k].first
               u == bucket[k].updated
               t == bucket[k].tokens
    <2>1. /\ l \in Nat /\ Day \in Nat \ {0} /\ n \in Nat /\ f \in Int
          /\ Full(k) = l * Day /\ Period(k.scope) = Day
      BY <1>2, Capacity, GrantType, PeriodAssumption DEF BucketIInv, Period
    <2>2. CASE bucket[k] = NoHash
      <3>1. n = 0
        BY <1>2, <2>2 DEF BucketIInv, KeyInv
      <3> QED BY <2>1, <3>1
    <2>3. CASE bucket[k] # NoHash
      <3>1. u \in Nat /\ t \in Nat
        BY <1>2, <2>3, HashType DEF BucketIInv
      <3>2. /\ n * Day + t <= l * Day + l * (u - f + 0)
            /\ Day * k.day <= f /\ u <= Day * k.day + Day
        BY <1>2, <2>1, <2>3 DEF BucketIInv, KeyInv, Accounted, InDay
      <3>3. u - f + 0 = u - f /\ u - f \in Int /\ u - f <= Day
        <4>1. Day * k.day \in Int
          BY <2>1, Capacity, Commute
        <4> QED BY <2>1, <3>1, <3>2, <4>1
      <3> HIDE DEF l, n, f, u, t
      <3>4. n * Day + t <= l * Day + l * (u - f)
        BY <3>2, <3>3, Zenon
      <3>5. n <= 2 * l
        BY <2>1, <3>1, <3>3, <3>4, TwiceADay
      <3> QED BY <3>5 DEF n, l
    <2> QED BY <2>2, <2>3
  <1>3. ASSUME BucketIInv PROVE WaitIsRight
    BY <1>3, WaitSuffices DEF BucketIInv, WaitIsRight
  <1> QED BY <1>1, <1>2, <1>3, BucketInvariant, PTL DEF WithinBudget

-----------------------------------------------------------------------------
(* Submission, for any requests, identifiers, numbers, carriers and days.  *)
(* A request and its row belong together (Together), what the request has  *)
(* passed binds both (Bound), and what its look-up returned or missed is   *)
(* what was there when it came (Looked).                                   *)

BeforeRow == {"quotas", "destination", "route", "sender", "fraud", "begin", "look up", "insert"}

Finished == {"audit", "answered"}

(* What has passed the lists, and what has passed the sender's approval.     *)
PastLists == {"route", "sender", "fraud", "begin", "look up", "insert", "reserve", "commit"}

PastSender == {"fraud", "begin", "look up", "insert", "reserve", "commit"}

(* What has looked for an earlier message in vain.                           *)
PastLookUp == {"insert", "reserve", "commit"}

Asked ==
    [ pc : BeforeRow \cup {"reserve", "commit"} \cup Finished,
      key : IdempotencyKeys \cup {Unset}, client : ClientIds \cup {Unset},
      number : Numbers, carrier : Carriers \cup {Unset}, day : Nat,
      found : Requests \cup {Unset, Refused} ]

RowSet ==
    [ key : IdempotencyKeys \cup {Unset}, client : ClientIds \cup {Unset},
      number : Numbers, carrier : Carriers \cup {Unset}, day : Nat, committed : BOOLEAN ]

SubmitTypeOK ==
    /\ request \in [Requests -> Asked \cup {NoRequest}]
    /\ message \in [Requests -> RowSet \cup {NoMessage}]
    /\ today \in Nat
    /\ sender \in [Carriers -> {"none", "pending", "approved", "rejected"}]
    /\ past \in [Requests -> [ barred : BOOLEAN, approved : SUBSET Carriers,
                               answered : SUBSET Requests ]]

(* The request q and the row m of one request belong together.               *)
Together(q, m) ==
    /\ q.pc \in BeforeRow => m = NoMessage
    /\ q.pc \in {"reserve", "commit"} => m # NoMessage
    /\ m # NoMessage => /\ m.key = q.key /\ m.client = q.client
                        /\ m.carrier = q.carrier /\ m.day = q.day
                        /\ m.committed <=> q.pc \in Finished
    /\ q.pc \notin Finished => q.found = Unset
    /\ q.pc = "sender" => q.carrier \in Carriers

(* What it has passed bound it.                                              *)
Bound(r, q, m) ==
    /\ past[r].barred => q.number \in optOuts \cup suppressions
    /\ q.pc \in PastLists \/ m # NoMessage => ~past[r].barred
    /\ \A p \in Carriers : sender[p] = "approved" => p \in past[r].approved
    /\ q.pc \in PastSender \/ m # NoMessage => q.carrier \in past[r].approved

(* The row t is one the look-up of the request q could return.               *)
Matches(q, t) ==
    /\ message[t].day = q.day
    /\ \/ q.key # Unset /\ message[t].key = q.key
       \/ q.client # Unset /\ message[t].client = q.client

(* What it was answered with is there, and what it has not found was not     *)
(* there when it came; no other row has its key.                             *)
Looked(r, q, m) ==
    /\ q.found \in Requests =>
         IF q.found = r THEN m # NoMessage /\ m.committed
         ELSE message[q.found] # NoMessage /\ message[q.found].committed /\ Matches(q, q.found)
    /\ q.pc \in PastLookUp \/ m # NoMessage =>
         \A t \in past[r].answered : message[t] # NoMessage => ~Matches(q, t)
    /\ m # NoMessage /\ q.key # Unset =>
         \A t \in Requests \ {r} : message[t] # NoMessage => ~(message[t].key = q.key /\ message[t].day = q.day)

(* Whoever was answered when r came still is, and r was not.                 *)
Answered == \A r \in Requests : \A t \in past[r].answered : t # r /\ Is(t, "answered")

SubmitIInv ==
    /\ SubmitTypeOK
    /\ Answered
    /\ \A r \in Requests :
         IF request[r] = NoRequest THEN message[r] = NoMessage /\ past[r].answered = {}
         ELSE /\ Together(request[r], message[r])
              /\ Bound(r, request[r], message[r])
              /\ Looked(r, request[r], message[r])

-----------------------------------------------------------------------------
LEMMA NotAMessage == NoMessage \notin RowSet /\ NoRequest \notin Asked
  <1>1. DOMAIN NoMessage = {"key"}
    BY DEF NoMessage
  <1>2. \A m \in RowSet : "day" \in DOMAIN m
    BY DEF RowSet
  <1>3. NoRequest.pc = "none" /\ \A q \in Asked : q.pc # "none"
    BY DEF NoRequest, Asked, BeforeRow, Finished
  <1> QED BY <1>1, <1>2, <1>3

LEMMA SubmitInitHolds == SubmitInit => SubmitIInv
  <1> SUFFICES ASSUME SubmitInit PROVE SubmitIInv
    OBVIOUS
  <1>1. SubmitTypeOK
    BY DEF SubmitInit, SubmitTypeOK
  <1> QED BY <1>1 DEF SubmitInit, SubmitIInv, Answered

(* A step of one request r that leaves the lists and the senders alone:      *)
(* what it has to see to for itself, and that others' rows stay what they    *)
(* are.                                                                      *)
LEMMA OwnStep ==
    ASSUME SubmitIInv, NEW r \in Requests, request[r] # NoRequest, request[r].pc # "answered",
           NEW q \in Asked, NEW m \in RowSet \cup {NoMessage},
           request' = [request EXCEPT ![r] = q],
           message' = [message EXCEPT ![r] = m],
           message[r] # NoMessage /\ message[r].committed => m = message[r],
           Together(q, m), Bound(r, q, m), Looked(r, q, m),
           UNCHANGED <<Book, past>>
    PROVE  SubmitIInv'
  <1> USE DEF SubmitIInv
  <1>1. UNCHANGED <<optOuts, suppressions, sender, today, past>>
    BY DEF Book
  <1>2. /\ request'[r] = q /\ message'[r] = m
        /\ \A t \in Requests \ {r} : request'[t] = request[t] /\ message'[t] = message[t]
        /\ q # NoRequest
    BY NotAMessage DEF SubmitTypeOK
  <1>3. SubmitTypeOK'
    BY <1>1 DEF SubmitTypeOK
  <1>4. Answered'
    BY <1>1, <1>2 DEF Answered, Is, SubmitTypeOK
  <1>5. \A s \in Requests : past[s].answered \subseteq Requests \ {r}
    BY DEF Answered, Is, SubmitTypeOK
  <1>6. Together(q, m)' /\ Bound(r, q, m)' /\ Looked(r, q, m)'
    <2>1. Bound(r, q, m)'
      BY <1>1 DEF Bound
    <2>2. Looked(r, q, m)'
      BY <1>1, <1>2, <1>5 DEF Looked, Matches
    <2> QED BY <2>1, <2>2 DEF Together
  <1>7. ASSUME NEW s \in Requests \ {r}, request[s] # NoRequest
        PROVE  /\ Together(request[s], message[s])'
               /\ Bound(s, request[s], message[s])'
               /\ Looked(s, request[s], message[s])'
    <2>1. Together(request[s], message[s]) /\ Bound(s, request[s], message[s]) /\ Looked(s, request[s], message[s])
      BY <1>7
    <2>2. request'[s] = request[s] /\ message'[s] = message[s]
      BY <1>2
    <2>3. Together(request[s], message[s])' /\ Bound(s, request[s], message[s])'
      BY <1>1, <2>1, <2>2 DEF Together, Bound
    <2>4. Looked(s, request[s], message[s])'
      <3>1. request[s] \in Asked
        BY <1>7 DEF SubmitTypeOK
      <3> DEFINE p == request[s]
      <3>2. p.found \in Requests =>
              IF p.found = s THEN message'[s] # NoMessage /\ message'[s].committed
              ELSE message'[p.found] # NoMessage /\ message'[p.found].committed /\ Matches(p, p.found)'
        BY <1>2, <2>1, <2>2 DEF Looked, Matches
      <3>3. p.pc \in PastLookUp \/ message'[s] # NoMessage =>
              \A t \in past[s].answered : message'[t] # NoMessage => ~Matches(p, t)'
        BY <1>2, <1>5, <2>1, <2>2 DEF Looked, Matches
      <3>4. message'[s] # NoMessage /\ p.key # Unset =>
              \A t \in Requests \ {s} :
                message'[t] # NoMessage => ~(message'[t].key = p.key /\ message'[t].day = p.day)
        <4> SUFFICES ASSUME message'[s] # NoMessage, p.key # Unset, NEW t \in Requests \ {s},
                            message'[t] # NoMessage, message'[t].key = p.key, message'[t].day = p.day
                     PROVE  FALSE
          OBVIOUS
        <4>1. CASE t = r
          <5>1. m # NoMessage /\ q.key = p.key /\ q.day = p.day /\ q.key # Unset
            BY <1>2, <4>1 DEF Together
          <5>2. message[s] # NoMessage /\ message[s].key = p.key /\ message[s].day = p.day
            BY <2>1, <2>2 DEF Together
          <5> QED BY <5>1, <5>2 DEF Looked
        <4>2. CASE t # r
          BY <1>2, <2>1, <2>2, <4>2 DEF Looked
        <4> QED BY <4>1, <4>2
      <3> HIDE DEF p
      <3>5. Looked(s, p, message[s])'
        BY <1>1, <2>2, <3>2, <3>3, <3>4 DEF Looked, p
      <3> QED BY <3>5 DEF p
    <2> QED BY <2>3, <2>4
  <1>8. ASSUME NEW s \in Requests \ {r}, request[s] = NoRequest
        PROVE  message'[s] = NoMessage /\ past'[s].answered = {} /\ request'[s] = NoRequest
    BY <1>1, <1>2, <1>8
  <1> QED BY <1>2, <1>3, <1>4, <1>6, <1>7, <1>8

-----------------------------------------------------------------------------
LEMMA ComingFacts ==
    ASSUME SubmitIInv, NEW r \in Requests, request[r] # NoRequest
    PROVE  /\ request[r] \in Asked /\ message[r] \in RowSet \cup {NoMessage}
           /\ message = [message EXCEPT ![r] = message[r]]
           /\ Together(request[r], message[r])
           /\ Bound(r, request[r], message[r])
           /\ Looked(r, request[r], message[r])
  BY DEF SubmitIInv, SubmitTypeOK

(* An exception, with or without a rollback.                                 *)
LEMMA RefuseInv ==
    ASSUME SubmitIInv, NEW r \in Requests, request[r] # NoRequest,
           request[r].pc \notin Finished, Refuse(r),
           message' = [message EXCEPT ![r] = NoMessage], UNCHANGED <<Book, past>>
    PROVE  SubmitIInv'
  <1> DEFINE q == [request[r] EXCEPT !.pc = "audit", !.found = Refused]
  <1>1. q \in Asked /\ q.pc = "audit" /\ q.found = Refused /\ q.number = request[r].number
    BY ComingFacts DEF Asked, Finished
  <1>2. request' = [request EXCEPT ![r] = q]
    BY DEF Refuse
  <1>3. message[r] # NoMessage => ~message[r].committed
    BY ComingFacts DEF Together, RowSet
  <1> HIDE DEF q
  <1>4. Together(q, NoMessage) /\ Bound(r, q, NoMessage) /\ Looked(r, q, NoMessage)
    BY <1>1, ComingFacts, UnsetAssumption
    DEF Together, Bound, Looked, Refused, Finished, BeforeRow, PastLists, PastSender, PastLookUp
  <1>5. request[r].pc # "answered"
    BY DEF Finished
  <1> QED BY <1>1, <1>2, <1>3, <1>4, <1>5, OwnStep

(* A request goes on, and has no row before or after.                        *)
LEMMA ProceedInv ==
    ASSUME SubmitIInv, NEW r \in Requests, request[r] # NoRequest,
           request[r].pc \in BeforeRow,
           NEW q \in Asked, q.pc \in BeforeRow, q.found = Unset, q.number = request[r].number,
           request' = [request EXCEPT ![r] = q],
           q.pc = "sender" => q.carrier \in Carriers,
           q.pc \in PastLists => ~past[r].barred,
           q.pc \in PastSender => q.carrier \in past[r].approved,
           q.pc \in PastLookUp => \A t \in past[r].answered : message[t] # NoMessage => ~Matches(q, t),
           Unchanging
    PROVE  SubmitIInv'
  <1>1. message[r] = NoMessage
    BY ComingFacts DEF Together
  <1>2. Together(q, NoMessage) /\ Bound(r, q, NoMessage) /\ Looked(r, q, NoMessage)
    BY ComingFacts, UnsetAssumption
    DEF Together, Bound, Looked, Finished, BeforeRow
  <1>3. request[r].pc # "answered" /\ message' = [message EXCEPT ![r] = NoMessage]
    BY <1>1, ComingFacts DEF Unchanging, BeforeRow
  <1> QED BY <1>1, <1>2, <1>3, OwnStep DEF Unchanging

(* What stands before the transaction.                                       *)
LEMMA ScreenInv ==
    ASSUME SubmitIInv, NEW r \in Requests, Screen(r) \/ BeginSubmission(r)
    PROVE  SubmitIInv'
  <1> USE DEF Is
  <1>1. /\ request[r] # NoRequest
        /\ request[r].pc \in {"quotas", "destination", "route", "sender", "fraud", "begin"}
        /\ Unchanging
    BY DEF Screen, ConsumeQuotas, AssertNotOptedOut, SelectRoute, EnsureApproved,
           EnforceSubmission, BeginSubmission
  <1>2. /\ request[r] \in Asked /\ message[r] = NoMessage /\ request[r].found = Unset
        /\ request[r].pc \in BeforeRow /\ request[r].pc \notin Finished
        /\ message' = [message EXCEPT ![r] = NoMessage]
        /\ UNCHANGED <<Book, past>>
    BY <1>1, ComingFacts DEF Together, BeforeRow, Finished, Unchanging
  <1>3. ASSUME Refuse(r) PROVE SubmitIInv'
    BY <1>1, <1>2, <1>3, RefuseInv
  <1>4. Bound(r, request[r], message[r])
    BY <1>1, ComingFacts
  <1>5. ASSUME NEW pc \in {"destination", "route", "fraud", "begin"}, Proceed(r, pc),
               pc # "destination" => ~past[r].barred,
               pc \in PastSender => request[r].carrier \in past[r].approved
        PROVE  SubmitIInv'
    <2> DEFINE q == [request[r] EXCEPT !.pc = pc]
    <2>1. /\ q \in Asked /\ q.pc = pc /\ q.found = Unset /\ q.number = request[r].number
          /\ q.carrier = request[r].carrier
      BY <1>2 DEF Asked, BeforeRow
    <2>2. request' = [request EXCEPT ![r] = q]
      BY <1>5 DEF Proceed
    <2> HIDE DEF q
    <2>3. pc \in BeforeRow /\ pc \notin PastLookUp /\ (pc \in PastLists => pc # "destination")
      BY DEF BeforeRow, PastLookUp, PastLists
    <2> QED BY <1>1, <1>2, <1>5, <2>1, <2>2, <2>3, ProceedInv
  <1>6. CASE ConsumeQuotas(r)
    BY <1>3, <1>5, <1>6 DEF ConsumeQuotas, PastSender
  <1>7. CASE AssertNotOptedOut(r)
    <2>1. CASE Blocked(request[r].number)
      BY <1>3, <1>7, <2>1 DEF AssertNotOptedOut
    <2>2. CASE ~Blocked(request[r].number)
      BY <1>4, <1>5, <1>7, <2>2 DEF AssertNotOptedOut, Blocked, Bound, PastSender
    <2> QED BY <2>1, <2>2
  <1>8. CASE SelectRoute(r)
    <2>1. ASSUME NEW p \in Carriers, request' = [request EXCEPT ![r].pc = "sender", ![r].carrier = p]
          PROVE  SubmitIInv'
      <3> DEFINE q == [request[r] EXCEPT !.pc = "sender", !.carrier = p]
      <3>1. /\ q \in Asked /\ q.pc = "sender" /\ q.found = Unset /\ q.number = request[r].number
            /\ q.carrier \in Carriers
        BY <1>2 DEF Asked, BeforeRow
      <3>2. request' = [request EXCEPT ![r] = q]
        BY <2>1
      <3> HIDE DEF q
      <3>3. ~past[r].barred
        BY <1>4, <1>8 DEF SelectRoute, Bound, PastLists
      <3>4. "sender" \in BeforeRow /\ "sender" \notin PastLookUp /\ "sender" \notin PastSender
        BY DEF BeforeRow, PastLookUp, PastSender
      <3> QED BY <1>1, <1>2, <3>1, <3>2, <3>3, <3>4, ProceedInv
    <2> QED BY <1>3, <1>8, <2>1 DEF SelectRoute
  <1>9. CASE EnsureApproved(r)
    <2>1. CASE Approved(request[r].carrier)
      <3>1. request[r].carrier \in past[r].approved
        BY <1>1, <1>4, <1>9, <2>1, ComingFacts DEF EnsureApproved, Approved, Bound, Together
      <3> QED BY <1>4, <1>5, <1>9, <2>1, <3>1 DEF EnsureApproved, Bound, PastLists
    <2>2. CASE ~Approved(request[r].carrier)
      BY <1>3, <1>9, <2>2 DEF EnsureApproved
    <2> QED BY <2>1, <2>2
  <1>10. CASE EnforceSubmission(r)
    BY <1>3, <1>4, <1>5, <1>10 DEF EnforceSubmission, Bound, PastLists, PastSender
  <1>11. CASE BeginSubmission(r)
    <2> DEFINE q == [request[r] EXCEPT !.pc = "look up", !.day = today]
    <2>1. /\ q \in Asked /\ q.pc = "look up" /\ q.found = Unset /\ q.number = request[r].number
          /\ q.carrier = request[r].carrier
      BY <1>2 DEF Asked, BeforeRow, SubmitIInv, SubmitTypeOK
    <2>2. request' = [request EXCEPT ![r] = q]
      BY <1>11 DEF BeginSubmission
    <2> HIDE DEF q
    <2>3. ~past[r].barred /\ request[r].carrier \in past[r].approved
      BY <1>4, <1>11 DEF BeginSubmission, Bound, PastLists, PastSender
    <2>4. "look up" \in BeforeRow /\ "look up" \notin PastLookUp
      BY DEF BeforeRow, PastLookUp
    <2> QED BY <1>1, <1>2, <2>1, <2>2, <2>3, <2>4, ProceedInv
  <1> QED BY <1>6, <1>7, <1>8, <1>9, <1>10, <1>11 DEF Screen

LEMMA LookUpInv == ASSUME SubmitIInv, NEW r \in Requests, LookUp(r) PROVE SubmitIInv'
  <1> USE DEF Is
  <1>1. /\ request[r] # NoRequest /\ request[r].pc = "look up" /\ Unchanging
        /\ request[r] \in Asked /\ message[r] = NoMessage /\ request[r].found = Unset
        /\ Bound(r, request[r], message[r])
    BY ComingFacts DEF LookUp, Together, BeforeRow, Finished
  <1>2. /\ request[r].pc \in BeforeRow /\ request[r].pc # "answered"
        /\ message' = [message EXCEPT ![r] = NoMessage]
        /\ UNCHANGED <<Book, past>>
    BY <1>1, ComingFacts DEF BeforeRow, Unchanging
  <1>3. CASE Earlier(r) = {}
    <2> DEFINE q == [request[r] EXCEPT !.pc = "insert"]
    <2>1. /\ q \in Asked /\ q.pc = "insert" /\ q.found = Unset /\ q.number = request[r].number
          /\ q.carrier = request[r].carrier /\ q.key = request[r].key
          /\ q.client = request[r].client /\ q.day = request[r].day
      BY <1>1 DEF Asked, BeforeRow
    <2>2. request' = [request EXCEPT ![r] = q]
      BY <1>3 DEF LookUp, Proceed
    <2> HIDE DEF q
    <2>3. ~past[r].barred /\ request[r].carrier \in past[r].approved
      BY <1>1 DEF Bound, PastLists, PastSender
    <2>4. \A t \in past[r].answered : message[t] # NoMessage => ~Matches(q, t)
      <3> SUFFICES ASSUME NEW t \in past[r].answered, message[t] # NoMessage, Matches(q, t)
                   PROVE  FALSE
        OBVIOUS
      <3>1. t \in Requests /\ request[t] # NoRequest /\ request[t].pc = "answered"
        BY DEF SubmitIInv, SubmitTypeOK, Answered
      <3>2. message[t].committed
        BY <3>1, ComingFacts DEF Together, Finished
      <3>3. t \in Earlier(r)
        BY <2>1, <3>1, <3>2 DEF Matches, Earlier, Rows
      <3> QED BY <1>3, <3>3
    <2>5. "insert" \in BeforeRow
      BY DEF BeforeRow
    <2> QED BY <1>1, <1>2, <2>1, <2>2, <2>3, <2>4, <2>5, ProceedInv
  <1>4. CASE Earlier(r) # {}
    <2>1. PICK m \in Earlier(r) : request' = [request EXCEPT ![r].pc = "audit", ![r].found = m]
      BY <1>4 DEF LookUp
    <2>2. /\ m \in Requests /\ m # r /\ message[m] # NoMessage /\ message[m].committed
          /\ Matches(request[r], m)
      BY <1>1, <2>1 DEF Earlier, Rows, Matches
    <2> DEFINE q == [request[r] EXCEPT !.pc = "audit", !.found = m]
    <2>3. /\ q \in Asked /\ q.pc = "audit" /\ q.found = m /\ q.number = request[r].number
          /\ q.key = request[r].key /\ q.client = request[r].client /\ q.day = request[r].day
      BY <1>1, <2>2 DEF Asked, Finished
    <2>4. request' = [request EXCEPT ![r] = q]
      BY <2>1
    <2> HIDE DEF q
    <2>5. Together(q, NoMessage) /\ Bound(r, q, NoMessage)
      BY <1>1, <2>3 DEF Together, Bound, Finished, BeforeRow, PastLists, PastSender
    <2>6. Looked(r, q, NoMessage)
      BY <2>2, <2>3 DEF Looked, Matches, PastLookUp
    <2> QED BY <1>1, <1>2, <2>3, <2>4, <2>5, <2>6, OwnStep
  <1> QED BY <1>3, <1>4

LEMMA InsertInv == ASSUME SubmitIInv, NEW r \in Requests, Insert(r) PROVE SubmitIInv'
  <1> USE DEF Is
  <1>1. /\ request[r] # NoRequest /\ request[r].pc = "insert" /\ UNCHANGED <<Book, past>>
        /\ request[r] \in Asked /\ message[r] = NoMessage /\ request[r].found = Unset
        /\ Bound(r, request[r], message[r]) /\ Looked(r, request[r], message[r])
    BY ComingFacts DEF Insert, Together, BeforeRow, Finished
  <1>2. CASE InTheWay(r) # {}
    <2>1. Refuse(r) /\ message' = [message EXCEPT ![r] = NoMessage] /\ request[r].pc \notin Finished
      BY <1>1, <1>2, ComingFacts DEF Insert, Finished
    <2> QED BY <1>1, <2>1, RefuseInv
  <1>3. CASE InTheWay(r) = {}
    <2> DEFINE q == [request[r] EXCEPT !.pc = "reserve"]
               m == [ key |-> request[r].key, client |-> request[r].client,
                      number |-> request[r].number, carrier |-> request[r].carrier,
                      day |-> request[r].day, committed |-> FALSE ]
    <2>1. /\ q \in Asked /\ q.pc = "reserve" /\ q.found = Unset /\ q.number = request[r].number
          /\ q.carrier = request[r].carrier /\ q.key = request[r].key
          /\ q.client = request[r].client /\ q.day = request[r].day
      BY <1>1 DEF Asked
    <2>2. /\ m \in RowSet /\ m.key = q.key /\ m.client = q.client /\ m.carrier = q.carrier
          /\ m.day = q.day /\ m.committed = FALSE
      BY <1>1 DEF Asked, RowSet
    <2>3. request' = [request EXCEPT ![r] = q] /\ message' = [message EXCEPT ![r] = m]
      BY <1>3 DEF Insert, Proceed
    <2> HIDE DEF q, m
    <2>4. m # NoMessage
      BY <2>2, NotAMessage
    <2>5. Together(q, m) /\ Bound(r, q, m)
      BY <1>1, <2>1, <2>2, <2>4
      DEF Together, Bound, Finished, BeforeRow, PastLists, PastSender
    <2>6. Looked(r, q, m)
      <3>1. \A t \in past[r].answered : message[t] # NoMessage => ~Matches(q, t)
        BY <1>1, <2>1 DEF Looked, PastLookUp, Matches
      <3>2. q.key # Unset =>
              \A t \in Requests \ {r} :
                message[t] # NoMessage => ~(message[t].key = q.key /\ message[t].day = q.day)
        BY <1>3, <2>1 DEF InTheWay, Rows
      <3> QED BY <2>1, <3>1, <3>2, UnsetAssumption DEF Looked
    <2> QED BY <1>1, <2>1, <2>2, <2>3, <2>5, <2>6, OwnStep
  <1> QED BY <1>2, <1>3

(* The row is there and the transaction goes on to its end.                  *)
LEMMA EndInv ==
    ASSUME SubmitIInv, NEW r \in Requests,
           LockWallet(r) \/ CommitSubmission(r) \/ FailSubmission(r) \/ Intercept(r)
    PROVE  SubmitIInv'
  <1> USE DEF Is
  <1>0. /\ request[r] # NoRequest /\ request[r].pc # "answered" /\ UNCHANGED <<Book, past>>
    BY DEF LockWallet, CommitSubmission, FailSubmission, RollBack, Intercept, Unchanging
  <1>1. /\ request[r] \in Asked /\ message[r] \in RowSet \cup {NoMessage}
        /\ message = [message EXCEPT ![r] = message[r]]
        /\ Together(request[r], message[r]) /\ Bound(r, request[r], message[r])
        /\ Looked(r, request[r], message[r])
    BY <1>0, ComingFacts
  <1>2. CASE LockWallet(r)
    <2> DEFINE q == [request[r] EXCEPT !.pc = "commit"]
    <2>1. /\ q \in Asked /\ q.pc = "commit" /\ q.found = request[r].found
          /\ q.number = request[r].number /\ q.carrier = request[r].carrier
          /\ q.key = request[r].key /\ q.client = request[r].client /\ q.day = request[r].day
      BY <1>1 DEF Asked
    <2>2. request[r].pc = "reserve" /\ request' = [request EXCEPT ![r] = q] /\ message' = message
      BY <1>2 DEF LockWallet, Proceed
    <2> HIDE DEF q
    <2>3. Together(q, message[r])
      BY <1>1, <2>1, <2>2 DEF Together, Finished, BeforeRow
    <2>4. Bound(r, q, message[r])
      BY <1>1, <2>1, <2>2 DEF Bound, PastLists, PastSender
    <2>5. Looked(r, q, message[r])
      BY <1>1, <2>1, <2>2 DEF Looked, PastLookUp, Matches
    <2> QED BY <1>0, <1>1, <2>1, <2>2, <2>3, <2>4, <2>5, OwnStep
  <1>3. CASE CommitSubmission(r)
    <2> DEFINE q == [request[r] EXCEPT !.pc = "audit", !.found = r]
               m == [message[r] EXCEPT !.committed = TRUE]
    <2>0. request[r].pc = "commit" /\ message[r] \in RowSet /\ message[r] # NoMessage
      BY <1>1, <1>3 DEF CommitSubmission, Together
    <2>1. /\ q \in Asked /\ q.pc = "audit" /\ q.found = r
          /\ q.number = request[r].number /\ q.carrier = request[r].carrier
          /\ q.key = request[r].key /\ q.client = request[r].client /\ q.day = request[r].day
      BY <1>1 DEF Asked, Finished
    <2>2. /\ m \in RowSet /\ m.committed = TRUE /\ m.key = message[r].key
          /\ m.client = message[r].client /\ m.carrier = message[r].carrier
          /\ m.day = message[r].day
      BY <2>0 DEF RowSet
    <2>3. request' = [request EXCEPT ![r] = q] /\ message' = [message EXCEPT ![r] = m]
      BY <1>3 DEF CommitSubmission
    <2> HIDE DEF q, m
    <2>4. m # NoMessage /\ ~message[r].committed
      BY <1>1, <2>0, <2>2, NotAMessage DEF Together, Finished
    <2>5. Together(q, m)
      BY <1>1, <2>0, <2>1, <2>2, <2>4 DEF Together, Finished, BeforeRow
    <2>6. Bound(r, q, m)
      BY <1>1, <2>0, <2>1 DEF Bound, PastLists, PastSender
    <2>7. Looked(r, q, m)
      BY <1>1, <2>0, <2>1, <2>2, <2>4 DEF Looked, PastLookUp, Matches
    <2> QED BY <1>0, <1>1, <2>1, <2>2, <2>3, <2>4, <2>5, <2>6, <2>7, OwnStep
  <1>4. CASE FailSubmission(r)
    <2>1. Refuse(r) /\ message' = [message EXCEPT ![r] = NoMessage] /\ request[r].pc \notin Finished
      BY <1>4 DEF FailSubmission, RollBack, Finished
    <2> QED BY <1>0, <2>1, RefuseInv
  <1>5. CASE Intercept(r)
    <2>1. PICK f \in {request[r].found, Refused} :
               request' = [request EXCEPT ![r] = [request[r] EXCEPT !.pc = "answered", !.found = f]]
      <3>1. CASE Proceed(r, "answered")
        <4>1. [request[r] EXCEPT !.pc = "answered"]
                = [request[r] EXCEPT !.pc = "answered", !.found = request[r].found]
          BY <1>1 DEF Asked
        <4> QED BY <3>1, <4>1 DEF Proceed
      <3>2. CASE request' = [request EXCEPT ![r].pc = "answered", ![r].found = Refused]
        BY <3>2
      <3> QED BY <1>5, <3>1, <3>2 DEF Intercept
    <2> DEFINE q == [request[r] EXCEPT !.pc = "answered", !.found = f]
    <2>2. /\ q \in Asked /\ q.pc = "answered" /\ q.found = f
          /\ q.number = request[r].number /\ q.carrier = request[r].carrier
          /\ q.key = request[r].key /\ q.client = request[r].client /\ q.day = request[r].day
      BY <1>1, <2>1 DEF Asked, Finished
    <2>3. request[r].pc = "audit" /\ request' = [request EXCEPT ![r] = q] /\ message' = message
      BY <1>5, <2>1 DEF Intercept, Unchanging
    <2>4. f \in Requests => f = request[r].found
      BY <2>1, UnsetAssumption DEF Refused
    <2> HIDE DEF q
    <2>5. Together(q, message[r])
      BY <1>1, <2>2, <2>3 DEF Together, Finished, BeforeRow
    <2>6. Bound(r, q, message[r])
      BY <1>1, <2>2, <2>3 DEF Bound, PastLists, PastSender
    <2>7. Looked(r, q, message[r])
      BY <1>1, <2>2, <2>3, <2>4 DEF Looked, PastLookUp, Matches
    <2> QED BY <1>0, <1>1, <2>2, <2>3, <2>5, <2>6, <2>7, OwnStep
  <1> QED BY <1>2, <1>3, <1>4, <1>5

LEMMA ArriveInv == ASSUME SubmitIInv, NEW r \in Requests, Arrive(r) PROVE SubmitIInv'
  <1> USE DEF SubmitIInv, Is
  <1>1. PICK k \in IdempotencyKeys \cup {Unset}, x \in ClientIds \cup {Unset}, n \in Numbers :
          /\ request' = [request EXCEPT ![r] =
                [ pc |-> "quotas", key |-> k, client |-> x, number |-> n,
                  carrier |-> Unset, day |-> 0, found |-> Unset ]]
          /\ past' = [past EXCEPT ![r] =
                [ barred   |-> n \in optOuts \cup suppressions,
                  approved |-> {p \in Carriers : sender[p] = "approved"},
                  answered |-> {s \in Requests : Is(s, "answered")} ]]
    BY DEF Arrive
  <1>2. /\ request[r] = NoRequest /\ message[r] = NoMessage
        /\ UNCHANGED <<message, optOuts, suppressions, sender, today>>
    BY DEF Arrive, Book
  <1> DEFINE q == [ pc |-> "quotas", key |-> k, client |-> x, number |-> n,
                    carrier |-> Unset, day |-> 0, found |-> Unset ]
             b == [ barred   |-> n \in optOuts \cup suppressions,
                    approved |-> {p \in Carriers : sender[p] = "approved"},
                    answered |-> {s \in Requests : Is(s, "answered")} ]
  <1>3. /\ q \in Asked /\ q.pc = "quotas" /\ q.number = n /\ q.found = Unset
        /\ b \in [ barred : BOOLEAN, approved : SUBSET Carriers, answered : SUBSET Requests ]
        /\ b.barred => n \in optOuts \cup suppressions
        /\ \A p \in Carriers : sender[p] = "approved" => p \in b.approved
        /\ \A s \in b.answered : s \in Requests /\ Is(s, "answered") /\ s # r
    <2>1. q \in Asked /\ q.pc = "quotas" /\ q.number = n /\ q.found = Unset
      BY DEF Asked, BeforeRow
    <2>2. b.barred = (n \in optOuts \cup suppressions)
      OBVIOUS
    <2>3. /\ b.approved = {p \in Carriers : sender[p] = "approved"}
          /\ b.answered = {s \in Requests : Is(s, "answered")}
      OBVIOUS
    <2>4. b = [barred |-> b.barred, approved |-> b.approved, answered |-> b.answered]
      OBVIOUS
    <2>5. b.barred \in BOOLEAN
      BY <2>2
    <2> HIDE DEF q, b
    <2>6. b \in [ barred : BOOLEAN, approved : SUBSET Carriers, answered : SUBSET Requests ]
      BY <2>3, <2>4, <2>5
    <2> QED BY <1>2, <2>1, <2>2, <2>3, <2>6
  <1>4. request' = [request EXCEPT ![r] = q] /\ past' = [past EXCEPT ![r] = b]
    BY <1>1
  <1> HIDE DEF q, b
  <1>5. /\ request'[r] = q /\ past'[r] = b
        /\ \A s \in Requests \ {r} : request'[s] = request[s] /\ past'[s] = past[s]
    BY <1>4 DEF SubmitTypeOK
  <1>6. SubmitTypeOK'
    BY <1>2, <1>3, <1>4 DEF SubmitTypeOK
  <1>7. Answered'
    <2> SUFFICES ASSUME NEW s \in Requests, NEW t \in past'[s].answered
                 PROVE  t # s /\ Is(t, "answered")'
      BY DEF Answered
    <2>1. CASE s = r
      BY <1>3, <1>5, <2>1
    <2>2. CASE s # r
      BY <1>2, <1>5, <2>2 DEF Answered, SubmitTypeOK
    <2> QED BY <2>1, <2>2
  <1>8. /\ q # NoRequest /\ Together(q, message[r])'
        /\ Bound(r, q, message[r])' /\ Looked(r, q, message[r])'
    BY <1>2, <1>3, <1>5, NotAMessage, UnsetAssumption
    DEF Together, Bound, Looked, Finished, PastLists, PastSender, PastLookUp
  <1>9. ASSUME NEW s \in Requests \ {r}
        PROVE  IF request'[s] = NoRequest THEN message'[s] = NoMessage /\ past'[s].answered = {}
               ELSE /\ Together(request[s], message[s])'
                    /\ Bound(s, request[s], message[s])'
                    /\ Looked(s, request[s], message[s])'
    BY <1>2, <1>5 DEF Together, Bound, Looked, Matches
  <1> QED BY <1>5, <1>6, <1>7, <1>8, <1>9

(* The lists grow, senders change their status and days pass.                *)
LEMMA ChangeInv ==
    ASSUME SubmitIInv,
           \/ \E n \in Numbers : OptOut(n) \/ Suppress(n)
           \/ \E p \in Carriers : RegisterSender(p) \/ Approve(p) \/ Reject(p)
           \/ Midnight
    PROVE  SubmitIInv'
  <1> USE DEF SubmitIInv, Change
  <1>1. /\ UNCHANGED <<request, message>>
        /\ optOuts \subseteq optOuts' /\ suppressions \subseteq suppressions'
    BY DEF OptOut, Suppress, RegisterSender, Approve, Reject, Midnight
  <1>2. /\ past' \in [Requests -> [ barred : BOOLEAN, approved : SUBSET Carriers,
                                    answered : SUBSET Requests ]]
        /\ \A r \in Requests :
             /\ past'[r].barred = past[r].barred /\ past'[r].answered = past[r].answered
             /\ past[r].approved \subseteq past'[r].approved
        /\ sender' \in [Carriers -> {"none", "pending", "approved", "rejected"}]
        /\ \A r \in Requests, p \in Carriers :
             request[r] # NoRequest /\ sender'[p] = "approved"
                 => sender[p] = "approved" \/ p \in past'[r].approved
    <2>1. CASE \E p \in Carriers : Approve(p)
      <3>1. PICK p \in Carriers : Approve(p)
        BY <2>1
      <3>2. /\ sender' = [sender EXCEPT ![p] = "approved"]
            /\ past' = [r \in Requests |->
                          IF r \in Coming THEN [past[r] EXCEPT !.approved = @ \cup {p}] ELSE past[r]]
        BY <3>1 DEF Approve
      <3>3. \A r \in Requests :
              /\ past'[r] \in [ barred : BOOLEAN, approved : SUBSET Carriers,
                                answered : SUBSET Requests ]
              /\ past'[r].barred = past[r].barred /\ past'[r].answered = past[r].answered
              /\ past[r].approved \subseteq past'[r].approved
              /\ request[r] # NoRequest => p \in past'[r].approved
        BY <3>2 DEF SubmitTypeOK, Coming
      <3>4. past' \in [Requests -> [ barred : BOOLEAN, approved : SUBSET Carriers,
                                    answered : SUBSET Requests ]]
        BY <3>2, <3>3
      <3>5. /\ sender' \in [Carriers -> {"none", "pending", "approved", "rejected"}]
            /\ \A o \in Carriers : sender'[o] = "approved" => sender[o] = "approved" \/ o = p
        BY <3>2 DEF SubmitTypeOK
      <3> QED BY <3>3, <3>4, <3>5
    <2>2. CASE past' = past
      <3>1. /\ sender' \in [Carriers -> {"none", "pending", "approved", "rejected"}]
            /\ \A p \in Carriers : sender'[p] = "approved" => sender[p] = "approved" \/ \E o \in Carriers : Approve(o)
        BY DEF OptOut, Suppress, RegisterSender, Reject, Midnight, SubmitTypeOK, Approve
      <3> QED BY <2>1, <2>2, <3>1 DEF SubmitTypeOK
    <2> QED BY <2>1, <2>2 DEF OptOut, Suppress, RegisterSender, Reject, Midnight
  <1>3. today' \in Nat
    BY DEF OptOut, Suppress, RegisterSender, Approve, Reject, Midnight, SubmitTypeOK
  <1>4. SubmitTypeOK' /\ Answered'
    BY <1>1, <1>2, <1>3 DEF SubmitTypeOK, Answered, Is
  <1>5. ASSUME NEW r \in Requests
        PROVE  IF request'[r] = NoRequest THEN message'[r] = NoMessage /\ past'[r].answered = {}
               ELSE /\ Together(request[r], message[r])'
                    /\ Bound(r, request[r], message[r])'
                    /\ Looked(r, request[r], message[r])'
    <2>1. CASE request[r] = NoRequest
      BY <1>1, <1>2, <2>1
    <2>2. CASE request[r] # NoRequest
      <3>1. Together(request[r], message[r])'
        BY <1>1, <2>2 DEF Together
      <3>2. Bound(r, request[r], message[r])'
        BY <1>1, <1>2, <2>2 DEF Bound
      <3>3. Looked(r, request[r], message[r])'
        BY <1>1, <1>2, <2>2 DEF Looked, Matches
      <3> QED BY <1>1, <2>2, <3>1, <3>2, <3>3
    <2> QED BY <2>1, <2>2
  <1> QED BY <1>4, <1>5

LEMMA SubmitStepKeeps == SubmitIInv /\ [SubmitNext]_submitVars => SubmitIInv'
  <1> SUFFICES ASSUME SubmitIInv, [SubmitNext]_submitVars
               PROVE  SubmitIInv'
    OBVIOUS
  <1>1. CASE UNCHANGED submitVars
    BY <1>1 DEF submitVars, SubmitIInv, SubmitTypeOK, Answered, Is, Together, Bound, Looked, Matches
  <1>2. CASE SubmitNext
    BY <1>2, ArriveInv, ScreenInv, LookUpInv, InsertInv, EndInv, ChangeInv
    DEF SubmitNext, Serve, Store
  <1> QED BY <1>1, <1>2

LEMMA SubmitInvariant == SubmitSpec => []SubmitIInv
  BY SubmitInitHolds, SubmitStepKeeps, PTL DEF SubmitSpec

-----------------------------------------------------------------------------
(* No message to a number that was barred all the while, and none under a  *)
(* sender id that was not approved with its carrier at some time since the *)
(* request came, whatever changes between the checks and the INSERT        *)
(* (submitMessageWithContext).                                             *)
THEOREM ScreenedHolds == SubmitSpec => []Screened
  <1>1. SubmitIInv => Screened
    BY DEF SubmitIInv, Rows, Together, Bound, Screened, NoneToBlocked, SenderHeldApproval
  <1> QED BY <1>1, SubmitInvariant, PTL

(* Two rows of the same day with the same identifiers, a request with which  *)
(* was answered before the other's came or which have a key, are one.        *)
LEMMA OneRow ==
    ASSUME SubmitIInv, NEW m \in Rows, NEW n \in Rows,
           message[m].day = message[n].day, SameIds(m, n),
           \/ request[m].key # Unset
           \/ request[m].client # Unset /\ (m # n => InTurn(m, n))
    PROVE  m = n
  <1> SUFFICES ASSUME m # n PROVE FALSE
    OBVIOUS
  <1>1. \A t \in {m, n} :
          /\ t \in Requests /\ request[t] # NoRequest /\ message[t] # NoMessage
          /\ message[t].key = request[t].key /\ message[t].client = request[t].client
          /\ message[t].day = request[t].day
          /\ Looked(t, request[t], message[t])
    BY ComingFacts DEF Rows, Together, SubmitIInv
  <1>2. request[m].key = request[n].key /\ request[m].client = request[n].client
    BY DEF SameIds
  <1>3. CASE request[m].key # Unset
    BY <1>1, <1>2, <1>3 DEF Looked
  <1>4. CASE request[m].client # Unset /\ InTurn(m, n)
    <2>1. CASE m \in past[n].answered
      BY <1>1, <1>2, <1>4, <2>1 DEF Looked, Matches
    <2>2. CASE n \in past[m].answered
      BY <1>1, <1>2, <1>4, <2>2 DEF Looked, Matches
    <2> QED BY <1>4, <2>1, <2>2 DEF InTurn
  <1> QED BY <1>3, <1>4

(* Two requests with the same identifiers never end in two messages,       *)
(* whatever interleaves, for any number of requests and days (the unique   *)
(* index on the key, and the look-up by client message id, of              *)
(* submitMessageWithContext).                                              *)
THEOREM RepeatsAgreeHolds == SubmitSpec => []RepeatsAgree
  <1>1. SubmitIInv => RepeatsAgree
    <2> SUFFICES ASSUME SubmitIInv, NEW r \in Coming, NEW s \in Coming,
                        SharesId(r, s), SameIds(r, s),
                        \A t \in Coming : SharesId(t, r) => SameIds(t, r),
                        request[r].day = request[s].day,
                        request[r].key = Unset =>
                          \A t, u \in Coming : t # u /\ SharesId(t, r) /\ SharesId(u, r) => InTurn(t, u)
                 PROVE  Cardinality(Named(r) \cup Named(s)) <= 1
      BY DEF RepeatsAgree
    <2> DEFINE N == Named(r) \cup Named(s)
    <2>1. ASSUME NEW m \in N
          PROVE  /\ m \in Rows /\ m \in Coming /\ message[m].day = request[r].day
                 /\ SharesId(m, r) /\ SameIds(m, r)
      <3>1. PICK o \in {r, s} : m \in Named(o)
        BY <2>1
      <3>2. /\ m \in Rows /\ message[m].committed /\ (m = o \/ m = request[o].found)
            /\ m \in Requests /\ message[m] # NoMessage
        BY <3>1 DEF Named, Rows
      <3>3. m \in Coming /\ request[m] # NoRequest
        BY <3>2 DEF SubmitIInv, Coming
      <3>4. o \in Requests /\ request[o] # NoRequest
        BY DEF Coming
      <3>5. /\ message[m].key = request[m].key /\ message[m].client = request[m].client
            /\ message[m].day = request[m].day
        BY <3>2, <3>3, ComingFacts DEF Together
      <3>6. message[m].day = request[o].day /\ (m = o \/ Matches(request[o], m))
        <4>1. CASE m = o
          BY <3>5, <4>1
        <4>2. CASE m # o
          BY <3>2, <3>4, <4>2, ComingFacts DEF Looked, Matches
        <4> QED BY <4>1, <4>2
      <3>7. SharesId(m, r)
        BY <3>5, <3>6 DEF SharesId, SameIds, Matches
      <3> QED BY <3>2, <3>3, <3>6, <3>7
    <2>2. ASSUME NEW m \in N, NEW n \in N PROVE m = n
      <3>1. SameIds(m, n) /\ message[m].day = message[n].day
        BY <2>1 DEF SameIds
      <3>2. \/ request[m].key # Unset
            \/ request[m].client # Unset /\ (m # n => InTurn(m, n))
        BY <2>1 DEF SharesId, SameIds
      <3> QED BY <2>1, <3>1, <3>2, OneRow
    <2> HIDE DEF N
    <2>3. CASE N = {}
      BY <2>3, FS_EmptySet DEF N
    <2>4. CASE N # {}
      <3>1. PICK m : N = {m}
        BY <2>2, <2>4
      <3>2. Cardinality(N) = 1
        BY <3>1, FS_Singleton
      <3> QED BY <3>2 DEF N
    <2> QED BY <2>3, <2>4
  <1> QED BY <1>1, SubmitInvariant, PTL

-----------------------------------------------------------------------------
(* The wallet and its ledger.  What a transaction that has the wallet read   *)
(* is what is in it, so the balances after each entry go on from those       *)
(* before; and a message has the entries its billing_state says.  What the   *)
(* driver's arithmetic computes plays no part in it.                         *)

(* What a transaction may be, with the billing states and the balances of    *)
(* its time.                                                                 *)
Sane(x, bill, row) ==
    \/ x = NoTx
    \/ /\ x = [pc |-> x.pc, message |-> x.message, op |-> x.op, read |-> x.read]
       /\ x.pc \in {"key", "lock", "post", "commit"}
       /\ x.message \in ChargedMessages /\ x.op \in LedgerOps
       /\ bill[x.message] = From[x.op]
       /\ x.pc \in {"lock", "post"} => Price[x.message] # 0
       /\ x.pc = "commit" => Price[x.message] = 0
       /\ x.pc = "post" => x.read = row

(* The row of a message is one transaction's, and so is the wallet's.        *)
Excludes(x, y) ==
    /\ x.pc # "idle" /\ y.pc # "idle" => x.message # y.message
    /\ ~(x.pc = "post" /\ y.pc = "post")

TxsOK ==
    /\ tx = [t \in Txs |-> tx[t]]
    /\ billing \in [ChargedMessages -> {"pending", "reserved", "debited", "released"}]
    /\ \A t \in Txs : Sane(tx[t], billing, wallet)
    /\ \A t, u \in Txs : t # u => Excludes(tx[t], tx[u])

(* The entries a message has, by its billing_state.                          *)
EntriesFit(m) ==
    /\ Price[m] = 0 \/ billing[m] = "pending" => EntriesOf(m) = {}
    /\ billing[m] = "reserved" => \A i, j \in EntriesOf(m) : entries[i].op = "reserve" /\ i = j
    /\ billing[m] = "reserved" /\ Price[m] # 0 => EntriesOf(m) # {}

(* g gives the balances after each entry.                                    *)
Chain(g) ==
    /\ g = [i \in 0..Len(entries) |-> g[i]]
    /\ g[0] = Opening
    /\ \A i \in 1..Len(entries) : g[i] = Posted(g[i - 1], entries[i].op, Price[entries[i].message])

Recorded(g) ==
    /\ wallet = g[Len(entries)]
    /\ \A i \in 1..Len(entries) :
          entries[i] = Entry(entries[i].message, entries[i].op, g[i - 1])

LedgerOK ==
    /\ \E S : entries \in Seq(S)
    /\ \A m \in ChargedMessages : EntriesFit(m)
    /\ SettledOnce
    /\ \E g : Chain(g) /\ Recorded(g)

WalletIInv == TxsOK /\ LedgerOK

LEMMA WalletInitHolds == WalletInit => WalletIInv
  <1> SUFFICES ASSUME WalletInit PROVE WalletIInv
    OBVIOUS
  <1>1. TxsOK
    BY DEF WalletInit, TxsOK, Sane, Excludes, NoTx
  <1>2. Len(entries) = 0 /\ entries \in Seq({})
    BY DEF WalletInit
  <1>3. \A m \in ChargedMessages : EntriesOf(m) = {}
    BY <1>2 DEF EntriesOf
  <1>4. (\A m \in ChargedMessages : EntriesFit(m)) /\ SettledOnce
    BY <1>3 DEF WalletInit, EntriesFit, SettledOnce
  <1> DEFINE g == [i \in 0..0 |-> Opening]
  <1>5. Chain(g) /\ Recorded(g)
    BY <1>2 DEF Chain, Recorded, WalletInit
  <1> QED BY <1>1, <1>2, <1>4, <1>5 DEF WalletIInv, LedgerOK

(* A transaction's own step.                                                 *)
LEMMA OwnTxStep ==
    ASSUME TxsOK, NEW t \in Txs, NEW new, tx' = [tx EXCEPT ![t] = new],
           billing' \in [ChargedMessages -> {"pending", "reserved", "debited", "released"}],
           Sane(new, billing', wallet'),
           \A u \in Txs \ {t} : Excludes(tx[u], new) /\ Excludes(new, tx[u]),
           \A u \in Txs \ {t} : tx[u].pc # "idle" => billing'[tx[u].message] = billing[tx[u].message],
           wallet' = wallet \/ tx[t].pc = "post"
    PROVE  TxsOK'
  <1>1. tx' = [u \in Txs |-> tx'[u]] /\ tx'[t] = new /\ \A u \in Txs \ {t} : tx'[u] = tx[u]
    BY DEF TxsOK
  <1>2. ASSUME NEW u \in Txs PROVE Sane(tx[u], billing, wallet)'
    <2>1. CASE u = t
      BY <1>1, <2>1
    <2>2. CASE u # t
      <3>1. tx'[u] = tx[u] /\ Sane(tx[u], billing, wallet)
        BY <1>1, <2>2 DEF TxsOK
      <3>2. tx[u].pc = "post" => wallet' = wallet
        BY <2>2 DEF TxsOK, Excludes
      <3>3. CASE tx[u] = NoTx
        BY <3>1, <3>3 DEF Sane
      <3>4. CASE tx[u] # NoTx
        BY <2>2, <3>1, <3>2, <3>4 DEF Sane
      <3> QED BY <3>3, <3>4
    <2> QED BY <2>1, <2>2
  <1>3. ASSUME NEW u \in Txs, NEW v \in Txs, u # v PROVE Excludes(tx'[u], tx'[v])
    BY <1>1, <1>3 DEF TxsOK
  <1> QED BY <1>1, <1>2, <1>3 DEF TxsOK

(* A step that leaves the ledger alone.                                      *)
LEMMA LedgerKept ==
    ASSUME LedgerOK, UNCHANGED <<wallet, entries>>,
           \A m \in ChargedMessages : billing'[m] = billing[m] \/ EntriesFit(m)'
    PROVE  LedgerOK'
  <1>1. ASSUME NEW m \in ChargedMessages PROVE EntriesFit(m)'
    BY <1>1 DEF LedgerOK, EntriesFit, EntriesOf
  <1>2. \E g : (Chain(g) /\ Recorded(g))'
    <2>1. PICK g : Chain(g) /\ Recorded(g)
      BY DEF LedgerOK
    <2>2. (Chain(g) /\ Recorded(g))'
      BY <2>1 DEF Chain, Recorded
    <2> QED BY <2>2
  <1>3. \A m \in ChargedMessages : EntriesOf(m)' = EntriesOf(m)
    BY DEF EntriesOf
  <1>4. SettledOnce'
    BY <1>3 DEF LedgerOK, SettledOnce
  <1> QED BY <1>1, <1>2, <1>4 DEF LedgerOK

(* Before its commit a transaction finds no entry of its own key: what is    *)
(* there belongs to an earlier billing_state.                                *)
LEMMA KeyUnknown ==
    ASSUME WalletIInv, NEW t \in Txs, tx[t].pc # "idle"
    PROVE  \A i \in EntriesOf(tx[t].message) : entries[i].op # tx[t].op
  <1>1. /\ tx[t].message \in ChargedMessages /\ tx[t].op \in LedgerOps
        /\ billing[tx[t].message] = From[tx[t].op]
    BY DEF WalletIInv, TxsOK, Sane, NoTx
  <1>2. EntriesFit(tx[t].message)
    BY <1>1 DEF WalletIInv, LedgerOK
  <1> QED BY <1>1, <1>2 DEF EntriesFit, From, LedgerOps

LEMMA QuietTxSteps ==
    ASSUME WalletIInv, NEW t \in Txs,
           \/ \E m \in ChargedMessages, op \in LedgerOps : Begin(t, m, op)
           \/ CheckKey(t) \/ TakeWallet(t) \/ Abort(t)
    PROVE  WalletIInv'
  <1>1. UNCHANGED <<wallet, entries, billing>>
    BY DEF Begin, CheckKey, TakeWallet, Abort
  <1>2. LedgerOK'
    BY <1>1, LedgerKept DEF WalletIInv
  <1>3. billing' \in [ChargedMessages -> {"pending", "reserved", "debited", "released"}]
    BY <1>1 DEF WalletIInv, TxsOK
  <1>4. Sane(tx[t], billing, wallet) /\ \A u \in Txs \ {t} : Excludes(tx[u], tx[t]) /\ Excludes(tx[t], tx[u])
    BY DEF WalletIInv, TxsOK
  <1>5. CASE \E m \in ChargedMessages, op \in LedgerOps : Begin(t, m, op)
    <2>1. PICK m \in ChargedMessages, op \in LedgerOps : Begin(t, m, op)
      BY <1>5
    <2> DEFINE new == [pc |-> "key", message |-> m, op |-> op, read |-> wallet]
    <2>2. tx' = [tx EXCEPT ![t] = new]
      BY <2>1 DEF Begin
    <2>3. Sane(new, billing', wallet')
      BY <1>1, <2>1 DEF Begin, Sane
    <2>4. \A u \in Txs \ {t} : Excludes(tx[u], new) /\ Excludes(new, tx[u])
      BY <2>1 DEF Begin, RowFree, Excludes
    <2> HIDE DEF new
    <2>5. TxsOK'
      BY <1>1, <1>3, <2>2, <2>3, <2>4, OwnTxStep DEF WalletIInv
    <2> QED BY <1>2, <2>5 DEF WalletIInv
  <1>6. CASE Abort(t)
    <2>1. tx' = [tx EXCEPT ![t] = NoTx]
      BY <1>6 DEF Abort, EndTx
    <2>2. Sane(NoTx, billing', wallet') /\ \A u \in Txs \ {t} : Excludes(tx[u], NoTx) /\ Excludes(NoTx, tx[u])
      BY DEF Sane, Excludes, NoTx
    <2>3. TxsOK'
      BY <1>1, <1>3, <2>1, <2>2, OwnTxStep DEF WalletIInv
    <2> QED BY <1>2, <2>3 DEF WalletIInv
  <1>7. CASE CheckKey(t)
    <2> DEFINE m == tx[t].message
               pc == IF Price[m] = 0 THEN "commit" ELSE "lock"
               new == [pc |-> pc, message |-> m, op |-> tx[t].op, read |-> tx[t].read]
    <2>1. /\ tx[t].pc = "key" /\ tx[t] # NoTx
          /\ tx[t] = [pc |-> tx[t].pc, message |-> m, op |-> tx[t].op, read |-> tx[t].read]
      BY <1>4, <1>7 DEF CheckKey, Sane, NoTx
    <2>2. ~\E i \in 1..Len(entries) : entries[i].message = m /\ entries[i].op = tx[t].op
      BY <2>1, KeyUnknown DEF EntriesOf
    <2>3. tx' = [tx EXCEPT ![t].pc = pc]
      BY <1>7, <2>2 DEF CheckKey
    <2>4. [tx[t] EXCEPT !.pc = pc] = new
      BY <2>1
    <2>5. tx' = [tx EXCEPT ![t] = new]
      BY <2>3, <2>4 DEF WalletIInv, TxsOK
    <2>6. Sane(new, billing', wallet')
      BY <1>1, <1>4, <2>1 DEF Sane
    <2>7. \A u \in Txs \ {t} : Excludes(tx[u], new) /\ Excludes(new, tx[u])
      BY <1>4, <2>1 DEF Excludes
    <2> HIDE DEF new
    <2>8. TxsOK'
      BY <1>1, <1>3, <2>5, <2>6, <2>7, OwnTxStep DEF WalletIInv
    <2> QED BY <1>2, <2>8 DEF WalletIInv
  <1>8. CASE TakeWallet(t)
    <2> DEFINE new == [pc |-> "post", message |-> tx[t].message, op |-> tx[t].op, read |-> wallet]
    <2>1. /\ tx[t].pc = "lock" /\ tx[t] # NoTx
          /\ tx[t] = [pc |-> tx[t].pc, message |-> tx[t].message, op |-> tx[t].op, read |-> tx[t].read]
      BY <1>4, <1>8 DEF TakeWallet, Sane, NoTx
    <2>2. tx' = [tx EXCEPT ![t].pc = "post", ![t].read = wallet]
      BY <1>8 DEF TakeWallet
    <2>3. [tx[t] EXCEPT !.pc = "post", !.read = wallet] = new
      <3> DEFINE half == [pc |-> "post", message |-> tx[t].message, op |-> tx[t].op, read |-> tx[t].read]
      <3>1. [tx[t] EXCEPT !.pc = "post"] = half
        BY <2>1
      <3>2. [half EXCEPT !.read = wallet] = new
        OBVIOUS
      <3> QED BY <3>1, <3>2
    <2>4. tx' = [tx EXCEPT ![t] = new]
      BY <2>2, <2>3 DEF WalletIInv, TxsOK
    <2>5. Sane(new, billing', wallet')
      BY <1>1, <1>4, <2>1 DEF Sane
    <2>6. \A u \in Txs \ {t} : Excludes(tx[u], new) /\ Excludes(new, tx[u])
      BY <1>4, <1>8, <2>1 DEF Excludes, TakeWallet, WalletFree
    <2> HIDE DEF new
    <2>7. TxsOK'
      BY <1>1, <1>3, <2>4, <2>5, <2>6, OwnTxStep DEF WalletIInv
    <2> QED BY <1>2, <2>7 DEF WalletIInv
  <1> QED BY <1>5, <1>6, <1>7, <1>8

(* The end of a transaction that moves its message on.                       *)
LEMMA MovedOn ==
    ASSUME TxsOK, NEW t \in Txs, tx[t].pc # "idle", EndTx(t),
           billing' = [billing EXCEPT ![tx[t].message] = To[tx[t].op]],
           wallet' = wallet \/ tx[t].pc = "post"
    PROVE  TxsOK'
  <1>1. tx[t].message \in ChargedMessages /\ tx[t].op \in LedgerOps
    BY DEF TxsOK, Sane, NoTx
  <1>2. To[tx[t].op] \in {"reserved", "debited", "released"}
    BY <1>1 DEF To, LedgerOps
  <1>3. billing' \in [ChargedMessages -> {"pending", "reserved", "debited", "released"}]
    BY <1>1, <1>2 DEF TxsOK
  <1>4. \A u \in Txs \ {t} : tx[u].pc # "idle" => billing'[tx[u].message] = billing[tx[u].message]
    BY <1>1 DEF TxsOK, Excludes, Sane, NoTx
  <1>5. Sane(NoTx, billing', wallet') /\ \A u \in Txs \ {t} : Excludes(tx[u], NoTx) /\ Excludes(NoTx, tx[u])
    BY DEF Sane, Excludes, NoTx
  <1>6. tx' = [tx EXCEPT ![t] = NoTx]
    BY DEF EndTx
  <1> QED BY <1>3, <1>4, <1>5, <1>6, OwnTxStep

LEMMA CommitKeepsWallet ==
    ASSUME WalletIInv, NEW t \in Txs, CommitUnposted(t)
    PROVE  WalletIInv'
  <1>1. PICK m \in ChargedMessages : m = tx[t].message /\ Price[m] = 0
    BY DEF CommitUnposted, WalletIInv, TxsOK, Sane, NoTx
  <1>2. TxsOK'
    BY MovedOn DEF CommitUnposted, WalletIInv
  <1>3. \A k \in ChargedMessages \ {m} : billing'[k] = billing[k]
    BY <1>1 DEF CommitUnposted, WalletIInv, TxsOK
  <1>4. EntriesOf(m) = {}
    BY <1>1 DEF WalletIInv, LedgerOK, EntriesFit
  <1>5. EntriesOf(m)' = {}
    BY <1>4 DEF CommitUnposted, EntriesOf
  <1>6. EntriesFit(m)'
    BY <1>1, <1>5 DEF EntriesFit
  <1>7. LedgerOK'
    BY <1>3, <1>6, LedgerKept DEF CommitUnposted, WalletIInv
  <1> QED BY <1>2, <1>7 DEF WalletIInv

LEMMA PostKeepsWallet ==
    ASSUME WalletIInv, NEW t \in Txs, PostEntry(t)
    PROVE  WalletIInv'
  <1>1. PICK m \in ChargedMessages : m = tx[t].message
    BY DEF PostEntry, WalletIInv, TxsOK, Sane, NoTx
  <1>2. PICK op \in LedgerOps : op = tx[t].op
    BY DEF PostEntry, WalletIInv, TxsOK, Sane, NoTx
  <1>3. tx[t].pc = "post" /\ Price[m] # 0 /\ billing[m] = From[op] /\ tx[t].read = wallet
    BY <1>1, <1>2 DEF PostEntry, WalletIInv, TxsOK, Sane, NoTx
  <1>4. PICK x : x = Entry(m, op, wallet)
    OBVIOUS
  <1>5. /\ wallet' = Posted(wallet, op, Price[m]) /\ entries' = Append(entries, x)
        /\ billing' = [billing EXCEPT ![m] = To[op]] /\ EndTx(t)
    BY <1>1, <1>2, <1>3, <1>4 DEF PostEntry
  <1>6. TxsOK'
    BY <1>1, <1>2, <1>3, <1>5, MovedOn DEF WalletIInv
  <1>7. x.message = m /\ x.op = op
    BY <1>4 DEF Entry
  <1>8. PICK n \in Nat : n = Len(entries)
    BY DEF WalletIInv, LedgerOK
  <1>9. /\ Len(entries') = n + 1 /\ entries'[n + 1] = x
        /\ \A i \in 1..n : entries'[i] = entries[i]
    BY <1>5, <1>8 DEF WalletIInv, LedgerOK
  <1>10. \A k \in ChargedMessages \ {m} : EntriesOf(k)' = EntriesOf(k)
    BY <1>7, <1>8, <1>9 DEF EntriesOf
  <1>11. EntriesOf(m)' = EntriesOf(m) \cup {n + 1} /\ \A i \in EntriesOf(m) : i \in Nat /\ i <= n
    BY <1>7, <1>8, <1>9 DEF EntriesOf
  <1>12. /\ \A k \in ChargedMessages \ {m} : billing'[k] = billing[k]
         /\ billing'[m] = To[op]
    BY <1>5 DEF WalletIInv, TxsOK
  <1>13. \A k \in ChargedMessages : \A i \in EntriesOf(k) : i \in 1..n /\ entries'[i] = entries[i]
    BY <1>8, <1>9 DEF EntriesOf
  <1>14. EntriesFit(m) /\ \A i \in EntriesOf(m) : entries[i].op = "reserve" /\ \A j \in EntriesOf(m) : i = j
    BY <1>2, <1>3 DEF WalletIInv, LedgerOK, EntriesFit, From, LedgerOps
  <1>15. op = "reserve" <=> EntriesOf(m) = {}
    BY <1>3, <1>14 DEF EntriesFit, From, LedgerOps
  <1>16. ASSUME NEW k \in ChargedMessages PROVE EntriesFit(k)'
    <2>1. CASE k = m
      BY <1>3, <1>7, <1>9, <1>11, <1>12, <1>15, <2>1 DEF EntriesFit, To, LedgerOps
    <2>2. CASE k # m
      <3>1. EntriesFit(k) /\ EntriesOf(k)' = EntriesOf(k) /\ billing'[k] = billing[k]
        BY <1>10, <1>12, <2>2 DEF WalletIInv, LedgerOK
      <3> QED BY <1>13, <3>1 DEF EntriesFit
    <2> QED BY <2>1, <2>2
  <1>17. SettledOnce'
    <2> SUFFICES ASSUME NEW k \in ChargedMessages, NEW i \in EntriesOf(k)', NEW j \in EntriesOf(k)'
                 PROVE  /\ entries'[i].op \in LedgerOps
                        /\ (entries'[i].op = "reserve") <=> (\A l \in EntriesOf(k)' : i <= l)
                        /\ entries'[i].op # "reserve" /\ entries'[j].op # "reserve" => i = j
      BY DEF SettledOnce
    <2>1. CASE k = m
      <3>1. \A l \in EntriesOf(m)' : l \in Nat /\ (l = n + 1 \/ (l \in EntriesOf(m) /\ l <= n))
        BY <1>11
      <3>2. \A l \in EntriesOf(m) : entries'[l].op = "reserve"
        BY <1>13, <1>14
      <3>3. entries'[n + 1].op = op
        BY <1>7, <1>9
      <3>4. CASE op = "reserve"
        BY <1>15, <2>1, <3>1, <3>3, <3>4 DEF LedgerOps
      <3>5. CASE op # "reserve"
        <4>1. PICK e \in EntriesOf(m) : EntriesOf(m) = {e}
          BY <1>14, <1>15, <3>5
        <4>2. EntriesOf(m)' = {e, n + 1} /\ e \in Nat /\ e <= n
          BY <1>11, <4>1
        <4>3. entries'[e].op = "reserve"
          BY <3>2
        <4> QED BY <2>1, <3>3, <3>5, <4>2, <4>3 DEF LedgerOps
      <3> QED BY <3>4, <3>5
    <2>2. CASE k # m
      <3>1. EntriesOf(k)' = EntriesOf(k)
        BY <1>10, <2>2
      <3>2. entries'[i] = entries[i] /\ entries'[j] = entries[j]
        BY <1>13, <3>1
      <3> QED BY <3>1, <3>2 DEF WalletIInv, LedgerOK, SettledOnce
    <2> QED BY <2>1, <2>2
  <1>18. \E g : (Chain(g) /\ Recorded(g))'
    <2>1. PICK g : Chain(g) /\ Recorded(g)
      BY DEF WalletIInv, LedgerOK
    <2>2. wallet = g[n]
      BY <1>8, <2>1 DEF Recorded
    <2> DEFINE w == Posted(wallet, op, Price[m])
    <2> HIDE DEF w
    <2>3. PICK h : h = [i \in 0..(n + 1) |-> h[i]] /\ h[n + 1] = w /\ \A i \in 0..n : h[i] = g[i]
      <3> DEFINE f == [i \in 0..(n + 1) |-> IF i = n + 1 THEN w ELSE g[i]]
      <3>1. f = [i \in 0..(n + 1) |-> f[i]] /\ f[n + 1] = w /\ \A i \in 0..n : f[i] = g[i]
        BY <1>8
      <3> QED BY <3>1
    <2>4. h[0] = Opening
      BY <1>8, <2>1, <2>3 DEF Chain
    <2>5. ASSUME NEW i \in 1..(n + 1)
          PROVE  /\ h[i] = Posted(h[i - 1], entries'[i].op, Price[entries'[i].message])
                 /\ entries'[i] = Entry(entries'[i].message, entries'[i].op, h[i - 1])
      <3>1. CASE i = n + 1
        <4>1. i - 1 = n /\ h[i - 1] = wallet
          BY <1>8, <2>2, <2>3, <3>1
        <4>2. entries'[i] = x /\ h[i] = w
          BY <1>9, <2>3, <3>1
        <4> QED BY <1>4, <1>7, <4>1, <4>2 DEF w
      <3>2. CASE i # n + 1
        <4>1. i \in 1..n /\ i - 1 \in 0..n /\ i \in 0..n
          BY <3>2
        <4>2. entries'[i] = entries[i] /\ h[i] = g[i] /\ h[i - 1] = g[i - 1]
          BY <1>9, <2>3, <4>1
        <4> QED BY <1>8, <2>1, <4>1, <4>2 DEF Chain, Recorded
      <3> QED BY <3>1, <3>2
    <2>6. wallet' = h[Len(entries')]
      BY <1>5, <1>9, <2>3 DEF w
    <2>7. Chain(h)' /\ Recorded(h)'
      BY <1>9, <2>3, <2>4, <2>5, <2>6 DEF Chain, Recorded
    <2> QED BY <2>7
  <1>19. \E S : entries' \in Seq(S)
    <2>1. PICK S : entries \in Seq(S)
      BY DEF WalletIInv, LedgerOK
    <2>2. entries \in Seq(S \cup {x})
      BY <2>1
    <2> QED BY <1>5, <2>2
  <1> QED BY <1>6, <1>16, <1>17, <1>18, <1>19 DEF WalletIInv, LedgerOK

LEMMA WalletStepKeeps == WalletIInv /\ [WalletNext]_walletVars => WalletIInv'
  <1> SUFFICES ASSUME WalletIInv, [WalletNext]_walletVars PROVE WalletIInv'
    OBVIOUS
  <1>1. CASE UNCHANGED walletVars
    <2>1. TxsOK'
      BY <1>1 DEF walletVars, WalletIInv, TxsOK
    <2>2. LedgerOK'
      BY <1>1, LedgerKept DEF walletVars, WalletIInv
    <2> QED BY <2>1, <2>2 DEF WalletIInv
  <1> QED BY <1>1, QuietTxSteps, PostKeepsWallet, CommitKeepsWallet DEF WalletNext

-----------------------------------------------------------------------------
(* A set of numbers that is not empty has a least member.                    *)
LEMMA LeastNat == ASSUME NEW S \in SUBSET Nat, S # {} PROVE \E n \in S : \A m \in S : n <= m
  <1> DEFINE R == OpToRel(<, Nat)
  <1>1. IsWellFoundedOn(R, Nat)
    BY NatLessThanWellFounded
  <1>2. \A x, y \in Nat : <<y, x>> \in R <=> y < x
    BY DEF OpToRel
  <1> HIDE DEF R
  <1>3. \E x \in S : \A y \in S : ~(<<y, x>> \in R)
    BY <1>1, WFMin
  <1>4. PICK x \in S : \A y \in S : ~(<<y, x>> \in R)
    BY <1>3
  <1>5. ASSUME NEW y \in S PROVE x <= y
    <2>1. x \in Nat /\ y \in Nat
      OBVIOUS
    <2>2. ~(y < x)
      BY <1>2, <1>4, <2>1
    <2> QED BY <2>1, <2>2
  <1> QED BY <1>5

(* There is one chain of balances at most: two would differ first at a       *)
(* number whose predecessor they agree on.                                   *)
LEMMA OneChain ==
    ASSUME Len(entries) \in Nat, NEW f, NEW g, Chain(f), Chain(g)
    PROVE  f = g
  <1> DEFINE n == Len(entries)
             Wrong == {i \in 0..n : f[i] # g[i]}
  <1>1. CASE Wrong = {}
    BY <1>1 DEF Chain
  <1>2. CASE Wrong # {}
    <2>0. Wrong \in SUBSET Nat
      OBVIOUS
    <2>1. PICK i \in Wrong : \A j \in Wrong : i <= j
      <3> HIDE DEF Wrong
      <3> QED BY <1>2, <2>0, LeastNat
    <2>2. i # 0
      BY <2>1 DEF Chain
    <2>3. i \in 1..n /\ i - 1 \in 0..n /\ ~(i <= i - 1)
      BY <2>1, <2>2
    <2>4. f[i - 1] = g[i - 1]
      BY <2>1, <2>3
    <2>5. f[i] = g[i]
      BY <2>3, <2>4 DEF Chain
    <2> QED BY <2>1, <2>5
  <1> QED BY <1>1, <1>2

LEMMA ReplayIsChain ==
    ASSUME Len(entries) \in Nat, NEW g, Chain(g)
    PROVE  Chain(Replay)
  <1> DEFINE Body(f) == [i \in 0..Len(entries) |->
                IF i = 0 THEN Opening ELSE Posted(f[i - 1], entries[i].op, Price[entries[i].message])]
  <1>1. g = Body(g)
    <2>1. \A i \in 0..Len(entries) : i = 0 \/ i \in 1..Len(entries)
      OBVIOUS
    <2> QED BY <2>1 DEF Chain
  <1>2. Replay = CHOOSE f : f = Body(f)
    BY DEF Replay
  <1> HIDE DEF Body
  <1>3. Replay = Body(Replay)
    BY <1>1, <1>2
  <1>4. Replay = [i \in 0..Len(entries) |-> Replay[i]]
    BY <1>3 DEF Body
  <1>5. \A i \in 0..Len(entries) : Replay[i] = IF i = 0 THEN Opening
                ELSE Posted(Replay[i - 1], entries[i].op, Price[entries[i].message])
    BY <1>3 DEF Body
  <1> QED BY <1>4, <1>5 DEF Chain

(* applyWalletLedger and its callers, for any messages, prices, balances and *)
(* any number of transactions at once, each of which may abort anywhere: the *)
(* ledger replays to the wallet entry by entry, and a message is reserved    *)
(* for once and settled at most once.                                        *)
THEOREM LedgerSoundHolds == WalletSpec => []LedgerSound
  <1>1. ASSUME WalletIInv PROVE LedgerSound
    <2>1. PICK g : Chain(g) /\ Recorded(g)
      BY <1>1 DEF WalletIInv, LedgerOK
    <2>2. Len(entries) \in Nat
      BY <1>1 DEF WalletIInv, LedgerOK
    <2>3. Replay = g
      BY <2>1, <2>2, ReplayIsChain, OneChain
    <2>4. WalletReplays
      BY <2>1, <2>3 DEF WalletReplays, Recorded
    <2> QED BY <1>1, <2>4 DEF LedgerSound, WalletIInv, LedgerOK
  <1> QED BY <1>1, WalletInitHolds, WalletStepKeeps, PTL DEF WalletSpec

-----------------------------------------------------------------------------
(* Uploads of contacts.  An upload under way has locked the numbers of the   *)
(* lines it is through with, and its copy of such a contact is the committed *)
(* one and itself: nobody else gets at the row.                              *)

Sources == Uploads \cup Edits

Listed(u) == {n \in Phones : Lists(u, n)}

Through(u, k) == {File[u][i] : i \in {j \in ValidLines(u) : j <= k}}

ContactTypeOK ==
    /\ contacts \in [Phones -> SUBSET Sources]
    /\ group \subseteq Phones
    /\ upload \in [Uploads -> [state : {"new", "importing", "completed", "failed"}, line : Nat, valid : Nat]]
    /\ work \in [Uploads -> [Phones -> SUBSET Sources]]
    /\ lock \in [Phones -> Uploads \cup {Nobody}]
    /\ edited \subseteq Edits

UploadOK(u) ==
    /\ upload[u].state = "new" => upload[u].line = 0
    /\ upload[u].state \in {"new", "importing"} =>
         /\ Touched(u) = Through(u, upload[u].line)
         /\ upload[u].valid = Cardinality(Touched(u))
         /\ \A n \in Touched(u) : work[u][n] = contacts[n] \cup {u}
    /\ upload[u].state \in {"completed", "failed"} => Touched(u) = {}

ContactIInv == ContactTypeOK /\ (\A u \in Uploads : UploadOK(u)) /\ UploadsAddUp

-----------------------------------------------------------------------------
(* The lines of a file: finitely many, with no number twice, and every       *)
(* number that is listed has a first line.                                   *)
LEMMA LinesOf ==
    ASSUME NEW u \in Uploads
    PROVE  /\ ValidLines(u) \subseteq Nat \ {0}
           /\ \A i \in ValidLines(u) : File[u][i] \in Phones
           /\ \A i, j \in ValidLines(u) : File[u][i] = File[u][j] => i = j
  <1>1. DOMAIN File[u] = 1..Len(File[u]) /\ Len(File[u]) \in Nat
    BY ContactAssumption
  <1>2. ValidLines(u) \subseteq Nat \ {0} /\ \A i \in ValidLines(u) : File[u][i] \in Phones
    BY <1>1 DEF ValidLines
  <1>3. ASSUME NEW i \in ValidLines(u), NEW j \in ValidLines(u), File[u][i] = File[u][j], i < j
        PROVE  FALSE
    <2>1. i \in 1..(j - 1)
      BY <1>2, <1>3
    <2> QED BY <1>3, <2>1 DEF ValidLines
  <1>4. ASSUME NEW i \in ValidLines(u), NEW j \in ValidLines(u), File[u][i] = File[u][j] PROVE i = j
    <2>1. i \in Nat /\ j \in Nat
      BY <1>2
    <2>2. i < j \/ j < i \/ i = j
      BY <2>1
    <2> QED BY <1>3, <1>4, <2>2
  <1> QED BY <1>2, <1>4

LEMMA AllLines ==
    ASSUME NEW u \in Uploads, NEW k \in Nat, \A i \in ValidLines(u) : i <= k
    PROVE  Through(u, k) = Listed(u)
  <1>1. DOMAIN File[u] = 1..Len(File[u]) /\ Len(File[u]) \in Nat
    BY ContactAssumption
  <1>2. ASSUME NEW n \in Through(u, k) PROVE n \in Listed(u)
    BY <1>2, LinesOf DEF Through, Listed, Lists, ValidLines
  <1>3. ASSUME NEW n \in Listed(u) PROVE n \in Through(u, k)
    <2> DEFINE Where == {i \in 1..Len(File[u]) : File[u][i] = n}
    <2>1. Where \in SUBSET Nat /\ Where # {}
      BY <1>1, <1>3 DEF Listed, Lists
    <2>2. PICK i \in Where : \A j \in Where : i <= j
      <3> HIDE DEF Where
      <3> QED BY <2>1, LeastNat
    <2>3. i \in DOMAIN File[u] /\ File[u][i] = n /\ n \in Phones
      BY <1>1, <1>3 DEF Listed
    <2>4. \A j \in 1..(i - 1) : File[u][j] # n
      <3> SUFFICES ASSUME NEW j \in 1..(i - 1), File[u][j] = n PROVE FALSE
        OBVIOUS
      <3>1. j \in Where /\ ~(i <= j)
        BY <1>1, <2>3
      <3> QED BY <2>2, <3>1
    <2>5. i \in ValidLines(u)
      BY <2>3, <2>4 DEF ValidLines
    <2> QED BY <2>3, <2>5 DEF Through
  <1> QED BY <1>2, <1>3

LEMMA ThroughFinite ==
    ASSUME NEW u \in Uploads, NEW k \in Nat
    PROVE  IsFiniteSet(Through(u, k)) /\ Through(u, k) \subseteq Phones
  <1> DEFINE L == {j \in ValidLines(u) : j <= k}
             I == 1..Len(File[u])
  <1>1. DOMAIN File[u] = I /\ Len(File[u]) \in Nat
    BY ContactAssumption
  <1>2. IsFiniteSet(I)
    BY <1>1, FS_Interval
  <1>3. L \subseteq I
    BY <1>1 DEF ValidLines
  <1>4. IsFiniteSet(L)
    <2> HIDE DEF L, I
    <2> QED BY <1>2, <1>3, FS_Subset
  <1> DEFINE f == [i \in L |-> File[u][i]]
  <1>5. f \in Surjection(L, Through(u, k))
    BY DEF Surjection, Through
  <1>6. IsFiniteSet(Through(u, k))
    <2> HIDE DEF L, f
    <2> QED BY <1>4, <1>5, FS_Surjection
  <1> QED BY <1>6, LinesOf DEF Through

(* The next line is the first of those that are left.                        *)
LEMMA NextIsFirst ==
    ASSUME NEW u \in Uploads, upload[u].line \in Nat, Remaining(u) # {}
    PROVE  /\ NextLine(u) \in ValidLines(u) /\ NextLine(u) > upload[u].line
           /\ NextPhone(u) \in Phones
           /\ NextPhone(u) \notin Through(u, upload[u].line)
           /\ Through(u, NextLine(u)) = Through(u, upload[u].line) \cup {NextPhone(u)}
  <1> DEFINE k == upload[u].line
             i == NextLine(u)
  <1>1. Remaining(u) \in SUBSET Nat /\ Remaining(u) \subseteq ValidLines(u)
    BY LinesOf DEF Remaining
  <1>2. \E x \in Remaining(u) : \A y \in Remaining(u) : x <= y
    BY <1>1, LeastNat
  <1>3. i \in Remaining(u) /\ \A j \in Remaining(u) : i <= j
    BY <1>2 DEF NextLine
  <1> HIDE DEF i
  <1>4. i \in ValidLines(u) /\ i > k /\ i \in Nat
    BY <1>1, <1>3 DEF Remaining
  <1>5. \A j \in ValidLines(u) : j <= i <=> j <= k \/ j = i
    <2> TAKE j \in ValidLines(u)
    <2>1. j \in Nat
      BY LinesOf
    <2>2. j > k => i <= j
      BY <1>3 DEF Remaining
    <2> QED BY <1>4, <2>1, <2>2
  <1>6. NextPhone(u) = File[u][i]
    BY DEF NextPhone, i
  <1>7. File[u][i] \in Phones
    BY <1>4, LinesOf
  <1>8. File[u][i] \notin Through(u, k)
    <2> SUFFICES ASSUME NEW j \in ValidLines(u), j <= k, File[u][j] = File[u][i] PROVE FALSE
      BY DEF Through
    <2>1. j = i
      BY <1>4, LinesOf
    <2> QED BY <1>4, <2>1
  <1>9. Through(u, i) = Through(u, k) \cup {File[u][i]}
    BY <1>4, <1>5 DEF Through
  <1> QED BY <1>4, <1>6, <1>7, <1>8, <1>9 DEF i

-----------------------------------------------------------------------------
LEMMA ContactInitHolds == ContactInit => ContactIInv
  <1> SUFFICES ASSUME ContactInit PROVE ContactIInv
    OBVIOUS
  <1>1. ContactTypeOK
    BY DEF ContactInit, ContactTypeOK, NoRow
  <1>2. ASSUME NEW u \in Uploads PROVE UploadOK(u)
    <2>1. Touched(u) = {}
      BY ContactAssumption DEF ContactInit, Touched
    <2>2. Through(u, 0) = {}
      BY LinesOf DEF Through
    <2>3. Cardinality({}) = 0
      BY FS_EmptySet
    <2> QED BY <2>1, <2>2, <2>3 DEF ContactInit, UploadOK
  <1>3. Completed = {}
    BY DEF ContactInit, Completed
  <1>4. UploadsAddUp
    BY <1>3 DEF ContactInit, UploadsAddUp, NoRow
  <1> QED BY <1>1, <1>2, <1>4 DEF ContactIInv

(* A step leaves an upload as it is if its locks, its copies and the         *)
(* contacts it has locked stay.                                              *)
LEMMA OthersKept ==
    ASSUME ContactTypeOK, NEW v \in Uploads, UploadOK(v),
           upload'[v] = upload[v], work'[v] = work[v], Touched(v)' = Touched(v),
           \A n \in Touched(v) : contacts'[n] = contacts[n]
    PROVE  UploadOK(v)'
  <1>1. Through(v, upload[v].line)' = Through(v, upload[v].line)
    BY DEF Through, ValidLines
  <1> QED BY <1>1 DEF UploadOK

LEMMA BeginKeepsContacts ==
    ASSUME ContactIInv, NEW u \in Uploads, BeginImport(u)
    PROVE  ContactIInv'
  <1>1. /\ UNCHANGED <<contacts, group, work, lock, edited>>
        /\ \A v \in Uploads : Touched(v)' = Touched(v)
    BY DEF BeginImport, Touched
  <1>2. /\ upload' \in [Uploads -> [state : {"new", "importing", "completed", "failed"}, line : Nat, valid : Nat]]
        /\ upload'[u].state = "importing" /\ upload'[u].line = upload[u].line
        /\ upload'[u].valid = upload[u].valid
        /\ \A v \in Uploads \ {u} : upload'[v] = upload[v]
    BY DEF BeginImport, ContactIInv, ContactTypeOK
  <1>3. ContactTypeOK'
    BY <1>1, <1>2 DEF ContactIInv, ContactTypeOK
  <1>4. ASSUME NEW v \in Uploads PROVE UploadOK(v)'
    <2>1. CASE v # u
      BY <1>1, <1>2, <2>1, OthersKept DEF ContactIInv
    <2>2. CASE v = u
      <3>1. PICK k \in Nat : k = upload[u].line
        BY DEF ContactIInv, ContactTypeOK
      <3>2. Touched(u) = Through(u, k) /\ upload[u].valid = Cardinality(Touched(u))
            /\ \A n \in Touched(u) : work[u][n] = contacts[n] \cup {u}
        BY <3>1 DEF ContactIInv, UploadOK, BeginImport
      <3>3. Through(u, k)' = Through(u, k)
        BY DEF Through, ValidLines
      <3> QED BY <1>1, <1>2, <2>2, <3>1, <3>2 DEF UploadOK, Through, ValidLines
    <2> QED BY <2>1, <2>2
  <1>5. Completed' = Completed
    BY <1>2 DEF Completed, BeginImport
  <1>6. \A v \in Completed : upload'[v].valid = upload[v].valid
    BY <1>2 DEF Completed
  <1>7. UploadsAddUp'
    BY <1>1, <1>5, <1>6 DEF ContactIInv, UploadsAddUp, Lists
  <1> QED BY <1>3, <1>4, <1>7 DEF ContactIInv

LEMMA ImportRowKeepsContacts ==
    ASSUME ContactIInv, NEW u \in Uploads, ImportRow(u)
    PROVE  ContactIInv'
  <1>1. upload[u].line \in Nat /\ upload[u].valid \in Nat /\ upload[u].state = "importing"
    BY DEF ContactIInv, ContactTypeOK, ImportRow, Importing
  <1>2. PICK n \in Phones : n = NextPhone(u)
    BY <1>1, NextIsFirst DEF ImportRow
  <1>3. PICK i \in Nat : i = NextLine(u)
    BY <1>1, NextIsFirst, LinesOf DEF ImportRow
  <1>4. n \notin Touched(u) /\ Through(u, i) = Touched(u) \cup {n}
    BY <1>1, <1>2, <1>3, NextIsFirst DEF ImportRow, ContactIInv, UploadOK
  <1>5. lock[n] = Nobody
    BY <1>1, <1>2, <1>4 DEF ImportRow, Waiting, Importing, Touched
  <1>6. /\ lock' \in [Phones -> Uploads \cup {Nobody}]
        /\ Touched(u)' = Touched(u) \cup {n}
        /\ \A v \in Uploads \ {u} : Touched(v)' = Touched(v)
    BY <1>2, <1>5, ContactAssumption DEF ImportRow, ContactIInv, ContactTypeOK, Touched
  <1>7. /\ work' \in [Uploads -> [Phones -> SUBSET Sources]]
        /\ work'[u][n] = contacts[n] \cup {u}
        /\ \A m \in Phones \ {n} : work'[u][m] = work[u][m]
        /\ \A v \in Uploads \ {u} : work'[v] = work[v]
    <2>1. contacts[n] \cup {u} \in SUBSET Sources
      BY DEF ContactIInv, ContactTypeOK, Sources
    <2>2. work' = [work EXCEPT ![u][n] = contacts[n] \cup {u}]
      BY <1>2 DEF ImportRow, Merged
    <2> QED BY <2>1, <2>2 DEF ContactIInv, ContactTypeOK
  <1>8. /\ upload' \in [Uploads -> [state : {"new", "importing", "completed", "failed"}, line : Nat, valid : Nat]]
        /\ upload'[u].state = "importing" /\ upload'[u].line = i
        /\ upload'[u].valid = upload[u].valid + 1
        /\ \A v \in Uploads \ {u} : upload'[v] = upload[v]
    <2>1. upload' = [upload EXCEPT ![u].line = i, ![u].valid = upload[u].valid + 1]
      BY <1>3 DEF ImportRow
    <2>2. upload[u].valid + 1 \in Nat
      BY <1>1
    <2> QED BY <1>1, <2>1, <2>2 DEF ContactIInv, ContactTypeOK
  <1>9. UNCHANGED <<contacts, group, edited>>
    BY DEF ImportRow
  <1>10. ContactTypeOK'
    BY <1>6, <1>7, <1>8, <1>9 DEF ContactIInv, ContactTypeOK
  <1>11. ASSUME NEW v \in Uploads PROVE UploadOK(v)'
    <2>1. CASE v # u
      BY <1>6, <1>7, <1>8, <1>9, <2>1, OthersKept DEF ContactIInv
    <2>2. CASE v = u
      <3>1. PICK T : T = Touched(u)
        OBVIOUS
      <3>2. IsFiniteSet(T) /\ upload[u].valid = Cardinality(T)
            /\ \A m \in T : m \in Phones /\ work[u][m] = contacts[m] \cup {u}
        BY <1>1, <3>1, ThroughFinite DEF ContactIInv, UploadOK
      <3>3. Cardinality(T \cup {n}) = Cardinality(T) + 1
        BY <1>4, <3>1, <3>2, FS_AddElement
      <3>4. Touched(u)' = T \cup {n} /\ upload'[u].valid = Cardinality(T \cup {n})
        BY <1>6, <1>8, <3>1, <3>2, <3>3
      <3>5. \A m \in T \cup {n} : work'[u][m] = contacts'[m] \cup {u}
        BY <1>4, <1>7, <1>9, <3>1, <3>2
      <3>6. Through(u, i)' = T \cup {n}
        BY <1>4, <3>1 DEF Through, ValidLines
      <3>7. Through(u, upload[u].line)' = T \cup {n}
        BY <1>8, <3>6 DEF Through, ValidLines
      <3> QED BY <1>8, <2>2, <3>4, <3>5, <3>7 DEF UploadOK
    <2> QED BY <2>1, <2>2
  <1>12. Completed' = Completed /\ \A v \in Completed : upload'[v] = upload[v]
    BY <1>1, <1>8 DEF Completed
  <1>13. UploadsAddUp'
    BY <1>9, <1>12 DEF ContactIInv, UploadsAddUp, Lists
  <1> QED BY <1>10, <1>11, <1>13 DEF ContactIInv

(* The locks of an upload that ends.                                         *)
LEMMA Released ==
    ASSUME ContactTypeOK, NEW u \in Uploads, lock' = Unlocked(u)
    PROVE  /\ lock' \in [Phones -> Uploads \cup {Nobody}] /\ Touched(u)' = {}
           /\ \A v \in Uploads \ {u} : Touched(v)' = Touched(v)
  BY ContactAssumption DEF ContactTypeOK, Unlocked, Touched

LEMMA CompleteKeepsContacts ==
    ASSUME ContactIInv, NEW u \in Uploads, CompleteImport(u)
    PROVE  ContactIInv'
  <1>1. PICK T : T = Touched(u)
    OBVIOUS
  <1>2. upload[u].state = "importing" /\ upload[u].line \in Nat
    BY DEF CompleteImport, Importing, ContactIInv, ContactTypeOK
  <1>3. \A i \in ValidLines(u) : i <= upload[u].line
    BY <1>2, LinesOf DEF CompleteImport, Remaining
  <1>4. T = Listed(u)
    BY <1>1, <1>2, <1>3, AllLines DEF ContactIInv, UploadOK
  <1>5. T \subseteq Phones /\ upload[u].valid = Cardinality(T)
        /\ \A n \in T : work[u][n] = contacts[n] \cup {u}
    BY <1>1, <1>2 DEF ContactIInv, UploadOK, Touched
  <1>6. contacts' = [n \in Phones |-> IF n \in T THEN contacts[n] \cup {u} ELSE contacts[n]]
    BY <1>1, <1>5 DEF CompleteImport
  <1>7. group' = group \cup T /\ UNCHANGED <<work, edited>>
    BY <1>1 DEF CompleteImport
  <1>8. /\ upload' \in [Uploads -> [state : {"new", "importing", "completed", "failed"}, line : Nat, valid : Nat]]
        /\ upload'[u].state = "completed" /\ upload'[u].valid = upload[u].valid
        /\ \A v \in Uploads \ {u} : upload'[v] = upload[v]
    BY DEF CompleteImport, ContactIInv, ContactTypeOK
  <1>9. /\ lock' \in [Phones -> Uploads \cup {Nobody}] /\ Touched(u)' = {}
        /\ \A v \in Uploads \ {u} : Touched(v)' = Touched(v)
    BY Released DEF CompleteImport, ContactIInv
  <1>10. contacts' \in [Phones -> SUBSET Sources]
    BY <1>6 DEF ContactIInv, ContactTypeOK, Sources
  <1>11. ContactTypeOK'
    BY <1>5, <1>7, <1>8, <1>9, <1>10 DEF ContactIInv, ContactTypeOK
  <1>12. ASSUME NEW v \in Uploads PROVE UploadOK(v)'
    <2>1. CASE v # u
      <3>1. \A n \in Touched(v) : n \in Phones /\ n \notin T
        BY <1>1, <2>1 DEF Touched
      <3>2. \A n \in Touched(v) : contacts'[n] = contacts[n]
        BY <1>6, <3>1
      <3> QED BY <1>7, <1>8, <1>9, <2>1, <3>2, OthersKept DEF ContactIInv
    <2>2. CASE v = u
      BY <1>8, <1>9, <2>2 DEF UploadOK
    <2> QED BY <2>1, <2>2
  <1>13. Completed' = Completed \cup {u} /\ \A v \in Completed : upload'[v].valid = upload[v].valid
    BY <1>8 DEF Completed
  <1>14. \A n \in Phones : contacts'[n] \ Edits = {v \in Completed' : Lists(v, n)}
    <2> TAKE n \in Phones
    <2>1. contacts[n] \ Edits = {v \in Completed : Lists(v, n)}
      BY DEF ContactIInv, UploadsAddUp
    <2>2. u \notin Edits
      BY ContactAssumption
    <2>3. CASE n \in T
      <3>1. contacts'[n] = contacts[n] \cup {u} /\ Lists(u, n)
        BY <1>4, <1>6, <2>3 DEF Listed
      <3> QED BY <1>13, <2>1, <2>2, <3>1
    <2>4. CASE n \notin T
      <3>1. contacts'[n] = contacts[n] /\ ~Lists(u, n)
        BY <1>4, <1>6, <2>4 DEF Listed
      <3> QED BY <1>13, <2>1, <3>1
    <2> QED BY <2>3, <2>4
  <1>15. group' = {n \in Phones : \E v \in Completed' : Lists(v, n)}
    <2>1. group = {n \in Phones : \E v \in Completed : Lists(v, n)}
      BY DEF ContactIInv, UploadsAddUp
    <2> QED BY <1>4, <1>7, <1>13, <2>1 DEF Listed
  <1>16. \A e \in edited' : \E n \in Phones : e \in contacts'[n]
    <2>1. \A n \in Phones : contacts[n] \subseteq contacts'[n]
      BY <1>6
    <2> QED BY <1>7, <2>1 DEF ContactIInv, UploadsAddUp
  <1>17. \A v \in Completed' : upload'[v].valid = Cardinality({n \in Phones : Lists(v, n)})
    <2> TAKE v \in Completed'
    <2>1. CASE v = u
      BY <1>4, <1>5, <1>8, <2>1 DEF Listed
    <2>2. CASE v # u
      BY <1>13, <2>2 DEF ContactIInv, UploadsAddUp
    <2> QED BY <2>1, <2>2
  <1>18. UploadsAddUp'
    BY <1>14, <1>15, <1>16, <1>17 DEF UploadsAddUp, Lists
  <1> QED BY <1>11, <1>12, <1>18 DEF ContactIInv

LEMMA RollBackKeepsContacts ==
    ASSUME ContactIInv, NEW u \in Uploads, upload[u].state = "importing", RollBackImport(u)
    PROVE  ContactIInv'
  <1>1. UNCHANGED <<contacts, group, edited>>
    BY DEF RollBackImport
  <1>2. /\ upload' \in [Uploads -> [state : {"new", "importing", "completed", "failed"}, line : Nat, valid : Nat]]
        /\ upload'[u].state = "failed"
        /\ \A v \in Uploads \ {u} : upload'[v] = upload[v]
    BY DEF RollBackImport, ContactIInv, ContactTypeOK
  <1>3. /\ work' \in [Uploads -> [Phones -> SUBSET Sources]]
        /\ \A v \in Uploads \ {u} : work'[v] = work[v]
    BY DEF RollBackImport, ContactIInv, ContactTypeOK, NoRow
  <1>4. /\ lock' \in [Phones -> Uploads \cup {Nobody}] /\ Touched(u)' = {}
        /\ \A v \in Uploads \ {u} : Touched(v)' = Touched(v)
    BY Released DEF RollBackImport, ContactIInv
  <1>5. ContactTypeOK'
    BY <1>1, <1>2, <1>3, <1>4 DEF ContactIInv, ContactTypeOK
  <1>6. ASSUME NEW v \in Uploads PROVE UploadOK(v)'
    <2>1. CASE v # u
      BY <1>1, <1>2, <1>3, <1>4, <2>1, OthersKept DEF ContactIInv
    <2>2. CASE v = u
      BY <1>2, <1>4, <2>2 DEF UploadOK
    <2> QED BY <2>1, <2>2
  <1>7. Completed' = Completed /\ \A v \in Completed : upload'[v] = upload[v]
    BY <1>2 DEF Completed
  <1>8. UploadsAddUp'
    BY <1>1, <1>7 DEF ContactIInv, UploadsAddUp, Lists
  <1> QED BY <1>5, <1>6, <1>8 DEF ContactIInv

LEMMA EditKeepsContacts ==
    ASSUME ContactIInv, NEW e \in Edits, NEW n \in Phones, EditContact(e, n)
    PROVE  ContactIInv'
  <1>1. UNCHANGED <<group, upload, work, lock>> /\ edited' = edited \cup {e}
    BY DEF EditContact
  <1>2. /\ contacts' \in [Phones -> SUBSET Sources] /\ contacts'[n] = contacts[n] \cup {e}
        /\ \A m \in Phones \ {n} : contacts'[m] = contacts[m]
    <2>1. contacts[n] \cup {e} \in SUBSET Sources
      BY DEF ContactIInv, ContactTypeOK, Sources
    <2> QED BY <2>1 DEF EditContact, Merged, ContactIInv, ContactTypeOK
  <1>3. ContactTypeOK'
    BY <1>1, <1>2 DEF ContactIInv, ContactTypeOK
  <1>4. ASSUME NEW v \in Uploads PROVE UploadOK(v)'
    <2>1. Touched(v)' = Touched(v)
      BY <1>1 DEF Touched
    <2>2. \A m \in Touched(v) : contacts'[m] = contacts[m]
      BY <1>2, ContactAssumption DEF Touched, EditContact
    <2> QED BY <1>1, <2>1, <2>2, OthersKept DEF ContactIInv
  <1>5. Completed' = Completed
    BY <1>1 DEF Completed
  <1>6. \A m \in Phones : contacts'[m] \ Edits = contacts[m] \ Edits
    BY <1>2
  <1>7. \A d \in edited' : \E m \in Phones : d \in contacts'[m]
    <2>1. \A m \in Phones : contacts[m] \subseteq contacts'[m]
      BY <1>2
    <2> QED BY <1>1, <1>2, <2>1 DEF ContactIInv, UploadsAddUp
  <1>8. UploadsAddUp'
    BY <1>1, <1>5, <1>6, <1>7 DEF ContactIInv, UploadsAddUp, Lists
  <1> QED BY <1>3, <1>4, <1>8 DEF ContactIInv

LEMMA ContactStepKeeps == ContactIInv /\ [ContactNext]_contactVars => ContactIInv'
  <1> SUFFICES ASSUME ContactIInv, [ContactNext]_contactVars PROVE ContactIInv'
    OBVIOUS
  <1>1. ASSUME NEW u \in Uploads, ImportStep(u) \/ FailImport(u) PROVE ContactIInv'
    <2>1. CASE FailImport(u)
      BY <2>1, RollBackKeepsContacts DEF FailImport, Importing
    <2>2. CASE BreakDeadlock(u)
      BY <2>2, RollBackKeepsContacts DEF BreakDeadlock, Circle, Waiting, Importing
    <2> QED BY <1>1, <2>1, <2>2, BeginKeepsContacts, ImportRowKeepsContacts, CompleteKeepsContacts
            DEF ImportStep
  <1>2. CASE UNCHANGED contactVars
    <2>1. \A v \in Uploads : Touched(v)' = Touched(v)
      BY <1>2 DEF contactVars, Touched
    <2>2. \A v \in Uploads : UploadOK(v)'
      BY <1>2, <2>1, OthersKept DEF contactVars, ContactIInv
    <2>3. UploadsAddUp'
      BY <1>2 DEF contactVars, ContactIInv, UploadsAddUp, Completed, Lists
    <2> QED BY <1>2, <2>2, <2>3 DEF contactVars, ContactIInv, ContactTypeOK
  <1> QED BY <1>1, <1>2, EditKeepsContacts DEF ContactNext

(* contacts.service.ts, for any files, uploads and edits, whichever of them  *)
(* wait, fail or are broken off: a contact has the fields of the completed   *)
(* uploads that list it and of none that failed, no edit is lost, the group  *)
(* has the numbers of the completed uploads, and an upload counts the        *)
(* numbers it lists, each once.                                              *)
THEOREM UploadsAddUpHolds == ContactSpec => []UploadsAddUp
  <1>1. ContactIInv => UploadsAddUp
    BY DEF ContactIInv
  <1> QED BY <1>1, ContactInitHolds, ContactStepKeeps, PTL DEF ContactSpec

-----------------------------------------------------------------------------
(* Fraud scoring.  An action that was merged is the most severe found so     *)
(* far; and while a minute lasts its counter is at least the number of       *)
(* evaluations that passed, since the key outlives the minute.               *)

FraudActions == {"allow", "alert", "throttle", "block"}

Severest(found, action) ==
    /\ found \subseteq FraudActions
    /\ action \in found \union {"allow"}
    /\ \A a \in found : ActionPriority(a) <= ActionPriority(action)

FraudSteps == {"idle", "sender", "expire sender", "prefix", "expire prefix", "low trust", "judged"}

Judgeable(x) ==
    /\ x \in [step : FraudSteps, found : SUBSET FraudActions, action : FraudActions,
              minute : Minutes, lowTrust : BOOLEAN]
    /\ Severest(x.found, x.action)

(* A minute that has begun, and one that is not over.                        *)
Begun(m) == MinuteTicks * m <= now

Lasts(m) == now < MinuteTicks * (m + 1)

FraudIInv ==
    /\ now \in 0..MaxNow
    /\ counter \in [Kinds -> [Minutes -> [value : Nat, expires : Nat \cup {Forever}]]]
    /\ passed \in [Kinds -> [Minutes -> Nat]]
    /\ evaluation = [e \in Evaluations |-> evaluation[e]]
    /\ \A e \in Evaluations : Judgeable(evaluation[e]) /\ Begun(evaluation[e].minute)
    /\ \A k \in Kinds, m \in Minutes :
         /\ counter[k][m].expires = Forever \/ MinuteTicks * (m + 1) <= counter[k][m].expires
         /\ passed[k][m] <= Threshold(k)
         /\ Lasts(m) => passed[k][m] <= counter[k][m].value

-----------------------------------------------------------------------------
(* Arithmetic of minutes.                                                    *)
LEMMA MinuteOf ==
    ASSUME NEW t \in 0..MaxNow, NEW d \in Nat \ {0}, MaxNow \in Nat
    PROVE  /\ t \div d \in 0..(MaxNow \div d)
           /\ d * (t \div d) <= t /\ t < d * ((t \div d) + 1)
  <1>1. \A x \in Nat : x \div d \in Nat /\ d * (x \div d) <= x /\ x < d * (x \div d) + d
    BY SMT
  <1>2. \A x \in Nat : d * (x + 1) = d * x + d
    BY SMT
  <1>3. \A x, y \in Nat : x < y => d * x + d <= d * y
    <2> TAKE x, y \in Nat
    <2> HAVE x < y
    <2>1. y = x + 1 + (y - x - 1) /\ y - x - 1 \in Nat
      OBVIOUS
    <2>2. PICK z \in Nat : y = x + 1 + z
      BY <2>1
    <2>3. d * y = d * x + d + d * z /\ d * z >= 0
      BY <2>2, SMT
    <2>4. d * x \in Int /\ d * y \in Int /\ d * z \in Int
      BY <2>2, SMT
    <2> QED BY <2>3, <2>4
  <1>4. PICK q \in Nat : q = t \div d /\ d * q <= t /\ t < d * q + d
    BY <1>1
  <1>5. PICK r \in Nat : r = MaxNow \div d /\ d * r <= MaxNow /\ MaxNow < d * r + d
    BY <1>1
  <1>6. d * q \in Int /\ d * r \in Int
    BY SMT
  <1>7. ~(r < q)
    BY <1>3, <1>4, <1>5, <1>6
  <1> QED BY <1>2, <1>4, <1>5, <1>7

(* mergeAction takes the more severe of the two.                             *)
LEMMA MergeKeeps ==
    ASSUME NEW found, NEW action, Severest(found, action), NEW a \in FraudActions
    PROVE  /\ Severest(found \union {a}, MergeAction(action, a))
           /\ MergeAction(action, a) \in FraudActions
  BY DEF Severest, MergeAction, ActionPriority, FraudActions

(* The loop over the rules gives the severest of them: the function that     *)
(* defines it exists, and its values are severest one after the other; else  *)
(* there would be a first number at which that fails.                        *)
LEMMA LoopOfRules ==
    ASSUME NEW rules \in Seq(FraudActions)
    PROVE  /\ Severest(ToSet(rules), MergedActions(rules)[Len(rules)])
           /\ MergedActions(rules)[Len(rules)] \in FraudActions
  <1> DEFINE N == Len(rules)
             Body(f) == [i \in 0..N |-> IF i = 0 THEN "allow" ELSE MergeAction(f[i - 1], rules[i])]
             First(i) == {rules[j] : j \in 1..i}
             Upto(f, n) == /\ f = [i \in 0..n |-> f[i]]
                           /\ f[0] = "allow"
                           /\ \A i \in 1..n : f[i] = MergeAction(f[i - 1], rules[i])
             Missing == {n \in 0..N : ~\E f : Upto(f, n)}
  <1>1. N \in Nat /\ \A i \in 1..N : rules[i] \in FraudActions
    OBVIOUS
  <1>2. Missing = {}
    <2> SUFFICES ASSUME Missing # {} PROVE FALSE
      OBVIOUS
    <2>1. Missing \in SUBSET Nat
      BY <1>1
    <2>2. PICK n \in Missing : \A m \in Missing : n <= m
      <3> HIDE DEF Missing
      <3> QED BY <2>1, LeastNat
    <2>3. n \in 0..N /\ ~\E f : Upto(f, n)
      BY <2>2
    <2>4. CASE n = 0
      <3> DEFINE f == [i \in 0..0 |-> "allow"]
      <3>1. Upto(f, 0)
        OBVIOUS
      <3> HIDE DEF Upto
      <3> QED BY <2>3, <2>4, <3>1
    <2>5. CASE n # 0
      <3>1. n - 1 \in 0..N /\ ~(n <= n - 1)
        BY <1>1, <2>3, <2>5
      <3>2. n - 1 \notin Missing
        BY <2>2, <3>1
      <3>3. PICK f : Upto(f, n - 1)
        BY <3>1, <3>2
      <3> DEFINE v == MergeAction(f[n - 1], rules[n])
      <3> HIDE DEF v
      <3> DEFINE g == [i \in 0..n |-> IF i = n THEN v ELSE f[i]]
      <3>4. g = [i \in 0..n |-> g[i]] /\ g[n] = v /\ \A i \in 0..(n - 1) : g[i] = f[i]
        BY <2>3, <2>5
      <3> HIDE DEF g
      <3>5. g[0] = "allow"
        BY <2>3, <2>5, <3>3, <3>4
      <3>6. ASSUME NEW i \in 1..n PROVE g[i] = MergeAction(g[i - 1], rules[i])
        <4>0. i - 1 \in 0..(n - 1)
          BY <1>1, <2>3
        <4>1. g[i - 1] = f[i - 1]
          BY <3>4, <4>0
        <4>2. CASE i = n
          BY <3>4, <4>1, <4>2 DEF v
        <4>3. CASE i # n
          <5>1. i \in 1..(n - 1) /\ i \in 0..(n - 1)
            BY <2>3, <4>3
          <5> QED BY <3>3, <3>4, <4>1, <5>1
        <4> QED BY <4>2, <4>3
      <3>7. Upto(g, n)
        BY <3>4, <3>5, <3>6
      <3> HIDE DEF Upto
      <3> QED BY <2>3, <3>7
    <2> QED BY <2>4, <2>5
  <1>3. \E f : Upto(f, N)
    BY <1>1, <1>2
  <1>4. \E f : f = Body(f)
    <2>1. PICK f : Upto(f, N)
      BY <1>3
    <2>2. \A i \in 0..N : f[i] = IF i = 0 THEN "allow" ELSE MergeAction(f[i - 1], rules[i])
      <3> TAKE i \in 0..N
      <3>1. i = 0 \/ i \in 1..N
        BY <1>1
      <3> QED BY <2>1, <3>1
    <2>3. f = Body(f)
      BY <2>1, <2>2
    <2> HIDE DEF Body
    <2> QED BY <2>3
  <1>5. PICK h : h = MergedActions(rules) /\ h = Body(h)
    <2>1. MergedActions(rules) = CHOOSE f : f = Body(f)
      BY DEF MergedActions
    <2> HIDE DEF Body
    <2> QED BY <1>4, <2>1
  <1>6. h[0] = "allow" /\ \A i \in 1..N : h[i] = MergeAction(h[i - 1], rules[i])
    BY <1>1, <1>5
  <1> HIDE DEF Body
  <1> DEFINE Wrong == {i \in 0..N : ~(Severest(First(i), h[i]) /\ h[i] \in FraudActions)}
  <1>7. Wrong = {}
    <2> SUFFICES ASSUME Wrong # {} PROVE FALSE
      OBVIOUS
    <2>1. Wrong \in SUBSET Nat
      BY <1>1
    <2>2. PICK n \in Wrong : \A m \in Wrong : n <= m
      <3> HIDE DEF Wrong
      <3> QED BY <2>1, LeastNat
    <2>3. n \in 0..N /\ ~(Severest(First(n), h[n]) /\ h[n] \in FraudActions)
      BY <2>2
    <2>4. CASE n = 0
      <3>1. First(0) = {}
        OBVIOUS
      <3> QED BY <1>6, <2>3, <2>4, <3>1 DEF Severest, FraudActions
    <2>5. CASE n # 0
      <3>1. n \in 1..N /\ n - 1 \in 0..N /\ ~(n <= n - 1)
        BY <1>1, <2>3, <2>5
      <3>2. Severest(First(n - 1), h[n - 1])
        BY <2>2, <3>1
      <3>3. First(n) = First(n - 1) \union {rules[n]}
        BY <1>1, <3>1
      <3> HIDE DEF First
      <3>4. h[n] = MergeAction(h[n - 1], rules[n]) /\ rules[n] \in FraudActions
        BY <1>1, <1>6, <3>1
      <3> HIDE DEF Wrong, Missing, Upto, N
      <3>5. /\ Severest(First(n - 1) \union {rules[n]}, MergeAction(h[n - 1], rules[n]))
            /\ MergeAction(h[n - 1], rules[n]) \in FraudActions
        BY <3>2, <3>4, MergeKeeps
      <3> QED BY <2>3, <3>3, <3>4, <3>5
    <2> QED BY <2>4, <2>5
  <1>8. Severest(First(N), h[N]) /\ h[N] \in FraudActions
    <2>0. N \in 0..N
      BY <1>1
    <2>1. N \in 0..N /\ N \notin Wrong
      <3> HIDE DEF Wrong, N
      <3> QED BY <1>7, <2>0
    <2> HIDE DEF N, First
    <2> QED BY <2>1
  <1>9. First(N) = ToSet(rules)
    BY <1>1 DEF ToSet
  <1> QED BY <1>5, <1>8, <1>9

LEMMA FraudInitHolds == FraudInit => FraudIInv
  <1> SUFFICES ASSUME FraudInit PROVE FraudIInv
    OBVIOUS
  <1>1. now \in 0..MaxNow /\ now = 0
    BY FraudAssumption DEF FraudInit
  <1>2. 0 \in Minutes
    BY FraudAssumption, <1>1, MinuteOf DEF Minutes
  <1>3. NoKey \in [value : Nat, expires : Nat \cup {Forever}]
    BY DEF NoKey
  <1>4. Judgeable(NoEvaluation)
    BY <1>2 DEF Judgeable, NoEvaluation, Severest, FraudActions, FraudSteps
  <1>5. Begun(0)
    BY FraudAssumption, <1>1 DEF Begun
  <1>6. \A e \in Evaluations : Judgeable(evaluation[e]) /\ Begun(evaluation[e].minute)
    BY <1>4, <1>5 DEF FraudInit, NoEvaluation
  <1>7. \A k \in Kinds : Threshold(k) \in Nat
    BY FraudAssumption DEF Threshold
  <1>8. \A k \in Kinds, m \in Minutes : counter[k][m] = NoKey /\ passed[k][m] = 0
    BY DEF FraudInit
  <1> QED BY <1>1, <1>3, <1>6, <1>7, <1>8 DEF FraudInit, FraudIInv, NoKey

(* What one evaluation becomes says nothing of the others.                   *)
LEMMA OneEvaluation ==
    ASSUME FraudIInv, NEW e \in Evaluations, NEW x,
           Judgeable(x), Begun(x.minute),
           evaluation' = [evaluation EXCEPT ![e] = x], UNCHANGED now
    PROVE  /\ evaluation' = [f \in Evaluations |-> evaluation'[f]]
           /\ \A f \in Evaluations : (Judgeable(evaluation[f]) /\ Begun(evaluation[f].minute))'
  <1>1. evaluation = [f \in Evaluations |-> evaluation[f]]
    BY DEF FraudIInv
  <1>2. evaluation' = [f \in Evaluations |-> evaluation'[f]]
    BY <1>1
  <1>3. ASSUME NEW f \in Evaluations PROVE evaluation'[f] = x \/ evaluation'[f] = evaluation[f]
    BY <1>1
  <1>4. ASSUME NEW f \in Evaluations
        PROVE  (Judgeable(evaluation[f]) /\ Begun(evaluation[f].minute))'
    <2>1. Judgeable(evaluation[f]) /\ Begun(evaluation[f].minute)
      BY DEF FraudIInv
    <2>2. CASE evaluation'[f] = x
      BY <2>2 DEF Judgeable, Begun
    <2>3. CASE evaluation'[f] = evaluation[f]
      BY <2>1, <2>3 DEF Judgeable, Begun
    <2> QED BY <1>3, <2>2, <2>3
  <1> QED BY <1>2, <1>4

(* A step of an evaluation that leaves the counters alone.                   *)
LEMMA QuietStep ==
    ASSUME FraudIInv, NEW e \in Evaluations, NEW x,
           Judgeable(x), Begun(x.minute),
           evaluation' = [evaluation EXCEPT ![e] = x], UNCHANGED <<now, counter, passed>>
    PROVE  FraudIInv'
  <1>1. /\ evaluation' = [f \in Evaluations |-> evaluation'[f]]
        /\ \A f \in Evaluations : (Judgeable(evaluation[f]) /\ Begun(evaluation[f].minute))'
    BY OneEvaluation
  <1> QED BY <1>1 DEF FraudIInv, Lasts

LEMMA IdleIsJudgeable ==
    ASSUME FraudIInv
    PROVE  Judgeable(NoEvaluation) /\ Begun(NoEvaluation.minute)
  <1>1. 0 \in 0..MaxNow
    BY FraudAssumption
  <1>2. 0 \in Minutes
    BY FraudAssumption, <1>1, MinuteOf DEF Minutes
  <1>3. Begun(0)
    BY FraudAssumption DEF Begun, FraudIInv
  <1> QED BY <1>2, <1>3 DEF Judgeable, NoEvaluation, Severest, FraudActions, FraudSteps

LEMMA MatchRulesKeeps ==
    ASSUME FraudIInv, NEW e \in Evaluations, MatchRules(e) PROVE FraudIInv'
  <1>1. PICK rules \in MatchingRules, low \in BOOLEAN :
            evaluation' = [evaluation EXCEPT ![e] =
                [step |-> "sender", found |-> ToSet(rules), lowTrust |-> low,
                 action |-> MergedActions(rules)[Len(rules)], minute |-> 0]]
    BY DEF MatchRules
  <1>2. rules \in Seq(FraudActions)
    BY FraudAssumption DEF FraudActions
  <1>3. PICK found, a : /\ found = ToSet(rules) /\ a = MergedActions(rules)[Len(rules)]
                        /\ Severest(found, a) /\ a \in FraudActions
    BY <1>2, LoopOfRules
  <1> DEFINE x == [step |-> "sender", found |-> found, lowTrust |-> low, action |-> a, minute |-> 0]
  <1>4. 0 \in Minutes /\ Begun(0)
    BY IdleIsJudgeable DEF NoEvaluation, Judgeable
  <1>5. Judgeable(x) /\ Begun(x.minute)
    BY <1>3, <1>4 DEF Judgeable, Severest, FraudSteps
  <1>6. evaluation' = [evaluation EXCEPT ![e] = x] /\ UNCHANGED <<now, counter, passed>>
    BY <1>1, <1>3 DEF MatchRules
  <1> HIDE DEF x
  <1> QED BY <1>5, <1>6, QuietStep

LEMMA JudgeTrustKeeps ==
    ASSUME FraudIInv, NEW e \in Evaluations, JudgeTrust(e) PROVE FraudIInv'
  <1>1. Judgeable(evaluation[e]) /\ Begun(evaluation[e].minute)
    BY DEF FraudIInv
  <1>2. PICK old : old = evaluation[e]
    OBVIOUS
  <1> DEFINE found == IF old.lowTrust THEN old.found \union {"block"} ELSE old.found
             action == IF old.lowTrust THEN MergeAction(old.action, "block") ELSE old.action
             x == [old EXCEPT !.step = "judged", !.found = found, !.action = action]
  <1>3. Severest(found, action) /\ found \in SUBSET FraudActions /\ action \in FraudActions
    <2>1. Severest(old.found, old.action) /\ old.found \in SUBSET FraudActions
          /\ old.action \in FraudActions /\ "block" \in FraudActions
      BY <1>1, <1>2 DEF Judgeable, FraudActions
    <2>2. /\ Severest(old.found \union {"block"}, MergeAction(old.action, "block"))
          /\ MergeAction(old.action, "block") \in FraudActions
      BY <2>1, MergeKeeps
    <2> QED BY <2>1, <2>2
  <1>4. evaluation' = [evaluation EXCEPT ![e] = x] /\ UNCHANGED <<now, counter, passed>>
    BY <1>2 DEF JudgeTrust, FraudIInv
  <1> HIDE DEF found, action
  <1>5. Judgeable(x) /\ Begun(x.minute)
    BY <1>1, <1>2, <1>3 DEF Judgeable, FraudSteps
  <1> HIDE DEF x
  <1> QED BY <1>4, <1>5, QuietStep

LEMMA EndKeeps ==
    ASSUME FraudIInv, NEW e \in Evaluations, Conclude(e) \/ EvaluationFails(e) PROVE FraudIInv'
  <1>1. evaluation' = [evaluation EXCEPT ![e] = NoEvaluation] /\ UNCHANGED <<now, counter, passed>>
    BY DEF Conclude, EvaluationFails
  <1> QED BY <1>1, IdleIsJudgeable, QuietStep

LEMMA OneCounter ==
    ASSUME NEW V, NEW c \in [Kinds -> [Minutes -> V]], NEW k \in Kinds, NEW m \in Minutes,
           NEW v \in V, NEW d, d = [c EXCEPT ![k][m] = v]
    PROVE  /\ d \in [Kinds -> [Minutes -> V]] /\ d[k][m] = v
           /\ \A j \in Kinds, q \in Minutes : ~(j = k /\ q = m) => d[j][q] = c[j][q]
  OBVIOUS

(* A count passes only while the counter is within the threshold, and the    *)
(* counter of the present minute counted all that passed before.             *)
LEMMA CountKeeps ==
    ASSUME FraudIInv, NEW e \in Evaluations, NEW k \in Kinds, Count(e, k) PROVE FraudIInv'
  <1>1. PICK m : m = now \div MinuteTicks
    OBVIOUS
  <1>2. m \in Minutes /\ Begun(m) /\ Lasts(m)
    BY <1>1, FraudAssumption, MinuteOf DEF Minutes, Begun, Lasts, FraudIInv
  <1>3. PICK n : n = counter[k][m].value + 1
    OBVIOUS
  <1>4. PICK old : old = evaluation[e]
    OBVIOUS
  <1>5. Judgeable(old)
    BY <1>4 DEF FraudIInv
  <1>6. PICK s \in FraudSteps :
            s = IF n = 1 THEN Expiring(k) ELSE After(k)
    BY DEF Expiring, After, FraudSteps
  <1> DEFINE found == IF n > Threshold(k) THEN old.found \union {"throttle"} ELSE old.found
             action == IF n > Threshold(k) THEN MergeAction(old.action, "throttle") ELSE old.action
             x == [old EXCEPT !.step = s, !.minute = m, !.found = found, !.action = action]
  <1>7. Severest(found, action) /\ found \in SUBSET FraudActions /\ action \in FraudActions
    <2>1. Severest(old.found, old.action) /\ old.found \in SUBSET FraudActions
          /\ old.action \in FraudActions /\ "throttle" \in FraudActions
      BY <1>5 DEF Judgeable, FraudActions
    <2>2. /\ Severest(old.found \union {"throttle"}, MergeAction(old.action, "throttle"))
          /\ MergeAction(old.action, "throttle") \in FraudActions
      BY <2>1, MergeKeeps
    <2> QED BY <2>1, <2>2
  <1>8. evaluation' = [evaluation EXCEPT ![e] = x]
    BY <1>1, <1>3, <1>4, <1>6 DEF Count, FraudIInv
  <1>9. /\ counter' = [counter EXCEPT ![k][m].value = n]
         /\ passed' = [passed EXCEPT ![k][m] = IF n > Threshold(k) THEN @ ELSE @ + 1]
         /\ UNCHANGED now
    BY <1>1, <1>3 DEF Count
  <1> HIDE DEF found, action
  <1>10. Judgeable(x) /\ Begun(x.minute)
    BY <1>2, <1>5, <1>6, <1>7 DEF Judgeable
  <1> HIDE DEF x
  <1>11. /\ evaluation' = [f \in Evaluations |-> evaluation'[f]]
         /\ \A f \in Evaluations : (Judgeable(evaluation[f]) /\ Begun(evaluation[f].minute))'
    BY <1>8, <1>9, <1>10, OneEvaluation
  <1>12. /\ counter \in [Kinds -> [Minutes -> [value : Nat, expires : Nat \cup {Forever}]]]
         /\ passed \in [Kinds -> [Minutes -> Nat]]
    BY DEF FraudIInv
  <1>13. PICK was \in [value : Nat, expires : Nat \cup {Forever}] : was = counter[k][m]
    BY <1>2, <1>12
  <1>14. PICK p \in Nat : p = passed[k][m]
    BY <1>2, <1>12
  <1>15. n = was.value + 1 /\ n \in Nat
    BY <1>3, <1>13
  <1>16. PICK key : key = [was EXCEPT !.value = n]
    OBVIOUS
  <1>17. /\ key \in [value : Nat, expires : Nat \cup {Forever}]
         /\ key.value = n /\ key.expires = was.expires
    BY <1>15, <1>16
  <1>18. PICK r \in Nat : r = IF n > Threshold(k) THEN p ELSE p + 1
    OBVIOUS
  <1>19. counter' = [counter EXCEPT ![k][m] = key]
    BY <1>2, <1>9, <1>12, <1>13, <1>16
  <1>20. passed' = [passed EXCEPT ![k][m] = r]
    BY <1>2, <1>9, <1>12, <1>14, <1>18
  <1>21. /\ counter' \in [Kinds -> [Minutes -> [value : Nat, expires : Nat \cup {Forever}]]]
         /\ counter'[k][m] = key
         /\ \A j \in Kinds, q \in Minutes : ~(j = k /\ q = m) => counter'[j][q] = counter[j][q]
    BY <1>2, <1>12, <1>17, <1>19, OneCounter
  <1>22. /\ passed' \in [Kinds -> [Minutes -> Nat]] /\ passed'[k][m] = r
         /\ \A j \in Kinds, q \in Minutes : ~(j = k /\ q = m) => passed'[j][q] = passed[j][q]
    BY <1>2, <1>12, <1>20, OneCounter
  <1>23. ASSUME NEW j \in Kinds, NEW q \in Minutes
         PROVE  /\ (counter[j][q].expires = Forever \/ MinuteTicks * (q + 1) <= counter[j][q].expires)'
                /\ (passed[j][q] <= Threshold(j))'
                /\ (Lasts(q) => passed[j][q] <= counter[j][q].value)'
    <2>1. /\ counter[j][q].expires = Forever \/ MinuteTicks * (q + 1) <= counter[j][q].expires
          /\ passed[j][q] <= Threshold(j)
          /\ Lasts(q) => passed[j][q] <= counter[j][q].value
      BY DEF FraudIInv
    <2>2. Lasts(q)' = Lasts(q)
      BY <1>9 DEF Lasts
    <2>3. CASE ~(j = k /\ q = m)
      <3>1. counter'[j][q] = counter[j][q] /\ passed'[j][q] = passed[j][q]
        BY <1>21, <1>22, <2>3
      <3> QED BY <2>1, <2>2, <3>1 DEF Threshold
    <2>4. CASE j = k /\ q = m
      <3>1. counter'[j][q] = key /\ passed'[j][q] = r
        BY <1>21, <1>22, <2>4
      <3>2. Threshold(k) \in Nat
        BY FraudAssumption DEF Threshold
      <3>3. p <= was.value /\ p <= Threshold(k)
        BY <1>2, <1>13, <1>14, <2>1, <2>4
      <3>4. r <= Threshold(k) /\ r <= n
        BY <1>13, <1>15, <1>18, <3>2, <3>3
      <3>5. key.expires = Forever \/ MinuteTicks * (q + 1) <= key.expires
        BY <1>13, <1>17, <2>1, <2>4
      <3>6. key.value = n
        BY <1>17
      <3> QED BY <2>4, <3>1, <3>4, <3>5, <3>6 DEF Threshold
    <2> QED BY <2>3, <2>4
  <1>24. now' \in 0..MaxNow
    BY <1>9 DEF FraudIInv
  <1> QED BY <1>11, <1>23, <1>24, <1>21, <1>22 DEF FraudIInv

(* EXPIRE reaches beyond the minute, since it comes when that has begun.     *)
LEMMA SetExpiryKeeps ==
    ASSUME FraudIInv, NEW e \in Evaluations, NEW k \in Kinds, SetExpiry(e, k) PROVE FraudIInv'
  <1>1. PICK old : old = evaluation[e]
    OBVIOUS
  <1>2. Judgeable(old) /\ Begun(old.minute)
    BY <1>1 DEF FraudIInv
  <1>3. PICK m \in Minutes : m = old.minute /\ Begun(m)
    BY <1>2 DEF Judgeable
  <1>4. PICK s \in FraudSteps : s = After(k)
    BY DEF After, FraudSteps
  <1> DEFINE x == [old EXCEPT !.step = s]
  <1>5. Judgeable(x) /\ Begun(x.minute)
    BY <1>2, <1>4 DEF Judgeable
  <1>6. evaluation' = [evaluation EXCEPT ![e] = x]
    BY <1>1, <1>4 DEF SetExpiry, FraudIInv
  <1>7. /\ counter' = [counter EXCEPT ![k][m] =
              IF @.value = 0 THEN @ ELSE [@ EXCEPT !.expires = now + CounterTtl]]
        /\ UNCHANGED <<now, passed>>
    BY <1>1, <1>3 DEF SetExpiry
  <1> HIDE DEF x
  <1>8. /\ evaluation' = [f \in Evaluations |-> evaluation'[f]]
        /\ \A f \in Evaluations : (Judgeable(evaluation[f]) /\ Begun(evaluation[f].minute))'
    BY <1>5, <1>6, <1>7, OneEvaluation
  <1>9. counter \in [Kinds -> [Minutes -> [value : Nat, expires : Nat \cup {Forever}]]]
    BY DEF FraudIInv
  <1>10. now \in Nat /\ now + CounterTtl \in Nat /\ MinuteTicks * (m + 1) <= now + CounterTtl
    <2>1. now \in Nat
      BY FraudAssumption DEF FraudIInv
    <2>2. MinuteTicks \in Nat /\ m \in Nat
      BY FraudAssumption DEF Minutes
    <2>3. MinuteTicks * m <= now
      BY <1>3 DEF Begun
    <2>4. PICK d, j \in Nat : d = MinuteTicks /\ j = m
      BY <2>2
    <2>5. d * (j + 1) = d * j + d /\ d * j \in Nat
      BY SMT
    <2> QED BY <2>1, <2>3, <2>4, <2>5 DEF CounterTtl
  <1>11. PICK t \in Nat : t = now + CounterTtl /\ MinuteTicks * (m + 1) <= t
    BY <1>10
  <1>12. PICK key : key = IF counter[k][m].value = 0 THEN counter[k][m]
                          ELSE [counter[k][m] EXCEPT !.expires = t]
    OBVIOUS
  <1>13. /\ key \in [value : Nat, expires : Nat \cup {Forever}] /\ key.value = counter[k][m].value
         /\ key.expires = counter[k][m].expires \/ key.expires = t
    BY <1>9, <1>12
  <1>14. counter' = [counter EXCEPT ![k][m] = key]
    BY <1>7, <1>9, <1>11, <1>12
  <1>15. counter' \in [Kinds -> [Minutes -> [value : Nat, expires : Nat \cup {Forever}]]]
    BY <1>9, <1>13, <1>14
  <1>16. ASSUME NEW j \in Kinds, NEW q \in Minutes
         PROVE  /\ j = k /\ q = m => counter'[j][q] = key
                /\ ~(j = k /\ q = m) => counter'[j][q] = counter[j][q]
    BY <1>9, <1>14
  <1>17. ASSUME NEW j \in Kinds, NEW q \in Minutes
         PROVE  /\ (counter[j][q].expires = Forever \/ MinuteTicks * (q + 1) <= counter[j][q].expires)'
                /\ (passed[j][q] <= Threshold(j))'
                /\ (Lasts(q) => passed[j][q] <= counter[j][q].value)'
    <2>1. /\ counter[j][q].expires = Forever \/ MinuteTicks * (q + 1) <= counter[j][q].expires
          /\ passed[j][q] <= Threshold(j)
          /\ Lasts(q) => passed[j][q] <= counter[j][q].value
      BY DEF FraudIInv
    <2>2. Lasts(q)' = Lasts(q) /\ passed' = passed
      BY <1>7 DEF Lasts
    <2>3. CASE ~(j = k /\ q = m)
      <3>1. counter'[j][q] = counter[j][q]
        BY <1>16, <2>3
      <3> QED BY <2>1, <2>2, <3>1 DEF Threshold
    <2>4. CASE j = k /\ q = m
      <3>1. counter'[j][q] = key
        BY <1>16, <2>4
      <3>2. key.expires = Forever \/ MinuteTicks * (q + 1) <= key.expires
        BY <1>11, <1>13, <2>1, <2>4
      <3>3. key.value = counter[j][q].value
        BY <1>13, <2>4
      <3> QED BY <2>1, <2>2, <3>1, <3>2, <3>3 DEF Threshold
    <2> QED BY <2>3, <2>4
  <1>18. now' \in 0..MaxNow /\ passed' \in [Kinds -> [Minutes -> Nat]]
    BY <1>7 DEF FraudIInv
  <1> QED BY <1>8, <1>15, <1>17, <1>18 DEF FraudIInv

(* The clock takes a key away only when its minute is over.                  *)
LEMMA TickKeeps ==
    ASSUME FraudIInv, FraudTick PROVE FraudIInv'
  <1>1. now \in Nat /\ now' = now + 1 /\ now' \in 0..MaxNow
    BY FraudAssumption DEF FraudIInv, FraudTick
  <1>2. evaluation' = evaluation /\ passed' = passed
    BY DEF FraudTick
  <1>3. MinuteTicks \in Nat /\ \A m \in Minutes : MinuteTicks * m \in Nat /\ MinuteTicks * (m + 1) \in Nat
    <2>1. MinuteTicks \in Nat /\ \A m \in Minutes : m \in Nat
      BY FraudAssumption DEF Minutes
    <2> QED BY <2>1, SMT
  <1>4. ASSUME NEW f \in Evaluations PROVE (Judgeable(evaluation[f]) /\ Begun(evaluation[f].minute))'
    <2>1. Judgeable(evaluation[f]) /\ Begun(evaluation[f].minute)
      BY DEF FraudIInv
    <2>2. PICK m \in Minutes : m = evaluation[f].minute
      BY <2>1 DEF Judgeable
    <2>3. MinuteTicks * m <= now /\ MinuteTicks * m \in Nat
      BY <1>3, <2>1, <2>2 DEF Begun
    <2>4. MinuteTicks * m <= now'
      BY <1>1, <2>3
    <2> QED BY <1>2, <2>1, <2>2, <2>4 DEF Judgeable, Begun
  <1>5. counter \in [Kinds -> [Minutes -> [value : Nat, expires : Nat \cup {Forever}]]]
    BY DEF FraudIInv
  <1>6. NoKey \in [value : Nat, expires : Nat \cup {Forever}] /\ NoKey.expires = Forever
    BY DEF NoKey
  <1>7. counter' = [k \in Kinds |-> [m \in Minutes |->
          IF counter[k][m].expires # Forever /\ counter[k][m].expires <= now + 1
          THEN NoKey ELSE counter[k][m]]]
    BY DEF FraudTick
  <1> HIDE DEF NoKey
  <1>8. counter' \in [Kinds -> [Minutes -> [value : Nat, expires : Nat \cup {Forever}]]]
    BY <1>5, <1>6, <1>7
  <1>9. ASSUME NEW j \in Kinds, NEW q \in Minutes
         PROVE  /\ (counter[j][q].expires = Forever \/ MinuteTicks * (q + 1) <= counter[j][q].expires)'
                /\ (passed[j][q] <= Threshold(j))'
                /\ (Lasts(q) => passed[j][q] <= counter[j][q].value)'
    <2>1. /\ counter[j][q].expires = Forever \/ MinuteTicks * (q + 1) <= counter[j][q].expires
          /\ passed[j][q] <= Threshold(j)
          /\ Lasts(q) => passed[j][q] <= counter[j][q].value
      BY DEF FraudIInv
    <2>2. PICK over \in Nat : over = MinuteTicks * (q + 1)
      BY <1>3
    <2>3. CASE counter[j][q].expires # Forever /\ counter[j][q].expires <= now + 1
      <3>1. counter'[j][q] = NoKey
        BY <1>7, <2>3
      <3>2. counter[j][q].expires \in Nat
        BY <1>5, <2>3
      <3>3. over <= now + 1
        BY <1>1, <2>1, <2>2, <2>3, <3>2
      <3>4. ~Lasts(q)'
        BY <1>1, <2>2, <3>3 DEF Lasts
      <3> QED BY <1>2, <1>6, <2>1, <3>1, <3>4 DEF Threshold
    <2>4. CASE ~(counter[j][q].expires # Forever /\ counter[j][q].expires <= now + 1)
      <3>1. counter'[j][q] = counter[j][q]
        BY <1>7, <2>4
      <3>2. Lasts(q)' => Lasts(q)
        BY <1>1, <2>2 DEF Lasts
      <3> QED BY <1>2, <2>1, <3>1, <3>2 DEF Threshold
    <2> QED BY <2>3, <2>4
  <1>10. evaluation' = [f \in Evaluations |-> evaluation'[f]] /\ passed' \in [Kinds -> [Minutes -> Nat]]
    BY <1>2 DEF FraudIInv
  <1> QED BY <1>1, <1>4, <1>8, <1>9, <1>10 DEF FraudIInv

LEMMA FraudStepKeeps == FraudIInv /\ [FraudNext]_fraudVars => FraudIInv'
  <1> SUFFICES ASSUME FraudIInv, [FraudNext]_fraudVars PROVE FraudIInv'
    OBVIOUS
  <1>1. CASE FraudTick
    BY <1>1, TickKeeps
  <1>2. ASSUME NEW e \in Evaluations, MatchRules(e) PROVE FraudIInv'
    BY <1>2, MatchRulesKeeps
  <1>3. ASSUME NEW e \in Evaluations, JudgeTrust(e) PROVE FraudIInv'
    BY <1>3, JudgeTrustKeeps
  <1>4. ASSUME NEW e \in Evaluations, Conclude(e) \/ EvaluationFails(e) PROVE FraudIInv'
    BY <1>4, EndKeeps
  <1>5. ASSUME NEW e \in Evaluations, NEW k \in Kinds, Count(e, k) PROVE FraudIInv'
    BY <1>5, CountKeeps
  <1>6. ASSUME NEW e \in Evaluations, NEW k \in Kinds, SetExpiry(e, k) PROVE FraudIInv'
    BY <1>6, SetExpiryKeeps
  <1>7. CASE UNCHANGED fraudVars
    BY <1>7 DEF fraudVars, FraudIInv, Judgeable, Begun, Lasts
  <1> QED BY <1>1, <1>2, <1>3, <1>4, <1>5, <1>6, <1>7 DEF FraudNext

(* evaluate concludes with the most severe of the actions it found, and in   *)
(* no minute do more evaluations pass a velocity rule than its threshold,    *)
(* however many processes count at once and whichever of them die between    *)
(* INCR and EXPIRE.                                                          *)
THEOREM VerdictsHoldHolds == FraudSpec => []VerdictsHold
  <1>1. FraudIInv => VerdictsHold
    <2> SUFFICES ASSUME FraudIInv PROVE VerdictsHold
      OBVIOUS
    <2>1. MostSevereWins
      BY DEF FraudIInv, MostSevereWins, Judgeable, Severest
    <2>2. ThresholdHolds
      BY DEF FraudIInv, ThresholdHolds
    <2> QED BY <2>1, <2>2 DEF VerdictsHold
  <1> QED BY FraudInitHolds, FraudStepKeeps, <1>1, PTL DEF FraudSpec

-----------------------------------------------------------------------------
(* Templates.  The argument is about four pieces of state at a time, so the  *)
(* parts of the invariant are operators of them: V the rows, E the editors,  *)
(* S the story.                                                              *)

TemplateRows == [id : Nat, key : Nat, name : Names, version : Nat, active : BOOLEAN]

EditPcs == {"retire name", "retire key", "insert"}

EditsUnderWay ==
    [id : Nat, pc : EditPcs, key : Nat, name : Names, version : Nat, active : BOOLEAN]

Stories ==
    [ clean : BOOLEAN, together : SUBSET (Nat \X Nat), unasked : SUBSET Nat, backward : SUBSET Nat,
      names : SUBSET (Nat \X Names), promoted : [Names -> Int] ]

EditTyped(V, E, n, S) ==
    /\ V \subseteq TemplateRows /\ n \in Nat
    /\ E \in [Editors -> EditsUnderWay \cup {Resting}]
    /\ S \in Stories

(* Rows and edits have ids of their own, and no row is forgotten.            *)
Numbered(V, E, n, S) ==
    /\ \A v \in V : v.id < n /\ v.version <= n /\ <<v.key, v.name>> \in S.names
    /\ \A v, w \in V : v.id = w.id => v = w
    /\ \A m \in Names : S.promoted[m] < n
    /\ \A e \in Editors : E[e] # Resting =>
         /\ E[e].id < n /\ E[e].version <= n
         /\ \A v \in V : v.id # E[e].id
         /\ \A m \in Names : S.promoted[m] # E[e].id
         /\ \A f \in Editors : E[f] # Resting /\ E[f].id = E[e].id => f = e
         /\ E[e].pc # "insert" => E[e].active = TRUE

Above(V, x) == \A w \in V : w.name = x.name /\ w.key = x.key => w.version < x.version

AboveActive(V, x) ==
    \A w \in V : w.name = x.name /\ w.key = x.key /\ w.active = TRUE => w.version < x.version

(* About to insert an active row: older ones may be inactive by now.         *)
Promoting(x) == x # Resting /\ x.pc = "insert" /\ x.active = TRUE

(* One edit at a time, and what it will insert comes out on top.             *)
Orderly(V, E, S) ==
    S.clean = TRUE =>
        /\ \A e, f \in Editors : E[e] # Resting /\ E[f] # Resting => e = f
        /\ \A e \in Editors : Promoting(E[e]) => AboveActive(V, E[e])
        /\ \A e \in Editors : E[e] # Resting /\ S.backward = {} => Above(V, E[e])

UnmixedIn(names) == \A a, b \in names : (a[1] = b[1]) <=> (a[2] = b[2])

(* The row that was promoted last is served for its name.                    *)
Leads(V, p, n) ==
    \A v \in V : v.id = p =>
        /\ v.name = n /\ v.active = TRUE
        /\ \A w \in V : w.name = n /\ w.active = TRUE /\ w # v => w.version < v.version

(* An edit that has made the rows of the name inactive and has yet to insert *)
(* the new one.                                                              *)
Clouded(E, names, n) ==
    \E e \in Editors : Promoting(E[e]) /\ (E[e].name = n \/ <<E[e].key, n>> \in names)

Serving(V, E, S) ==
    S.clean = TRUE /\ UnmixedIn(S.names) =>
        \A n \in Names : Clouded(E, S.names, n) \/ Leads(V, S.promoted[n], n)

Distinct(V, S) ==
    S.clean = TRUE /\ S.backward = {} /\ UnmixedIn(S.names) =>
        \A v, w \in V : v.name = w.name /\ v.version = w.version => v = w

(* What the story has to say of two rows of one template, or of a row and an *)
(* edit that came after it.                                                  *)
Explained(a, b, active, S) ==
    \/ <<a.id, b.id>> \in S.together
    \/ /\ active => b.id \in S.unasked
       /\ a.version = b.version => b.id \in S.backward

ClashesExplained(V, S) ==
    \A v, w \in V : v.id < w.id /\ v.key = w.key /\ v.name = w.name =>
        Explained(v, w, v.active = TRUE /\ w.active = TRUE, S)

(* What an edit will insert is told apart from the rows before it, and what  *)
(* came later came while the edit was under way.                             *)
EditsExplained(V, E, S) ==
    \A e \in Editors : E[e] # Resting =>
        /\ \A v \in V : v.id < E[e].id /\ v.key = E[e].key /\ v.name = E[e].name =>
             Explained(v, E[e], v.active = TRUE /\ Promoting(E[e]), S)
        /\ \A v \in V : E[e].id < v.id => <<E[e].id, v.id>> \in S.together
        /\ \A f \in Editors : E[f] # Resting /\ E[e].id < E[f].id =>
             <<E[e].id, E[f].id>> \in S.together

TemplatesSound(V, E, n, S) ==
    /\ EditTyped(V, E, n, S) /\ Numbered(V, E, n, S) /\ Orderly(V, E, S)
    /\ Serving(V, E, S) /\ Distinct(V, S)
    /\ ClashesExplained(V, S) /\ EditsExplained(V, E, S)

TemplateIInv == TemplatesSound(versions, editor, edits, story)

-----------------------------------------------------------------------------
LEMMA UnderWay == \A x \in EditsUnderWay : x # Resting
  <1> SUFFICES ASSUME NEW x \in EditsUnderWay PROVE x.pc # Resting.pc
    OBVIOUS
  <1>1. x.pc \in EditPcs
    BY DEF EditsUnderWay
  <1>2. Resting.pc = "resting"
    BY DEF Resting
  <1>3. "resting" \notin EditPcs
    BY Zenon DEF EditPcs
  <1> QED BY <1>1, <1>2, <1>3

LEMMA OneEditor ==
    ASSUME NEW E \in [Editors -> EditsUnderWay \cup {Resting}], NEW e \in Editors,
           NEW x \in EditsUnderWay \cup {Resting}, NEW E2, E2 = [E EXCEPT ![e] = x]
    PROVE  /\ E2 \in [Editors -> EditsUnderWay \cup {Resting}]
           /\ E2[e] = x /\ \A f \in Editors : f # e => E2[f] = E[f]
  OBVIOUS

(* An edit begins.                                                           *)
TellsOfEdit(E, n, S, S2) ==
    /\ S2.names = S.names /\ S2.promoted = S.promoted
    /\ S2.clean = TRUE => S.clean = TRUE /\ \A f \in Editors : E[f] = Resting
    /\ S.together \subseteq S2.together
    /\ S.unasked \subseteq S2.unasked /\ S.backward \subseteq S2.backward
    /\ \A f \in Editors : E[f] # Resting => <<E[f].id, n>> \in S2.together

LEMMA BeginKeeps ==
    ASSUME NEW V, NEW E, NEW n, NEW S, TemplatesSound(V, E, n, S),
           NEW e \in Editors, E[e] = Resting, NEW x \in EditsUnderWay,
           NEW E2, E2 = [E EXCEPT ![e] = x],
           NEW S2 \in Stories, TellsOfEdit(E, n, S, S2),
           x.id = n, x.version <= n + 1, x.pc # "insert" => x.active = TRUE,
           Promoting(x) => n \in S2.unasked,
           Above(V, x) \/ (~Promoting(x) /\ n \in S2.backward)
    PROVE  TemplatesSound(V, E2, n + 1, S2)
  <1> USE DEF TellsOfEdit
  <1>1. /\ V \subseteq TemplateRows /\ n \in Nat /\ S \in Stories
        /\ E \in [Editors -> EditsUnderWay \cup {Resting}]
    BY DEF TemplatesSound, EditTyped
  <1>2. /\ E2 \in [Editors -> EditsUnderWay \cup {Resting}]
        /\ E2[e] = x /\ \A f \in Editors : f # e => E2[f] = E[f]
    BY <1>1, OneEditor
  <1>3. EditTyped(V, E2, n + 1, S2)
    BY <1>1, <1>2 DEF EditTyped
  <1>4. Numbered(V, E2, n + 1, S2)
    <2>1. \A v \in V : v.id \in Nat /\ v.version \in Nat
      BY <1>1 DEF TemplateRows
    <2>2. \A m \in Names : S.promoted[m] \in Int
      BY <1>1 DEF Stories
    <2>9. \A v \in V : v.id < n /\ v.version <= n /\ <<v.key, v.name>> \in S2.names
      BY DEF TemplatesSound, Numbered
    <2>3. \A v \in V : v.version <= n + 1 /\ v.id < n + 1 /\ v.id # n /\ <<v.key, v.name>> \in S2.names
      <3> TAKE v \in V
      <3>1. v.id \in Nat /\ v.version \in Nat
        BY <2>1
      <3>2. v.id < n /\ v.version <= n /\ <<v.key, v.name>> \in S2.names
        BY <2>9
      <3> QED BY <1>1, <3>1, <3>2
    <2>4. \A m \in Names : S2.promoted[m] < n + 1 /\ S2.promoted[m] # n
      BY <1>1, <2>2 DEF TemplatesSound, Numbered
    <2>5. ASSUME NEW f \in Editors, E[f] # Resting
          PROVE  E[f].id < n + 1 /\ E[f].id # n /\ E[f].version <= n + 1
      <3>1. E[f] \in EditsUnderWay
        BY <1>1, <2>5
      <3>2. E[f].id \in Nat /\ E[f].version \in Nat
        BY <3>1 DEF EditsUnderWay
      <3>3. E[f].id < n /\ E[f].version <= n
        BY <2>5 DEF TemplatesSound, Numbered
      <3> QED BY <1>1, <3>2, <3>3
    <2>6. n < n + 1
      BY <1>1
    <2>7. ASSUME NEW f \in Editors, E2[f] # Resting
          PROVE  /\ E2[f].id < n + 1 /\ E2[f].version <= n + 1
                 /\ \A v \in V : v.id # E2[f].id
                 /\ \A m \in Names : S2.promoted[m] # E2[f].id
                 /\ \A g \in Editors : E2[g] # Resting /\ E2[g].id = E2[f].id => g = f
                 /\ E2[f].pc # "insert" => E2[f].active = TRUE
      <3>1. CASE f = e
        <4>1. \A g \in Editors : E2[g] # Resting /\ E2[g].id = E2[f].id => g = f
          BY <1>2, <2>5, <3>1
        <4> QED BY <1>2, <2>3, <2>4, <2>6, <3>1, <4>1
      <3>2. CASE f # e
        <4>1. E2[f] = E[f] /\ E[f] # Resting
          BY <1>2, <2>7, <3>2
        <4>2. E[f].id < n + 1 /\ E[f].version <= n + 1 /\ E[f].id # n
          BY <2>5, <4>1
        <4>3. \A g \in Editors : E2[g] # Resting /\ E2[g].id = E2[f].id => g = f
          <5> SUFFICES ASSUME NEW g \in Editors, E2[g] # Resting, E2[g].id = E2[f].id PROVE g = f
            OBVIOUS
          <5>1. g # e
            BY <1>2, <4>1, <4>2
          <5>2. E2[g] = E[g]
            BY <1>2, <5>1
          <5> QED BY <4>1, <5>2 DEF TemplatesSound, Numbered
        <4> QED BY <4>1, <4>2, <4>3 DEF TemplatesSound, Numbered
      <3> QED BY <3>1, <3>2
    <2>8. \A v, w \in V : v.id = w.id => v = w
      BY DEF TemplatesSound, Numbered
    <2> QED BY <2>3, <2>4, <2>7, <2>8 DEF Numbered
  <1>5. Orderly(V, E2, S2)
    <2> SUFFICES ASSUME S2.clean = TRUE
                 PROVE  /\ \A f, g \in Editors : E2[f] # Resting /\ E2[g] # Resting => f = g
                        /\ \A f \in Editors : Promoting(E2[f]) => AboveActive(V, E2[f])
                        /\ \A f \in Editors : E2[f] # Resting /\ S2.backward = {} => Above(V, E2[f])
      BY DEF Orderly
    <2>1. \A f \in Editors : E2[f] # Resting => f = e
      BY <1>2
    <2>2. Promoting(x) => AboveActive(V, x)
      BY DEF Above, AboveActive
    <2>3. S2.backward = {} => Above(V, x)
      OBVIOUS
    <2> QED BY <1>2, <2>1, <2>2, <2>3 DEF Promoting
  <1>6. Serving(V, E2, S2)
    <2> SUFFICES ASSUME S2.clean = TRUE, UnmixedIn(S2.names), NEW m \in Names
                 PROVE  Leads(V, S2.promoted[m], m)
      BY DEF Serving
    <2>1. ~Clouded(E, S.names, m)
      BY DEF Clouded, Promoting
    <2> QED BY <2>1 DEF TemplatesSound, Serving
  <1>7. Distinct(V, S2)
    BY DEF TemplatesSound, Distinct
  <1>8. ClashesExplained(V, S2)
    <2> SUFFICES ASSUME NEW v \in V, NEW w \in V, v.id < w.id, v.key = w.key, v.name = w.name
                 PROVE  Explained(v, w, v.active = TRUE /\ w.active = TRUE, S2)
      BY DEF ClashesExplained
    <2>1. Explained(v, w, v.active = TRUE /\ w.active = TRUE, S)
      BY DEF TemplatesSound, ClashesExplained
    <2> QED BY <2>1 DEF Explained
  <1>9. EditsExplained(V, E2, S2)
    <2>1. ASSUME NEW v \in V, v.key = x.key, v.name = x.name
          PROVE  Explained(v, x, v.active = TRUE /\ Promoting(x), S2)
      <3>1. v.version \in Nat /\ x.version \in Nat
        BY <1>1 DEF TemplateRows, EditsUnderWay
      <3>2. Above(V, x) => v.version # x.version
        BY <2>1, <3>1 DEF Above
      <3> QED BY <3>2 DEF Explained
    <2>2. ASSUME NEW v \in V PROVE v.id \in Nat /\ ~(n < v.id)
      <3>1. v.id \in Nat /\ v.id < n
        BY <1>1 DEF TemplateRows, TemplatesSound, Numbered
      <3> QED BY <1>1, <3>1
    <2>3. ASSUME NEW f \in Editors, E[f] # Resting PROVE ~(n < E[f].id)
      <3>1. E[f].id \in Nat
        BY <1>1, <2>3 DEF EditsUnderWay
      <3>2. E[f].id < n
        BY <2>3 DEF TemplatesSound, Numbered
      <3> QED BY <1>1, <3>1, <3>2
    <2>4. ASSUME NEW f \in Editors, E2[f] # Resting, f # e
          PROVE  E2[f] = E[f] /\ E[f] # Resting
      BY <1>2, <2>4
    <2>5. ASSUME NEW f \in Editors, E2[f] # Resting, NEW v \in V, v.id < E2[f].id,
                 v.key = E2[f].key, v.name = E2[f].name
          PROVE  Explained(v, E2[f], v.active = TRUE /\ Promoting(E2[f]), S2)
      <3>1. CASE f = e
        BY <1>2, <2>1, <2>5, <3>1
      <3>2. CASE f # e
        <4>1. E2[f] = E[f] /\ E[f] # Resting
          BY <2>4, <2>5, <3>2
        <4>2. Explained(v, E[f], v.active = TRUE /\ Promoting(E[f]), S)
          BY <2>5, <4>1 DEF TemplatesSound, EditsExplained
        <4> QED BY <4>1, <4>2 DEF Explained
      <3> QED BY <3>1, <3>2
    <2>6. ASSUME NEW f \in Editors, E2[f] # Resting, NEW v \in V, E2[f].id < v.id
          PROVE  <<E2[f].id, v.id>> \in S2.together
      <3>1. f # e
        BY <1>2, <2>2, <2>6
      <3> QED BY <2>4, <2>6, <3>1 DEF TemplatesSound, EditsExplained
    <2>7. ASSUME NEW f \in Editors, NEW g \in Editors, E2[f] # Resting, E2[g] # Resting,
                 E2[f].id < E2[g].id
          PROVE  <<E2[f].id, E2[g].id>> \in S2.together
      <3>1. CASE f = e
        <4>1. g # e
          BY <1>1, <1>2, <2>7, <3>1
        <4> QED BY <1>2, <2>3, <2>4, <2>7, <3>1, <4>1
      <3>2. CASE f # e /\ g = e
        BY <1>2, <2>4, <2>7, <3>2
      <3>3. CASE f # e /\ g # e
        <4>1. E2[f] = E[f] /\ E[f] # Resting /\ E2[g] = E[g] /\ E[g] # Resting
          BY <2>4, <2>7, <3>3
        <4> QED BY <2>7, <4>1 DEF TemplatesSound, EditsExplained
      <3> QED BY <3>1, <3>2, <3>3
    <2> QED BY <2>5, <2>6, <2>7 DEF EditsExplained
  <1> QED BY <1>3, <1>4, <1>5, <1>6, <1>7, <1>8, <1>9 DEF TemplatesSound

(* V2 is V, with the rows of R made inactive.                                *)
MadeInactive(V, R, V2) ==
    /\ V2 \subseteq TemplateRows
    /\ \A r \in V2 : \E v \in V :
         /\ r.id = v.id /\ r.key = v.key /\ r.name = v.name /\ r.version = v.version
         /\ v \in R => r = [v EXCEPT !.active = FALSE] /\ r.active = FALSE
         /\ v \notin R => r = v

(* The rows that an edit makes inactive keep everything else.                *)
LEMMA Inactive ==
    ASSUME NEW V \in SUBSET TemplateRows, NEW R \in SUBSET V,
           NEW V2, V2 = (V \ R) \cup {[v EXCEPT !.active = FALSE] : v \in R}
    PROVE  MadeInactive(V, R, V2)
  <1>1. ASSUME NEW v \in R
        PROVE  /\ [v EXCEPT !.active = FALSE] \in TemplateRows
               /\ [v EXCEPT !.active = FALSE].id = v.id /\ [v EXCEPT !.active = FALSE].key = v.key
               /\ [v EXCEPT !.active = FALSE].name = v.name
               /\ [v EXCEPT !.active = FALSE].version = v.version
               /\ [v EXCEPT !.active = FALSE].active = FALSE
    BY DEF TemplateRows
  <1>2. V2 \subseteq TemplateRows
    BY <1>1
  <1>3. ASSUME NEW r \in V2
        PROVE  \E v \in V :
                /\ r.id = v.id /\ r.key = v.key /\ r.name = v.name /\ r.version = v.version
                /\ v \in R => r = [v EXCEPT !.active = FALSE] /\ r.active = FALSE
                /\ v \notin R => r = v
    <2>1. CASE r \in V \ R
      BY <2>1
    <2>2. CASE r \notin V \ R
      <3>1. PICK v \in R : r = [v EXCEPT !.active = FALSE]
        BY <2>2
      <3> QED BY <1>1, <3>1
    <2> QED BY <2>1, <2>2
  <1> QED BY <1>2, <1>3 DEF MadeInactive

HasRetired(old, x) == x = [old EXCEPT !.pc = "insert"]

RowsOf(x, V, R) == R = {v \in V : v.name = x.name} \/ R = {v \in V : v.key = x.key}

(* An edit makes the rows of its name or of its key inactive.                *)
LEMMA RetireKeeps ==
    ASSUME NEW V, NEW E, NEW n, NEW S, TemplatesSound(V, E, n, S),
           NEW e \in Editors, NEW old \in EditsUnderWay, E[e] = old, old.pc # "insert",
           NEW x \in EditsUnderWay, HasRetired(old, x), NEW E2, E2 = [E EXCEPT ![e] = x],
           NEW R, RowsOf(old, V, R), NEW V2, MadeInactive(V, R, V2)
    PROVE  TemplatesSound(V2, E2, n, S)
  <1> USE DEF HasRetired, RowsOf
  <1>1. /\ V \subseteq TemplateRows /\ n \in Nat /\ S \in Stories
        /\ E \in [Editors -> EditsUnderWay \cup {Resting}]
    BY DEF TemplatesSound, EditTyped
  <1>2. /\ E2 \in [Editors -> EditsUnderWay \cup {Resting}]
        /\ E2[e] = x /\ \A f \in Editors : f # e => E2[f] = E[f]
    BY <1>1, OneEditor
  <1>4. /\ V2 \subseteq TemplateRows
        /\ \A r \in V2 : \E v \in V :
             /\ r.id = v.id /\ r.key = v.key /\ r.name = v.name /\ r.version = v.version
             /\ v \in R => r = [v EXCEPT !.active = FALSE] /\ r.active = FALSE
             /\ v \notin R => r = v
    BY DEF MadeInactive
  <1>5. /\ x.id = old.id /\ x.key = old.key /\ x.name = old.name /\ x.version = old.version
        /\ x.active = old.active /\ x.pc = "insert"
    BY DEF EditsUnderWay
  <1>6. old.active = TRUE /\ old # Resting /\ x # Resting
    BY UnderWay DEF TemplatesSound, Numbered
  <1>7. Promoting(x)
    BY <1>5, <1>6 DEF Promoting
  <1>8. EditTyped(V2, E2, n, S)
    BY <1>1, <1>2, <1>4 DEF EditTyped
  <1>9. \A f \in Editors : /\ E2[f] # Resting <=> E[f] # Resting
                           /\ E2[f].id = E[f].id /\ E2[f].version = E[f].version
                           /\ E2[f].name = E[f].name /\ E2[f].key = E[f].key
                           /\ E2[f].active = E[f].active
                           /\ E2[f].pc # "insert" => E[f].pc # "insert"
    BY <1>2, <1>5, <1>6
  <1>10. Numbered(V2, E2, n, S)
    <2>1. \A r \in V2 : r.id < n /\ r.version <= n /\ <<r.key, r.name>> \in S.names
      <3> SUFFICES ASSUME NEW r \in V2 PROVE r.id < n /\ r.version <= n /\ <<r.key, r.name>> \in S.names
        OBVIOUS
      <3>1. PICK v \in V : r.id = v.id /\ r.key = v.key /\ r.name = v.name /\ r.version = v.version
        BY <1>4
      <3> QED BY <3>1 DEF TemplatesSound, Numbered
    <2>2. ASSUME NEW r \in V2, NEW q \in V2, r.id = q.id PROVE r = q
      <3>1. PICK v \in V : /\ r.id = v.id
                           /\ v \in R => r = [v EXCEPT !.active = FALSE]
                           /\ v \notin R => r = v
        BY <1>4
      <3>2. PICK w \in V : /\ q.id = w.id
                           /\ w \in R => q = [w EXCEPT !.active = FALSE]
                           /\ w \notin R => q = w
        BY <1>4
      <3>3. v = w
        <4>1. \A a, b \in V : a.id = b.id => a = b
          BY DEF TemplatesSound, Numbered
        <4> QED BY <2>2, <3>1, <3>2, <4>1
      <3> QED BY <3>1, <3>2, <3>3
    <2>3. ASSUME NEW f \in Editors, E[f] # Resting PROVE \A r \in V2 : r.id # E[f].id
      <3> SUFFICES ASSUME NEW r \in V2 PROVE r.id # E[f].id
        OBVIOUS
      <3>1. PICK v \in V : r.id = v.id
        BY <1>4
      <3> QED BY <2>3, <3>1 DEF TemplatesSound, Numbered
    <2>4. ASSUME NEW f \in Editors, E2[f] # Resting
          PROVE  /\ E2[f].id < n /\ E2[f].version <= n
                 /\ \A v \in V2 : v.id # E2[f].id
                 /\ \A m \in Names : S.promoted[m] # E2[f].id
                 /\ \A g \in Editors : E2[g] # Resting /\ E2[g].id = E2[f].id => g = f
                 /\ E2[f].pc # "insert" => E2[f].active = TRUE
      <3>1. E[f] # Resting /\ E2[f].id = E[f].id
        BY <1>9, <2>4
      <3>2. \A g \in Editors : E2[g] # Resting /\ E2[g].id = E2[f].id => g = f
        BY <1>9, <3>1 DEF TemplatesSound, Numbered
      <3>3. E[f].id < n /\ E[f].version <= n /\ (E[f].pc # "insert" => E[f].active = TRUE)
        BY <3>1 DEF TemplatesSound, Numbered
      <3>4. \A m \in Names : S.promoted[m] # E[f].id
        BY <3>1 DEF TemplatesSound, Numbered
      <3> QED BY <1>9, <2>3, <3>1, <3>2, <3>3, <3>4
    <2>5. \A m \in Names : S.promoted[m] < n
      BY DEF TemplatesSound, Numbered
    <2> QED BY <2>1, <2>2, <2>4, <2>5 DEF Numbered
  <1>11. Orderly(V2, E2, S)
    <2> SUFFICES ASSUME S.clean = TRUE
                 PROVE  /\ \A f, g \in Editors : E2[f] # Resting /\ E2[g] # Resting => f = g
                        /\ \A f \in Editors : Promoting(E2[f]) => AboveActive(V2, E2[f])
                        /\ \A f \in Editors : E2[f] # Resting /\ S.backward = {} => Above(V2, E2[f])
      BY DEF Orderly
    <2>1. \A f \in Editors : E[f] # Resting => f = e
      BY <1>6 DEF TemplatesSound, Orderly
    <2>2. \A f \in Editors : E2[f] # Resting => f = e
      BY <1>9, <2>1
    <2>3. AboveActive(V2, x)
      <3> SUFFICES ASSUME NEW r \in V2, r.name = x.name, r.key = x.key, r.active = TRUE PROVE FALSE
        BY DEF AboveActive
      <3>1. PICK v \in V : r.name = v.name /\ r.key = v.key /\ (v \in R => r.active = FALSE)
        BY <1>4
      <3>2. v \in R
        BY <1>5, <3>1
      <3> QED BY <3>1, <3>2
    <2>4. S.backward = {} => Above(V2, x)
      <3> SUFFICES ASSUME S.backward = {}, NEW r \in V2, r.name = x.name, r.key = x.key
                   PROVE  r.version < x.version
        BY DEF Above
      <3>1. PICK v \in V : r.name = v.name /\ r.key = v.key /\ r.version = v.version
        BY <1>4
      <3>2. Above(V, old)
        BY <1>6 DEF TemplatesSound, Orderly
      <3> QED BY <1>5, <3>1, <3>2 DEF Above
    <2> QED BY <1>2, <2>2, <2>3, <2>4 DEF Promoting
  <1>12. Serving(V2, E2, S)
    <2> SUFFICES ASSUME S.clean = TRUE, UnmixedIn(S.names), NEW m \in Names,
                        ~Clouded(E2, S.names, m)
                 PROVE  Leads(V2, S.promoted[m], m)
      BY DEF Serving
    <2>1. \A f \in Editors : E[f] # Resting => f = e
      BY <1>6 DEF TemplatesSound, Orderly
    <2>2. ~Promoting(old)
      BY DEF Promoting
    <2>3. ~Clouded(E, S.names, m)
      BY <2>1, <2>2 DEF Clouded, Promoting
    <2>4. Leads(V, S.promoted[m], m)
      BY <2>3 DEF TemplatesSound, Serving
    <2>5. x.name # m /\ <<x.key, m>> \notin S.names
      BY <1>2, <1>7 DEF Clouded
    <2>6. ASSUME NEW v \in V, v.name = m PROVE v \notin R
      <3>1. <<v.key, v.name>> \in S.names
        BY DEF TemplatesSound, Numbered
      <3>2. v.name # old.name /\ v.key # old.key
        BY <1>5, <2>5, <2>6, <3>1
      <3> QED BY <3>2
    <2>7. ASSUME NEW r \in V2, r.name = m PROVE r \in V
      <3>1. PICK v \in V : r.name = v.name /\ (v \notin R => r = v)
        BY <1>4
      <3> QED BY <2>6, <2>7, <3>1
    <2>8. ASSUME NEW r \in V2, r.id = S.promoted[m] PROVE r.name = m
      <3>1. PICK v \in V : r.id = v.id /\ r.name = v.name
        BY <1>4
      <3> QED BY <2>4, <2>8, <3>1 DEF Leads
    <2> QED BY <2>4, <2>7, <2>8 DEF Leads
  <1>13. Distinct(V2, S)
    <2> SUFFICES ASSUME S.clean = TRUE, S.backward = {}, UnmixedIn(S.names),
                        NEW r \in V2, NEW q \in V2, r.name = q.name, r.version = q.version
                 PROVE  r = q
      BY DEF Distinct
    <2>1. PICK v \in V : /\ r.name = v.name /\ r.version = v.version
                         /\ v \in R => r = [v EXCEPT !.active = FALSE]
                         /\ v \notin R => r = v
      BY <1>4
    <2>2. PICK w \in V : /\ q.name = w.name /\ q.version = w.version
                         /\ w \in R => q = [w EXCEPT !.active = FALSE]
                         /\ w \notin R => q = w
      BY <1>4
    <2>3. v = w
      <3>1. \A a, b \in V : a.name = b.name /\ a.version = b.version => a = b
        BY DEF TemplatesSound, Distinct
      <3>2. v.name = w.name /\ v.version = w.version
        BY <2>1, <2>2
      <3> QED BY <3>1, <3>2
    <2> QED BY <2>1, <2>2, <2>3
  <1>14. ClashesExplained(V2, S)
    <2> SUFFICES ASSUME NEW r \in V2, NEW q \in V2, r.id < q.id, r.key = q.key, r.name = q.name
                 PROVE  Explained(r, q, r.active = TRUE /\ q.active = TRUE, S)
      BY DEF ClashesExplained
    <2>1. PICK v \in V : /\ r.id = v.id /\ r.key = v.key /\ r.name = v.name /\ r.version = v.version
                         /\ r.active = TRUE => v.active = TRUE
      BY <1>4
    <2>2. PICK w \in V : /\ q.id = w.id /\ q.key = w.key /\ q.name = w.name /\ q.version = w.version
                         /\ q.active = TRUE => w.active = TRUE
      BY <1>4
    <2>3. Explained(v, w, v.active = TRUE /\ w.active = TRUE, S)
      BY <2>1, <2>2 DEF TemplatesSound, ClashesExplained
    <2> QED BY <2>1, <2>2, <2>3 DEF Explained
  <1>15. EditsExplained(V2, E2, S)
    <2>1. ASSUME NEW f \in Editors, E2[f] # Resting, NEW r \in V2, r.id < E2[f].id,
                 r.key = E2[f].key, r.name = E2[f].name
          PROVE  Explained(r, E2[f], r.active = TRUE /\ Promoting(E2[f]), S)
      <3>1. PICK v \in V : /\ r.id = v.id /\ r.key = v.key /\ r.name = v.name /\ r.version = v.version
                           /\ v \in R => r.active = FALSE
                           /\ r.active = TRUE => v.active = TRUE
        BY <1>4
      <3>2. E[f] # Resting /\ v.id < E[f].id /\ v.key = E[f].key /\ v.name = E[f].name
        BY <1>9, <2>1, <3>1
      <3>3. Explained(v, E[f], v.active = TRUE /\ Promoting(E[f]), S)
        BY <3>2 DEF TemplatesSound, EditsExplained
      <3>4. f = e => r.active # TRUE
        BY <3>1, <3>2
      <3>5. f # e => (Promoting(E2[f]) => Promoting(E[f]))
        BY <1>2
      <3>6. r.active = TRUE /\ Promoting(E2[f]) => v.active = TRUE /\ Promoting(E[f])
        BY <3>1, <3>4, <3>5
      <3>7. E2[f].id = E[f].id /\ E2[f].version = E[f].version
        BY <1>9
      <3> QED BY <3>1, <3>3, <3>6, <3>7 DEF Explained
    <2>2. ASSUME NEW f \in Editors, E2[f] # Resting, NEW r \in V2, E2[f].id < r.id
          PROVE  <<E2[f].id, r.id>> \in S.together
      <3>1. PICK v \in V : r.id = v.id
        BY <1>4
      <3> QED BY <1>9, <2>2, <3>1 DEF TemplatesSound, EditsExplained
    <2>3. ASSUME NEW f \in Editors, NEW g \in Editors, E2[f] # Resting, E2[g] # Resting,
                 E2[f].id < E2[g].id
          PROVE  <<E2[f].id, E2[g].id>> \in S.together
      BY <1>9, <2>3 DEF TemplatesSound, EditsExplained
    <2> QED BY <2>1, <2>2, <2>3 DEF EditsExplained
  <1> QED BY <1>8, <1>10, <1>11, <1>12, <1>13, <1>14, <1>15 DEF TemplatesSound

(* An edit ends: it breaks off, or another lemma has dealt with its row.     *)
LEMMA BreakOffKeeps ==
    ASSUME NEW V, NEW E, NEW n, NEW S, TemplatesSound(V, E, n, S),
           NEW e \in Editors, NEW E2, E2 = [E EXCEPT ![e] = Resting],
           NEW S2 \in Stories, S2 = [S EXCEPT !.clean = FALSE]
    PROVE  TemplatesSound(V, E2, n, S2)
  <1>1. /\ V \subseteq TemplateRows /\ n \in Nat /\ S \in Stories
        /\ E \in [Editors -> EditsUnderWay \cup {Resting}]
    BY DEF TemplatesSound, EditTyped
  <1>2. /\ E2 \in [Editors -> EditsUnderWay \cup {Resting}]
        /\ E2[e] = Resting /\ \A f \in Editors : f # e => E2[f] = E[f]
    BY <1>1, OneEditor
  <1>3. EditTyped(V, E2, n, S2)
    BY <1>1, <1>2 DEF EditTyped
  <1>4. \A f \in Editors : E2[f] # Resting => E2[f] = E[f] /\ E[f] # Resting
    BY <1>2
  <1>5. /\ S2.names = S.names /\ S2.promoted = S.promoted /\ S2.clean = FALSE
        /\ S2.together = S.together /\ S2.unasked = S.unasked /\ S2.backward = S.backward
    BY <1>1 DEF Stories
  <1>6. Numbered(V, E2, n, S2)
    BY <1>4, <1>5 DEF TemplatesSound, Numbered
  <1>7. Orderly(V, E2, S2) /\ Serving(V, E2, S2) /\ Distinct(V, S2)
    BY <1>5 DEF Orderly, Serving, Distinct
  <1>8. ClashesExplained(V, S2)
    BY <1>5 DEF TemplatesSound, ClashesExplained, Explained
  <1>9. EditsExplained(V, E2, S2)
    BY <1>4, <1>5 DEF TemplatesSound, EditsExplained, Explained
  <1> QED BY <1>3, <1>6, <1>7, <1>8, <1>9 DEF TemplatesSound

(* A row is deleted.                                                         *)
LEMMA DeleteKeeps ==
    ASSUME NEW V, NEW E, NEW n, NEW S, TemplatesSound(V, E, n, S), NEW V2 \in SUBSET V
    PROVE  TemplatesSound(V2, E, n, S)
  <1>1. EditTyped(V2, E, n, S)
    BY DEF TemplatesSound, EditTyped
  <1>2. Numbered(V2, E, n, S)
    BY DEF TemplatesSound, Numbered
  <1>3. Orderly(V2, E, S)
    BY DEF TemplatesSound, Orderly, Above, AboveActive
  <1>4. Serving(V2, E, S)
    BY DEF TemplatesSound, Serving, Leads
  <1>5. Distinct(V2, S)
    BY DEF TemplatesSound, Distinct
  <1>6. ClashesExplained(V2, S) /\ EditsExplained(V2, E, S)
    BY DEF TemplatesSound, ClashesExplained, EditsExplained
  <1> QED BY <1>1, <1>2, <1>3, <1>4, <1>5, <1>6 DEF TemplatesSound

(* An edit inserts its row.                                                  *)
InsertsRow(x, r, V, V2) ==
    /\ r \in TemplateRows /\ r.id = x.id /\ r.key = x.key /\ r.name = x.name
    /\ r.version = x.version /\ r.active = x.active /\ V2 = V \cup {r}

TellsOfRow(x, S, S2) ==
    /\ S2 \in Stories /\ S2.clean = S.clean
    /\ S2.together = S.together /\ S2.unasked = S.unasked /\ S2.backward = S.backward
    /\ S2.names = S.names \cup {<<x.key, x.name>>}
    /\ \A m \in Names :
         S2.promoted[m] = IF m = x.name /\ x.active = TRUE THEN x.id ELSE S.promoted[m]

LEMMA InsertKeeps ==
    ASSUME NEW V, NEW E, NEW n, NEW S, TemplatesSound(V, E, n, S),
           NEW e \in Editors, NEW x \in EditsUnderWay, E[e] = x, x.pc = "insert",
           NEW E2, E2 = [E EXCEPT ![e] = Resting],
           NEW r, NEW V2, InsertsRow(x, r, V, V2), NEW S2, TellsOfRow(x, S, S2)
    PROVE  TemplatesSound(V2, E2, n, S2)
  <1> USE DEF InsertsRow, TellsOfRow
  <1>1. /\ V \subseteq TemplateRows /\ n \in Nat /\ S \in Stories
        /\ E \in [Editors -> EditsUnderWay \cup {Resting}]
    BY DEF TemplatesSound, EditTyped
  <1>2. /\ E2 \in [Editors -> EditsUnderWay \cup {Resting}]
        /\ E2[e] = Resting /\ \A f \in Editors : f # e => E2[f] = E[f]
    BY <1>1, OneEditor
  <1>3. EditTyped(V2, E2, n, S2)
    BY <1>1, <1>2 DEF EditTyped
  <1>4. x # Resting
    BY UnderWay
  <1>5. /\ \A v \in V : v.id # x.id /\ v.id < n /\ v.version <= n /\ <<v.key, v.name>> \in S.names
        /\ \A v, w \in V : v.id = w.id => v = w
        /\ \A m \in Names : S.promoted[m] < n /\ S.promoted[m] # x.id
        /\ x.id < n /\ x.version <= n
    BY <1>4 DEF TemplatesSound, Numbered
  <1>6. Numbered(V2, E2, n, S2)
    <2>1. \A v \in V2 : v.id < n /\ v.version <= n /\ <<v.key, v.name>> \in S2.names
      BY <1>5
    <2>2. ASSUME NEW v \in V2, NEW w \in V2, v.id = w.id PROVE v = w
      <3>1. (v \in V \/ v = r) /\ (w \in V \/ w = r)
        OBVIOUS
      <3> QED BY <1>5, <2>2, <3>1
    <2>3. \A m \in Names : S2.promoted[m] < n
      <3> TAKE m \in Names
      <3>1. S2.promoted[m] = x.id \/ S2.promoted[m] = S.promoted[m]
        OBVIOUS
      <3> QED BY <1>5, <3>1
    <2>4. ASSUME NEW f \in Editors, E2[f] # Resting
          PROVE  /\ E2[f].id < n /\ E2[f].version <= n
                 /\ \A v \in V2 : v.id # E2[f].id
                 /\ \A m \in Names : S2.promoted[m] # E2[f].id
                 /\ \A g \in Editors : E2[g] # Resting /\ E2[g].id = E2[f].id => g = f
                 /\ E2[f].pc # "insert" => E2[f].active = TRUE
      <3>1. f # e /\ E2[f] = E[f] /\ E[f] # Resting
        BY <1>2, <2>4
      <3>2. E[f].id # x.id
        BY <1>4, <3>1 DEF TemplatesSound, Numbered
      <3>3. /\ E[f].id < n /\ E[f].version <= n
            /\ \A v \in V : v.id # E[f].id
            /\ \A m \in Names : S.promoted[m] # E[f].id
            /\ \A g \in Editors : E[g] # Resting /\ E[g].id = E[f].id => g = f
            /\ E[f].pc # "insert" => E[f].active = TRUE
        BY <3>1 DEF TemplatesSound, Numbered
      <3>4. \A g \in Editors : E2[g] # Resting /\ E2[g].id = E2[f].id => g = f
        BY <1>2, <3>1, <3>3
      <3> QED BY <3>1, <3>2, <3>3, <3>4
    <2> QED BY <2>1, <2>2, <2>3, <2>4 DEF Numbered
  <1>7. Orderly(V2, E2, S2)
    <2> SUFFICES ASSUME S2.clean = TRUE PROVE \A f \in Editors : E2[f] = Resting
      BY DEF Orderly, Promoting
    <2>1. \A f \in Editors : E[f] # Resting => f = e
      BY <1>4 DEF TemplatesSound, Orderly
    <2> QED BY <1>2, <2>1
  <1>8. ASSUME UnmixedIn(S2.names)
        PROVE  /\ UnmixedIn(S.names)
               /\ \A v \in V : v.name = x.name => v.key = x.key
               /\ \A m : <<x.key, m>> \in S.names => m = x.name
    <2>1. UnmixedIn(S.names)
      BY <1>8 DEF UnmixedIn
    <2>2. ASSUME NEW k, NEW m, <<k, m>> \in S.names PROVE k = x.key <=> m = x.name
      <3>1. <<k, m>> \in S2.names /\ <<x.key, x.name>> \in S2.names
        BY <2>2
      <3>2. /\ <<k, m>>[1] = k /\ <<k, m>>[2] = m
            /\ <<x.key, x.name>>[1] = x.key /\ <<x.key, x.name>>[2] = x.name
        OBVIOUS
      <3>3. (<<k, m>>[1] = <<x.key, x.name>>[1]) <=> (<<k, m>>[2] = <<x.key, x.name>>[2])
        BY <1>8, <3>1 DEF UnmixedIn
      <3> QED BY <3>2, <3>3
    <2> QED BY <1>5, <2>1, <2>2
  <1>9. Serving(V2, E2, S2)
    <2> SUFFICES ASSUME S2.clean = TRUE, UnmixedIn(S2.names), NEW m \in Names
                 PROVE  Leads(V2, S2.promoted[m], m)
      BY DEF Serving
    <2>1. /\ UnmixedIn(S.names)
          /\ \A v \in V : v.name = x.name => v.key = x.key
          /\ \A l : <<x.key, l>> \in S.names => l = x.name
      BY <1>8
    <2>2. CASE m = x.name /\ x.active = TRUE
      <3>1. AboveActive(V, x)
        BY <1>4, <2>2 DEF TemplatesSound, Orderly, Promoting
      <3>2. \A v \in V2 : v.id = x.id => v = r
        BY <1>5
      <3>3. ASSUME NEW w \in V2, w.name = m, w.active = TRUE, w # r PROVE w.version < r.version
        <4>1. w \in V /\ w.key = x.key
          BY <2>1, <2>2, <3>3
        <4> QED BY <2>2, <3>1, <3>3, <4>1 DEF AboveActive
      <3>4. S2.promoted[m] = x.id
        BY <2>2
      <3> QED BY <2>2, <3>2, <3>3, <3>4 DEF Leads
    <2>3. CASE ~(m = x.name /\ x.active = TRUE)
      <3>1. \A f \in Editors : E[f] # Resting => f = e
        BY <1>4 DEF TemplatesSound, Orderly
      <3>2. ~Clouded(E, S.names, m)
        <4> SUFFICES ASSUME Promoting(x), x.name = m \/ <<x.key, m>> \in S.names PROVE FALSE
          BY <3>1 DEF Clouded, Promoting
        <4> QED BY <2>1, <2>3 DEF Promoting
      <3>3. Leads(V, S.promoted[m], m)
        BY <2>1, <3>2 DEF TemplatesSound, Serving
      <3>4. S2.promoted[m] = S.promoted[m] /\ S.promoted[m] # x.id
        BY <1>5, <2>3
      <3>5. ~(r.name = m /\ r.active = TRUE)
        BY <2>3
      <3> QED BY <3>3, <3>4, <3>5 DEF Leads
    <2> QED BY <2>2, <2>3
  <1>10. Distinct(V2, S2)
    <2> SUFFICES ASSUME S2.clean = TRUE, S2.backward = {}, UnmixedIn(S2.names)
                 PROVE  \A v, w \in V2 : v.name = w.name /\ v.version = w.version => v = w
      BY DEF Distinct
    <2>1. UnmixedIn(S.names) /\ \A v \in V : v.name = x.name => v.key = x.key
      BY <1>8
    <2>2. Above(V, x)
      BY <1>4 DEF TemplatesSound, Orderly
    <2>3. \A v \in V : v.version \in Nat
      BY <1>1 DEF TemplateRows
    <2>4. \A v \in V : v.name = x.name => v.version # x.version
      <3> SUFFICES ASSUME NEW v \in V, v.name = x.name PROVE v.version # x.version
        OBVIOUS
      <3>1. v.version < x.version /\ v.version \in Nat
        BY <2>1, <2>2, <2>3 DEF Above
      <3> QED BY <3>1
    <2>5. \A v, w \in V : v.name = w.name /\ v.version = w.version => v = w
      BY <2>1 DEF TemplatesSound, Distinct
    <2> QED BY <2>4, <2>5
  <1>11. ASSUME NEW v \in V, v.key = x.key, v.name = x.name, v.id < x.id
         PROVE  Explained(v, x, v.active = TRUE /\ x.active = TRUE, S)
    <2>1. Explained(v, x, v.active = TRUE /\ Promoting(x), S)
      BY <1>4, <1>11 DEF TemplatesSound, EditsExplained
    <2>2. x.active = TRUE => Promoting(x)
      BY <1>4 DEF Promoting
    <2> QED BY <2>1, <2>2 DEF Explained
  <1>12. \A v \in V : x.id < v.id => <<x.id, v.id>> \in S.together
    BY <1>4 DEF TemplatesSound, EditsExplained
  <1>13. ClashesExplained(V2, S2)
    <2> SUFFICES ASSUME NEW v \in V2, NEW w \in V2, v.id < w.id, v.key = w.key, v.name = w.name
                 PROVE  Explained(v, w, v.active = TRUE /\ w.active = TRUE, S2)
      BY DEF ClashesExplained
    <2>1. CASE v \in V /\ w \in V
      <3>1. Explained(v, w, v.active = TRUE /\ w.active = TRUE, S)
        BY <2>1 DEF TemplatesSound, ClashesExplained
      <3> QED BY <3>1 DEF Explained
    <2>2. CASE v \in V /\ w = r
      <3>1. Explained(v, x, v.active = TRUE /\ x.active = TRUE, S)
        BY <1>11, <2>2
      <3> QED BY <2>2, <3>1 DEF Explained
    <2>3. CASE v = r /\ w \in V
      BY <1>12, <2>3 DEF Explained
    <2>4. ~(v = r /\ w = r)
      <3>1. r.id \in Nat
        BY DEF TemplateRows
      <3> QED BY <3>1
    <2> QED BY <2>1, <2>2, <2>3, <2>4
  <1>14. EditsExplained(V2, E2, S2)
    <2>1. ASSUME NEW f \in Editors, E2[f] # Resting
          PROVE  E2[f] = E[f] /\ E[f] # Resting /\ f # e
      BY <1>2, <2>1
    <2>2. ASSUME NEW f \in Editors, E2[f] # Resting, NEW v \in V2, v.id < E2[f].id,
                 v.key = E2[f].key, v.name = E2[f].name
          PROVE  Explained(v, E2[f], v.active = TRUE /\ Promoting(E2[f]), S2)
      <3>1. E2[f] = E[f] /\ E[f] # Resting
        BY <2>1, <2>2
      <3>2. CASE v \in V
        <4>1. Explained(v, E[f], v.active = TRUE /\ Promoting(E[f]), S)
          BY <2>2, <3>1, <3>2 DEF TemplatesSound, EditsExplained
        <4> QED BY <3>1, <4>1 DEF Explained
      <3>3. CASE v = r
        <4>1. <<x.id, E[f].id>> \in S.together
          BY <1>4, <2>2, <3>1, <3>3 DEF TemplatesSound, EditsExplained
        <4> QED BY <3>1, <3>3, <4>1 DEF Explained
      <3> QED BY <3>2, <3>3
    <2>3. ASSUME NEW f \in Editors, E2[f] # Resting, NEW v \in V2, E2[f].id < v.id
          PROVE  <<E2[f].id, v.id>> \in S2.together
      <3>1. E2[f] = E[f] /\ E[f] # Resting
        BY <2>1, <2>3
      <3>2. CASE v \in V
        BY <2>3, <3>1, <3>2 DEF TemplatesSound, EditsExplained
      <3>3. CASE v = r
        BY <1>4, <2>3, <3>1, <3>3 DEF TemplatesSound, EditsExplained
      <3> QED BY <3>2, <3>3
    <2>4. ASSUME NEW f \in Editors, NEW g \in Editors, E2[f] # Resting, E2[g] # Resting,
                 E2[f].id < E2[g].id
          PROVE  <<E2[f].id, E2[g].id>> \in S2.together
      BY <2>1, <2>4 DEF TemplatesSound, EditsExplained
    <2> QED BY <2>2, <2>3, <2>4 DEF EditsExplained
  <1> QED BY <1>3, <1>6, <1>7, <1>9, <1>10, <1>13, <1>14 DEF TemplatesSound

(* The next version is above all there are: of finitely many numbers one is  *)
(* the highest.                                                              *)
LEMMA NextIsAbove ==
    ASSUME NEW n \in Nat, NEW rows \in SUBSET TemplateRows, rows # {},
           \A v \in rows : v.version <= n
    PROVE  /\ NextVersion(rows) \in Nat /\ NextVersion(rows) <= n + 1
           /\ \A w \in rows : w.version < NextVersion(rows)
  <1>1. \A v \in rows : v.version \in Nat
    BY DEF TemplateRows
  <1> DEFINE D == {n - v.version : v \in rows}
  <1>2. D \in SUBSET Nat /\ D # {}
    BY <1>1
  <1>3. PICK d \in D : \A c \in D : d <= c
    <2> HIDE DEF D
    <2> QED BY <1>2, LeastNat
  <1>4. PICK v \in rows : d = n - v.version
    BY <1>3
  <1>5. \A w \in rows : w.version <= v.version
    <2> TAKE w \in rows
    <2>1. n - v.version <= n - w.version
      BY <1>3, <1>4
    <2> QED BY <1>1, <2>1
  <1> HIDE DEF D
  <1>6. v \in Highest(rows)
    BY <1>5 DEF Highest
  <1>7. PICK u : u = (CHOOSE t \in Highest(rows) : TRUE) /\ u \in Highest(rows)
    BY <1>6
  <1>8. u \in rows /\ u.version \in Nat /\ u.version <= n /\ \A w \in rows : w.version <= u.version
    BY <1>1, <1>7 DEF Highest
  <1>9. NextVersion(rows) = u.version + 1
    BY <1>7 DEF NextVersion
  <1> QED BY <1>1, <1>8, <1>9

-----------------------------------------------------------------------------
(* The actions.                                                              *)
LEMMA TemplateInitHolds == TemplateInit => TemplateIInv
  <1> SUFFICES ASSUME TemplateInit PROVE TemplateIInv
    OBVIOUS
  <1>1. PICK S : S = story /\ S = [ clean |-> TRUE, together |-> {}, unasked |-> {}, backward |-> {},
                                    names |-> {}, promoted |-> [n \in Names |-> -1] ]
    BY DEF TemplateInit
  <1>2. S \in Stories /\ S.names = {} /\ S.promoted = [n \in Names |-> -1]
    BY <1>1 DEF Stories
  <1>3. EditTyped({}, editor, 0, S)
    BY <1>2 DEF TemplateInit, EditTyped
  <1>4. \A e \in Editors : editor[e] = Resting
    BY DEF TemplateInit
  <1>5. Numbered({}, editor, 0, S)
    BY <1>2, <1>4 DEF Numbered
  <1>6. Orderly({}, editor, S) /\ Serving({}, editor, S) /\ Distinct({}, S)
    BY <1>4 DEF Orderly, Serving, Distinct, Leads, Promoting
  <1>7. ClashesExplained({}, S) /\ EditsExplained({}, editor, S)
    BY <1>4 DEF ClashesExplained, EditsExplained
  <1> QED BY <1>1, <1>3, <1>5, <1>6, <1>7 DEF TemplateIInv, TemplatesSound, TemplateInit

(* The story of an edit that begins.                                         *)
LEMMA EditIsTold ==
    ASSUME TemplatesSound(versions, editor, edits, story), NEW unasked, NEW backward,
           story' = EditTold(unasked, backward)
    PROVE  /\ story' \in Stories /\ TellsOfEdit(editor, edits, story, story')
           /\ unasked => edits \in story'.unasked
           /\ backward => edits \in story'.backward
  <1>1. /\ edits \in Nat /\ story \in Stories
        /\ editor \in [Editors -> EditsUnderWay \cup {Resting}]
    BY DEF TemplatesSound, EditTyped
  <1>2. PICK c \in BOOLEAN : c = (story.clean /\ Alone)
    BY Zenon
  <1>3. PICK pairs : pairs = {<<editor[f].id, edits>> : f \in {f \in Editors : editor[f] # Resting}}
    OBVIOUS
  <1>4. PICK both \in SUBSET (Nat \X Nat) : both = story.together \cup pairs
    <2>1. \A f \in Editors : editor[f] # Resting => editor[f].id \in Nat
      BY <1>1 DEF EditsUnderWay
    <2>2. pairs \in SUBSET (Nat \X Nat)
      BY <1>1, <1>3, <2>1
    <2>3. story.together \in SUBSET (Nat \X Nat)
      BY <1>1 DEF Stories
    <2> QED BY <2>2, <2>3
  <1>5. PICK u : u = IF unasked THEN story.unasked \cup {edits} ELSE story.unasked
    OBVIOUS
  <1>6. PICK b : b = IF backward THEN story.backward \cup {edits} ELSE story.backward
    OBVIOUS
  <1>7. /\ u \in SUBSET Nat /\ story.unasked \subseteq u /\ (unasked => edits \in u)
        /\ b \in SUBSET Nat /\ story.backward \subseteq b /\ (backward => edits \in b)
    BY <1>1, <1>5, <1>6 DEF Stories
  <1>8. story' = [story EXCEPT !.clean = c, !.together = both, !.unasked = u, !.backward = b]
    BY <1>2, <1>3, <1>4, <1>5, <1>6, Zenon DEF EditTold
  <1>9. /\ story' \in Stories /\ story'.names = story.names /\ story'.promoted = story.promoted
        /\ story'.clean = c /\ story'.together = both
        /\ story'.unasked = u /\ story'.backward = b
    BY <1>1, <1>7, <1>8 DEF Stories
  <1>10. c = TRUE => story.clean = TRUE /\ \A f \in Editors : editor[f] = Resting
    <2>1. story.clean \in BOOLEAN
      BY <1>1 DEF Stories
    <2> QED BY <1>2, <2>1 DEF Alone
  <1>11. story.together \subseteq both /\ \A f \in Editors : editor[f] # Resting => <<editor[f].id, edits>> \in both
    BY <1>3, <1>4
  <1> QED BY <1>7, <1>9, <1>10, <1>11 DEF TellsOfEdit

LEMMA ReadForCreateKeeps ==
    ASSUME TemplateIInv, NEW e \in Editors, NEW n \in Names, NEW choice \in ActiveChoices,
           ReadForCreate(e, n, choice)
    PROVE  TemplateIInv'
  <1>1. /\ versions \subseteq TemplateRows /\ edits \in Nat /\ story \in Stories
        /\ editor \in [Editors -> EditsUnderWay \cup {Resting}]
    BY DEF TemplateIInv, TemplatesSound, EditTyped
  <1>2. PICK pc \in EditPcs : /\ pc = IF choice = "yes" THEN "retire name" ELSE "insert"
                              /\ pc # "insert" => (choice # "no") = TRUE
    BY Zenon DEF EditPcs
  <1>3. PICK active \in BOOLEAN : active = (choice # "no") /\ (pc # "insert" => active = TRUE)
    BY <1>2, Zenon
  <1>4. PICK k, i \in Nat :
            /\ Begins(e, [id |-> edits, pc |-> pc, key |-> k, name |-> n, version |-> i, active |-> active])
            /\ i <= edits + 1
            /\ \A w \in versions : w.name = n /\ w.key = k => w.version < i
    <2>1. CASE NamedRows(n) = {} /\ Begins(e, [id |-> edits, pc |-> pc, key |-> edits, name |-> n,
                                               version |-> 1, active |-> active])
      <3>1. \A w \in versions : w.name # n
        BY <2>1 DEF NamedRows
      <3>2. 1 <= edits + 1
        BY <1>1
      <3> QED BY <1>1, <2>1, <3>1, <3>2
    <2>2. ASSUME NEW v \in NamedRows(n),
                 Begins(e, [id |-> edits, pc |-> pc, key |-> v.key, name |-> n, active |-> active,
                            version |-> NextVersion({w \in OfKey(v.key) : w.name = n})])
          PROVE  \E k, i \in Nat :
            /\ Begins(e, [id |-> edits, pc |-> pc, key |-> k, name |-> n, version |-> i, active |-> active])
            /\ i <= edits + 1
            /\ \A w \in versions : w.name = n /\ w.key = k => w.version < i
      <3>1. v \in versions /\ v.name = n /\ v.key \in Nat
        BY <1>1, <2>2 DEF NamedRows, TemplateRows
      <3>2. PICK rows : rows = {w \in OfKey(v.key) : w.name = n}
        OBVIOUS
      <3>3. \A w : w \in rows <=> w \in versions /\ w.key = v.key /\ w.name = n
        BY <3>2 DEF OfKey
      <3>4. rows \in SUBSET TemplateRows /\ rows # {}
        BY <1>1, <3>1, <3>3
      <3>5. \A w \in versions : w.version <= edits
        BY DEF TemplateIInv, TemplatesSound, Numbered
      <3>6. \A w \in rows : w.version <= edits
        BY <3>3, <3>5
      <3>7. PICK i \in Nat : i = NextVersion(rows) /\ i <= edits + 1 /\ \A w \in rows : w.version < i
        BY <1>1, <3>4, <3>6, NextIsAbove
      <3>8. Begins(e, [id |-> edits, pc |-> pc, key |-> v.key, name |-> n, version |-> i, active |-> active])
        BY <2>2, <3>2, <3>7
      <3> QED BY <3>1, <3>3, <3>7, <3>8
    <2> QED BY <1>2, <1>3, <2>1, <2>2 DEF ReadForCreate
  <1> DEFINE x == [id |-> edits, pc |-> pc, key |-> k, name |-> n, version |-> i, active |-> active]
  <1>5. /\ x \in EditsUnderWay /\ x.id = edits /\ x.version = i /\ x.pc = pc /\ x.active = active
        /\ x.name = n /\ x.key = k
    BY <1>1 DEF EditsUnderWay
  <1>6. Begins(e, x)
    BY <1>4
  <1> HIDE DEF x
  <1>7. Above(versions, x)
    BY <1>4, <1>5 DEF Above
  <1>8. /\ story' \in Stories /\ TellsOfEdit(editor, edits, story, story')
        /\ choice = "unset" => edits \in story'.unasked
    BY <1>1, EditIsTold DEF ReadForCreate, TemplateIInv
  <1>9. /\ editor[e] = Resting /\ editor' = [editor EXCEPT ![e] = x]
        /\ edits' = edits + 1 /\ versions' = versions
    BY <1>6 DEF Begins
  <1>10. Promoting(x) => edits \in story'.unasked
    <2> SUFFICES ASSUME pc = "insert", active = TRUE PROVE choice = "unset"
      BY <1>5, <1>8 DEF Promoting
    <2>1. choice # "yes"
      BY <1>2
    <2>2. choice # "no"
      BY <1>3
    <2> QED BY <2>1, <2>2 DEF ActiveChoices
  <1>11. TemplatesSound(versions, editor', edits + 1, story')
    BY <1>3, <1>4, <1>5, <1>7, <1>8, <1>9, <1>10, BeginKeeps DEF TemplateIInv
  <1> QED BY <1>9, <1>11 DEF TemplateIInv

LEMMA ReadForUpdateKeeps ==
    ASSUME TemplateIInv, NEW e \in Editors, NEW v \in versions, NEW n \in Names,
           NEW choice \in ActiveChoices, ReadForUpdate(e, v, n, choice)
    PROVE  TemplateIInv'
  <1>1. /\ versions \subseteq TemplateRows /\ edits \in Nat /\ story \in Stories
        /\ editor \in [Editors -> EditsUnderWay \cup {Resting}]
    BY DEF TemplateIInv, TemplatesSound, EditTyped
  <1>2. PICK pc \in EditPcs : /\ pc = IF Retires(choice) THEN "retire key" ELSE "insert"
                              /\ pc # "insert" <=> (choice # "no")
    BY Zenon DEF EditPcs, Retires
  <1>3. PICK active \in BOOLEAN : active = (choice # "no") /\ (pc # "insert" <=> active = TRUE)
    BY <1>2, Zenon
  <1>4. v.key \in Nat /\ v.version \in Nat /\ v.version <= edits
    BY <1>1 DEF TemplateRows, TemplateIInv, TemplatesSound, Numbered
  <1>5. PICK i \in Nat : i = v.version + 1 /\ i <= edits + 1
    BY <1>1, <1>4
  <1> DEFINE x == [id |-> edits, pc |-> pc, key |-> v.key, name |-> n, version |-> i, active |-> active]
  <1>6. /\ x \in EditsUnderWay /\ x.id = edits /\ x.version = i /\ x.pc = pc /\ x.active = active
        /\ x.name = n /\ x.key = v.key
    BY <1>1, <1>4 DEF EditsUnderWay
  <1>7. Begins(e, x)
    BY <1>2, <1>3, <1>5 DEF ReadForUpdate
  <1> HIDE DEF x
  <1>8. ~Promoting(x)
    BY <1>3, <1>6 DEF Promoting
  <1>9. /\ story' \in Stories /\ TellsOfEdit(editor, edits, story, story')
        /\ v \notin Highest(OfKey(v.key)) => edits \in story'.backward
    BY <1>1, EditIsTold DEF ReadForUpdate, TemplateIInv
  <1>10. ASSUME v \in Highest(OfKey(v.key)) PROVE Above(versions, x)
    <2> SUFFICES ASSUME NEW w \in versions, w.key = x.key PROVE w.version < x.version
      BY DEF Above
    <2>1. w.version <= v.version
      BY <1>6, <1>10 DEF Highest, OfKey
    <2>2. w.version \in Nat
      BY <1>1 DEF TemplateRows
    <2> QED BY <1>4, <1>5, <1>6, <2>1, <2>2
  <1>11. Above(versions, x) \/ (~Promoting(x) /\ edits \in story'.backward)
    BY <1>8, <1>9, <1>10
  <1>12. /\ editor[e] = Resting /\ editor' = [editor EXCEPT ![e] = x]
         /\ edits' = edits + 1 /\ versions' = versions
    BY <1>7 DEF Begins
  <1>13. TemplatesSound(versions, editor', edits + 1, story')
    <2>1. x.pc # "insert" => x.active = TRUE
      BY <1>3, <1>6
    <2>2. TemplatesSound(versions, editor, edits, story)
      BY DEF TemplateIInv
    <2> QED BY <1>5, <1>6, <1>8, <1>9, <1>11, <1>12, <2>1, <2>2, BeginKeeps
  <1> QED BY <1>12, <1>13 DEF TemplateIInv

LEMMA RetireStepKeeps ==
    ASSUME TemplateIInv, NEW e \in Editors, Retire(e)
    PROVE  TemplateIInv'
  <1>1. /\ versions \subseteq TemplateRows /\ editor \in [Editors -> EditsUnderWay \cup {Resting}]
    BY DEF TemplateIInv, TemplatesSound, EditTyped
  <1>2. PICK old : old = editor[e]
    OBVIOUS
  <1>3. old.pc # "insert" /\ old # Resting
    <2>1. Resting.pc = "resting"
      BY DEF Resting
    <2>2. old.pc \in {"retire name", "retire key"}
      BY <1>2, Zenon DEF Retire
    <2> QED BY <2>1, <2>2, Zenon
  <1>4. old \in EditsUnderWay
    BY <1>1, <1>2, <1>3
  <1>5. PICK R : /\ R = {v \in versions : v.name = old.name} \/ R = {v \in versions : v.key = old.key}
                 /\ versions' = (versions \ R) \cup {[v EXCEPT !.active = FALSE] : v \in R}
    BY <1>2, Zenon DEF Retire, RetireAll, NamedRows, OfKey
  <1>6. PICK x : x = [old EXCEPT !.pc = "insert"]
    OBVIOUS
  <1>7. x \in EditsUnderWay
    <2>1. "insert" \in EditPcs
      BY DEF EditPcs
    <2> QED BY <1>4, <1>6, <2>1 DEF EditsUnderWay
  <1>8. editor' = [editor EXCEPT ![e] = x] /\ edits' = edits /\ story' = story
    BY <1>1, <1>2, <1>6 DEF Retire
  <1>9. R \in SUBSET versions /\ versions \in SUBSET TemplateRows
    BY <1>1, <1>5
  <1>10. MadeInactive(versions, R, versions')
    BY <1>5, <1>9, Inactive
  <1>11. TemplatesSound(versions', editor', edits, story)
    <2>1. TemplatesSound(versions, editor, edits, story)
      BY DEF TemplateIInv
    <2>2. RowsOf(old, versions, R) /\ HasRetired(old, x)
      BY <1>5, <1>6, Zenon DEF RowsOf, HasRetired
    <2>3. editor' = [editor EXCEPT ![e] = x] /\ editor[e] = old
      BY <1>2, <1>8
    <2> QED BY <1>3, <1>4, <1>7, <1>10, <2>1, <2>2, <2>3, RetireKeeps
  <1> QED BY <1>8, <1>11 DEF TemplateIInv

LEMMA InsertStepKeeps ==
    ASSUME TemplateIInv, NEW e \in Editors, InsertVersion(e)
    PROVE  TemplateIInv'
  <1>1. /\ editor \in [Editors -> EditsUnderWay \cup {Resting}] /\ story \in Stories
    BY DEF TemplateIInv, TemplatesSound, EditTyped
  <1>2. PICK x : x = editor[e]
    OBVIOUS
  <1>3. x.pc = "insert" /\ x # Resting
    BY <1>2 DEF InsertVersion, Resting
  <1>4. x \in EditsUnderWay
    BY <1>1, <1>2, <1>3
  <1>5. PICK r : r = [id |-> x.id, key |-> x.key, name |-> x.name, version |-> x.version, active |-> x.active]
    OBVIOUS
  <1>6. /\ r \in TemplateRows /\ r.id = x.id /\ r.key = x.key /\ r.name = x.name
        /\ r.version = x.version /\ r.active = x.active
    BY <1>4, <1>5 DEF TemplateRows, EditsUnderWay
  <1>7. /\ versions' = versions \cup {r} /\ editor' = [editor EXCEPT ![e] = Resting] /\ edits' = edits
        /\ story' = [story EXCEPT !.names = @ \cup {<<x.key, x.name>>},
                                  !.promoted[x.name] = IF x.active THEN x.id ELSE @]
    BY <1>2, <1>5 DEF InsertVersion
  <1>8. PICK p : p = [story.promoted EXCEPT ![x.name] = IF x.active THEN x.id ELSE @]
    OBVIOUS
  <1>9. x.key \in Nat /\ x.name \in Names /\ x.id \in Nat /\ x.active \in BOOLEAN
    BY <1>4 DEF EditsUnderWay
  <1>10. story.promoted \in [Names -> Int] /\ story.names \in SUBSET (Nat \X Names)
    BY <1>1 DEF Stories
  <1>11. /\ p \in [Names -> Int]
         /\ \A m \in Names : p[m] = IF m = x.name /\ x.active = TRUE THEN x.id ELSE story.promoted[m]
    BY <1>8, <1>9, <1>10
  <1>12. story' = [story EXCEPT !.names = @ \cup {<<x.key, x.name>>}, !.promoted = p]
    BY <1>1, <1>7, <1>8 DEF Stories
  <1>13. PICK names \in SUBSET (Nat \X Names) : names = story.names \cup {<<x.key, x.name>>}
    <2>1. <<x.key, x.name>> \in Nat \X Names
      BY <1>9
    <2> QED BY <1>10, <2>1
  <1>14. /\ story' \in Stories /\ story'.clean = story.clean /\ story'.together = story.together
         /\ story'.unasked = story.unasked /\ story'.backward = story.backward
         /\ story'.names = names /\ story'.promoted = p
    BY <1>1, <1>11, <1>12, <1>13 DEF Stories
  <1>15. TemplatesSound(versions', editor', edits, story')
    <2>1. TemplatesSound(versions, editor, edits, story)
      BY DEF TemplateIInv
    <2>2. InsertsRow(x, r, versions, versions')
      BY <1>6, <1>7 DEF InsertsRow
    <2>3. TellsOfRow(x, story, story')
      BY <1>11, <1>13, <1>14 DEF TellsOfRow
    <2>4. editor' = [editor EXCEPT ![e] = Resting] /\ editor[e] = x
      BY <1>2, <1>7
    <2> QED BY <1>3, <1>4, <2>1, <2>2, <2>3, <2>4, InsertKeeps
  <1> QED BY <1>7, <1>15 DEF TemplateIInv

LEMMA BreakOffStepKeeps ==
    ASSUME TemplateIInv, NEW e \in Editors, BreakOff(e)
    PROVE  TemplateIInv'
  <1>1. story \in Stories
    BY DEF TemplateIInv, TemplatesSound, EditTyped
  <1>2. /\ editor' = [editor EXCEPT ![e] = Resting] /\ versions' = versions /\ edits' = edits
        /\ story' \in Stories /\ story' = [story EXCEPT !.clean = FALSE]
    BY <1>1 DEF BreakOff, Stories
  <1>3. TemplatesSound(versions, editor', edits, story')
    BY <1>2, BreakOffKeeps DEF TemplateIInv
  <1> QED BY <1>2, <1>3 DEF TemplateIInv

LEMMA DeleteStepKeeps ==
    ASSUME TemplateIInv, NEW v \in versions, DeleteTemplate(v)
    PROVE  TemplateIInv'
  <1>1. versions' \in SUBSET versions /\ editor' = editor /\ edits' = edits /\ story' = story
    BY DEF DeleteTemplate
  <1>2. TemplatesSound(versions', editor, edits, story)
    BY <1>1, DeleteKeeps DEF TemplateIInv
  <1> QED BY <1>1, <1>2 DEF TemplateIInv

LEMMA TemplateStepKeeps == TemplateIInv /\ [TemplateNext]_templateVars => TemplateIInv'
  <1> SUFFICES ASSUME TemplateIInv, [TemplateNext]_templateVars PROVE TemplateIInv'
    OBVIOUS
  <1>1. ASSUME NEW e \in Editors, NEW n \in Names, NEW choice \in ActiveChoices,
               ReadForCreate(e, n, choice)
        PROVE  TemplateIInv'
    BY <1>1, ReadForCreateKeeps
  <1>2. ASSUME NEW e \in Editors, NEW n \in Names, NEW choice \in ActiveChoices,
               NEW v \in versions, ReadForUpdate(e, v, n, choice)
        PROVE  TemplateIInv'
    BY <1>2, ReadForUpdateKeeps
  <1>3. ASSUME NEW e \in Editors, Retire(e) PROVE TemplateIInv'
    BY <1>3, RetireStepKeeps
  <1>4. ASSUME NEW e \in Editors, InsertVersion(e) PROVE TemplateIInv'
    BY <1>4, InsertStepKeeps
  <1>5. ASSUME NEW e \in Editors, BreakOff(e) PROVE TemplateIInv'
    BY <1>5, BreakOffStepKeeps
  <1>6. ASSUME NEW v \in versions, DeleteTemplate(v) PROVE TemplateIInv'
    BY <1>6, DeleteStepKeeps
  <1>7. CASE UNCHANGED templateVars
    BY <1>7 DEF templateVars, TemplateIInv
  <1> QED BY <1>1, <1>2, <1>3, <1>4, <1>5, <1>6, <1>7 DEF TemplateNext

LEMMA SoundServes == TemplateIInv => ServesPromoted
  <1> SUFFICES ASSUME TemplateIInv, story.clean, Unmixed, Alone, NEW n \in Names,
                      NEW v \in versions, v.id = story.promoted[n]
               PROVE  Served(n) = {v}
    BY DEF ServesPromoted
  <1>1. versions \subseteq TemplateRows /\ story \in Stories
    BY DEF TemplateIInv, TemplatesSound, EditTyped
  <1>2. \A w \in versions : w.active \in BOOLEAN /\ w.version \in Nat
    BY <1>1 DEF TemplateRows
  <1>3. story.clean = TRUE
    BY <1>1 DEF Stories
  <1>4. UnmixedIn(story.names)
    BY DEF Unmixed, UnmixedIn
  <1>5. ~Clouded(editor, story.names, n)
    BY DEF Clouded, Promoting, Alone
  <1>6. Leads(versions, story.promoted[n], n)
    BY <1>3, <1>4, <1>5 DEF TemplateIInv, TemplatesSound, Serving
  <1>7. /\ v.name = n /\ v.active = TRUE
        /\ \A w \in versions : w.name = n /\ w.active = TRUE /\ w # v => w.version < v.version
    BY <1>6 DEF Leads
  <1>8. PICK rows : rows = {w \in NamedRows(n) : w.active}
    OBVIOUS
  <1>9. \A w : w \in rows <=> w \in versions /\ w.name = n /\ w.active = TRUE
    BY <1>2, <1>8 DEF NamedRows
  <1>10. v \in rows /\ \A w \in rows : w.version \in Nat /\ (w # v => w.version < v.version)
    BY <1>2, <1>7, <1>9
  <1>11. \A w \in rows : w.version <= v.version /\ (w # v => ~(v.version <= w.version))
    BY <1>10
  <1>12. Highest(rows) = {v}
    BY <1>10, <1>11 DEF Highest
  <1> QED BY <1>8, <1>12 DEF Served

LEMMA SoundIsDistinct == TemplateIInv => VersionNamesOne
  <1> SUFFICES ASSUME TemplateIInv, story.clean, Unmixed, story.backward = {}, NEW n \in Names,
                      NEW i \in 1..MaxEdits
               PROVE  Cardinality(ServedAt(n, i)) <= 1
    BY DEF VersionNamesOne
  <1>1. story \in Stories
    BY DEF TemplateIInv, TemplatesSound, EditTyped
  <1>2. story.clean = TRUE
    BY <1>1 DEF Stories
  <1>3. UnmixedIn(story.names)
    BY DEF Unmixed, UnmixedIn
  <1>4. \A v, w \in versions : v.name = w.name /\ v.version = w.version => v = w
    BY <1>2, <1>3 DEF TemplateIInv, TemplatesSound, Distinct
  <1>5. \A v, w \in ServedAt(n, i) : v = w
    BY <1>4 DEF ServedAt, NamedRows
  <1>6. CASE ServedAt(n, i) = {}
    BY <1>6, FS_EmptySet
  <1>7. CASE ServedAt(n, i) # {}
    <2>1. PICK v : ServedAt(n, i) = {v}
      BY <1>5, <1>7
    <2>2. Cardinality({v}) = 1
      BY FS_Singleton
    <2> QED BY <2>1, <2>2
  <1> QED BY <1>6, <1>7

LEMMA SoundIsExplained == TemplateIInv => ClashesOverlapped
  <1> SUFFICES ASSUME TemplateIInv, NEW v \in versions, NEW w \in versions,
                      v.id < w.id, v.key = w.key, v.name = w.name
               PROVE  \/ <<v.id, w.id>> \in story.together
                      \/ /\ v.active /\ w.active => w.id \in story.unasked
                         /\ v.version = w.version => w.id \in story.backward
    BY DEF ClashesOverlapped
  <1>1. v.active \in BOOLEAN /\ w.active \in BOOLEAN
    BY DEF TemplateIInv, TemplatesSound, EditTyped, TemplateRows
  <1>2. Explained(v, w, v.active = TRUE /\ w.active = TRUE, story)
    BY DEF TemplateIInv, TemplatesSound, ClashesExplained
  <1> QED BY <1>1, <1>2 DEF Explained

(* However createTemplate, updateTemplate and deletions follow on each       *)
(* other, resolveTemplate finds under a name the version that was made       *)
(* active last, and under a name and a version one row - as long as edits    *)
(* neither overlap nor stop half way, and templates are not renamed.  Where  *)
(* they do, two rows that are active together or share a version were made   *)
(* by edits that overlapped, or the later edit retired nothing or was made   *)
(* from an old version.                                                      *)
THEOREM VersionsHoldHolds == TemplateSpec => []VersionsHold
  <1>1. TemplateIInv => VersionsHold
    BY SoundServes, SoundIsDistinct, SoundIsExplained DEF VersionsHold
  <1> QED BY TemplateInitHolds, TemplateStepKeeps, <1>1, PTL DEF TemplateSpec
=============================================================================
