\* One part at a time: two calls of the limiter, two submissions, three uploads, two edits,
\* two wallet transactions, two evaluations.
CONSTANTS
    Callers = {c1, c2}
    Limit <- MCLimit
    Second = 2
    Day = 3
    Ahead = 1
    MaxTicks = 4
    MaxCalls = 5
    Requests = {r1, r2}
    IdempotencyKeys = {k1}
    ClientIds = {x1}
    Unset = Unset
    Numbers = {n1}
    Carriers = {p1, p2}
    MaxChanges = 3
    Editors = {e1, e2}
    Names = {n1, n2}
    MaxEdits = 3
    Uploads = {u1, u2, u3}
    File <- MCFile
    Phones = {n1, n2, n3}
    Edits = {e1}
    Nobody = Nobody
    ChargedMessages = {m1, m2, m3}
    Price <- MCPrice
    Funds = 120
    Credit = 0
    MaxBigint = 99999
    Txs = {t1, t2}
    Forever = Forever
    Evaluations = {e1, e2}
    MatchingRules <- MCMatchingRules
    MinuteTicks = 2
    SenderThreshold = 1
    PrefixThreshold = 1
    MaxNow = 2
    MaxEvaluations = 2
    m1 = m1
    m2 = m2
    m3 = m3
    n1 = n1
    n2 = n2
    n3 = n3
    bad = bad
    u1 = u1
    u2 = u2
    u3 = u3
SPECIFICATION Spec
INVARIANTS
    WithinBudget
    Screened
    RepeatsAgree
    VersionsHold
    UploadsAddUp
    LedgerSound
    VerdictsHold
PROPERTIES
    EveryUploadEnds
CHECK_DEADLOCK FALSE
