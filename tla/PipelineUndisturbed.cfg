\* No disturbance, fraud rules that allow or throttle, two carriers to reroute between, a callback sent again: what must happen.
CONSTANTS
    Messages = {m1}
    Priced = {m1}
    Providers = {p1, p2}
    NoProvider = NoProvider
    Workers = {w1, w2}
    MaxAttempts = 2
    MaxFaults = 0
    MaxVersion = 4
    Verdicts = {"allow", "throttle"}
    Callbacks = {c1}
    DlrWorkers = {d1}
    ResendStatus = TRUE
SPECIFICATION FairSpec
INVARIANTS
    AttemptsAccounted
PROPERTIES
    EverySubmissionSettles
    EveryReportProcessed
CHECK_DEADLOCK FALSE
