\* The fraud rules block everything.
CONSTANTS
    Messages = {m1}
    Priced = {m1}
    Providers = {p1}
    NoProvider = NoProvider
    Workers = {w1}
    MaxAttempts = 2
    MaxFaults = 0
    MaxVersion = 4
    Verdicts = {"block"}
    Callbacks = {c1}
    DlrWorkers = {d1}
    ResendStatus = FALSE
SPECIFICATION Spec
INVARIANTS
    BlockMovesForward
CHECK_DEADLOCK FALSE
