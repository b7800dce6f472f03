\* One message, two dispatch invocations and two of the reports, every fraud verdict, a retry, one disturbance.
CONSTANTS
    Messages = {m1}
    Priced = {m1}
    Providers = {p1}
    NoProvider = NoProvider
    Workers = {w1, w2}
    MaxAttempts = 2
    MaxFaults = 1
    MaxVersion = 3
    Verdicts = {"allow", "throttle", "block"}
    Callbacks = {c1}
    DlrWorkers = {d1, d2}
    ResendStatus = FALSE
SPECIFICATION Spec
SYMMETRY Interchangeable
INVARIANTS
    LedgerMatchesBilling
    ChargedOnlyIfTaken
PROPERTIES
    StepsPassTrigger
    ImplementsLifecycle
CHECK_DEADLOCK FALSE
