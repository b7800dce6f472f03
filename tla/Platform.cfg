\* One part at a time.  Reports: two messages, one of them free, two callbacks that may name either,
\* also by two workers at once after a rebalance.  The others: two rules and two policies, two tabs and two users, three keys.
CONSTANTS
    Messages = {m1, m2}
    Priced = {m1}
    Providers = {p1}
    NoProvider = NoProvider
    Workers = {w1}
    MaxAttempts = 1
    MaxFaults = 1
    MaxVersion = 4
    Verdicts = {"allow"}
    Callbacks = {c1, c2}
    DlrWorkers = {d1, d2}
    ResendStatus = FALSE
    RuleIds = {a, b}
    RouteProviders = {p1, p2}
    PolicyIds = {i, j}
    Contents <- MCContents
    PolicyContents <- MCPolicyContents
    Prices = {1}
    Nothing = Nothing
    MaxEdits = 2
    MaxTurns = 1
    Users = {u1, u2}
    SessionTenants = {t1, t2}
    Home <- MCHome
    Roles = {"admin", "viewer"}
    CrossTenantRoles = {"admin"}
    DangerRoles = {"admin"}
    Tabs = {a, b}
    NoToken = NoToken
    SessionLife = 2
    ConfirmLife = 1
    MaxTime = 3
    MaxReforms = 1
    ApiKeyIds = {k1, k2, k3}
    Owners = {o1, o2}
    Callers = {x1}
    Absent = Absent
    Day = 1
    Horizon = 1
    p1 = p1
    p2 = p2
    u1 = u1
    t1 = t1
    t2 = t2
SPECIFICATION AllSpec
SYMMETRY Interchangeable
INVARIANTS
    BillingMatchesStatus
    ReportsSettle
    SpecificPolicyWins
    RightsNotOlderThanSession
    KeysObeyed
PROPERTIES
    RoutedWell
    DangerIsConfirmed
CHECK_DEADLOCK FALSE
