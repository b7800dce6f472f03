\* One part at a time: two callers of the breaker, two readers of the caches and a writer,
\* two handlers with up to three sessions.
CONSTANTS
    Slots = {d1, d2}
    Threshold = 2
    OpenTicks = 3
    HalfTicks = 1
    LinkTicks = 2
    MaxOverrides = 1
    MaxRestarts = 1
    RoutingKeys = {a, b}
    FraudKeys = {f}
    TierKeys = {t}
    Readers = {r1, r2}
    Savers = {w1}
    None = None
    Lifetime = 1
    MaxSaves = 1
    Handlers = {h1, h2}
    LinkSlots = {a, b}
    MaxLinks = 3
    NoLink = NoLink
SPECIFICATION AllSpec
INVARIANTS
    CoolsDown
    OpensAtThreshold
    StaleNeedsRace
    CarriersToldTrue
PROPERTIES
    QuietCloses
    RulesTakeEffect
CHECK_DEADLOCK FALSE
