\* Two invocations over three events, a batch of two; two faults, an expired lease.
CONSTANTS
    Events = {e1, e2, e3}
    Relays = {r1, r2}
    BatchSize = 2
    MaxTries = 2
    MaxFaults = 2
    MaxLate = 1
SPECIFICATION FairSpec
INVARIANTS
    PublishedIsSent
    CopiesAccounted
PROPERTIES
    EventsLeave
CHECK_DEADLOCK FALSE
