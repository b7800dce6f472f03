\* Two schedules, two overlapping invocations that take up to two rows.
CONSTANTS
    Campaign = {c1}
    Schedule = {s1, s2}
    Invocation = {i1, i2}
    NoRow = NoRow
    Periods <- Recurrences
    BatchLimit = 2
    Horizon = 2
    MaxCommands = 2
    MaxFaults = 1
SPECIFICATION FairSpec
INVARIANTS
    EachRunOnce
PROPERTIES
    PauseHolds
    DueRunsAreMade
CHECK_DEADLOCK FALSE
