\* A cancelled campaign whose schedule is resumed.
CONSTANTS
    Campaign = {c1}
    Schedule = {s1}
    Invocation = {i1}
    NoRow = NoRow
    Periods <- Recurrences
    BatchLimit = 2
    Horizon = 2
    MaxCommands = 2
    MaxFaults = 0
SPECIFICATION Spec
PROPERTIES
    CancelIsFinal
CHECK_DEADLOCK FALSE
