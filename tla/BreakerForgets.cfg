\* Nobody overrides, nothing restarts.
CONSTANTS
    Slots = {d1, d2}
    Threshold = 2
    OpenTicks = 3
    HalfTicks = 1
    LinkTicks = 2
    MaxOverrides = 0
    MaxRestarts = 0
SPECIFICATION Spec
PROPERTIES
    OpenUntilRecovery
CHECK_DEADLOCK FALSE
