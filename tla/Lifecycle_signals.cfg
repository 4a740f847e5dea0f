CONSTANTS
    Loop = {h, f}
    MaxSignals = 2
    MaxStarts = 1
SPECIFICATION Spec
INVARIANTS
    CleanExit
CHECK_DEADLOCK FALSE
