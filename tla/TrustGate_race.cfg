CONSTANTS
    Message = {m1, m2}
    Operator = {o1}
    Command = {"promote"}
    Cap = 2
    Repeated = {}
    MaxFaults = 0
SPECIFICATION Spec
INVARIANTS
    NothingLost
CHECK_DEADLOCK FALSE
