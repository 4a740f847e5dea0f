CONSTANTS
    nx = nx
    na = na
    nb = nb
    nc = nc
    Node = {nx, na, nb, nc}
    Dst = {nx}
    Link <- MCTriangle
    Mode <- AllRelay
    Infinity = 5
    Instant = TRUE
    Timely = TRUE
    MaxFlaps = 2
    MaxRestarts = 0
SPECIFICATION MCSpec
INVARIANTS
    NeverOptimistic
    NoTwoHopLoop
PROPERTIES
    CalmConverges
CHECK_DEADLOCK FALSE
