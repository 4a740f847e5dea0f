CONSTANTS
    Node = {da, db}
    Smaller = da
    Conn = {c1, c2, c3}
    BothSlots = {c1, c2}
    Rns = FALSE
    RnsConnect = {db}
    RedialById = {da, db}
    Overlap = TRUE
    SendFaults = FALSE
    MaxFaults = 3
SPECIFICATION MCSpec
INVARIANTS
    MapsAgree
    RaceAgreeingEnds
PROPERTIES
    SpacedReconnects
CHECK_DEADLOCK FALSE
