CONSTANTS
    Message = {m1, m2, m3}
    Operator = {o1}
    Command = {"promote", "block", "accept"}
    Cap = 2
    Repeated = {m1}
    MaxFaults = 1
    na = na
    nb = nb
    nc = nc
    nd = nd
    CapSet = {c1, c2, c3}
    NoCaps = NoCaps
    MaxBindFaults = 2
    None = None
SPECIFICATION MCSpec
INVARIANTS
    ChangeHeld
PROPERTIES
    PublishedExactly
    GossipTrue
CHECK_DEADLOCK FALSE
