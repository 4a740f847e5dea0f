CONSTANTS
    Token = {t}
    Peer = {p}
    Lifetime = 1
    Skew = 1
    Retention = 2
    Gate = FALSE
    MaxClock = 1
    None = None
SPECIFICATION Spec
INVARIANTS
    InvitedLandsPending
CHECK_DEADLOCK FALSE
