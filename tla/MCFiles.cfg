CONSTANTS
    MaxEvents = 5
    MaxFiles = 3
    MaxBoots = 2
    MaxFaults = 2
    QuietStart = TRUE
    QuietScan = TRUE
    Process = {daemon, cli}
    None = None
    RotateAt = 3
    MaxArchives = 3
    MaxEntries = 11
    MaxCrashes = 2
    MaxLogFaults = 1
    MaxStuck = 1
    Peer = {p1, p2}
    Key = {k1, k2}
    NoKey = NoKey
    Daemon = daemon
    Serial = TRUE
    MaxForeign = 1
    MaxReadFaults = 1
    MaxWriteFaults = 1
    Passphrase = {P, F}
    Initial <- NoneOrOld
    MaxId = 2
    Torn = Torn
    Slot = {1, 2, 3}
    Legacy = {P}
    Token = {t1, t2}
    Lifetime = 1
    Skew = 1
    Retention = 2
    Gate = FALSE
    MaxClock = 4
SPECIFICATION MCSpec
INVARIANTS
    DriftBounded
    ChainVerifies
    IdentityKept
    NothingStranded
    SingleUse
PROPERTIES
    NothingVanishes
    TrustSticks
CHECK_DEADLOCK FALSE
