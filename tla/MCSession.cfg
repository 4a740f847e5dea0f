CONSTANTS
    s = s
    l = l
    Node = {s, l}
    Smaller = s
    Ordered = FALSE
    Lossy = TRUE
    Pace = "any"
    GraceCovers = FALSE
    AgeClasses = {"fresh", "old"}
    MaxSequence = 3
    MaxRekeys = 1
    MaxData = 1
    Msg = {"crit", "norm", "low"}
    Rank <- MCRank
    Flusher = {"f1", "f2"}
    Cap = 1
    OneSender = FALSE
    Throttled = TRUE
    MaxDrops = 1
    None = None
SPECIFICATION MCSpec
INVARIANTS
    NoReplay
    SequenceUnique
    NoDowngrade
PROPERTIES
    CollisionResolves
    EvictionByPriority
    SerialQueueDrains
    AttemptsEnd
CHECK_DEADLOCK FALSE
