CONSTANTS
    Node = {"na", "nb", "nc", "nd"}
    Msg = {"m1", "m2"}
    Source <- MCSource
    Dest <- MCDest
    MaxHops = 3
    Mode <- AllRelay
    MaxResends = 1
    Forgetful = FALSE
    SourcesMax = 1
    PerSourceMax = 2
    CacheSources = 2
    CachePerSource = 2
    Src = {"s1", "s2", "s3"}
    Id = {"i1", "i2", "i3"}
    MaxAdds = 4
SPECIFICATION MCSpec
INVARIANTS
    HopBudget
    CacheRemembers
PROPERTIES
    DeliversOnce
    NetworkDrains
    PromiseKept
CHECK_DEADLOCK FALSE
