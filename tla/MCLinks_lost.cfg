CONSTANTS
    Link = {l1, l2}
    Identity <- OneIdentity
    Anonymous <- Unidentified
    MaxPeer = 4
    MaxIdentity = 5
    MaxMsg = 2
    Header = 1
    Chunk = {3}
    MaxArrivals = 3
    Node = {"a", "b"}
    Payload = {"p", "q", "r"}
    Online <- OneWay
    Segment = {"b"}
    DedupMax = 2
    DedupTTL = 2
    GroupTicks = 4
    Socket = {"s1", "s2"}
    NodeId = {"x", "y", "z"}
    MaxRegistered = 2
    MaxForwards = 1
    Cadence = 5
    Silence = 3
    RoundTrip = 3
    DropAfter = 2
    Uptime = 5
    BeatTicks = 15
    Conn = {1, 2}
    AuthBurst = 2
    MaxFailures = 3
    Window = 3
    BlockDuration = 3
    AuthTicks = 6
    Msg = {"large", "small", "full"}
    Size <- FrameSizes
    Rate = 1
    Burst = 3
    MaxWait = 2
    OneSender = TRUE
    Faulty = TRUE
    Routed = FALSE
    MaxSession = 2
    SendTicks = 5
SPECIFICATION MCSpec
INVARIANTS
    SomewhereKept
CHECK_DEADLOCK FALSE
