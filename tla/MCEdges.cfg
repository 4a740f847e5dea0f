CONSTANTS
    Gateway = {"f", "g"}
    Listener = {"k"}
    User = {"u"}
    Home <- MCHome
    Discovered <- MCDiscovered
    Caps <- MCCaps
    Policy <- MCPolicy
    Route <- MCRoute
    NoNode = "none"
    MaxTexts = 2
    Call = {"c1", "c2"}
    Target <- MCTarget
    Session = {"s", "t"}
    MaxFrames = 4
    Kind = {"msg", "peer"}
    BufferSize = 2
    MaxEvents = 4
    MaxCalls = 2
    Loop = {"h", "f"}
    MaxSignals = 1
    MaxStarts = 1
    Peer = {"p", "q"}
    Capability = {"x"}
    NameOf <- OwnName
    MaxChanges = 5
    NoPeer = NoPeer
SPECIFICATION MCSpec
INVARIANTS
    CarriedAtMostThrice
    ResolvedOnce
    AnswersFit
    CleanExit
PROPERTIES
    NothingSkipped
    WaitsEnd
CHECK_DEADLOCK FALSE
