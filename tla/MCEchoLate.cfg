SPECIFICATION Spec
CONSTANTS
    h1 = h1
    h2 = h2
    Host <- MCHost
    EchoTime = 3
    Epsilon = 2
    Latency = 1
    TickTock = 3
    TockTock = 4
    HostTimeout = 3
    LwlRetransmit = 4
    Publish = FALSE
    MayDrop = FALSE
    ShuffleDepth = 0
    MayFail = TRUE
    Reentrant = FALSE
    Prompt = FALSE
    MaxPackets = 3
    MaxTime = 6
SYMMETRY Symmetry
INVARIANTS
    EchoInv
PROPERTIES
    NoEchoAfterBye
    IsDelayLine
CHECK_DEADLOCK FALSE
