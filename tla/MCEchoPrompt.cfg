SPECIFICATION Spec
CONSTANTS
    h1 = h1
    h2 = h2
    Host <- MCHost
    EchoTime = 3
    Epsilon = 2
    Latency = 1
    TickTock = 3
    TockTock = 4
    HostTimeout = 3
    LwlRetransmit = 4
    Publish = TRUE
    MayDrop = TRUE
    ShuffleDepth = 2
    MayFail = FALSE
    Reentrant = FALSE
    Prompt = TRUE
    MaxPackets = 3
    MaxTime = 20
SYMMETRY Symmetry
INVARIANTS
    OnTime
    EchoedOnce
    QueueOrdered
CHECK_DEADLOCK FALSE
