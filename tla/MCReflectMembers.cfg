SPECIFICATION Spec
CONSTANTS
    h1 = h1
    h2 = h2
    h3 = h3
    Host <- ThreeHosts
    Local <- NoLocal
    Datagram <- AllForms
    TickTock = 1
    TockTock = 2
    HostTimeout = 1
    LwlRetransmit = 3
    HtmlTime = 1
    Publish = FALSE
    MayFail = TRUE
    Prompt = FALSE
    MaxPackets = 3
    MaxTime = 2
SYMMETRY Symmetry3
INVARIANTS
    ChainIntact
    ReflectedToAll
    
PROPERTY NothingToGone
CHECK_DEADLOCK FALSE
