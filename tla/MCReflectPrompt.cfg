SPECIFICATION Spec
CONSTANTS
    h1 = h1
    h2 = h2
    h3 = h3
    Host <- ThreeHosts
    Local <- OneLocal
    Datagram <- SoundSpecialBye
    TickTock = 2
    TockTock = 4
    HostTimeout = 5
    LwlRetransmit = 6
    HtmlTime = 3
    Publish = TRUE
    MayFail = FALSE
    Prompt = TRUE
    MaxPackets = 3
    MaxTime = 22
SYMMETRY Symmetry2
INVARIANT OnTime
CHECK_DEADLOCK FALSE
