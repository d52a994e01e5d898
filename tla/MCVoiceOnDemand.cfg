SPECIFICATION FairVodSpec
CONSTANTS
    Host = {h1, h2}
    Pid = {p1, p2}
    Undef = Undef
    HostTimeout = 2
    MaxCalls = 2
    MayFail = TRUE
INVARIANTS
    OneForEach
PROPERTIES
    Released
    LiveReaches
CHECK_DEADLOCK FALSE
CONSTRAINT NoMishap
