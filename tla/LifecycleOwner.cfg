CONSTANTS
    c1 = c1
    c2 = c2
    r1 = r1
    r2 = r2
    r3 = r3
    NoThread = NoThread
    Callers <- OneCaller
    Starters <- OneCaller
    Receivers <- ThreeReceivers
    HandlerStops = FALSE
    ThreadsMayFail = TRUE
    ConfiguredPort = 0
    EphemeralPorts <- TwoPorts
SPECIFICATION FairSpec
CHECK_DEADLOCK FALSE
INVARIANTS
    TypeOK
    PollsBoundSocket
    SettledMeansComplete
    NeverTerminates
PROPERTIES
    ResourceOrder
    StopReturns
