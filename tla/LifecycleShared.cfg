CONSTANTS
    c1 = c1
    c2 = c2
    r1 = r1
    r2 = r2
    r3 = r3
    NoThread = NoThread
    Callers <- TwoCallers
    Starters <- OneCaller
    Receivers <- ThreeReceivers
    HandlerStops = TRUE
    ThreadsMayFail = TRUE
    ConfiguredPort = 0
    EphemeralPorts <- TwoPorts
SPECIFICATION FairSpec
CHECK_DEADLOCK FALSE
INVARIANTS
    ReceiversAccounted
PROPERTIES
    HandlerStopReturns
