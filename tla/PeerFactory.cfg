CONSTANTS
    Coordinator = "coordinator"
    Route <- TwoStations
    Cycles = 1
    StartsMayFail = TRUE
SPECIFICATION FairSpec
CHECK_DEADLOCK FALSE
INVARIANTS
    TypeOK
    LocalsOutliveHandlers
    StationsStayForOrders
PROPERTIES
    OneJobPerOrder
    ProgramEnds
