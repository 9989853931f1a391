CONSTANTS
    RamLimit <- SmallRam
    EnergyLimit <- SmallEnergy
    Stock <- SmallStock
    Calls = {"discover", "monitor", "order", "request"}
    Requests <- FactoryRequests
    MaxCalls = 4
SPECIFICATION Spec
CHECK_DEADLOCK FALSE
INVARIANTS
    TypeOK
    OnlyInspectionsBlock
    AssembledIsReserved
    MindIsPaidFor
