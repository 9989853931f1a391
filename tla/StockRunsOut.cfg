\* The numbers of the program, and one order after the other.
CONSTANTS
    RamLimit <- FactoryRam
    EnergyLimit <- FactoryEnergy
    Stock <- FactoryStock
    Calls = {"order"}
    Requests <- NoRequests
    MaxCalls = 21
SPECIFICATION Spec
CHECK_DEADLOCK FALSE
INVARIANTS StockNeverNegative
