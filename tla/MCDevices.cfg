CONSTANTS
    Callers = {c1, c2}
    Sectors = {1, 2}
    PollLimit = 2
    IdxMod = 4
    MaxOutstanding = 1
    MaxFills = 1
    NoJob = NoJob
    DriverSet <- ThreeDrivers
    Cap = 2
    MaxIrq = 2
    IrqCount = 2
    Agents = {a1, a2}
    Nil = Nil
    MaxDepth = 2
    MaxNodes = 4
    RegCells = {3}
    CellCounts = {1}
    NoneV = NoneV
    Factories <- TheFactories
    MaxFactories = 3
    NodeChoices <- TheNodes
    MaxProbes = 4
    PlatformDrivers <- ThePlatform
SPECIFICATION Spec
CHECK_DEADLOCK FALSE
INVARIANTS OkMeansDone RegionsFit TablesAgree WalkerFollowsTree HealthyDevicesServed
PROPERTIES CallsReturn
