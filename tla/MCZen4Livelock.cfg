SPECIFICATION FairSpec
CONSTANTS
    NumUops = 7
    NumMacros = 4
    Traces <- ChainTraces
    TicksPerCycle = 2
    DispatchWidth = 2
    RetireWidth = 2
    RobEntries = 4
    VectorEntries = 4
    LoadEntries = 4
    StoreEntries = 1
    Resource <- MCResource
    LaneCount <- MCLaneCount
    Class <- MCClass
    Domain <- MCDomain
    DomainCapacity <- MCDomainCapacity
    MaxPendingGroups = 2
    LoadLatency <- MCLoadLatency
    MemoryHold <- MCMemoryHold
    MaxIterations = 40
PROPERTIES
    Converges
