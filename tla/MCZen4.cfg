SPECIFICATION FairSpec
CONSTANTS
    NumUops = 5
    NumMacros = 3
    Traces <- AllTraces
    TicksPerCycle = 2
    DispatchWidth = 2
    RetireWidth = 2
    RobEntries = 3
    VectorEntries = 2
    LoadEntries = 2
    StoreEntries = 1
    Resource <- MCResource
    LaneCount <- MCLaneCount
    Class <- MCClass
    Domain <- MCDomain
    DomainCapacity <- MCDomainCapacity
    MaxPendingGroups = 1
    LoadLatency <- MCLoadLatency
    MemoryHold <- MCMemoryHold
    MaxIterations = 40
INVARIANTS
    OrderKept
    AccountsExact
    ResourceExclusive
    ProgramOrderIssue
    TicksPlausible
PROPERTIES
    NoMissedWakeUp
    ExecutesDataflow
    ConvergesWithoutLimit
