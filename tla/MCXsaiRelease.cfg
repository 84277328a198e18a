SPECIFICATION Spec
CONSTANTS
    NumMacros = 3
    MaxUops = 3
    Traces <- MCTraces
    TicksPerCycle = 2
    DispatchWidth = 3
    RetireWidth = 2
    RobEntries = 4
    VectorEntries = 4
    LoadEntries = 3
    StoreEntries = 3
    Partition <- MCPartition
    Entries <- MCEntries
    EnqueueWidth <- MCEnqueueWidth
    Domain <- MCDomain
    DomainCapacity <- MCDomainCapacity
    File <- MCFile
    FreeEntries <- MCFreeEntries
    AllocationWidth = 4
    ReleaseWidth = 2
    ReleaseDelay = 4
    GuardEntries = 0
PROPERTIES
    LeftoverWaitsForCycle
