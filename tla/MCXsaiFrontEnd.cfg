SPECIFICATION FairSpec
CONSTANTS
    NumMacros = 3
    MaxUops = 3
    Traces <- MCTraces
    TicksPerCycle = 2
    DispatchWidth = 3
    RetireWidth = 2
    RobEntries = 4
    VectorEntries = 2
    LoadEntries = 2
    StoreEntries = 1
    Partition <- MCPartition
    Entries <- MCEntries
    EnqueueWidth <- MCEnqueueWidth
    Domain <- MCDomain
    DomainCapacity <- MCDomainCapacity
    File <- MCFile
    FreeEntries <- MCFreeEntries
    AllocationWidth = 4
    ReleaseWidth = 2
    ReleaseDelay = 4
    GuardEntries = 1
INVARIANTS
    AccountsExact
    DrainsWhole
PROPERTIES
    Drains
