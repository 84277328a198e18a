SPECIFICATION FairSpec
CONSTANTS
    Traces <- LeakTraces
    TicksPerCycle = 2
    Lanes <- MCLanes
    Serves <- MCServes
    ReadDomain <- MCReadDomain
    WriteDomain <- MCWriteDomain
    ReadCapacity <- MCOne
    WriteCapacity <- MCWriteCapacity
    Tokens <- MCTwo
    Policies <- LeakPolicies
    Widths = {1, 3}
    RetireWidth = 2
    MemoryHold <- MCNoHold
    Horizon = 80
INVARIANTS
    NeverSpins
PROPERTY
    WakesInTime
