SPECIFICATION FairSpec
CONSTANTS
    Traces <- OrderTraces
    TicksPerCycle = 2
    Lanes <- MCLanes
    Serves <- MCServes
    ReadDomain <- MCReadDomain
    WriteDomain <- MCWriteDomain
    ReadCapacity <- MCOne
    WriteCapacity <- MCWriteCapacity
    Tokens <- MCTwo
    Policies <- OrderPolicies
    Widths = {1, 3}
    RetireWidth = 2
    MemoryHold <- MCNoHold
    Horizon = 80
INVARIANTS
    NeverSpins
