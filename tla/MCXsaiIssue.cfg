SPECIFICATION FairSpec
CONSTANTS
    Traces <- MCTraces
    TicksPerCycle = 2
    Lanes <- MCLanes
    Serves <- MCServes
    ReadDomain <- MCReadDomain
    WriteDomain <- MCWriteDomain
    ReadCapacity <- MCOne
    WriteCapacity <- MCWriteCapacity
    Tokens <- MCTwo
    Policies <- MCPolicies
    Widths = {1, 3}
    RetireWidth = 2
    MemoryHold <- MCMemoryHold
    Horizon = 80
INVARIANTS
    IssueRespectful
    HoldingsExact
PROPERTIES
    NoMissedWakeUp
    Implements
    Terminates
