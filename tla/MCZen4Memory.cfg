SPECIFICATION ZSpec
CONSTANTS
    Line <- MCLine
    Traces <- MCTraces
    NumLevels = 2
    Sets <- MCSets
    Ways <- MCWays
    TicksPerCycle = 3
    Latency <- MCLatency
    Bandwidth <- MCBandwidth
    Limit <- MCLimit
    Programs <- MCPrograms
    DispatchWidth = 3
    StoreLatency = 1
INVARIANTS
    Inclusive
    MissesExact
    JumpsSound
PROPERTIES
    FetchedOnce
    SameLineOrder
    Drains
