SPECIFICATION TraceSpec
CONSTANTS
    Id <- MCId
    Traces <- MCTraces
INVARIANTS
    AcceptedIsSound
    CycleIsReal
