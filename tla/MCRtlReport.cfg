SPECIFICATION RtlSpec
CONSTANTS
    Point <- MCPoint
    RtlSample <- MCSample
    Logs <- MCLogs
    MaxRuns = 2
    MaxBuilds = 1
INVARIANTS ReportBindsRead HashNamesBinary
