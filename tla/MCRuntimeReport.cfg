SPECIFICATION GateSpec
CONSTANTS
    MemTotal = 20
    MemLevels <- MCMemLevels
    HighSamples = 2
    MaxSamples = 4
    MaxScans = 1
    MaxChanges = 2
INVARIANTS
    ReportNamesStop PassMeansScanned
