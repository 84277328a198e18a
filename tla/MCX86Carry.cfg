CONSTANTS
    W = 6
    H = 4
    B = 2
    LineBytes = 4
    InputBase = 16
    OutputBase = 32
    ConstantBase = 48
    GeneralRegister <- MCGeneral
    VectorRegister <- MCVector
    Label = {"a", "b"}
    Jobs <- IncrementJobs
    Granule = 2
    StepBase = 6
    StepFactor = 4
SPECIFICATION Spec
INVARIANT FlagsFromLastWriter
