CONSTANTS
    W = 8
    ElementBytes = 2
    ScalarBytes = 4
    LineBytes = 4
    InputBase = 16
    OutputBase = 48
    StackBase = 96
    StackBytes = 16
    ConstantBase = 128
    ConstantBytes = 4
    Page = 64
    ScalarRegister <- MCScalar
    VectorRegister <- MCVector
    Jobs <- MCJobs
    StepBase = 20
    StepFactor = 8
SPECIFICATION Spec
INVARIANTS
    TraceExact
    StripMovesEveryElement
