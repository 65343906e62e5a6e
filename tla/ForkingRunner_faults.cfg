SPECIFICATION Spec
CONSTANTS
    LenMod = 5
    PipeBuf = 2
    DropCap = 2
    HooksFd = 3
    OutputFd = 5
    HooksCap = 2
    OutputCap = 1
    FailureSizes = {1, 3}
    SignalFailureSize = 2
    MaxOutput = 1
    MaxSignals = 2
    SignalKinds <- AllSignals
    ExitCodes = {1, 7}
    Faults <- AllFaults
INVARIANTS
    NoOrphan
    VerdictFaithful
    PassMeansPassed
PROPERTIES
    ImplementsRun
CHECK_DEADLOCK FALSE
