SPECIFICATION Spec
CONSTANTS
    LenMod = 5
    PipeBuf = 2
    DropCap = 2
    HooksFd = 3
    OutputFd = 5
    HooksCap = 12
    OutputCap = 1
    FailureSizes = {1, 3}
    SignalFailureSize = 2
    MaxOutput = 0
    MaxSignals = 1
    SignalKinds <- AllSignals
    ExitCodes = {1, 3}
    Faults = {}
INVARIANTS
    FailureFaithful
CHECK_DEADLOCK FALSE
