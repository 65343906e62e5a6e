SPECIFICATION FairSpec
CONSTANTS
    LenMod = 5
    PipeBuf = 2
    DropCap = 2
    HooksFd = 3
    OutputFd = 5
    HooksCap = 2
    OutputCap = 1
    FailureSizes = {12}
    SignalFailureSize = 2
    MaxOutput = 0
    MaxSignals = 0
    SignalKinds = {}
    ExitCodes = {1, 3}
    Faults = {}
PROPERTIES
    WriterReturns
CHECK_DEADLOCK FALSE
