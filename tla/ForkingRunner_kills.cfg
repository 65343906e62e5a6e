SPECIFICATION FairSpec
CONSTANTS
    LenMod = 5
    PipeBuf = 2
    DropCap = 2
    HooksFd = 3
    OutputFd = 5
    HooksCap = 2
    OutputCap = 1
    FailureSizes = {1, 3}
    SignalFailureSize = 2
    MaxOutput = 2
    MaxSignals = 1
    SignalKinds <- Kills
    ExitCodes = {1, 7}
    Faults = {"wait"}
INVARIANTS
    TypeOK
    DrainedBeforeWait
    FailureFaithful
    OutputFaithful
    StageNotAhead
    LeakOnlyWhenCut
PROPERTIES
    StageMonotone
    Completes
CHECK_DEADLOCK TRUE
