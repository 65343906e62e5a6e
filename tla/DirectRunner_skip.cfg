SPECIFICATION Spec
CONSTANTS
    MaxFd = 8
    Taken = {4}
    MaxRuns = 1
    MaxOutput = 0
    MaxSignals = 0
    Faults = {}
INVARIANTS
    SkipIsNoFailure
CHECK_DEADLOCK TRUE
