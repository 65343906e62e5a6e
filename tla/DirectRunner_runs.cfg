SPECIFICATION FairSpec
CONSTANTS
    MaxFd = 8
    Taken = {4}
    MaxRuns = 3
    MaxOutput = 2
    MaxSignals = 2
    Faults = {"result", "descriptor", "tempfile", "dup2", "sigcapture",
              "sigrestore", "output"}
INVARIANTS
    TypeOK
    ProcessRestored
    OutputFaithful
    VerdictFaithful
PROPERTIES
    Completes
CHECK_DEADLOCK TRUE
