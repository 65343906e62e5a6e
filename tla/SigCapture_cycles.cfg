SPECIFICATION Spec
CONSTANTS
    Signals <- MCSignals
    Invalid <- MCInvalid
    Faults = {"sigprocmask", "sigaction"}
INVARIANTS
    TypeOK
    OriginalKept
    AllGivenBack
    NoNullHandler
CHECK_DEADLOCK TRUE
