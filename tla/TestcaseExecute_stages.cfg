SPECIFICATION Spec
CONSTANTS
    MaxReports = 3
    MaySignal = TRUE
    Allocations = {"fixture", "failure"}
INVARIANTS
    TypeOK
    CleanedUp
    FirstAbortDecides
    NoSilentFailure
    FirstFailureKept
PROPERTIES
    ImplementsHooks
CHECK_DEADLOCK TRUE
