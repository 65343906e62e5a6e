SPECIFICATION Spec
CONSTANTS
    MaxReports = 1
    MaySignal = FALSE
    Allocations = {"fixture"}
INVARIANTS
    UnhookedOnFailure
CHECK_DEADLOCK TRUE
