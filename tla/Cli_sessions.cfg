SPECIFICATION Spec
CONSTANTS
    MaxFaults = 2
    Files = {"two", "one", "empty", "old", "text"}
    Module <- MCModules
    ArgVectors <- MCArgVectors
    Initial = 2
    DrainCap = 3
    MaxOutput = 5
    Word = 4
    Failures <- MCFailures
    ChildBuf = 8
    ParentBuf = 200
INVARIANTS
    TypeOK
    Released
    OutputIntact
    ReportFaithful
    ExitFaithful
PROPERTIES
    Terminates
CHECK_DEADLOCK TRUE
