SPECIFICATION FairSpec
CONSTANTS
    Testsuites <- MCTestsuites
    Tests <- MCTests
    Testcases <- MCTestcases
    TestsOf <- MCTestsOf
    CasesOf <- MCCasesOf
    SuiteOf <- MCSuiteOf
    TestOf <- MCTestOf
    MaxInput = 4
    MaxGroups = 3
    MayFail = TRUE
INVARIANTS
    TypeOK
    ReportersNested
    InOrder
    ResultFaithful
    Permutation
    Partitioned
PROPERTIES
    Terminates
CHECK_DEADLOCK TRUE
