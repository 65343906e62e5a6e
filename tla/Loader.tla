-------------------------------- MODULE Loader --------------------------------
(***************************************************************************)
(* ctest_load_testsuite and ctest_testsuite_destroy of                      *)
(* src/src/exec/loader.c: a module is opened and checked, and a suite, its  *)
(* tests and their test cases are allocated one by one; when one of these   *)
(* cannot be had, what was acquired before it is released.  Suite s is the  *)
(* one loaded from argv[s].  Of libltdl the heap holds, for each suite, one *)
(* initialization, one advice and one reference to the module.              *)
(***************************************************************************)
EXTENDS Heap

CONSTANTS
    Files,
    Module    \* what lt_dlopenadvise and lt_dlsym find in a file

\* kind tells what the loader objects to, if anything.  tests are the test
\* definitions, each the sequence of its test cases: TRUE when the data
\* provider's to_string gives the test case a name of its own.
ASSUME LoaderAssumption ==
    Module \in [Files -> [kind : {"unreadable", "no_suite", "bad_magic",
                                  "bad_version", "suite"},
                          tests : Seq(Seq(BOOLEAN))]]

VARIABLES
    argv,     \* the files named on the command line
    suite,    \* the suite being loaded, or destroyed
    test,     \* the test of it being created
    cases,    \* number of test cases this test has already
    load      \* the call ctest_load_testsuite is at, or how it ended

loaderVars == <<suite, test, cases, load>>

LoaderInit == suite = 1 /\ test = 1 /\ cases = 0 /\ load = "idle"

Tests(s) == Module[argv[s]].tests

\* The name of a test case that is not its own is that of its test.
TestcaseParts(s, t, c) ==
    {<<"testcase", s, t, c>>}
        \union (IF Tests(s)[t][c] THEN {<<"name", s, t, c>>} ELSE {})
\* A test with its first n test cases; the first n tests.
TestParts(s, t, n) ==
    {<<"test", s, t>>, <<"testcases", s, t>>}
        \union UNION {TestcaseParts(s, t, c) : c \in 1 .. n}
TestsParts(s, n) == UNION {TestParts(s, t, Len(Tests(s)[t])) : t \in 1 .. n}

\* testcase_destroy__ compares names with one that is in the module.
NeededFor(s, parts) ==
    IF \E p \in parts : p[1] = "testcase" THEN {<<"handle", s>>} ELSE {}

-------------------------------------------------------------------------------
(***************************************************************************)
(* Loading.  What the labels at the end of ctest_load_testsuite release,    *)
(* each with those it falls through to.                                     *)
(***************************************************************************)

DlAdviseInitFailed == {<<"dlinit", suite>>}
DlOpenFailed == DlAdviseInitFailed \union {<<"advice", suite>>}
AllocFailed == DlOpenFailed \union {<<"handle", suite>>}
TestsAllocFailed == AllocFailed \union {<<"suite", suite>>}
\* The array of the tests is not among them.
\* MUTANT of TestCreationFailed: the tests created before are left, too.
TestCreationFailedOnly == TestsAllocFailed
TestCreationFailed == TestsAllocFailed \union TestsParts(suite, test - 1)
\* With the labels of test_create__ before it.
TestcaseCreateFailed == TestCreationFailed \union TestParts(suite, test, cases)

\* The function returns NULL.
Fails(parts) ==
    /\ Release(parts, NeededFor(suite, parts))
    /\ load' = "failed"
    /\ UNCHANGED <<suite, test, cases>>

\* A call that acquires got, or fails when parts are to be released.
Call(at, got, next, parts) ==
    /\ load = at
    /\ \/ Acquire(got) /\ load' = next /\ UNCHANGED <<suite, test, cases>>
       \/ Fault /\ Fails(parts)

DlInit == Call("dlinit", {<<"dlinit", suite>>}, "dladvise_init", {})
DlAdviseInit == Call("dladvise_init", {<<"advice", suite>>}, "dladvise_local",
                     DlAdviseInitFailed)
DlAdviseLocal == Call("dladvise_local", {}, "dlopen", DlOpenFailed)
DlOpen ==
    \/ /\ Module[argv[suite]].kind # "unreadable"
       /\ Call("dlopen", {<<"handle", suite>>}, "check", DlOpenFailed)
    \/ /\ Module[argv[suite]].kind = "unreadable" /\ load = "dlopen"
       /\ Fails(DlOpenFailed)
       /\ UNCHANGED faults

\* The symbol, the magic number and the version.
Check ==
    /\ load = "check"
    /\ IF Module[argv[suite]].kind = "suite"
       THEN load' = "suite" /\ UNCHANGED <<heap, misused, suite, test, cases>>
       ELSE Fails(AllocFailed)
    /\ UNCHANGED faults

AllocSuite == Call("suite", {<<"suite", suite>>}, "tests", AllocFailed)
\* There is no array of no tests.
AllocTests ==
    \/ /\ Tests(suite) # <<>>
       /\ Call("tests", {<<"tests", suite>>}, "test", TestsAllocFailed)
    \/ /\ Tests(suite) = <<>> /\ load = "tests"
       /\ load' = "test"
       /\ UNCHANGED <<heapVars, suite, test, cases>>

CreateTest ==
    /\ test <= Len(Tests(suite))
    /\ Call("test", {<<"test", suite, test>>}, "testcases", TestCreationFailed)
\* There is an array of no test cases.
AllocTestcases ==
    Call("testcases", {<<"testcases", suite, test>>}, "testcase",
         TestCreationFailed \union {<<"test", suite, test>>})
CreateTestcase ==
    /\ load = "testcase" /\ cases < Len(Tests(suite)[test])
    /\ Call("testcase", {<<"testcase", suite, test, cases + 1>>}, "name",
            TestcaseCreateFailed)
NameTestcase ==
    /\ load = "name"
    /\ LET own == TestcaseParts(suite, test, cases + 1)
                      \ {<<"testcase", suite, test, cases + 1>>}
       IN  \/ /\ Acquire(own)
              /\ cases' = cases + 1
              /\ load' = "testcase"
              /\ UNCHANGED <<suite, test>>
           \/ /\ own # {}
              /\ Fault
              /\ Fails(TestcaseCreateFailed
                           \union {<<"testcase", suite, test, cases + 1>>})
TestCreated ==
    /\ load = "testcase" /\ cases = Len(Tests(suite)[test])
    /\ test' = test + 1 /\ cases' = 0 /\ load' = "test"
    /\ UNCHANGED <<heapVars, suite>>

\* The function returns the suite, and keeps the advice.
Loaded ==
    /\ load = "test" /\ test > Len(Tests(suite))
    /\ test' = 1 /\ load' = "loaded"
    /\ UNCHANGED <<heapVars, suite, cases>>

LoadStep ==
    \/ DlInit \/ DlAdviseInit \/ DlAdviseLocal \/ DlOpen \/ Check
    \/ AllocSuite \/ AllocTests \/ CreateTest \/ AllocTestcases
    \/ CreateTestcase \/ NameTestcase \/ TestCreated \/ Loaded

-------------------------------------------------------------------------------
(***************************************************************************)
(* testsuite_op_destroy__: first the tests, then the rest with the module.  *)
(***************************************************************************)

\* MUTANT of SuiteTests: the module is closed before its tests are destroyed.
SuiteTestsLate(s) == {<<"handle", s>>}
SuiteTests(s) == TestsParts(s, Len(Tests(s)))
SuiteRest(s) ==
    {<<"suite", s>>, <<"handle", s>>, <<"dlinit", s>>}
        \union (IF Tests(s) = <<>> THEN {} ELSE {<<"tests", s>>})

DestroyTests(s) ==
    /\ Release(SuiteTests(s), NeededFor(s, SuiteTests(s)))
    /\ UNCHANGED faults
CloseSuite(s) ==
    /\ Release(SuiteRest(s), {})
    /\ UNCHANGED faults
===============================================================================
