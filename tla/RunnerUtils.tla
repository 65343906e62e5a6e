------------------------------ MODULE RunnerUtils ------------------------------
(***************************************************************************)
(* src/src/exec/runner_utils.c with the reporters of                        *)
(* src/src/exec/console_reporter.c: runner_run_testcases, runner_run_tests  *)
(* and runner_run_testsuites take the selected test cases suite by suite    *)
(* and test by test, create and destroy the reporters on the way, call      *)
(* run_testcase for every test case and add the failures up.                *)
(*                                                                          *)
(* What run_testcase does here is TestcaseRun, the contract runner_utils.h  *)
(* states for it.  ForkingRunner implements it; DirectRunner does not: its  *)
(* callback returns 1, and reports nothing, when it has no descriptors, and *)
(* 1 for a skip (SkipIsNoFailure).                                          *)
(***************************************************************************)
EXTENDS Repartition, SequencesExt

CONSTANTS
    TestsOf,      \* ctest_testsuite_get_tests
    CasesOf,      \* ctest_test_get_testcases
    MaxGroups,    \* bound: length of an argument of tests or test suites
    MayFail       \* BOOLEAN: allocations and run_testcase may fail

ASSUME UtilsAssumption ==
    /\ TestsOf \in [Testsuites -> Seq(Tests)]
    /\ CasesOf \in [Tests -> Seq(Testcases)]
    /\ Testsuites \intersect Tests = {}
    /\ \A s \in Testsuites : \A i \in DOMAIN TestsOf[s] : SuiteOf[TestsOf[s][i]] = s
    /\ \A t \in Tests : \A i \in DOMAIN CasesOf[t] : TestOf[CasesOf[t][i]] = t
    /\ MaxGroups \in Nat /\ MayFail \in BOOLEAN

VARIABLES
    pc,          \* where the control is
    rest,        \* what of the (repartitioned) argument is left
    tests,       \* the tests left in the suite, with their test cases
    cases,       \* the test cases left in the test
    testsuiteReporter, testReporter, testcaseReporter,  \* whom they are for
    inTest,      \* result of run_testcases_in_test__
    inSuite,     \* result of run_tests_in_testsuite__
    result,      \* result of the function
    phase, verdict, rc,   \* of the report and of the call of run_testcase
    \* history
    live,        \* reporters created and not yet destroyed, by level
    called,      \* test cases run_testcase was called for, in order
    opened,      \* test suites and tests reporters were created for, in order
    failed,      \* number of reports completed as FAIL
    errors,      \* number of reports completed as ERROR
    faulted      \* an allocation or a call of run_testcase failed

reporters == <<testsuiteReporter, testReporter, testcaseReporter>>
results == <<inTest, inSuite, result>>
report == <<phase, verdict, rc>>
history == <<live, called, opened, failed, errors, faulted>>
call == <<mode, input, sortVars>>
utilVars == <<call, pc, rest, tests, cases, reporters, results, report, history>>

Run == INSTANCE TestcaseRun

NoReporter == "NULL"
Levels == {"testsuite", "test", "testcase"}

\* What the functions may be called with.
Selections(m) ==
    CASE m = "testcases" -> Testcases
      [] m = "tests" -> Tests
      [] OTHER -> Testsuites

Init ==
    /\ mode \in {"testcases", "tests", "testsuites"}
    /\ input \in Inputs(Selections(mode))
    /\ mode # "testcases" => Len(input) <= MaxGroups
    /\ SortInit
    /\ pc = "call"
    /\ rest = <<>> /\ tests = <<>> /\ cases = <<>>
    /\ testsuiteReporter = NoReporter
    /\ testReporter = NoReporter
    /\ testcaseReporter = NoReporter
    /\ inTest = 0 /\ inSuite = 0 /\ result = 0
    /\ Run!RunInit
    /\ live = [l \in Levels |-> 0]
    /\ called = <<>> /\ opened = <<>>
    /\ failed = 0 /\ errors = 0
    /\ faulted = FALSE

-------------------------------------------------------------------------------
(***************************************************************************)
(* Creating and destroying reporters                                        *)
(***************************************************************************)

\* A reporter for something that does not belong to the parent's is refused
\* (EINVAL), which the callers take care never to provoke; creating one may
\* also fail for want of memory.
Fails(belongs) == ~belongs \/ MayFail
Faulted(belongs) == faulted' = (faulted \/ belongs)

\* The function called last returned an error.
\* MUTANT of Error: it is ignored.
ErrorIgnored == FALSE
Error == rc < 0

\* MUTANT of AddUp: the last number is the result.
LastOnly(total, n) == n
AddUp(total, n) == total + n

\* n more reporters of a level, fewer when n is negative.
Created(level, n) == [live EXCEPT ![level] = @ + n]

-------------------------------------------------------------------------------
\* Nothing to do, no memory for the copy, or the copy to be sorted.
Call ==
    /\ pc = "call"
    /\ \/ /\ pc' = "sort"
          /\ UNCHANGED <<result, faulted>>
       \/ /\ MayFail /\ input # <<>> /\ mode # "testsuites"
          /\ result' = -1
          /\ faulted' = TRUE
          /\ pc' = "returned"
    /\ UNCHANGED <<call, rest, tests, cases, reporters, inTest,
                   inSuite, report, live, called, opened, failed, errors>>

\* runner_run_testsuites takes the suites as they are.
\* MUTANT of NeedsSort: the clients are trusted to be well-behaved.
TrustsClient == FALSE
NeedsSort == mode # "testsuites" /\ ~SortDone

Sort ==
    /\ pc = "sort" /\ NeedsSort
    /\ SortStep
    /\ UNCHANGED <<mode, input, pc, rest, tests, cases, reporters, results, report,
                   history>>

BeginLoop ==
    /\ pc = "sort" /\ ~NeedsSort
    /\ rest' = [i \in DOMAIN sorted |-> Item(i)]
    /\ pc' = "testsuite"
    /\ UNCHANGED <<call, tests, cases, reporters, results, report,
                   history>>

\* Number of leading elements of rest with the key of the first.
\* MUTANT of Leading: one more is taken.
LeadingAndNext(keyOf) ==
    LET others == {i \in DOMAIN rest : keyOf[rest[i]] # keyOf[rest[1]]}
    IN  IF others = {} THEN Len(rest) ELSE Min(others)
Leading(keyOf) ==
    LET others == {i \in DOMAIN rest : keyOf[rest[i]] # keyOf[rest[1]]}
    IN  IF others = {} THEN Len(rest) ELSE Min(others) - 1

WithCases(ts) == [i \in DOMAIN ts |-> [test |-> ts[i], cases |-> CasesOf[ts[i]]]]

\* What the next round of the loop takes from rest: a suite, tests of it and
\* for each test the test cases to run.
Round ==
    CASE mode = "testcases" ->
             LET n == Leading(TestOf)
                 test == TestOf[rest[1]]
             IN  [suite |-> SuiteOf[test], taken |-> n,
                  tests |-> <<[test |-> test, cases |-> SubSeq(rest, 1, n)]>>]
      [] mode = "tests" ->
             LET n == Leading(SuiteOf)
             IN  [suite |-> SuiteOf[rest[1]], taken |-> n,
                  tests |-> WithCases(SubSeq(rest, 1, n))]
      [] OTHER -> [suite |-> rest[1], taken |-> 1,
                   tests |-> WithCases(TestsOf[rest[1]])]

\* Only runner_run_testcases keeps the reporter of the suite for the next
\* test.
\* MUTANT of KeepsReporter: every test gets a new one.
NeverKeeps(suite) == FALSE
KeepsReporter(suite) == mode = "testcases" /\ testsuiteReporter = suite

\* The next suite: destroy the old reporter if there is one, create a new one.
OpenTestsuite ==
    /\ pc = "testsuite" /\ rest # <<>>
    /\ LET old == IF testsuiteReporter = NoReporter THEN 0 ELSE 1 IN
       \/ /\ rest' = SubSeq(rest, Round.taken + 1, Len(rest))
          /\ tests' = Round.tests
          /\ inSuite' = 0
          /\ pc' = "test"
          /\ IF KeepsReporter(Round.suite)
             THEN UNCHANGED <<testsuiteReporter, live, opened>>
             ELSE /\ testsuiteReporter' = Round.suite
                  /\ live' = Created("testsuite", 1 - old)
                  /\ opened' = Append(opened, Round.suite)
          /\ UNCHANGED <<result, faulted>>
       \/ /\ ~KeepsReporter(Round.suite) /\ MayFail
          /\ testsuiteReporter' = NoReporter
          /\ live' = Created("testsuite", -old)
          /\ result' = -1
          /\ faulted' = TRUE
          /\ pc' = "return"
          /\ UNCHANGED <<rest, tests, inSuite, opened>>
    /\ UNCHANGED <<call, cases, testReporter, testcaseReporter, inTest,
                   report, called, failed, errors>>

\* The next test of the suite.
OpenTest ==
    /\ pc = "test" /\ tests # <<>>
    /\ LET test == Head(tests).test
           belongs == SuiteOf[test] = testsuiteReporter
       IN  \/ /\ belongs
              /\ testReporter' = test
              /\ live' = Created("test", 1)
              /\ opened' = Append(opened, test)
              /\ tests' = Tail(tests)
              /\ cases' = Head(tests).cases
              /\ inTest' = 0
              /\ pc' = "testcase"
              /\ UNCHANGED <<rc, faulted>>
           \/ /\ Fails(belongs)
              /\ rc' = -1
              /\ Faulted(belongs)
              /\ pc' = "close_testsuite"
              /\ UNCHANGED <<testReporter, live, opened, tests, cases, inTest>>
    /\ UNCHANGED <<call, rest, testsuiteReporter, testcaseReporter, inSuite,
                   result, phase, verdict, called, failed, errors>>

\* The next test case of the test; run_testcase is called for it.
OpenTestcase ==
    /\ pc = "testcase" /\ cases # <<>>
    /\ LET testcase == Head(cases)
           belongs == TestOf[testcase] = testReporter
       IN  \/ /\ belongs
              /\ testcaseReporter' = testcase
              /\ live' = Created("testcase", 1)
              /\ called' = Append(called, testcase)
              /\ cases' = Tail(cases)
              /\ phase' = "pending" /\ verdict' = "none" /\ rc' = 0
              /\ pc' = "run"
              /\ UNCHANGED faulted
           \/ /\ Fails(belongs)
              /\ rc' = -1
              /\ Faulted(belongs)
              /\ pc' = "close_test"
              /\ UNCHANGED <<testcaseReporter, live, called, cases, phase, verdict>>
    /\ UNCHANGED <<call, rest, tests, testsuiteReporter, testReporter, results,
                   opened, failed, errors>>

\* A callback that keeps its contract, as far as its caller and the reporter
\* can tell.
RunTestcase ==
    /\ pc = "run"
    /\ \/ Run!Start \/ Run!Report
       \/ MayFail /\ Run!Abandon
    /\ failed' = IF verdict' = "FAIL" THEN failed + 1 ELSE failed
    /\ errors' = IF verdict' = "ERROR" THEN errors + 1 ELSE errors
    /\ faulted' = (faulted \/ rc' < 0)
    /\ pc' = IF phase' = "running" THEN "run" ELSE "close_testcase"
    /\ UNCHANGED <<call, rest, tests, cases, reporters, results, live,
                   called, opened>>

\* run_testcase returned.
CloseTestcase ==
    /\ pc = "close_testcase"
    /\ testcaseReporter' = NoReporter
    /\ live' = Created("testcase", -1)
    /\ IF Error
       THEN pc' = "close_test" /\ UNCHANGED inTest
       ELSE pc' = "testcase" /\ inTest' = AddUp(inTest, IF rc > 0 THEN 1 ELSE 0)
    /\ UNCHANGED <<call, rest, tests, cases, testsuiteReporter, testReporter,
                   inSuite, result, report, called, opened, failed, errors, faulted>>

\* All of the test cases of the test were run.
TestDone ==
    /\ pc = "testcase" /\ cases = <<>>
    /\ rc' = inTest
    /\ pc' = "close_test"
    /\ UNCHANGED <<call, rest, tests, cases, reporters, results, phase,
                   verdict, history>>

\* run_testcases_in_test__ returned.
\* MUTANT of DestroyTest: not when it returned an error.
DestroyTestUnlessError ==
    live' = IF rc < 0 THEN live ELSE Created("test", -1)
DestroyTest == live' = Created("test", -1)

CloseTest ==
    /\ pc = "close_test"
    /\ DestroyTest
    /\ testReporter' = NoReporter
    /\ IF Error
       THEN pc' = "close_testsuite" /\ UNCHANGED inSuite
       ELSE pc' = "test" /\ inSuite' = AddUp(inSuite, rc)
    /\ UNCHANGED <<call, rest, tests, cases, testsuiteReporter,
                   testcaseReporter, inTest, result, report, called, opened,
                   failed, errors, faulted>>

\* All of the tests of the suite were run.
TestsuiteDone ==
    /\ pc = "test" /\ tests = <<>>
    /\ rc' = inSuite
    /\ pc' = "close_testsuite"
    /\ UNCHANGED <<call, rest, tests, cases, reporters, results, phase,
                   verdict, history>>

\* run_tests_in_testsuite__ returned; in runner_run_testcases, the test is
\* done and the reporter of the suite is kept.
CloseTestsuite ==
    /\ pc = "close_testsuite"
    /\ IF mode = "testcases"
       THEN UNCHANGED <<testsuiteReporter, live>>
       ELSE testsuiteReporter' = NoReporter /\ live' = Created("testsuite", -1)
    /\ IF Error
       THEN pc' = "return" /\ result' = -1
       ELSE pc' = "testsuite" /\ result' = AddUp(result, rc)
    /\ UNCHANGED <<call, rest, tests, cases, testReporter, testcaseReporter,
                   inTest, inSuite, report, called, opened, failed, errors, faulted>>

\* Destroy the last reporter of runner_run_testcases and return.
Return ==
    /\ pc = "return" \/ (pc = "testsuite" /\ rest = <<>>)
    /\ live' = IF testsuiteReporter = NoReporter THEN live
               ELSE Created("testsuite", -1)
    /\ testsuiteReporter' = NoReporter
    /\ pc' = "returned"
    /\ UNCHANGED <<call, rest, tests, cases, testReporter, testcaseReporter,
                   results, report, called, opened, failed, errors, faulted>>

Returned == pc = "returned" /\ UNCHANGED utilVars

Step ==
    \/ Call
    \/ Sort
    \/ BeginLoop
    \/ OpenTestsuite
    \/ OpenTest
    \/ OpenTestcase
    \/ RunTestcase
    \/ CloseTestcase
    \/ TestDone
    \/ CloseTest
    \/ TestsuiteDone
    \/ CloseTestsuite
    \/ Return

Next == Step \/ Returned

Spec == Init /\ [][Next]_utilVars

\* One thread runs the functions to their end; run_testcase comes to one.
FairSpec == Spec /\ WF_utilVars(Step)
-------------------------------------------------------------------------------
(***************************************************************************)
(* Properties                                                               *)
(***************************************************************************)

LoopTypeOK ==
    /\ mode \in {"testcases", "tests", "testsuites"}
    /\ input \in Seq(Selections(mode)) /\ rest \in Seq(Selections(mode))
    /\ tests \in Seq([test : Tests, cases : Seq(Testcases)])
    /\ cases \in Seq(Testcases)
ControlTypeOK ==
    /\ pc \in {"call", "sort", "testsuite", "test", "testcase", "run",
               "close_testcase", "close_test", "close_testsuite", "return",
               "returned"}
    /\ testsuiteReporter \in Testsuites \union {NoReporter}
    /\ testReporter \in Tests \union {NoReporter}
    /\ testcaseReporter \in Testcases \union {NoReporter}
    /\ phase \in {"pending", "running", "completed", "abandoned"}
    /\ verdict \in {"none", "PASS", "FAIL", "SKIPPED", "ERROR"}
    /\ live \in [Levels -> {0, 1}]
CountsTypeOK ==
    /\ inTest \in Nat /\ inSuite \in Nat /\ result \in Nat \union {-1}
    /\ rc \in Nat \union {-1}
    /\ failed \in Nat /\ errors \in Nat
HistoryTypeOK ==
    called \in Seq(Testcases) /\ opened \in Seq(Testsuites \union Tests)

\* The state of the three functions and of the reporters.
TypeOK ==
    /\ LoopTypeOK /\ ControlTypeOK /\ CountsTypeOK /\ HistoryTypeOK
    /\ faulted \in BOOLEAN

\* Where the functions group, the report of a suite is opened once, and in
\* runner_run_testcases the report of a test too.
OpenedOnce ==
    mode # "testsuites" =>
        \A i, j \in DOMAIN opened :
            i # j /\ opened[i] = opened[j] =>
                mode = "tests" /\ opened[i] \in Tests

\* A reporter is only used while its parents live, every reporter is destroyed
\* exactly once, also after an error, and whatever the order and the
\* repetitions of the selection are, none is made twice for the same report.
ReportersNested ==
    /\ live["testcase"] <= live["test"] /\ live["test"] <= live["testsuite"]
    /\ pc \in {"run", "close_testcase"} => live["testcase"] = 1
    /\ pc = "returned" => \A l \in Levels : live[l] = 0
    /\ OpenedOnce

\* The selection in the order runner_utils.h:12-17 promises: suites, and tests
\* within a suite, by their first occurrence, test cases as given.  The place of
\* an element is behind all that precede it.
Preceding(p) == {q \in DOMAIN input : Precedes(SuiteAt, GroupAt, q, p)}
Place(p) == Cardinality(Preceding(p)) + 1
Regrouped == [i \in DOMAIN input |-> input[CHOOSE p \in DOMAIN input : Place(p) = i]]

\* The test cases in that order; suites are taken as given.
AllCases(ts) == FlattenSeq([i \in DOMAIN ts |-> CasesOf[ts[i]]])
Ordered ==
    CASE mode = "testcases" -> Regrouped
      [] mode = "tests" -> AllCases(Regrouped)
      [] OTHER -> FlattenSeq([i \in DOMAIN input |-> AllCases(TestsOf[input[i]])])

\* Whatever the order and the repetitions of the selection are, the test
\* cases are run in the promised order, and when the function counts failures,
\* every selected test case was run exactly as often as it was selected.
InOrder ==
    /\ pc = "run" => IsPrefix(called, Ordered)
    /\ pc = "returned" /\ result >= 0 => called = Ordered

\* When the function counts failures, every failure of a callback that keeps the
\* contract was counted; only internal errors may or may not be.  It returns -1 instead exactly when
\* something failed on the way: no reporter ever refuses what it is given, and
\* no error is lost.
ResultFaithful ==
    pc = "returned" =>
        /\ result >= 0 => failed <= result /\ result <= failed + errors
        /\ result < 0 <=> faulted

\* The function returns, whatever is selected and whatever fails.
Terminates == <>(pc = "returned")
===============================================================================
