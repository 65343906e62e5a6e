------------------------------ MODULE Repartition ------------------------------
(***************************************************************************)
(* repartition_tests__ and repartition_testcases__ of                       *)
(* src/src/exec/runner_utils.c: the insertion sorts that make the tests of  *)
(* a suite, and the test cases of a test, adjacent in a copy of the array   *)
(* they are given.  The copy holds positions of that array, so that equal   *)
(* elements can be told apart; positions are one more than C's indices.     *)
(***************************************************************************)
EXTENDS Integers, Sequences

CONSTANTS
    Testsuites, Tests, Testcases,
    SuiteOf,      \* ctest_test_get_testsuite
    TestOf,       \* ctest_testcase_get_test
    MaxInput      \* bound: number of tests or test cases

NoTest == "NULL"

ASSUME RepartitionAssumption ==
    /\ SuiteOf \in [Tests -> Testsuites]
    /\ TestOf \in [Testcases -> Tests]
    /\ NoTest \notin Testsuites \union Tests \union Testcases
    /\ MaxInput \in Nat

VARIABLES
    mode,         \* which of the functions is called
    input,        \* the array it is given
    sorted,       \* the copy: positions of input
    write, read,  \* i_write_test(case) and i_read_test(case)
    active,       \* the suite, or the test, that is being collected
    next,         \* next_test
    loop          \* which loop the control is in

sortVars == <<sorted, write, read, active, next, loop>>

Inputs(S) == UNION {[1 .. n -> S] : n \in 0 .. MaxInput}

\* The memcpy.
SortInit ==
    /\ sorted = [i \in DOMAIN input |-> i]
    /\ write = 1 /\ read = 1
    /\ active = NoTest /\ next = NoTest
    /\ loop = "outer"

Size == Len(sorted)
Item(i) == input[sorted[i]]

\* The memmove: what was read at position r goes to position w <= r, and what
\* was in between moves up by one.
\* MUTANT of MoveTo: the two elements change places.
SwapWith(s, w, r) == [s EXCEPT ![w] = s[r], ![r] = s[w]]
\* MUTANT of MoveTo: one element too few is moved up.
MoveShort(s, w, r) ==
    [i \in DOMAIN s |-> IF i = w THEN s[r]
                        ELSE IF w < i /\ i < r THEN s[i - 1]
                        ELSE s[i]]
MoveTo(s, w, r) ==
    [i \in DOMAIN s |-> IF i = w THEN s[r]
                        ELSE IF w < i /\ i <= r THEN s[i - 1]
                        ELSE s[i]]

-------------------------------------------------------------------------------
(***************************************************************************)
(* repartition_tests__                                                      *)
(***************************************************************************)

\* The test at the write position is the first of its suite.
PlaceTest ==
    /\ mode = "tests" /\ loop = "outer" /\ write <= Size
    /\ active' = SuiteOf[Item(write)]
    /\ read' = write + 1
    /\ loop' = "inner"
    /\ UNCHANGED <<sorted, write, next>>

ReadTest ==
    /\ mode = "tests" /\ loop = "inner" /\ read <= Size
    /\ IF SuiteOf[Item(read)] # active
       THEN UNCHANGED <<sorted, write>>
       ELSE write' = write + 1 /\ sorted' = MoveTo(sorted, write + 1, read)
    /\ read' = read + 1
    /\ UNCHANGED <<active, next, loop>>

SuiteCollected ==
    /\ mode = "tests" /\ loop = "inner" /\ read > Size
    /\ write' = write + 1
    /\ loop' = "outer"
    /\ UNCHANGED <<sorted, read, active, next>>

-------------------------------------------------------------------------------
(***************************************************************************)
(* repartition_testcases__                                                  *)
(***************************************************************************)

\* The test case at the write position is the first of its suite.
PlaceTestcase ==
    /\ mode = "testcases" /\ loop = "outer" /\ write <= Size
    /\ active' = TestOf[Item(write)]
    /\ next' = NoTest
    /\ write' = write + 1
    /\ read' = write + 1
    /\ loop' = "inner"
    /\ UNCHANGED sorted

\* The first other test of the suite that is met is the next one.
NextTest(test) ==
    IF next = NoTest /\ SuiteOf[test] = SuiteOf[active] THEN test ELSE next

ReadTestcase ==
    /\ mode = "testcases" /\ loop = "inner" /\ read <= Size
    /\ LET test == TestOf[Item(read)] IN
       IF test # active
       THEN next' = NextTest(test) /\ UNCHANGED <<sorted, write>>
       ELSE /\ sorted' = MoveTo(sorted, write, read)
            /\ write' = write + 1
            /\ UNCHANGED next
    /\ read' = read + 1
    /\ UNCHANGED <<active, loop>>

\* The next test of the suite, if there is one.
\* MUTANT of TestCollected: next_test is not reset.
TestCollectedAgain ==
    /\ mode = "testcases" /\ loop = "inner" /\ read > Size
    /\ IF next # NoTest
       THEN active' = next /\ read' = write /\ UNCHANGED <<next, loop>>
       ELSE loop' = "outer" /\ UNCHANGED <<active, read, next>>
    /\ UNCHANGED <<sorted, write>>
TestCollected ==
    /\ mode = "testcases" /\ loop = "inner" /\ read > Size
    /\ IF next # NoTest
       THEN active' = next /\ read' = write /\ next' = NoTest /\ UNCHANGED loop
       ELSE loop' = "outer" /\ UNCHANGED <<active, read, next>>
    /\ UNCHANGED <<sorted, write>>

-------------------------------------------------------------------------------
SortDone == loop = "outer" /\ write > Size

SortStep ==
    \/ PlaceTest \/ ReadTest \/ SuiteCollected
    \/ PlaceTestcase \/ ReadTestcase \/ TestCollected

Sorting == SortStep /\ UNCHANGED <<mode, input>>
Sorted == SortDone /\ UNCHANGED <<mode, input, sortVars>>
SortNext == Sorting \/ Sorted

\* One of the functions is called, with any array.
Called ==
    /\ \/ mode = "tests" /\ input \in Inputs(Tests)
       \/ mode = "testcases" /\ input \in Inputs(Testcases)
    /\ SortInit

SortSpec ==
    /\ Called
    /\ [][SortNext]_<<mode, input, sortVars>>
    /\ WF_<<mode, input, sortVars>>(Sorting)

-------------------------------------------------------------------------------
(***************************************************************************)
(* Properties.  o, p and q are positions of the input.                      *)
(***************************************************************************)

\* The suite each element of the input belongs to, and what is made adjacent:
\* suites by the first function, tests by the second.
SuiteAt ==
    [p \in DOMAIN input |->
        SuiteOf[IF mode = "tests" THEN input[p] ELSE TestOf[input[p]]]]
GroupAt ==
    IF mode = "tests" THEN SuiteAt ELSE [p \in DOMAIN input |-> TestOf[input[p]]]

\* One suite, or one test, occurs in the input before another one.
Before(key, s, t) ==
    \E o \in DOMAIN key :
        key[o] = s /\ \A p \in DOMAIN key : key[p] = t => o < p

\* The order runner_utils.h:12-17 and 37-41 promise: suites, and groups within
\* a suite, by first occurrence, and the elements of a group as given.
Precedes(suite, group, p, q) ==
    IF suite[p] # suite[q] THEN Before(suite, suite[p], suite[q])
    ELSE IF group[p] # group[q] THEN Before(group, group[p], group[q])
         ELSE p < q

\* The copy is a permutation of the array, at every step.
Permutation ==
    /\ DOMAIN sorted = DOMAIN input
    /\ \A p \in DOMAIN input : \E i \in DOMAIN sorted : sorted[i] = p

\* When it is done, the copy is in the promised order, which is a total one.
Partitioned ==
    SortDone => \A i, j \in DOMAIN sorted :
                    i < j => Precedes(SuiteAt, GroupAt, sorted[i], sorted[j])

===============================================================================
