---------------------------- MODULE TestcaseReport ----------------------------
(***************************************************************************)
(* The result of one test case, from the runner that makes it to the        *)
(* console reporter that prints and destroys it: src/src/exec/result.c and  *)
(* the test case reporter of src/src/exec/console_reporter.c, with the      *)
(* output (OutputReader) and the failure (FailureStorage) the result owns.  *)
(* How the runners find the verdict is in ForkingRunner and DirectRunner.   *)
(***************************************************************************)
EXTENDS OutputReader, FailureStorage

CONSTANTS
    Failures,             \* what a failure may be
    ChildBuf, ParentBuf   \* addresses of a failure, before and after the pipe

ASSUME ReportAssumption ==
    /\ ChildBuf \in Nat \ {Null} /\ ChildBuf % Word = 0
    /\ ParentBuf \in Nat \ {Null} /\ ParentBuf % Word = 0
    /\ \A f \in Failures : IsFailure(f)

VARIABLES
    isolated,   \* whether the forking runner is used
    step,       \* what the runner does next for the test case
    testcase,   \* the test case
    reporter,   \* state of its reporter
    type,       \* result->type
    told,       \* the failure, as the test told it: <<failure>> or <<>>
    failure,    \* result->failure: the memory it is in, <<>> for NULL
    rc,         \* what run_testcase returns
    shown,      \* history: what was printed about the test case
    printed,    \* history: number of cells the test case printed
    buffered,   \* test cases whose reports are in the reporter's FILE
    console     \* test cases whose reports are on the console, in order

reportVars == <<outputVars, step, testcase, reporter, type, told, failure, rc,
                shown, printed, buffered, console>>

NotShown == [label |-> "none", failure |-> <<>>, output |-> <<>>]

\* Nothing of the last test case is left.
ReportInit ==
    /\ OutputInit
    /\ step = "idle" /\ testcase = <<>> /\ reporter = "PENDING"
    /\ type = "PASS" /\ told = <<>> /\ failure = <<>>
    /\ rc = 0 /\ shown = NotShown /\ printed = 0
    /\ buffered = <<>> /\ console = <<>>

ResultBlock == {<<"result", testcase>>}
FailureBlock == {<<"failure">>}

-------------------------------------------------------------------------------
(***************************************************************************)
(* The runner                                                               *)
(***************************************************************************)

\* A result, and a report that is started.  The child has a copy of the
\* reporter's buffer, and flushes it when it exits.
Start(t) ==
    /\ step = "idle"
    /\ testcase' = t
    /\ \/ /\ Acquire({<<"result", t>>})
          /\ reporter' = "RUNNING"
          /\ step' = IF isolated THEN "output" ELSE "verdict"
          /\ printed' \in 0 .. MaxOutput
          /\ unread' = [c \in 1 .. printed' |-> c]
          /\ console' = IF isolated THEN console \o buffered ELSE console
          /\ UNCHANGED rc
       \/ \* No result: the direct runner does not look (see DirectRunner).
          /\ FaultOnly
          /\ step' = IF isolated THEN "returned" ELSE "dead"
          /\ rc' = -1
          /\ UNCHANGED <<reporter, printed, unread, console>>
       \/ \* A descriptor cannot be had: the direct runner forgets the result.
          /\ ~isolated
          /\ Fault
          /\ heap' = heap \union {<<"result", t>>}
          /\ step' = "returned"
          /\ rc' = 1
          /\ UNCHANGED <<misused, reporter, printed, unread, console>>
    /\ UNCHANGED <<capacity, kept, output, starved, type, told, failure, shown,
                   buffered>>

\* The events of the child's pipe.  The end of the file comes as data or as a
\* hang-up.
\* MUTANT of CollectOutput: the parent does not act upon it.
CollectOutputOn ==
    /\ step = "output"
    /\ OnDataAvailable
    /\ UNCHANGED <<step, testcase, reporter, type, told, failure, rc, shown,
                   printed, buffered, console>>
CollectOutput ==
    /\ step = "output"
    /\ \/ /\ OnDataAvailable
          /\ step' = IF unread = <<>> THEN "verdict" ELSE "output"
       \/ /\ unread = <<>>
          /\ step' = "verdict"
          /\ UNCHANGED <<heapVars, outputVars>>
    /\ UNCHANGED <<testcase, reporter, type, told, failure, rc, shown, printed,
                   buffered, console>>

\* The failure f as the result gets it.  From a child it comes through the
\* pipe, unless formatting it did not take as much as was foreseen
\* (exec_event_writer_op_on_failure__); a runner's own is a single block.
Passed(f, child) ==
    LET from == IF child THEN ChildBuf ELSE ParentBuf
        mem == failure_storage_format(from, f)
        size == failure_storage_size(f)
    IN  IF ~child THEN mem
        ELSE IF FormatResult(from, mem, size) # size THEN <<>>
        ELSE failure_storage_deserialize(ParentBuf,
                 Copied(failure_storage_serialize(from, mem), from, ParentBuf))

\* What the runners return (VerdictFaithful and ErrorsCounted of ForkingRunner,
\* VerdictFaithful and SkipIsNoFailure of DirectRunner): an internal error may
\* not count in the one; in the other a skipped test case does, and a failure
\* does not when a signal came after the test case had returned.
Returns ==
    CASE type' = "PASS" -> {0}
      [] type' = "SKIPPED" -> IF isolated THEN {0} ELSE {1}
      [] type' = "FAIL" -> IF isolated THEN {1} ELSE {0, 1}
      [] OTHER -> IF isolated THEN {0, 1} ELSE {1}

\* ctest_result_set_failure, with a failure unless there is none or no memory
\* for it; its description is NULL when vsnprintf() failed.
SetFailure ==
    /\ step = "verdict"
    /\ \/ /\ type' = "PASS"
          /\ UNCHANGED <<heapVars, told, failure>>
       \/ /\ type' \in {"FAIL", "SKIPPED", "ERROR"}
          /\ \/ FaultOnly /\ UNCHANGED <<told, failure>>
             \/ \E f \in Failures :
                    /\ IF f.description = <<>> THEN Fault ELSE UNCHANGED faults
                    /\ told' = <<f>>
                    /\ failure' = Passed(f, isolated /\ type' # "ERROR")
                    /\ heap' = IF failure' = <<>> THEN heap
                               ELSE heap \union FailureBlock
                    /\ UNCHANGED misused
    /\ rc' \in Returns
    /\ step' = "build"
    /\ UNCHANGED <<outputVars, testcase, reporter, shown, printed, buffered,
                   console>>

BuildOutput ==
    /\ step = "build"
    /\ IF isolated THEN Build ELSE ReadOutput
    /\ step' = "complete"
    /\ UNCHANGED <<testcase, reporter, type, told, failure, rc, shown, printed,
                   buffered, console>>

-------------------------------------------------------------------------------
(***************************************************************************)
(* The reporter                                                             *)
(***************************************************************************)

\* MUTANT of Label: the stage of the failure is ignored.
LabelByType(f) ==
    CASE type = "PASS" -> "OK" [] type = "SKIPPED" -> "SKIPPED"
      [] type = "ERROR" -> "INTERNAL ERROR" [] OTHER -> "FAILED"
Label(f) ==
    CASE type = "PASS" -> "OK"
      [] type = "SKIPPED" -> "SKIPPED"
      [] type = "ERROR" -> "INTERNAL ERROR"
      [] OTHER -> IF f = <<>> THEN "FAILED"
                  ELSE CASE f[1].stage = "SETUP" -> "SETUP FAILED"
                         [] f[1].stage = "TEARDOWN" -> "TEARDOWN FAILED"
                         [] OTHER -> "FAILED"

\* ctest_result_destroy
\* MUTANT of ResultParts: the output is not destroyed.
ResultPartsLess == ResultBlock \union (IF failure = <<>> THEN {} ELSE FailureBlock)
ResultParts ==
    ResultBlock
        \union (IF failure = <<>> THEN {} ELSE FailureBlock)
        \union (IF output = "none" THEN {} ELSE Buffer)

\* fflush()
\* MUTANT of Flush: the report stays in the buffer.
FlushLater(reports) == buffered' = reports /\ UNCHANGED console
Flush(reports) == console' = console \o reports /\ buffered' = <<>>

\* testcase_reporter_op_complete__, and the return to the caller.  The reason
\* of a failure is searched for line ends: without one the process dies.
Complete ==
    /\ step = "complete"
    /\ LET seen == IF failure = <<>> THEN <<>> ELSE <<Read(ParentBuf, failure)>>
           fail == type \in {"FAIL", "ERROR"}
       IN  IF reporter # "RUNNING"
           THEN /\ step' = "returned"
                /\ UNCHANGED <<heapVars, reporter, shown, buffered, console>>
           ELSE IF fail /\ seen # <<>> /\ seen[1].description = <<>>
           THEN /\ step' = "dead"
                /\ UNCHANGED <<heapVars, reporter, shown, buffered, console>>
           ELSE /\ reporter' = "COMPLETED"
                /\ shown' = [label |-> Label(seen),
                             failure |-> IF fail THEN seen ELSE <<>>,
                             output |-> IF fail THEN kept ELSE <<>>]
                /\ Release(ResultParts, {<<"console">>})
                /\ Flush(Append(buffered, testcase))
                /\ step' = "returned"
                /\ UNCHANGED faults
    /\ UNCHANGED <<outputVars, testcase, type, told, failure, rc, printed>>

\* Nothing of the test case is left but its report.
Forget ==
    /\ unread' = <<>> /\ capacity' = 0 /\ kept' = <<>>
    /\ output' = "none" /\ starved' = FALSE
    /\ step' = "idle" /\ testcase' = <<>> /\ reporter' = "PENDING"
    /\ type' = "PASS" /\ told' = <<>> /\ failure' = <<>>
    /\ rc' = 0 /\ shown' = NotShown /\ printed' = 0
    /\ UNCHANGED <<heapVars, buffered, console>>

ReportStep == CollectOutput \/ SetFailure \/ BuildOutput \/ Complete
===============================================================================
