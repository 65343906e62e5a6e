----------------------------- MODULE TestcaseRun -----------------------------
(***************************************************************************)
(* What a run_testcase callback of a runner is to promise to its callers    *)
(* (src/src/exec/runner_utils.h, src/include/ctest/exec/reporter.h): it     *)
(* starts the report of the test case, completes it at most once with one   *)
(* verdict, and returns a number that agrees with that verdict, or it gives *)
(* up before the report is started and returns a negative number.  The      *)
(* forking runner keeps this promise; the direct runner does not, see       *)
(* SkipIsNoFailure of DirectRunner.                                         *)
(***************************************************************************)
EXTENDS Integers

VARIABLES
    phase,     \* of the report
    verdict,   \* type of the result the report was completed with
    rc         \* what the callback returned

runVars == <<phase, verdict, rc>>

\* The numbers the callback may return.  An internal error has no number of
\* its own: where the code says success, ErrorsCounted of ForkingRunner is
\* the property that objects.
Returns(type) ==
    CASE type \in {"PASS", "SKIPPED"} -> {0}
      [] type = "FAIL" -> {1}
      [] OTHER -> {0, 1}

RunInit == phase = "pending" /\ verdict = "none" /\ rc = 0

Start ==
    /\ phase = "pending"
    /\ phase' = "running"
    /\ UNCHANGED <<verdict, rc>>

Report ==
    /\ phase = "running"
    /\ phase' = "completed"
    /\ verdict' \in {"PASS", "FAIL", "SKIPPED", "ERROR"}
    /\ rc' \in Returns(verdict')

Abandon ==
    /\ phase = "pending"
    /\ phase' = "abandoned"
    /\ rc' = -1
    /\ UNCHANGED verdict

RunNext == Start \/ Report \/ Abandon

RunSpec == RunInit /\ [][RunNext]_runVars
===============================================================================
