------------------------------- MODULE ExecHooks -------------------------------
(***************************************************************************)
(* What executing a test case promises to the ctest_exec_hooks_t it is      *)
(* given (src/include/ctest/exec/exec_hooks.h): the stages are announced    *)
(* one by one and in order, at most one of skip and failure ends the test   *)
(* case, and success is implicit when the execution returns.                *)
(***************************************************************************)
EXTENDS Naturals

VARIABLES
    reached,   \* number of stages announced
    ending     \* how the execution ended

hooksVars == <<reached, ending>>

HooksInit == reached = 0 /\ ending = "none"

Advance ==
    /\ ending = "none" /\ reached < 3
    /\ reached' = reached + 1
    /\ UNCHANGED ending

\* on_skip and on_failure do not return to the test case.
ShortCircuits ==
    /\ ending = "none" /\ reached > 0
    /\ ending' \in {"SKIPPED", "FAIL"}
    /\ UNCHANGED reached

Returns ==
    /\ ending = "none" /\ reached = 3
    /\ ending' = "PASS"
    /\ UNCHANGED reached

\* A signal takes the control away from the test case.
Interrupted ==
    /\ ending = "none"
    /\ ending' = "signal"
    /\ UNCHANGED reached

HooksNext == Advance \/ ShortCircuits \/ Returns \/ Interrupted

HooksSpec == HooksInit /\ [][HooksNext]_hooksVars
===============================================================================
