---------------------------- MODULE TestcaseExecute ----------------------------
(***************************************************************************)
(* testcase_op_execute__ and dynamic_ops_abort__ of src/src/exec/loader.c:  *)
(* a test case runs its fixture's setup, the test and the teardown, with    *)
(* the loader hooked into the test module so that its code can report       *)
(* failures and abort.  An abort runs the teardown itself, and that may     *)
(* abort again.  A signal (of the runner) may take the control away between *)
(* any two steps.                                                           *)
(***************************************************************************)
EXTENDS Naturals

CONSTANTS
    MaxReports,   \* bound: failures the test's code reports
    MaySignal,    \* BOOLEAN: signals may interrupt the execution
    Allocations   \* the allocations that may fail: "fixture", "failure"

ASSUME ExecuteAssumption ==
    /\ MaxReports \in Nat
    /\ MaySignal \in BOOLEAN
    /\ Allocations \subseteq {"fixture", "failure"}

VARIABLES
    provider,     \* the fixture provider and the module
    pc,           \* where in execute and abort the control is
    dynamicOps,   \* *p_dynamic_ops: the module's "old" pointer or this one's
    teardown,     \* dynamic_ops.teardown is set
    stage,        \* dynamic_ops.stage
    failure,      \* dynamic_ops.failure: its number and stage
    abortType,    \* dynamic_ops.abort_type
    fixture,      \* where the fixture is
    announced,    \* number of calls of ctest_exec_hooks_on_stage_change()
    outcome,      \* how the execution ended for the runner
    outFailure,   \* the failure handed to the hooks
    \* history
    torn,         \* number of calls of the teardown function
    frees,        \* number of times the fixture was freed
    reports,      \* number of failures reported by the test's code
    created,      \* the first of them for which there was memory
    firstAbort,   \* the first abort the test's code asked for
    setUp         \* the setup function returned

execVars == <<provider, pc, dynamicOps, teardown, stage, failure, abortType,
              fixture, announced, outcome, outFailure, torn, frees, reports,
              created, firstAbort, setUp>>

None == [number |-> 0, stage |-> "none"]
StageOrder == <<"SETUP", "EXECUTION", "TEARDOWN">>

\* Every shape of fixture: with and without a setup and a teardown function,
\* on the stack or too large for it.  A module that has no ctest_dynamic_ops
\* (linked = FALSE) cannot report anything.
Init ==
    /\ provider \in [setup : BOOLEAN, teardown : BOOLEAN, large : BOOLEAN,
                     linked : BOOLEAN]
    /\ pc = "hook"
    /\ dynamicOps = "old"
    /\ teardown = FALSE
    /\ stage = "none"
    /\ failure = None
    /\ abortType = "NONE"
    /\ fixture = "null"
    /\ announced = 0
    /\ outcome = "none"
    /\ outFailure = None
    /\ torn = 0 /\ frees = 0 /\ reports = 0
    /\ created = None
    /\ firstAbort = "NONE"
    /\ setUp = FALSE

-------------------------------------------------------------------------------
\* Enter stage n and announce it to the hooks.
\* MUTANT of Enter: the execution stage is not announced.
EnterQuietly(n) ==
    stage' = StageOrder[n] /\ announced' = IF n = 2 THEN announced ELSE n
Enter(n) == stage' = StageOrder[n] /\ announced' = n

\* Set up dynamic_ops, hook it into the module and announce the first stage.
Hook ==
    /\ pc = "hook"
    /\ teardown' = provider.teardown
    /\ dynamicOps' = IF provider.linked THEN "own" ELSE dynamicOps
    /\ Enter(1)
    /\ pc' = "alloc"
    /\ UNCHANGED <<provider, failure, abortType, fixture, outcome, outFailure,
                   torn, frees, reports, created, firstAbort, setUp>>

\* The fixture is on the stack or allocated; if that fails, the hooks are
\* told and never return.
Alloc ==
    /\ pc = "alloc"
    /\ \/ /\ fixture' = IF provider.large THEN "heap" ELSE "storage"
          /\ pc' = "setup"
          /\ UNCHANGED <<outcome, outFailure>>
       \/ /\ provider.large /\ "fixture" \in Allocations
          /\ outcome' = "FAIL"
          /\ \/ outFailure' = [number |-> 1, stage |-> "SETUP"]
             \/ "failure" \in Allocations /\ UNCHANGED outFailure
          /\ pc' = "left"
          /\ UNCHANGED fixture
    /\ UNCHANGED <<provider, dynamicOps, teardown, stage, failure, abortType,
                   announced, torn, frees, reports, created, firstAbort, setUp>>

\* The functions of the test module that may be running.
InTestCode ==
    \/ pc = "setup" /\ provider.setup
    \/ pc \in {"execution", "teardown", "cleanup"}

\* dynamic_ops_op_report_failure__: the first failure is kept.
\* MUTANT of Kept: the last one is.
KeptLast(old, new) == new
Kept(old, new) == IF old = None THEN new ELSE old

Report ==
    /\ InTestCode /\ provider.linked /\ reports < MaxReports
    /\ reports' = reports + 1
    /\ \/ LET new == [number |-> reports + 1, stage |-> stage]
          IN  /\ failure' = Kept(failure, new)
              /\ created' = IF created = None THEN new ELSE created
       \/ "failure" \in Allocations /\ UNCHANGED <<failure, created>>

\* The test's code reports a failure and goes on.
ReportFailure ==
    /\ Report
    /\ UNCHANGED <<provider, pc, dynamicOps, teardown, stage, abortType,
                   fixture, announced, outcome, outFailure, torn, frees,
                   firstAbort, setUp>>

\* The first abort decides; an abort within an abort does not change it.
\* MUTANT of Decided: the last one decides.
DecidedLast(old, type) == type
Decided(old, type) == IF old = "NONE" THEN type ELSE old

\* ctest_fail and ctest_skip: report, then abort.
FailOrSkip(type) ==
    /\ Report
    /\ abortType' = Decided(abortType, type)
    /\ firstAbort' = IF firstAbort = "NONE" THEN type ELSE firstAbort
    /\ pc' = "abort"
    /\ UNCHANGED <<provider, dynamicOps, teardown, stage, fixture, announced,
                   outcome, outFailure, torn, frees, setUp>>

\* Setup is over (or there is none): announce and run the test.
SetupReturns ==
    /\ pc = "setup"
    /\ setUp' = TRUE
    /\ Enter(2)
    /\ pc' = "execution"
    /\ UNCHANGED <<provider, dynamicOps, teardown, failure, abortType, fixture,
                   outcome, outFailure, torn, frees, reports, created, firstAbort>>

\* The teardown is forgotten before it is called, so that an abort in it
\* does not call it again.
\* MUTANT of Teardown: it is not forgotten.
TeardownKept(running, skipped) ==
    IF teardown
    THEN torn' = torn + 1 /\ pc' = running /\ UNCHANGED teardown
    ELSE pc' = skipped /\ UNCHANGED <<torn, teardown>>
Teardown(running, skipped) ==
    IF teardown
    THEN torn' = torn + 1 /\ pc' = running /\ teardown' = FALSE
    ELSE pc' = skipped /\ UNCHANGED <<torn, teardown>>

ExecutionReturns ==
    /\ pc = "execution"
    /\ Enter(3)
    /\ Teardown("teardown", "promote")
    /\ UNCHANGED <<provider, dynamicOps, failure, abortType, fixture, outcome,
                   outFailure, frees, reports, created, firstAbort, setUp>>

TeardownReturns ==
    /\ pc = "teardown"
    /\ pc' = "promote"
    /\ UNCHANGED <<provider, dynamicOps, teardown, stage, failure, abortType,
                   fixture, announced, outcome, outFailure, torn, frees,
                   reports, created, firstAbort, setUp>>

\* A failure that was reported without an abort is promoted to one.
\* MUTANT of Promoted: only when something was aborted already.
PromotedLate == failure # None /\ abortType # "NONE"
Promoted == failure # None

Promote ==
    /\ pc = "promote"
    /\ IF Promoted
       THEN abortType' = Decided(abortType, "FAIL") /\ pc' = "abort"
       ELSE pc' = "unhook" /\ UNCHANGED abortType
    /\ UNCHANGED <<provider, dynamicOps, teardown, stage, failure, fixture,
                   announced, outcome, outFailure, torn, frees, reports, created,
                   firstAbort, setUp>>

\* MUTANT of Free: the fixture is leaked.
LeakFixture == UNCHANGED <<frees, fixture>>
Free ==
    /\ frees' = IF fixture = "heap" THEN frees + 1 ELSE frees
    /\ fixture' = IF fixture = "heap" THEN "freed" ELSE fixture

\* MUTANT of Unhook: the module keeps the pointer to this stack frame.
KeepHook == UNCHANGED dynamicOps
Unhook == dynamicOps' = "old"

\* The test case passed.
Return ==
    /\ pc = "unhook"
    /\ Unhook
    /\ Free
    /\ outcome' = "PASS"
    /\ pc' = "left"
    /\ UNCHANGED <<provider, teardown, stage, failure, abortType, announced,
                   outFailure, torn, reports, created, firstAbort, setUp>>

-------------------------------------------------------------------------------
\* dynamic_ops_abort__: the teardown, unless it was called before ...
Abort ==
    /\ pc = "abort"
    /\ Teardown("cleanup", "release")
    /\ UNCHANGED <<provider, dynamicOps, stage, failure, abortType, fixture,
                   announced, outcome, outFailure, frees, reports, created, firstAbort,
                   setUp>>

CleanupReturns ==
    /\ pc = "cleanup"
    /\ pc' = "release"
    /\ UNCHANGED <<provider, dynamicOps, teardown, stage, failure, abortType,
                   fixture, announced, outcome, outFailure, torn, frees,
                   reports, created, firstAbort, setUp>>

\* Which of the hooks is called.
\* MUTANT of Outcome: the abort type is taken for a result type.
OutcomeCast(type) == type
Outcome(type) == IF type = "SKIP" THEN "SKIPPED" ELSE "FAIL"

\* ... then free the fixture, unhook, and tell the hooks, which never return.
Release ==
    /\ pc = "release"
    /\ Free
    /\ Unhook
    /\ outFailure' = failure
    /\ failure' = None
    /\ outcome' = Outcome(abortType)
    /\ pc' = "left"
    /\ UNCHANGED <<provider, teardown, stage, abortType, announced, torn,
                   reports, created, firstAbort, setUp>>

\* A signal: the runner's handler exits or jumps away.
Signal ==
    /\ MaySignal
    /\ pc # "left"
    /\ outcome' = "signal"
    /\ pc' = "left"
    /\ UNCHANGED <<provider, dynamicOps, teardown, stage, failure, abortType,
                   fixture, announced, outFailure, torn, frees, reports, created,
                   firstAbort, setUp>>

Left == pc = "left" /\ UNCHANGED execVars

Next ==
    \/ Hook
    \/ Alloc
    \/ ReportFailure
    \/ \E type \in {"FAIL", "SKIP"} : FailOrSkip(type)
    \/ SetupReturns
    \/ ExecutionReturns
    \/ TeardownReturns
    \/ Promote
    \/ Return
    \/ Abort
    \/ CleanupReturns
    \/ Release
    \/ Signal
    \/ Left

Spec == Init /\ [][Next]_execVars
-------------------------------------------------------------------------------
(***************************************************************************)
(* Properties                                                               *)
(***************************************************************************)
Failures == [number : 0 .. (MaxReports + 1),
             stage : {"none", "SETUP", "EXECUTION", "TEARDOWN"}]

StateTypeOK ==
    /\ pc \in {"hook", "alloc", "setup", "execution", "teardown", "promote",
               "unhook", "abort", "cleanup", "release", "left"}
    /\ dynamicOps \in {"old", "own"}
    /\ stage \in {"none", "SETUP", "EXECUTION", "TEARDOWN"}
    /\ {failure, outFailure, created} \subseteq Failures
    /\ abortType \in {"NONE", "FAIL", "SKIP"}
    /\ firstAbort \in {"NONE", "FAIL", "SKIP"}
    /\ fixture \in {"null", "storage", "heap", "freed"}
    /\ announced \in 0 .. 3
    /\ outcome \in {"none", "PASS", "FAIL", "SKIPPED", "signal"}
    /\ torn \in Nat /\ frees \in Nat /\ reports \in 0 .. MaxReports
FlagsTypeOK ==
    /\ provider \in [setup : BOOLEAN, teardown : BOOLEAN, large : BOOLEAN,
                     linked : BOOLEAN]
    /\ teardown \in BOOLEAN
    /\ setUp \in BOOLEAN

\* The state of dynamic_ops and of the module.
TypeOK == StateTypeOK /\ FlagsTypeOK

\* The execution came to an end by itself, with a fixture.
Ended == pc = "left" /\ outcome # "signal" /\ fixture # "null"

\* Whether the test case passes, fails, is skipped or aborts in its teardown,
\* also when an abort is handled: the teardown is called exactly once, on a
\* fixture that is still there, an allocated fixture is freed exactly once, and
\* the module's pointer never outlives the stack frame it refers to.
\* (docs/md/tutorial_fixtures.md:48-50: the teardown "is always called if the
\* setup returns successfully"; a signal leaves without.)
CleanedUp ==
    /\ torn <= 1 /\ frees <= 1
    /\ pc \in {"teardown", "cleanup"} => fixture \in {"storage", "heap"}
    /\ Ended => /\ provider.teardown => torn = 1
                /\ frees = IF provider.large THEN 1 ELSE 0
                /\ dynamicOps = "old"

\* loader.c:82-84: an abort in the teardown can neither promote a skip to a
\* failure nor demote a failure to a skip.
FirstAbortDecides ==
    Ended /\ firstAbort # "NONE" =>
        (outcome = "SKIPPED" <=> firstAbort = "SKIP")

\* loader.c:122: if multiple errors are reported, the first one is kept, with
\* the stage it was reported in.
FirstFailureKept == Ended => outFailure = created

\* A test case that reported a failure never passes, aborted or not.
NoSilentFailure ==
    outcome = "PASS" => created = None /\ firstAbort = "NONE" /\ setUp

Hooks == INSTANCE ExecHooks WITH reached <- announced, ending <- outcome

\* The hooks see the stages in order and at most one ending.
ImplementsHooks == Hooks!HooksSpec

(***************************************************************************)
(* What the documentation promises and the code does not keep               *)
(***************************************************************************)

\* loader.c:205-206: "it's automatically unhooked on failure".
UnhookedOnFailure == outcome = "FAIL" => dynamicOps = "old"
===============================================================================
