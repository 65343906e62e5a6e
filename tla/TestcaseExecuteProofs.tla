------------------------- MODULE TestcaseExecuteProofs -------------------------
(***************************************************************************)
(* Proofs about TestcaseExecute, for any number of failures reported, with  *)
(* and without signals and allocations that fail.                           *)
(***************************************************************************)
EXTENDS TestcaseExecute, TLAPS

(***************************************************************************)
(* The inductive invariant, by where the control is                         *)
(***************************************************************************)

Straight == {"setup", "execution", "teardown", "promote", "unhook"}
Aborting == {"abort", "cleanup", "release"}

\* The stages are announced one by one, and nothing ended the execution yet.
StageInv ==
    /\ pc = "hook" => announced = 0
    /\ pc \in {"alloc", "setup"} => announced = 1
    /\ pc = "execution" => announced = 2
    /\ pc \in {"teardown", "promote", "unhook"} => announced = 3
    /\ pc \in Aborting => announced > 0
    /\ pc # "left" <=> outcome = "none"

\* The teardown was called if there is one and it is no longer known.
TeardownInv ==
    /\ torn <= 1
    /\ pc = "hook" => torn = 0
    /\ teardown => torn = 0
    /\ pc \notin {"hook", "left"} /\ provider.teardown /\ ~teardown => torn = 1
    /\ pc \in {"teardown", "promote", "unhook", "cleanup", "release"} => ~teardown

\* The fixture is there from the setup to the end.
FixtureInv ==
    /\ pc # "left" => frees = 0
    /\ pc \in {"hook", "alloc"} => fixture = "null"
    /\ pc \in Straight \cup Aborting =>
         fixture = IF provider.large THEN "heap" ELSE "storage"

\* The first failure is kept until it is handed to the hooks.
FailureInv ==
    /\ pc # "left" => failure = created /\ outFailure = None
    /\ pc = "unhook" => failure = None

\* Before an abort nothing was aborted, and an abort that was not asked for is
\* a promoted failure, after which no code of the test is run.
AbortInv ==
    /\ pc \in {"hook", "alloc"} \cup Straight =>
         abortType = "NONE" /\ firstAbort = "NONE"
    /\ pc \in Aborting => abortType # "NONE"
    /\ abortType # firstAbort =>
         abortType = "FAIL" /\ firstAbort = "NONE" /\ ~teardown
    /\ pc = "cleanup" => abortType = firstAbort
    /\ pc \in {"execution", "teardown", "promote", "unhook"} => setUp

ControlInv == StageInv /\ TeardownInv /\ FixtureInv /\ FailureInv /\ AbortInv

\* What holds at the end.
EndInv == CleanedUp /\ FirstAbortDecides /\ FirstFailureKept /\ NoSilentFailure

IInv == TypeOK /\ ControlInv /\ EndInv

(***************************************************************************)
(* Lemmas                                                                   *)
(***************************************************************************)

\* The flags of the fixture provider and of dynamic_ops are flags.
LEMMA FlagsStep == FlagsTypeOK /\ [Next]_execVars => FlagsTypeOK'
  BY Zenon DEF FlagsTypeOK, Next, execVars, Hook, Alloc, Report, ReportFailure,
     FailOrSkip, SetupReturns, ExecutionReturns, Teardown, TeardownReturns,
     Promote, Return, Abort, CleanupReturns, Release, Signal, Left

\* Nothing is at its end yet: what holds at the end is not touched.
LEMMA NotAtEnd ==
    ASSUME IInv, StageInv', FixtureInv', TeardownInv', pc' # "left"
    PROVE  EndInv'
  <1>1. ~Ended' /\ outcome' = "none"
    BY DEF StageInv, Ended
  <1>2. pc' \in {"teardown", "cleanup"} => fixture' \in {"storage", "heap"}
    BY DEF FixtureInv, Straight, Aborting
  <1>3. torn' <= 1 /\ frees' <= 1
    BY DEF TeardownInv, FixtureInv
  <1> QED
    BY <1>1, <1>2, <1>3 DEF EndInv, CleanedUp, FirstAbortDecides,
       FirstFailureKept, NoSilentFailure

\* Every step up to the end, and the one that reaches it, keeps the invariant.
LEMMA Step ==
    ASSUME IInv, Next
    PROVE  StateTypeOK' /\ ControlInv' /\ EndInv'
  <1> DEFINE IStep == StateTypeOK' /\ ControlInv' /\ EndInv'
  <1> USE ExecuteAssumption
      DEF IInv, TypeOK, FlagsTypeOK, StateTypeOK, ControlInv, Straight, Aborting
  <1>1. CASE Hook
    <2>1. StateTypeOK'
      BY <1>1 DEF Hook, Enter, StageOrder
    <2>2. StageInv' /\ TeardownInv' /\ FixtureInv'
      BY <1>1 DEF Hook, Enter, StageOrder, StageInv, TeardownInv, FixtureInv
    <2>3. FailureInv' /\ AbortInv'
      BY <1>1 DEF Hook, Enter, StageOrder, FailureInv, AbortInv
    <2> QED
      BY <1>1, <2>1, <2>2, <2>3, NotAtEnd DEF Hook
  <1>2. CASE Alloc
    <2>1. StateTypeOK'
      BY <1>2 DEF Alloc, Failures
    <2>2. StageInv' /\ TeardownInv' /\ FixtureInv'
      BY <1>2 DEF Alloc, StageInv, TeardownInv, FixtureInv
    <2>3. FailureInv' /\ AbortInv'
      BY <1>2 DEF Alloc, FailureInv, AbortInv
    <2>4. EndInv'
      BY <1>2 DEF Alloc, StageInv, TeardownInv, FixtureInv, FailureInv, EndInv,
         CleanedUp, FirstAbortDecides, FirstFailureKept, NoSilentFailure, Ended
    <2> QED
      BY <2>1, <2>2, <2>3, <2>4
  <1>3. CASE ReportFailure
    <2>1. StateTypeOK'
      BY <1>3 DEF ReportFailure, Report, InTestCode, Kept, Failures
    <2>2. StageInv' /\ TeardownInv' /\ FixtureInv'
      BY <1>3 DEF ReportFailure, Report, InTestCode, StageInv, TeardownInv,
         FixtureInv
    <2>3. FailureInv' /\ AbortInv'
      BY <1>3 DEF ReportFailure, Report, InTestCode, Kept, FailureInv, AbortInv
    <2> QED
      BY <1>3, <2>1, <2>2, <2>3, NotAtEnd DEF ReportFailure, Report, InTestCode
  <1>4. ASSUME NEW type \in {"FAIL", "SKIP"}, FailOrSkip(type)
        PROVE  IStep
    <2>1. StateTypeOK'
      BY <1>4 DEF FailOrSkip, Report, InTestCode, Kept, Decided, Failures
    <2>2. StageInv' /\ TeardownInv' /\ FixtureInv'
      BY <1>4 DEF FailOrSkip, Report, InTestCode, StageInv, TeardownInv,
         FixtureInv
    <2>3. FailureInv' /\ AbortInv'
      BY <1>4 DEF FailOrSkip, Report, InTestCode, Kept, Decided, FailureInv,
         AbortInv
    <2> QED
      BY <1>4, <2>1, <2>2, <2>3, NotAtEnd DEF FailOrSkip
  <1>5. CASE SetupReturns
    <2>1. StateTypeOK'
      BY <1>5 DEF SetupReturns, Enter, StageOrder
    <2>2. StageInv' /\ TeardownInv' /\ FixtureInv'
      BY <1>5 DEF SetupReturns, Enter, StageOrder, StageInv, TeardownInv, FixtureInv
    <2>3. FailureInv' /\ AbortInv'
      BY <1>5 DEF SetupReturns, Enter, StageOrder, FailureInv, AbortInv
    <2> QED
      BY <1>5, <2>1, <2>2, <2>3, NotAtEnd DEF SetupReturns
  <1>6. CASE ExecutionReturns
    <2>1. StateTypeOK'
      BY <1>6 DEF ExecutionReturns, Enter, StageOrder, Teardown
    <2>2. StageInv' /\ TeardownInv' /\ FixtureInv'
      BY <1>6 DEF ExecutionReturns, Enter, StageOrder, Teardown, StageInv,
         TeardownInv, FixtureInv
    <2>3. FailureInv' /\ AbortInv'
      BY <1>6 DEF ExecutionReturns, Enter, StageOrder, Teardown, FailureInv, AbortInv
    <2> QED
      BY <1>6, <2>1, <2>2, <2>3, NotAtEnd DEF ExecutionReturns, Teardown
  <1>7. CASE TeardownReturns
    <2>1. StateTypeOK'
      BY <1>7 DEF TeardownReturns
    <2>2. StageInv' /\ TeardownInv' /\ FixtureInv'
      BY <1>7 DEF TeardownReturns, StageInv, TeardownInv, FixtureInv
    <2>3. FailureInv' /\ AbortInv'
      BY <1>7 DEF TeardownReturns, FailureInv, AbortInv
    <2> QED
      BY <1>7, <2>1, <2>2, <2>3, NotAtEnd DEF TeardownReturns
  <1>8. CASE Promote
    <2>1. StateTypeOK'
      BY <1>8 DEF Promote, Promoted, Decided
    <2>2. StageInv' /\ TeardownInv' /\ FixtureInv'
      BY <1>8 DEF Promote, Promoted, Decided, StageInv, TeardownInv, FixtureInv
    <2>3. FailureInv' /\ AbortInv'
      BY <1>8 DEF Promote, Promoted, Decided, TeardownInv, FailureInv, AbortInv
    <2> QED
      BY <1>8, <2>1, <2>2, <2>3, NotAtEnd DEF Promote
  <1>9. CASE Return
    <2>1. StateTypeOK'
      BY <1>9 DEF Return, Free, Unhook
    <2>2. StageInv' /\ TeardownInv' /\ FixtureInv'
      BY <1>9 DEF Return, Free, StageInv, TeardownInv, FixtureInv
    <2>3. FailureInv' /\ AbortInv'
      BY <1>9 DEF Return, FailureInv, AbortInv
    <2>4. CleanedUp'
      BY <1>9 DEF Return, Free, Unhook, TeardownInv, FixtureInv, CleanedUp, Ended
    <2>5. FirstAbortDecides' /\ FirstFailureKept' /\ NoSilentFailure'
      BY <1>9 DEF Return, FailureInv, AbortInv, FirstAbortDecides,
         FirstFailureKept, NoSilentFailure, Ended
    <2> QED
      BY <2>1, <2>2, <2>3, <2>4, <2>5 DEF EndInv
  <1>10. CASE Abort
    <2>1. StateTypeOK'
      BY <1>10 DEF Abort, Teardown
    <2>2. StageInv' /\ TeardownInv' /\ FixtureInv'
      BY <1>10 DEF Abort, Teardown, StageInv, TeardownInv, FixtureInv
    <2>3. FailureInv' /\ AbortInv'
      BY <1>10 DEF Abort, Teardown, FailureInv, AbortInv
    <2> QED
      BY <1>10, <2>1, <2>2, <2>3, NotAtEnd DEF Abort, Teardown
  <1>11. CASE CleanupReturns
    <2>1. StateTypeOK'
      BY <1>11 DEF CleanupReturns
    <2>2. StageInv' /\ TeardownInv' /\ FixtureInv'
      BY <1>11 DEF CleanupReturns, StageInv, TeardownInv, FixtureInv
    <2>3. FailureInv' /\ AbortInv'
      BY <1>11 DEF CleanupReturns, FailureInv, AbortInv
    <2> QED
      BY <1>11, <2>1, <2>2, <2>3, NotAtEnd DEF CleanupReturns
  <1>12. CASE Release
    <2>1. StateTypeOK'
      BY <1>12 DEF Release, Free, Unhook, Outcome, TeardownInv, Failures, None
    <2>2. StageInv' /\ TeardownInv' /\ FixtureInv'
      BY <1>12 DEF Release, Outcome, Free, StageInv, TeardownInv, FixtureInv
    <2>3. FailureInv' /\ AbortInv'
      BY <1>12 DEF Release, FailureInv, AbortInv
    <2>4. CleanedUp'
      BY <1>12 DEF Release, Free, Unhook, TeardownInv, FixtureInv, CleanedUp, Ended
    <2>5. FirstAbortDecides'
      BY <1>12 DEF Release, Outcome, AbortInv, FirstAbortDecides, Ended
    <2>6. FirstFailureKept' /\ NoSilentFailure'
      BY <1>12 DEF Release, Outcome, FailureInv, FirstFailureKept,
         NoSilentFailure, Ended
    <2> QED
      BY <2>1, <2>2, <2>3, <2>4, <2>5, <2>6 DEF EndInv
  <1>13. CASE Signal
    <2>1. StateTypeOK'
      BY <1>13 DEF Signal
    <2>2. StageInv' /\ TeardownInv' /\ FixtureInv'
      BY <1>13 DEF Signal, StageInv, TeardownInv, FixtureInv
    <2>3. FailureInv' /\ AbortInv'
      BY <1>13 DEF Signal, FailureInv, AbortInv
    <2>4. EndInv'
      BY <1>13 DEF Signal, TeardownInv, FixtureInv, EndInv, CleanedUp,
         FirstAbortDecides, FirstFailureKept, NoSilentFailure, Ended
    <2> QED
      BY <2>1, <2>2, <2>3, <2>4
  <1>14. CASE Left
    BY <1>14 DEF Left, execVars, StageInv, TeardownInv, FixtureInv, FailureInv,
       AbortInv, EndInv, CleanedUp, FirstAbortDecides, FirstFailureKept,
       NoSilentFailure, Ended
  <1> QED
    BY <1>1, <1>2, <1>3, <1>4, <1>5, <1>6, <1>7, <1>8, <1>9, <1>10, <1>11,
       <1>12, <1>13, <1>14 DEF Next

\* The inductive invariant holds initially ...
LEMMA InitInv == Init => IInv
  <1> SUFFICES ASSUME Init PROVE IInv
    OBVIOUS
  <1>1. StateTypeOK
    BY ExecuteAssumption DEF Init, StateTypeOK, Failures, None
  <1>2. FlagsTypeOK
    BY DEF Init, FlagsTypeOK
  <1>3. ControlInv
    BY DEF Init, ControlInv, StageInv, TeardownInv, FixtureInv, FailureInv,
           AbortInv, Straight, Aborting
  <1>4. EndInv
    BY DEF Init, EndInv, CleanedUp, FirstAbortDecides, FirstFailureKept,
           NoSilentFailure, Ended
  <1> QED
    BY <1>1, <1>2, <1>3, <1>4 DEF IInv, TypeOK

\* ... and is preserved by every step.
LEMMA NextInv == IInv /\ [Next]_execVars => IInv'
  <1> SUFFICES ASSUME IInv, [Next]_execVars PROVE IInv'
    OBVIOUS
  <1>1. FlagsTypeOK'
    BY FlagsStep DEF IInv, TypeOK
  <1>2. CASE Next
    BY <1>1, <1>2, Step DEF IInv, TypeOK
  <1>3. CASE UNCHANGED execVars
    BY <1>1, <1>3 DEF execVars, IInv, TypeOK, StateTypeOK, ControlInv, StageInv,
       TeardownInv, FixtureInv, FailureInv, AbortInv, Straight, Aborting,
       EndInv, CleanedUp, FirstAbortDecides, FirstFailureKept, NoSilentFailure,
       Ended
  <1> QED
    BY <1>2, <1>3

(***************************************************************************)
(* Theorems                                                                 *)
(***************************************************************************)

\* The invariant the theorems below rest on.
THEOREM Invariance == Spec => []IInv
  BY InitInv, NextInv, PTL DEF Spec

\* dynamic_ops and the module's pointer keep their types, and no failure is
\* numbered beyond the last report.
THEOREM TypeCorrect == Spec => []TypeOK
  <1>1. IInv => TypeOK
    BY DEF IInv
  <1> QED
    BY <1>1, Invariance, PTL

\* However testcase_op_execute__ is left, an abort within an abort included,
\* teardown and free() are called exactly once and the hook is removed.
THEOREM AlwaysCleanedUp == Spec => []CleanedUp
  <1>1. IInv => CleanedUp
    BY DEF IInv, EndInv
  <1> QED
    BY <1>1, Invariance, PTL

\* An abort in the teardown neither promotes a skip nor demotes a failure.
THEOREM FirstAbortWins == Spec => []FirstAbortDecides
  <1>1. IInv => FirstAbortDecides
    BY DEF IInv, EndInv
  <1> QED
    BY <1>1, Invariance, PTL

\* The hooks are handed the first failure for which there was memory.
THEOREM FirstFailureWins == Spec => []FirstFailureKept
  <1>1. IInv => FirstFailureKept
    BY DEF IInv, EndInv
  <1> QED
    BY <1>1, Invariance, PTL

\* A failure that was recorded is never reported as a success.
THEOREM NeverSilent == Spec => []NoSilentFailure
  <1>1. IInv => NoSilentFailure
    BY DEF IInv, EndInv
  <1> QED
    BY <1>1, Invariance, PTL

(***************************************************************************)
(* Refinement of ExecHooks                                                  *)
(***************************************************************************)

\* Every step is one call of the hooks, the end, or invisible to the hooks.
LEMMA RefinesNext ==
    ASSUME IInv, [Next]_execVars
    PROVE  [Hooks!HooksNext]_(Hooks!hooksVars)
  <1> USE DEF IInv, TypeOK, StateTypeOK, ControlInv, StageInv, Straight, Aborting,
      Hooks!HooksNext, Hooks!hooksVars
  <1>1. CASE Hook \/ SetupReturns \/ ExecutionReturns
    BY <1>1 DEF Hook, SetupReturns, ExecutionReturns, Enter, Hooks!Advance
  <1>2. CASE Alloc
    BY <1>2 DEF Alloc, Hooks!ShortCircuits
  <1>3. CASE Release
    BY <1>3 DEF Release, Outcome, Hooks!ShortCircuits
  <1>4. CASE Return
    BY <1>4 DEF Return, Hooks!Returns
  <1>5. CASE Signal
    BY <1>5 DEF Signal, Hooks!Interrupted
  <1>6. ASSUME \/ ReportFailure \/ TeardownReturns \/ Promote \/ Abort
               \/ CleanupReturns \/ Left \/ UNCHANGED execVars
               \/ \E type \in {"FAIL", "SKIP"} : FailOrSkip(type)
        PROVE  UNCHANGED <<announced, outcome>>
    BY <1>6 DEF ReportFailure, FailOrSkip, TeardownReturns, Promote, Abort,
       CleanupReturns, Left, execVars
  <1> QED
    BY <1>1, <1>2, <1>3, <1>4, <1>5, <1>6 DEF Next

\* To its hooks, testcase_op_execute__ behaves as ExecHooks promises: stages in
\* order, and one ending at most.
THEOREM Refinement == Spec => ImplementsHooks
  <1>1. Init => Hooks!HooksInit
    BY DEF Init, Hooks!HooksInit
  <1>2. IInv /\ [Next]_execVars => [Hooks!HooksNext]_(Hooks!hooksVars)
    BY RefinesNext
  <1> QED
    BY <1>1, <1>2, Invariance, PTL DEF Spec, ImplementsHooks, Hooks!HooksSpec
===============================================================================
