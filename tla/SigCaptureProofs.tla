--------------------------- MODULE SigCaptureProofs ---------------------------
(***************************************************************************)
(* Proofs about SigCapture, for any list of signals, any of them unknown to *)
(* the system, and any calls that fail.                                     *)
(***************************************************************************)
EXTENDS SigCapture, TLAPS

(***************************************************************************)
(* The inductive invariant                                                  *)
(***************************************************************************)

\* What is saved is what was there before the first capture.
SavedIsOriginal == \A s \in Caught : saved[s] \in {"original", Unsaved}

\* Signals are blocked within both loops, but not in the one that undoes a
\* capture, which has failed by then.
LoopInv ==
    /\ pc \in {"capture", "restore"} => blocked
    /\ pc = "undo" => result = -1

\* A restore that has not failed so far has given back all up to index.
RestoreInv ==
    pc = "restore" /\ result = 0 =>
        \A i \in DOMAIN Signals : i < index => saved[Signals[i]] = Unsaved

IInv ==
    /\ StateTypeOK
    /\ OriginalKept
    /\ SavedIsOriginal
    /\ LoopInv
    /\ RestoreInv
    /\ AllGivenBack

(***************************************************************************)
(* Lemmas                                                                   *)
(***************************************************************************)

\* The loops go over the signals by their index.
LEMMA SignalsType ==
    /\ Len(Signals) \in Nat
    /\ DOMAIN Signals = 1 .. Len(Signals)
    /\ \A i \in 1 .. Len(Signals) : Signals[i] \in Caught
    /\ \A s \in Caught : \E i \in 1 .. Len(Signals) : s = Signals[i]
  BY SigAssumption DEF Caught

\* An action that is not saved was never replaced.
LEMMA UnsavedIsOriginal ==
    ASSUME OriginalKept, NEW s \in Caught, saved[s] = Unsaved
    PROVE  action[s] = "original"
  BY DEF OriginalKept, Unsaved

\* Nothing is taken over in the beginning.
LEMMA InitInv == Init => IInv
  <1> SUFFICES ASSUME Init PROVE IInv
    OBVIOUS
  <1>1. StateTypeOK
    BY SignalsType DEF Init, StateTypeOK, Actions
  <1>2. OriginalKept /\ SavedIsOriginal /\ LoopInv /\ RestoreInv /\ AllGivenBack
    BY DEF Init, OriginalKept, SavedIsOriginal, LoopInv, RestoreInv, AllGivenBack
  <1> QED
    BY <1>1, <1>2 DEF IInv

\* A call either starts its loop with the signals blocked, or fails and leaves
\* everything as it is.
LEMMA CallStep ==
    ASSUME IInv, CallCapture \/ CallRestore
    PROVE  IInv'
  <1> USE DEF IInv
  <1>1. /\ UNCHANGED <<action, saved, handler>>
        /\ \/ /\ pc' \in {"capture", "restore"} /\ blocked' = TRUE
              /\ index' = 1 /\ result' = 0
           \/ pc = "idle" /\ result' = -1 /\ UNCHANGED <<blocked, index, pc>>
    BY DEF CallCapture, CallRestore, Begin
  <1>2. StateTypeOK'
    BY <1>1, SignalsType DEF StateTypeOK
  <1>3. OriginalKept' /\ SavedIsOriginal'
    BY <1>1 DEF OriginalKept, SavedIsOriginal
  <1>4. LoopInv' /\ AllGivenBack'
    BY <1>1 DEF LoopInv, AllGivenBack
  <1>5. RestoreInv'
    BY <1>1, SignalsType DEF RestoreInv
  <1> QED
    BY <1>2, <1>3, <1>4, <1>5

\* A round of the loop that captures: the first action is the one saved.
LEMMA CaptureStep ==
    ASSUME IInv, CaptureSignal
    PROVE  IInv'
  <1> USE DEF IInv
  <1>1. /\ pc = "capture" /\ index \in 1 .. Len(Signals) /\ Signal \in Caught
        /\ UNCHANGED handler
    BY SignalsType DEF CaptureSignal, StateTypeOK, Signal
  <1>2. CASE /\ action' = [action EXCEPT ![Signal] = "sighandler"]
             /\ saved' = Save(Signal)
             /\ index' = index + 1
             /\ UNCHANGED <<pc, blocked, result>>
    <2>1. /\ saved' \in [Caught -> Actions \cup {Unsaved}]
          /\ saved'[Signal] = "original"
          /\ \A s \in Caught : s # Signal => saved'[s] = saved[s]
      <3>1. CASE saved[Signal] = Unsaved
        BY <1>1, <1>2, <3>1, UnsavedIsOriginal DEF Save, StateTypeOK, Actions
      <3>2. CASE saved[Signal] # Unsaved
        BY <1>1, <1>2, <3>2 DEF Save, StateTypeOK, SavedIsOriginal
      <3> QED
        BY <3>1, <3>2
    <2>2. StateTypeOK'
      <3>1. index' \in 1 .. (Len(Signals) + 1)
        BY <1>1, <1>2, SignalsType
      <3>2. action' \in [Caught -> Actions]
        BY <1>1, <1>2 DEF StateTypeOK, Actions
      <3> QED
        BY <1>2, <2>1, <3>1, <3>2 DEF StateTypeOK
    <2>3. OriginalKept' /\ SavedIsOriginal'
      BY <1>1, <1>2, <2>1 DEF StateTypeOK, OriginalKept, SavedIsOriginal
    <2> QED
      BY <1>1, <1>2, <2>2, <2>3 DEF LoopInv, RestoreInv, AllGivenBack
  <1>3. CASE index' = index + 1 /\ UNCHANGED <<pc, action, saved, blocked, result>>
    BY <1>1, <1>3, SignalsType
    DEF StateTypeOK, OriginalKept, SavedIsOriginal, LoopInv, RestoreInv, AllGivenBack
  <1>4. CASE /\ result' = -1 /\ blocked' = FALSE /\ index' = 1 /\ pc' = "undo"
             /\ UNCHANGED <<action, saved>>
    BY <1>1, <1>4, SignalsType
    DEF StateTypeOK, OriginalKept, SavedIsOriginal, LoopInv, RestoreInv, AllGivenBack
  <1> QED
    BY <1>2, <1>3, <1>4 DEF CaptureSignal

\* A round of the loops that give back: what is saved is put in place, and a
\* failure to do so is remembered by the one of sigrestore__.
LEMMA RestoreStep ==
    ASSUME IInv, RestoreSignal
    PROVE  IInv'
  <1> USE DEF IInv
  <1>1. /\ pc \in {"restore", "undo"} /\ index \in 1 .. Len(Signals)
        /\ Signal = Signals[index] /\ Signal \in Caught
        /\ index' = index + 1
        /\ UNCHANGED <<pc, handler, blocked>>
    BY SignalsType DEF RestoreSignal, StateTypeOK, Signal
  <1>2. CASE /\ saved[Signal] # Unsaved
             /\ action' = [action EXCEPT ![Signal] = saved[Signal]]
             /\ saved' = Restored(Signal)
             /\ UNCHANGED result
    <2>1. /\ saved' = [saved EXCEPT ![Signal] = Unsaved]
          /\ saved[Signal] = "original"
      BY <1>1, <1>2 DEF Restored, SavedIsOriginal
    <2>2. StateTypeOK'
      BY <1>1, <1>2, <2>1, SignalsType DEF StateTypeOK, Actions
    <2>3. OriginalKept' /\ SavedIsOriginal'
      BY <1>1, <1>2, <2>1 DEF StateTypeOK, OriginalKept, SavedIsOriginal
    <2>4. RestoreInv'
      <3> SUFFICES ASSUME pc' = "restore", result' = 0,
                          NEW i \in DOMAIN Signals, i < index'
                   PROVE  saved'[Signals[i]] = Unsaved
        BY DEF RestoreInv
      <3>1. i < index \/ i = index
        BY <1>1, SignalsType
      <3>2. Signals[i] \in Caught /\ (i < index => saved[Signals[i]] = Unsaved)
        BY <1>1, <1>2, SignalsType DEF RestoreInv
      <3> QED
        BY <1>1, <2>1, <3>1, <3>2 DEF StateTypeOK
    <2> QED
      BY <1>1, <1>2, <2>2, <2>3, <2>4 DEF LoopInv, AllGivenBack
  <1>3. CASE saved[Signal] = Unsaved /\ UNCHANGED <<action, saved, result>>
    <2>1. StateTypeOK' /\ OriginalKept' /\ SavedIsOriginal'
      BY <1>1, <1>3, SignalsType DEF StateTypeOK, OriginalKept, SavedIsOriginal
    <2>2. RestoreInv'
      BY <1>1, <1>3, SignalsType DEF RestoreInv
    <2> QED
      BY <1>1, <1>3, <2>1, <2>2 DEF LoopInv, AllGivenBack
  <1>4. CASE result' = -1 /\ UNCHANGED <<action, saved>>
    BY <1>1, <1>4, SignalsType
    DEF StateTypeOK, OriginalKept, SavedIsOriginal, LoopInv, RestoreInv, AllGivenBack
  <1> QED
    BY <1>2, <1>3, <1>4 DEF RestoreSignal

\* The loops end, and the code under test plays with its signals.
LEMMA EndStep ==
    ASSUME IInv, Captured \/ RestoreDone \/ \E s \in Caught : TestSetsAction(s)
    PROVE  IInv'
  <1> USE DEF IInv
  <1>1. CASE Captured
    BY <1>1 DEF Captured, StateTypeOK, OriginalKept, SavedIsOriginal, LoopInv,
                RestoreInv, AllGivenBack
  <1>2. CASE RestoreDone
    <2>1. /\ pc' = "idle" /\ UNCHANGED <<index, action, saved, result>>
          /\ StateTypeOK' /\ OriginalKept' /\ SavedIsOriginal'
      BY <1>2 DEF RestoreDone, StateTypeOK, OriginalKept, SavedIsOriginal
    <2>2. AllGivenBack'
      <3> SUFFICES ASSUME result = 0, NEW s \in Caught
                   PROVE  action[s] = "original" /\ saved[s] = Unsaved
        BY <2>1 DEF AllGivenBack
      <3>1. pc = "restore" /\ index > Len(Signals)
        BY <1>2 DEF RestoreDone, LoopInv
      <3>2. PICK i \in 1 .. Len(Signals) : s = Signals[i]
        BY SignalsType
      <3>3. saved[s] = Unsaved
        BY <3>1, <3>2, SignalsType DEF RestoreInv, StateTypeOK
      <3> QED
        BY <3>3, UnsavedIsOriginal
    <2> QED
      BY <2>1, <2>2 DEF LoopInv, RestoreInv
  <1>3. ASSUME NEW t \in Caught, TestSetsAction(t)
        PROVE  IInv'
    <2>1. saved[t] = "original"
      BY <1>3 DEF TestSetsAction, SavedIsOriginal
    <2> QED
      BY <1>3, <2>1 DEF TestSetsAction, StateTypeOK, Actions, OriginalKept,
         SavedIsOriginal, LoopInv, RestoreInv, AllGivenBack
  <1> QED
    BY <1>1, <1>2, <1>3

\* Every step of the specification preserves the inductive invariant.
LEMMA NextInv == IInv /\ [Next]_sigVars => IInv'
  <1> SUFFICES ASSUME IInv, [Next]_sigVars PROVE IInv'
    OBVIOUS
  <1>1. CASE UNCHANGED sigVars
    BY <1>1 DEF sigVars, IInv, StateTypeOK, OriginalKept, SavedIsOriginal, LoopInv,
                RestoreInv, AllGivenBack
  <1> QED
    BY <1>1, CallStep, CaptureStep, RestoreStep, EndStep DEF Next

\* handler__ is set or not, and signals are blocked or not.
LEMMA FlagsStep == FlagsTypeOK /\ [Next]_sigVars => FlagsTypeOK'
  BY Zenon DEF FlagsTypeOK, Next, sigVars, CallCapture, CallRestore, Begin,
         CaptureSignal, Captured, RestoreSignal, RestoreDone, TestSetsAction

(***************************************************************************)
(* Theorems                                                                 *)
(***************************************************************************)

\* The invariant the theorems below rest on.
THEOREM Invariance == Spec => []IInv
  BY InitInv, NextInv, PTL DEF Spec

\* sigcapture__ and sigrestore__ never index past the table of the signals.
THEOREM TypeCorrect == Spec => []TypeOK
  <1>1. IInv /\ FlagsTypeOK => TypeOK
    BY DEF IInv, TypeOK
  <1>2. Init => FlagsTypeOK
    BY DEF Init, FlagsTypeOK
  <1> QED
    BY <1>1, <1>2, FlagsStep, Invariance, PTL DEF Spec

\* However often sigcapture__ and sigrestore__ are called, fail half-way and
\* are called again, the action from before is never lost.
THEOREM OriginalNeverLost == Spec => []OriginalKept
  <1>1. IInv => OriginalKept
    BY DEF IInv
  <1> QED
    BY <1>1, Invariance, PTL

\* A sigrestore__ that says it has succeeded has given back every signal.
THEOREM RestoreIsComplete == Spec => []AllGivenBack
  <1>1. IInv => AllGivenBack
    BY DEF IInv
  <1> QED
    BY <1>1, Invariance, PTL

\* Unless the last call failed, sighandler__ is never called through a handler
\* that is not set: signals are blocked wherever it could be.
THEOREM HandlerAlwaysSet == Spec => []NoNullHandler
  <1>1. IInv => NoNullHandler
    <2> SUFFICES ASSUME IInv, NEW s \in Caught, ~blocked,
                        action[s] = "sighandler", ~handler, result # -1
                 PROVE  FALSE
      BY DEF NoNullHandler, Delivered
    <2>1. pc = "idle" /\ result = 0
      BY DEF IInv, StateTypeOK, LoopInv
    <2> QED
      BY <2>1 DEF IInv, AllGivenBack
  <1> QED
    BY <1>1, Invariance, PTL
===============================================================================
