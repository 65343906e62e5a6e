------------------------------- MODULE SigCapture -------------------------------
(***************************************************************************)
(* sigcapture__ and sigrestore__ of src/src/exec/sig.c: take over every     *)
(* signal that can be caught while a test case runs, and give all of them   *)
(* back.  The two are called in any order, again and again; the code under   *)
(* test changes dispositions in between, and any sigaction() may fail.      *)
(***************************************************************************)
EXTENDS Integers, Sequences

CONSTANTS
    Signals,    \* signals__, in order
    Invalid,    \* the signals for which sigaction() says EINVAL
    Faults      \* the calls that may fail: "sigprocmask", "sigaction"

ASSUME SigAssumption ==
    /\ Signals \in Seq(STRING)
    /\ Invalid \subseteq {Signals[i] : i \in DOMAIN Signals}
    /\ Faults \subseteq {"sigprocmask", "sigaction"}

VARIABLES
    pc,        \* which loop the control is in
    index,     \* i
    action,    \* disposition of each signal
    saved,     \* saved_sigaction__: the action, if f_saved
    handler,   \* handler__ is set
    blocked,   \* all signals are blocked
    result     \* of the last call: 0 or -1

sigVars == <<pc, index, action, saved, handler, blocked, result>>

Caught == {Signals[i] : i \in DOMAIN Signals}
Unsaved == "unsaved"

Init ==
    /\ pc = "idle"
    /\ index = 1
    /\ action = [s \in Caught |-> "original"]
    /\ saved = [s \in Caught |-> Unsaved]
    /\ handler = FALSE
    /\ blocked = FALSE
    /\ result = 0

Signal == Signals[index]

\* A call of one of the functions: signals are blocked first.
\* MUTANT of Begin: they are not blocked.
BeginUnblocked(loop) ==
    /\ index' = 1
    /\ result' = 0
    /\ pc' = loop
    /\ UNCHANGED blocked
\* MUTANT of Begin: the loop starts one too early.
BeginTooEarly(loop) ==
    /\ blocked' = TRUE
    /\ index' = 0
    /\ result' = 0
    /\ pc' = loop
Begin(loop) ==
    \/ /\ blocked' = TRUE
       /\ index' = 1
       /\ result' = 0
       /\ pc' = loop
    \/ /\ "sigprocmask" \in Faults
       /\ result' = -1
       /\ UNCHANGED <<blocked, index, pc>>

\* EBUSY when the signals are captured already.
CallCapture ==
    /\ pc = "idle"
    /\ IF handler
       THEN result' = -1 /\ UNCHANGED <<blocked, index, pc>>
       ELSE Begin("capture")
    /\ UNCHANGED <<action, saved, handler>>

\* The action to restore is the one from before the first capture.
\* MUTANT of Save: an action that is saved already is overwritten.
SaveAgain(s) == [saved EXCEPT ![s] = action[s]]
Save(s) == IF saved[s] = Unsaved THEN [saved EXCEPT ![s] = action[s]] ELSE saved

CaptureSignal ==
    /\ pc = "capture" /\ index <= Len(Signals)
    /\ \/ /\ Signal \notin Invalid
          /\ action' = [action EXCEPT ![Signal] = "sighandler"]
          /\ saved' = Save(Signal)
          /\ index' = index + 1
          /\ UNCHANGED <<pc, blocked, result>>
       \/ /\ Signal \in Invalid
          /\ index' = index + 1
          /\ UNCHANGED <<pc, action, saved, blocked, result>>
       \/ /\ "sigaction" \in Faults     \* give back what was taken
          /\ result' = -1
          /\ blocked' = FALSE
          /\ index' = 1
          /\ pc' = "undo"
          /\ UNCHANGED <<action, saved>>
    /\ UNCHANGED <<handler>>

Captured ==
    /\ pc = "capture" /\ index > Len(Signals)
    /\ handler' = TRUE
    /\ blocked' = FALSE
    /\ pc' = "idle"
    /\ UNCHANGED <<index, action, saved, result>>

CallRestore ==
    /\ pc = "idle"
    /\ Begin("restore")
    /\ UNCHANGED <<action, saved, handler>>

\* One round of the loop in sigrestore__ and of the one that undoes a capture
\* that failed: only sigrestore__ reports an error.
\* MUTANT of Restored: the action is given back but stays saved.
RestoredKept(s) == saved
Restored(s) == [saved EXCEPT ![s] = Unsaved]

RestoreSignal ==
    /\ pc \in {"restore", "undo"} /\ index <= Len(Signals)
    /\ index' = index + 1
    /\ \/ /\ saved[Signal] # Unsaved
          /\ action' = [action EXCEPT ![Signal] = saved[Signal]]
          /\ saved' = Restored(Signal)
          /\ UNCHANGED result
       \/ /\ saved[Signal] = Unsaved
          /\ UNCHANGED <<action, saved, result>>
       \/ /\ saved[Signal] # Unsaved /\ "sigaction" \in Faults
          /\ result' = -1
          /\ UNCHANGED <<action, saved>>
    /\ UNCHANGED <<pc, handler, blocked>>

RestoreDone ==
    /\ pc \in {"restore", "undo"} /\ index > Len(Signals)
    /\ handler' = IF pc = "restore" /\ result = 0 THEN FALSE ELSE handler
    /\ blocked' = FALSE
    /\ pc' = "idle"
    /\ UNCHANGED <<index, action, saved, result>>

\* The code under test sets an action of its own for a captured signal.
TestSetsAction(s) ==
    /\ pc = "idle" /\ handler /\ saved[s] # Unsaved
    /\ action' = [action EXCEPT ![s] = "test"]
    /\ UNCHANGED <<pc, index, saved, handler, blocked, result>>

\* sighandler__ is called whenever s arrives: the handler must be set.
Delivered(s) == ~blocked /\ action[s] = "sighandler"

Next ==
    \/ CallCapture \/ CaptureSignal \/ Captured
    \/ CallRestore \/ RestoreSignal \/ RestoreDone
    \/ \E s \in Caught : TestSetsAction(s)

Spec == Init /\ [][Next]_sigVars
-------------------------------------------------------------------------------
(***************************************************************************)
(* Properties                                                               *)
(***************************************************************************)
Actions == {"original", "sighandler", "test"}

StateTypeOK ==
    /\ pc \in {"idle", "capture", "undo", "restore"}
    /\ index \in 1 .. (Len(Signals) + 1)
    /\ action \in [Caught -> Actions]
    /\ saved \in [Caught -> Actions \cup {Unsaved}]
    /\ result \in {0, -1}
FlagsTypeOK == handler \in BOOLEAN /\ blocked \in BOOLEAN

\* The statics of sig.c and the dispositions of the process.
TypeOK == StateTypeOK /\ FlagsTypeOK

\* However captures and restores fail and are repeated, the action of every
\* signal that was taken over is remembered.
OriginalKept ==
    \A s \in Caught : action[s] # "original" => saved[s] = "original"

\* Once the signals are given back without an error, all of them are as they
\* were, whatever the code under test did to them.
AllGivenBack ==
    pc = "idle" /\ ~handler /\ result = 0 =>
        \A s \in Caught : action[s] = "original" /\ saved[s] = Unsaved

\* A signal never finds the handler unset, unless the last call failed: they
\* are blocked while it is.
NoNullHandler == \A s \in Caught : Delivered(s) => handler \/ result = -1
===============================================================================
