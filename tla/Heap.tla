--------------------------------- MODULE Heap ---------------------------------
(***************************************************************************)
(* What the process holds: blocks of memory, handles and streams, each of   *)
(* which has to be given back once.  Any acquisition may fail, up to        *)
(* MaxFaults times.                                                         *)
(***************************************************************************)
EXTENDS Integers, Sequences, FiniteSets

CONSTANT MaxFaults    \* bound: calls that fail

ASSUME HeapAssumption == MaxFaults \in Nat

VARIABLES
    heap,      \* what is held
    misused,   \* history: something was released or used that was not held
    faults     \* number of calls that have failed

heapVars == <<heap, misused, faults>>

HeapInit == heap = {} /\ misused = FALSE /\ faults = 0

Acquire(things) ==
    /\ heap' = heap \union things
    /\ UNCHANGED <<misused, faults>>

\* gone is released by code that relies on needed.
Release(gone, needed) ==
    /\ heap' = heap \ gone
    /\ misused' = (misused \/ ~(gone \union needed \subseteq heap))

\* A call fails.
Fault == faults < MaxFaults /\ faults' = faults + 1

\* A call fails, and nothing that was held is released.
FaultOnly == Fault /\ UNCHANGED <<heap, misused>>
===============================================================================
