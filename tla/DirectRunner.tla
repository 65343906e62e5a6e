------------------------------ MODULE DirectRunner ------------------------------
(***************************************************************************)
(* runner_run_testcase__ of src/src/exec/direct_runner.c: test cases are    *)
(* run one after the other in the process of the runner.  Descriptors are   *)
(* redirected around the test case, its hooks and the signal handler come   *)
(* back with siglongjmp().  What the test case does is ExecHooks, which     *)
(* TestcaseExecute implements.                                              *)
(***************************************************************************)
EXTENDS Integers, Sequences, ExecHooks

CONSTANTS
    MaxFd,        \* largest descriptor the process may have
    Taken,        \* descriptors above 2 that are in use by others
    MaxRuns,      \* bound: test cases run
    MaxOutput,    \* bound: cells of output a test case prints
    MaxSignals,   \* bound: signals caught in one test case
    Faults        \* the calls that may fail

ASSUME DirectAssumption ==
    /\ MaxRuns \in Nat \ {0} /\ MaxOutput \in Nat /\ MaxSignals \in Nat
    /\ MaxFd \in Nat /\ MaxFd > 2 /\ Taken \subseteq 3 .. MaxFd
    /\ Faults \subseteq {"result", "descriptor", "tempfile", "dup2", "sigcapture",
                         "sigrestore", "output"}

VARIABLES
    pc,           \* where the control is
    result,       \* exec_hooks.result: type and failure, or NULL
    rc,           \* the local variable "result"
    table,        \* what the descriptors of the process refer to
    loc,          \* stdin_saved, stdout_saved, stderr_saved, stdin_new, stdout_new
    ladder,       \* how many of them the labels from here on close
    captured,     \* handle_signal__ is installed
    stdio,        \* what the buffer of stdout holds
    console,      \* what was written to the original stdout
    temp,         \* ... and to the temporary file
    started, completed,   \* calls of the reporter
    output,       \* the output in the result
    \* bounds and history
    runs, printed, signals,
    failed        \* which of dup2() and sigrestore__() failed to restore something

fdVars == <<table, loc, ladder>>
streamVars == <<stdio, console, temp>>
reportVars == <<started, completed, output>>
historyVars == <<runs, printed, signals, failed>>
directVars == <<pc, result, rc, fdVars, captured, streamVars, reportVars, historyVars,
                hooksVars>>

\* stage: of a failure the runner creates.
Null == [type |-> "NULL", failure |-> "none", stage |-> 0]
Empty == [type |-> "PASS", failure |-> "none", stage |-> 0]

Fds == 0 .. MaxFd

\* The descriptors of the process outside of the runner.
Outside(fd) ==
    CASE fd = 0 -> "stdin"
      [] fd = 1 -> "stdout"
      [] fd = 2 -> "stderr"
      [] OTHER -> IF fd \in Taken THEN "other" ELSE "none"

\* A variable no descriptor was assigned to.
Unassigned == -1

\* The caller of the runner may have something buffered.
Init ==
    /\ pc = "init"
    /\ result = Null
    /\ rc = 1
    /\ table = [fd \in Fds |-> Outside(fd)]
    /\ loc = [n \in 1 .. 5 |-> Unassigned]
    /\ ladder = 0
    /\ captured = FALSE
    /\ stdio \in {<<>>, <<<<0, 0>>>>}
    /\ console = <<>> /\ temp = <<>> /\ output = <<>>
    /\ started = FALSE /\ completed = 0
    /\ runs = 1 /\ printed = 0 /\ signals = 0
    /\ failed = {}
    /\ HooksInit

\* exec_hooks_init__
Create ==
    /\ pc = "init"
    /\ result' \in {Empty} \cup (IF "result" \in Faults THEN {Null} ELSE {})
    /\ pc' = "open"
    /\ UNCHANGED <<rc, fdVars, captured, streamVars, reportVars, historyVars,
                   hooksVars>>

-------------------------------------------------------------------------------
(***************************************************************************)
(* Descriptors                                                              *)
(***************************************************************************)
Free == {fd \in Fds : table[fd] = "none"}

\* dup(), open() and mkstemp() return the lowest descriptor there is, for the
\* next of the variables.
Allocate(file) ==
    /\ \E fd \in Free :
         /\ \A other \in Free : fd <= other
         /\ table' = [table EXCEPT ![fd] = file]
         /\ loc' = [loc EXCEPT ![ladder + 1] = fd]
    /\ ladder' = ladder + 1

\* How many closes are behind the label that the failure of the n-th call
\* jumps to.
\* MUTANT of Behind: stderr_saved_failed and stdout_saved_failed are confused.
BehindConfused(n) == IF n = 3 THEN 1 ELSE IF n = 2 THEN 2 ELSE n - 1
Behind(n) == n - 1

\* The goto after a call that failed.
Fail ==
    /\ pc' = "cleanup"
    /\ ladder' = Behind(ladder + 1)
    /\ UNCHANGED <<table, loc>>

\* dup(STDIN_FILENO), dup(STDOUT_FILENO) and dup(STDERR_FILENO) need what they
\* duplicate, open("/dev/null") does not.
Opens == IF ladder < 3 THEN table[ladder] ELSE "null"

\* MUTANT of Open: a descriptor that cannot be had is asked for again.
OpenRetry ==
    /\ pc = "open"
    /\ \/ /\ Opens # "none"
          /\ Allocate(Opens)
          /\ pc' = IF ladder = 3 THEN "opentemp" ELSE "open"
       \/ /\ "descriptor" \in Faults \/ Opens = "none" \/ Free = {}
          /\ pc' = "init" /\ ladder' = 0 /\ UNCHANGED loc
          /\ table' = [fd \in Fds |-> IF \E n \in 1 .. ladder : loc[n] = fd
                                     THEN "none" ELSE table[fd]]
    /\ UNCHANGED <<result, rc, captured, streamVars, reportVars, historyVars,
                   hooksVars>>

Open ==
    /\ pc = "open"
    /\ \/ /\ Opens # "none"
          /\ Allocate(Opens)
          /\ pc' = IF ladder = 3 THEN "opentemp" ELSE "open"
       \/ /\ "descriptor" \in Faults \/ Opens = "none" \/ Free = {}
          /\ Fail
    /\ UNCHANGED <<result, rc, captured, streamVars, reportVars, historyVars,
                   hooksVars>>

\* opentemp: the temporary file is unlinked at once, so that it is gone when
\* the descriptor is closed.
OpenTemp ==
    /\ pc = "opentemp"
    /\ \/ Allocate("temp") /\ pc' = "start"
       \/ ("tempfile" \in Faults \/ Free = {}) /\ Fail
    /\ UNCHANGED <<result, rc, captured, streamVars, reportVars, historyVars,
                   hooksVars>>

\* dup2(): duplicates an open descriptor, unless it fails.
Dup2(t, from, to, succeeds) ==
    IF succeeds /\ from \in Fds /\ t[from] # "none"
    THEN [t EXCEPT ![to] = t[from]]
    ELSE t

\* close() of descriptors 0, 1 and 2 and a dup2() onto each of them; those that
\* fail are not noticed and leave the descriptor closed.
Replaced(in, out, err, succeeds) ==
    LET closed == [fd \in Fds |-> IF fd < 3 THEN "none" ELSE table[fd]]
        first == Dup2(closed, in, 0, succeeds[1])
        second == Dup2(first, out, 1, succeeds[2])
    IN  Dup2(second, err, 2, succeeds[3])

Successes ==
    IF "dup2" \in Faults THEN [1 .. 3 -> BOOLEAN] ELSE {[n \in 1 .. 3 |-> TRUE]}

\* fflush(stdout): the buffer goes where descriptor 1 leads, and is lost when
\* that is nowhere.
Flush ==
    /\ stdio' = <<>>
    /\ console' = IF table[1] = "stdout" THEN console \o stdio ELSE console
    /\ temp' = IF table[1] = "temp" THEN temp \o stdio ELSE temp

\* First return of sigsetjmp(): report the start and redirect.
Redirect ==
    /\ pc = "start"
    /\ started' = TRUE
    /\ Flush
    /\ \E succeeds \in Successes : table' = Replaced(loc[4], loc[5], loc[5], succeeds)
    /\ pc' = "capture"
    /\ UNCHANGED <<result, rc, loc, ladder, captured, completed, output, historyVars,
                   hooksVars>>

\* The return value of sigcapture__ is not looked at.
Capture ==
    /\ pc = "capture"
    /\ captured' \in {TRUE} \cup (IF "sigcapture" \in Faults THEN {FALSE} ELSE {})
    /\ pc' = "execute"
    /\ UNCHANGED <<result, rc, fdVars, streamVars, reportVars, historyVars, hooksVars>>

-------------------------------------------------------------------------------
(***************************************************************************)
(* The test case runs                                                       *)
(***************************************************************************)
StageChange ==
    /\ pc = "execute"
    /\ Advance
    /\ UNCHANGED <<pc, result, rc, fdVars, captured, streamVars, reportVars,
                   historyVars>>

PrintOutput ==
    /\ pc = "execute" /\ printed < MaxOutput
    /\ printed' = printed + 1
    /\ stdio' = Append(stdio, <<runs, printed + 1>>)
    /\ UNCHANGED <<pc, result, rc, fdVars, captured, console, temp, reportVars, runs,
                   signals, failed, hooksVars>>

\* stdio writes its buffer whenever it likes.
BufferFull ==
    /\ pc = "execute" /\ stdio # <<>>
    /\ Flush
    /\ UNCHANGED <<pc, result, rc, fdVars, captured, reportVars, historyVars,
                   hooksVars>>

\* Where an access to the result leads: when there is none, SIGSEGV brings
\* the control to the handler of signals, again and again, or ends the
\* process.
Accessed ==
    CASE result # Null -> "sigrestore"
      [] result = Null /\ captured -> "stuck"
      [] OTHER -> "dead"

\* exec_hooks_on_short_circuit__
ShortCircuit ==
    /\ pc = "execute"
    /\ ShortCircuits
    /\ result' = IF result = Null THEN Null
                 ELSE [type |-> ending', failure |-> "test", stage |-> 0]
    /\ pc' = Accessed
    /\ UNCHANGED <<rc, fdVars, captured, streamVars, reportVars, historyVars>>

\* ctest_testcase_execute() returns.
Passes ==
    /\ pc = "execute"
    /\ Returns
    /\ result' = IF result = Null THEN Null ELSE [result EXCEPT !.type = "PASS"]
    /\ rc' = IF result = Null THEN rc ELSE 0
    /\ pc' = Accessed
    /\ UNCHANGED <<fdVars, captured, streamVars, reportVars, historyVars>>

\* handle_signal__ jumps back to sigsetjmp(), up to sigrestore__() and, when that
\* fails, beyond it.  A local variable that is not volatile and changed since
\* then is indeterminate: it has its value of then or of now.
CatchSignal ==
    /\ captured
    /\ pc \in {"execute", "sigrestore", "signalled", "restore", "complete"}
    /\ signals < MaxSignals
    /\ signals' = signals + 1
    /\ ending' = IF ending = "none" THEN "signal" ELSE ending
    /\ rc' \in {1, rc}
    /\ pc' = "signalled"
    /\ UNCHANGED <<reached, result, fdVars, captured, streamVars, reportVars, runs,
                   printed, failed>>

\* Handlers that could not be given back, while the result belongs to the
\* reporter or after the function with the sigsetjmp() has returned: what a
\* signal does then is undefined, and nothing is said of it.
StraySignal ==
    /\ captured
    /\ pc \in {"init", "open", "opentemp", "start", "capture", "cleanup", "returned"}
    /\ pc' = "undefined"
    /\ UNCHANGED <<result, rc, fdVars, captured, streamVars, reportVars, historyVars,
                   hooksVars>>

\* Second return of sigsetjmp(): the failure replaces an older one.
\* MUTANT of SignalFailure: exec_hooks.error is taken for the type.
SignalFailureError ==
    [type |-> "SIGSEGV", failure |-> "signal", stage |-> reached]
\* MUTANT of SignalFailure: the type of the result is left alone.
SignalFailureOnly == [result EXCEPT !.failure = "signal", !.stage = reached]
SignalFailure == [type |-> "FAIL", failure |-> "signal", stage |-> reached]

HandleSignal ==
    /\ pc = "signalled"
    /\ result' = IF result = Null THEN Null ELSE SignalFailure
    /\ pc' = Accessed
    /\ UNCHANGED <<rc, fdVars, captured, streamVars, reportVars, historyVars,
                   hooksVars>>

-------------------------------------------------------------------------------
(***************************************************************************)
(* The test case is over                                                    *)
(***************************************************************************)

\* sigrestore__, whose result is not looked at.
SigRestore ==
    /\ pc = "sigrestore"
    /\ \/ captured' = FALSE /\ UNCHANGED failed
       \/ /\ "sigrestore" \in Faults
          /\ failed' = failed \cup {"sigrestore"}
          /\ UNCHANGED captured
    /\ pc' = "restore"
    /\ UNCHANGED <<result, rc, fdVars, streamVars, reportVars, runs, printed, signals,
                   hooksVars>>

\* Undo the redirection.
\* MUTANT of Undo: what was saved of stdout and of stderr is confused.
UndoSwapped ==
    \E succeeds \in Successes :
        /\ table' = Replaced(loc[1], loc[3], loc[2], succeeds)
        /\ failed' = IF \A n \in 1 .. 3 : succeeds[n] THEN failed
                     ELSE failed \cup {"dup2"}
Undo ==
    \E succeeds \in Successes :
        /\ table' = Replaced(loc[1], loc[2], loc[3], succeeds)
        /\ failed' = IF \A n \in 1 .. 3 : succeeds[n] THEN failed
                     ELSE failed \cup {"dup2"}

\* MUTANT of RestoreFds: fflush() comes last.
RestoreFdsFirst ==
    /\ pc = "restore"
    /\ Undo
    /\ stdio' = <<>> /\ console' = console \o stdio /\ UNCHANGED temp
    /\ pc' = "complete"
    /\ UNCHANGED <<result, rc, loc, ladder, captured, reportVars, runs, printed,
                   signals, hooksVars>>
RestoreFds ==
    /\ pc = "restore"
    /\ Flush
    /\ Undo
    /\ pc' = "complete"
    /\ UNCHANGED <<result, rc, loc, ladder, captured, reportVars, runs, printed,
                   signals, hooksVars>>

\* read_output__: on an error, no output or an empty one.
Complete ==
    /\ pc = "complete"
    /\ \/ output' = temp
       \/ "output" \in Faults /\ UNCHANGED output
    /\ completed' = completed + 1
    /\ pc' = "cleanup"
    /\ UNCHANGED <<result, rc, fdVars, captured, streamVars, started, historyVars,
                   hooksVars>>

\* The labels close the descriptors in the opposite order.  A variable that was
\* not assigned might hold the number of any descriptor.
Cleanup ==
    /\ pc = "cleanup"
    /\ \/ /\ ladder > 0
          /\ \E fd \in IF loc[ladder] \in Fds THEN {loc[ladder]} ELSE Fds :
               table' = [table EXCEPT ![fd] = "none"]
          /\ ladder' = ladder - 1
          /\ UNCHANGED pc
       \/ /\ ladder = 0
          /\ pc' = "returned"
          /\ UNCHANGED <<table, ladder>>
    /\ UNCHANGED <<result, rc, loc, captured, streamVars, reportVars, historyVars,
                   hooksVars>>

\* The runner is called for the next test case.
NextTestcase ==
    /\ pc = "returned" /\ runs < MaxRuns
    /\ runs' = runs + 1
    /\ pc' = "init"
    /\ result' = Null /\ rc' = 1
    /\ temp' = <<>> /\ output' = <<>>
    /\ started' = FALSE /\ completed' = 0
    /\ printed' = 0 /\ signals' = 0
    /\ reached' = 0 /\ ending' = "none"
    /\ loc' = [n \in 1 .. 5 |-> Unassigned]
    /\ UNCHANGED <<table, ladder, captured, stdio, console, failed>>

Over ==
    /\ pc \in {"stuck", "dead", "undefined"} \/ (pc = "returned" /\ runs = MaxRuns)
    /\ UNCHANGED directVars

Step ==
    \/ Create \/ Open \/ OpenTemp \/ Redirect \/ Capture
    \/ StageChange \/ PrintOutput \/ BufferFull \/ ShortCircuit \/ Passes
    \/ HandleSignal
    \/ SigRestore \/ RestoreFds \/ Complete \/ Cleanup \/ NextTestcase

Next == Step \/ CatchSignal \/ StraySignal \/ Over

Spec == Init /\ [][Next]_directVars

\* One thread, whose test cases come to an end; signals need never come.
FairSpec == Spec /\ WF_directVars(Step)
-------------------------------------------------------------------------------
(***************************************************************************)
(* Properties                                                               *)
(***************************************************************************)
Cells == (0 .. MaxRuns) \X (0 .. MaxOutput)

StateTypeOK ==
    /\ pc \in {"init", "open", "opentemp", "start", "capture", "execute", "signalled",
               "sigrestore", "restore", "complete", "cleanup", "returned",
               "stuck", "dead", "undefined"}
    /\ result \in [type : {"PASS", "FAIL", "SKIPPED", "NULL"},
                   failure : {"none", "test", "signal"}, stage : 0 .. 3]
    /\ rc \in {0, 1}
    /\ table \in [Fds -> {"none", "stdin", "stdout", "stderr", "null", "temp", "other"}]
    /\ loc \in [1 .. 5 -> Fds \cup {Unassigned}]
    /\ ladder \in 0 .. 5
    /\ failed \subseteq {"dup2", "sigrestore"}
    /\ completed \in {0, 1}
    /\ runs \in 1 .. MaxRuns /\ printed \in 0 .. MaxOutput
    /\ signals \in 0 .. MaxSignals
    /\ reached \in 0 .. 3
    /\ ending \in {"none", "PASS", "FAIL", "SKIPPED", "signal"}
StreamsTypeOK == {stdio, console, temp, output} \subseteq Seq(Cells)
FlagsTypeOK == captured \in BOOLEAN /\ started \in BOOLEAN

\* The state of the runner, of the descriptors and of the streams.
TypeOK == StateTypeOK /\ StreamsTypeOK /\ FlagsTypeOK

\* However a test case ends and whichever calls fail on the way, the next one
\* finds the descriptors above 2 as this one did: all that were opened are closed
\* and none of anybody else's is, even when descriptors 0 to 2 are damaged and
\* their numbers are handed out again.  Those are damaged, and signals still
\* caught, only after a dup2() or sigrestore__() that had to restore them failed.
ProcessRestored ==
    pc \in {"returned", "init"} =>
        /\ \A fd \in 3 .. MaxFd : table[fd] = Outside(fd)
        /\ "dup2" \notin failed => \A fd \in 0 .. 2 : table[fd] = Outside(fd)
        /\ "sigrestore" \notin failed => ~captured

\* Everything a test case prints is in its result, also what is still
\* buffered when the control jumps out of it, or none of it, when it could not be
\* redirected or cannot be read back.  Nothing of it gets past the redirection, and
\* what was buffered before it does not end up in its output.
OutputFaithful ==
    /\ completed = 1 =>
           \/ output = [i \in 1 .. printed |-> <<runs, i>>]
           \/ output = <<>> /\ Faults \intersect {"dup2", "output"} # {}
    /\ \A i \in DOMAIN console : console[i] = <<0, 0>>

\* The result tells how the test case ended: with the last signal caught,
\* in the stage it was caught in, or else as its hooks were told.  The return
\* value is 0 after a pass, and otherwise only when a signal caught after the
\* pass left it as it was.
VerdictFaithful ==
    completed = 1 =>
        /\ result.type = "PASS" => rc = 0
        /\ rc = 0 => ending = "PASS"
        /\ signals > 0 =>
             result = [type |-> "FAIL", failure |-> "signal", stage |-> reached]
        /\ signals = 0 =>
             /\ result.type = ending
             /\ result.failure = IF ending = "PASS" THEN "none" ELSE "test"

\* Under fair scheduling every test case comes to its end, except when there
\* is no memory for its result or a stray signal is caught.
Completes ==
    <>((pc = "returned" /\ runs = MaxRuns) \/ pc \in {"stuck", "dead", "undefined"})

(***************************************************************************)
(* What the documentation promises and the code does not keep               *)
(***************************************************************************)

\* result.h:40-41: "A skipped test is not considered a failure and does not
\* prevent a test suite from completed successfully."
SkipIsNoFailure ==
    pc = "returned" /\ completed = 1 /\ result.type = "SKIPPED" => rc = 0
===============================================================================
