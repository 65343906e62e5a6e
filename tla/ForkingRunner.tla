---------------------------- MODULE ForkingRunner ----------------------------
(***************************************************************************)
(* runner_run_testcase__ of src/src/exec/forking_runner.c: one test case is *)
(* run in a forked child.  The child sends execution events over the hooks  *)
(* pipe (ExecEvents) and its stdout and stderr over the output pipe; the    *)
(* parent polls both, waits for the child and reports a result.             *)
(*                                                                          *)
(* Parent and child interleave freely, signals may hit the child between    *)
(* any two of its steps, pipes are bounded and their write() blocks, and    *)
(* each system call whose failure the code handles may fail (Faults).       *)
(***************************************************************************)
EXTENDS ExecEvents

CONSTANTS
    HooksFd, OutputFd,     \* descriptors of the read ends of the two pipes
    HooksCap, OutputCap,   \* capacities of the pipes, in cells
    FailureSizes,          \* storage sizes of the failures a test may report
    SignalFailureSize,     \* ... and of the one the signal handler reports
    MaxOutput,             \* bound: cells of output a test may print
    MaxSignals,            \* bound: signals the child may receive
    SignalKinds,           \* subset of {"catchable", "uncatchable"}
    ExitCodes,             \* codes the test's own code may call exit() with
    Faults                 \* the system calls that may fail

ASSUME RunnerAssumption ==
    \* the standard descriptors are in use: negating 0 would not hide it
    /\ HooksFd \in Nat \ {0} /\ OutputFd \in Nat \ {0}
    /\ HooksCap \in Nat /\ OutputCap \in Nat \ {0}
    /\ HooksCap >= PipeBuf
    /\ FailureSizes \subseteq Nat \ {0}
    /\ SignalFailureSize \in Nat \ {0}
    /\ MaxOutput \in Nat /\ MaxSignals \in Nat
    /\ SignalKinds \subseteq {"catchable", "uncatchable"}
    /\ ExitCodes \subseteq 0 .. 255
    /\ Faults \subseteq {"result", "hooks_pipe", "output_pipe", "fork",
                         "poll", "read_hooks", "read_output", "wait",
                         "malloc", "output_alloc", "failure_create"}

VARIABLES
    \* the parent
    pc,          \* where it is in runner_run_testcase__ and wait_for_child__
    result,      \* type and failure of the ctest_result_t
    retval,
    started,     \* ctest_testcase_reporter_start() was called
    completed,   \* number of calls of ctest_testcase_reporter_complete()
    consumer,    \* child_event_consumer_t__
    reader,      \* exec_event_reader_t
    output,      \* what the output_reader_t has collected
    fds,         \* poll_handlers[].fd
    revents,     \* pollfds[].revents
    leaked,      \* a buffer of the reader was not freed
    reaped,      \* waitpid() returned the child's status
    unread,      \* history: pipes given up before their end
    \* the child
    cpc,         \* where it is in runner_run_testcase__ and the hooks
    status,      \* of the process
    sig,         \* disposition of the signals sigcapture__ captures
    entered,     \* number of stages entered so far
    pending,     \* write() calls on the hooks pipe still to be made
    report,      \* the failure passed to the event writer last
    exitType,    \* what the child will pass to exit()
    stdio,       \* output printed by the test but still buffered by stdio
    printed,     \* number of output cells printed
    signals,     \* number of signals received
    \* the pipes
    hooks, out

parentVars == <<pc, result, retval, started, completed, consumer, reader,
                output, fds, revents, leaked, reaped, unread>>
childVars == <<cpc, status, sig, entered, pending, report, exitType, stdio,
               printed, signals>>
vars == <<parentVars, childVars, hooks, out>>

ResultTypes == {"PASS", "FAIL", "SKIPPED", "ERROR"}
Result == [type : ResultTypes, failure : Failure]

StageSeq == <<"SETUP", "EXECUTION", "TEARDOWN">>

\* exec_hooks_t__.stage: SETUP until the first stage change.
HooksStage == IF entered = 0 THEN "SETUP" ELSE StageSeq[entered]

\* The child holds the only write ends: the hooks pipe until its writer is
\* destroyed, the output pipe until exit_child__ has closed stdout and stderr.
HooksOpen == status = "alive" /\ cpc \notin {"clear", "exit", "closed"}
OutputOpen == status = "alive" /\ cpc # "closed"

\* poll_handlers[], one for each pipe.
Handlers == {"hooks", "output"}

MayFail(call) == call \in Faults

\* MUTANT of CoerceResultType: the exit code is cast without validation.
CastResultType(code) ==
    CASE code = 0 -> "PASS"
      [] code = 1 -> "FAIL"
      [] code = 2 -> "SKIPPED"
      [] code = 3 -> "ERROR"
      [] OTHER -> "unknown"

\* coerce_result_type__
CoerceResultType(code) ==
    CASE code = 0 -> "PASS"
      [] code = 1 -> "FAIL"
      [] code = 2 -> "SKIPPED"
      [] OTHER -> "ERROR"

Init ==
    /\ pc = "create"
    /\ result = [type |-> "PASS", failure |-> NoFailure]
    /\ retval = -1
    /\ started = FALSE
    /\ completed = 0
    /\ consumer = [stage |-> "SETUP", failure |-> NoFailure]
    /\ reader = PrepNextMsg
    /\ output = <<>>
    /\ fds = [h \in Handlers |-> IF h = "hooks" THEN HooksFd ELSE OutputFd]
    /\ revents = [h \in Handlers |-> {}]
    /\ leaked = FALSE
    /\ reaped = FALSE
    /\ unread = {}
    /\ cpc = "none"
    /\ status = "none"
    /\ sig = "default"
    /\ entered = 0
    /\ pending = <<>>
    /\ report = NoFailure
    /\ exitType = "none"
    /\ stdio = <<>>
    /\ printed = 0
    /\ signals = 0
    /\ hooks = <<>>
    /\ out = <<>>

-------------------------------------------------------------------------------
(***************************************************************************)
(* Parent: create the result, the pipes and the child                       *)
(***************************************************************************)

\* A failure reported by the runner itself.
RunnerFailure == [by |-> "runner", stage |-> consumer.stage, size |-> 0]

\* retval = ctest_result_set_failure(result, CTEST_RESULT_ERROR, failure),
\* which returns zero.
SetError ==
    /\ result' = [type |-> "ERROR", failure |-> RunnerFailure]
    /\ retval' = 0

CreateResult ==
    /\ pc = "create"
    /\ \/ /\ MayFail("result")      \* retval is still -1
          /\ pc' = "returned"
          /\ UNCHANGED started
       \/ /\ pc' = "hooks_pipe"
          /\ started' = TRUE
    /\ UNCHANGED <<result, retval, completed, consumer, reader, output, fds,
                   revents, leaked, reaped, unread, childVars, hooks, out>>

\* One of pipe(), pipe() and fork() fails: the child never runs.
OpenPipe(call, next) ==
    /\ pc = call
    /\ \/ /\ MayFail(call)
          /\ SetError
          /\ pc' = "complete"
       \/ /\ pc' = next
          /\ UNCHANGED <<result, retval>>
    /\ UNCHANGED <<started, completed, consumer, reader, output, fds,
                   revents, leaked, reaped, unread, childVars, hooks, out>>

Fork ==
    /\ pc = "fork"
    /\ \/ /\ MayFail("fork")
          /\ SetError
          /\ pc' = "complete"
          /\ UNCHANGED <<status, cpc>>
       \/ /\ pc' = "poll"
          /\ status' = "alive"
          /\ cpc' = "init"
          /\ UNCHANGED <<result, retval>>
    /\ UNCHANGED <<started, completed, consumer, reader, output, fds,
                   revents, leaked, reaped, unread, sig, entered, pending,
                   report, exitType, stdio, printed, signals, hooks, out>>

\* The tail of runner_run_testcase__ when there is no child to wait for.
Complete ==
    /\ pc = "complete"
    /\ completed' = completed + 1
    /\ pc' = "returned"
    /\ UNCHANGED <<result, retval, started, consumer, reader, output, fds,
                   revents, leaked, reaped, unread, childVars, hooks, out>>

-------------------------------------------------------------------------------
(***************************************************************************)
(* Parent: wait_for_child__                                                 *)
(***************************************************************************)

\* What poll() reports of a pipe that holds "data"; a negative descriptor is
\* ignored.
Revents(fd, data, open) ==
    IF fd < 0 THEN {}
    ELSE (IF data # <<>> THEN {"IN"} ELSE {})
         \cup (IF open THEN {} ELSE {"HUP"})

Poll ==
    /\ pc = "poll"
    /\ \/ /\ \A h \in Handlers : fds[h] < 0
          /\ pc' = "wait"
          /\ UNCHANGED <<revents, result, retval>>
       \/ /\ \E h \in Handlers : fds[h] >= 0
          /\ MayFail("poll")
          /\ SetError
          /\ pc' = "kill"
          /\ UNCHANGED revents
       \/ /\ revents' = [h \in Handlers |->
                           IF h = "hooks"
                           THEN Revents(fds[h], hooks, HooksOpen)
                           ELSE Revents(fds[h], out, OutputOpen)]
          /\ \E h \in Handlers : revents'[h] # {}
          /\ pc' = "hooks"
          /\ UNCHANGED <<result, retval>>
    /\ UNCHANGED <<started, completed, consumer, reader, output, fds, leaked,
                   reaped, unread, childVars, hooks, out>>

\* The pipe has been closed and all its data drained ("else if" POLLHUP).
\* MUTANT of HungUp: POLLHUP is looked at before POLLIN.
HungUpEarly(handler) == "HUP" \in revents[handler]
HungUp(handler) == revents[handler] = {"HUP"}

\* f_close: make the descriptor negative so poll() will ignore it.
\* MUTANT of Close: the descriptor is left in the poll set.
CloseForgotten(handler) == UNCHANGED fds
Close(handler) == fds' = [fds EXCEPT ![handler] = -@]

\* The handler returned a negative number.
ReadFails(handler) ==
    /\ SetError
    /\ Close(handler)
    /\ unread' = unread \cup {handler}

\* reader_op_on_data_available__
ReadHooks ==
    /\ "IN" \in revents["hooks"]
    /\ ~BadAddress(reader)
    /\ LET wanted == Wanted(reader)
           n == IF wanted <= Len(hooks) THEN wanted ELSE Len(hooks)
           r == [reader EXCEPT !.got = @ \o SubSeq(hooks, 1, n)]
       IN  /\ hooks' = SubSeq(hooks, n + 1, Len(hooks))
           /\ IF ~MessageComplete(r)
              THEN reader' = r /\ pc' = "output" /\ UNCHANGED consumer
              ELSE \E allocated \in {TRUE, ~MayFail("malloc")} :
                   \E next \in Done(r, consumer, allocated) :
                     /\ reader' = next.reader
                     /\ consumer' = next.consumer
                     /\ pc' = IF DeserializesNull(r) THEN "crashed"
                                                     ELSE "output"
           /\ IF n = 0
              THEN Close("hooks") /\ unread' = unread \cup {"hooks"}
              ELSE UNCHANGED <<fds, unread>>
    /\ UNCHANGED <<result, retval>>

HandleHooks ==
    /\ pc = "hooks"
    /\ \/ ReadHooks
       \/ /\ "IN" \in revents["hooks"]
          /\ MayFail("read_hooks") \/ BadAddress(reader)
          /\ ReadFails("hooks")
          /\ pc' = "output"
          /\ UNCHANGED <<consumer, reader, hooks>>
       \/ /\ HungUp("hooks")
          /\ Close("hooks")
          /\ pc' = "output"
          /\ UNCHANGED <<result, retval, consumer, reader, unread, hooks>>
       \/ /\ revents["hooks"] = {}
          /\ pc' = "output"
          /\ UNCHANGED <<fds, result, retval, consumer, reader, unread, hooks>>
    /\ UNCHANGED <<started, completed, output, revents, leaked, reaped,
                   childVars, out>>

\* The data read is stored behind what was collected before.
\* MUTANT of Collect: it is stored at the beginning of the buffer.
CollectAtStart(collected, data) == data
Collect(collected, data) == collected \o data

\* op_on_data_available__ of output_reader.c: a read takes what fits into the
\* buffer, or drops the data when the buffer cannot be allocated.
HandleOutput ==
    /\ pc = "output"
    /\ \/ /\ "IN" \in revents["output"]
          /\ \E n \in 1 .. Len(out) :
               /\ out' = SubSeq(out, n + 1, Len(out))
               /\ \/ output' = Collect(output, SubSeq(out, 1, n))
                  \/ MayFail("output_alloc") /\ UNCHANGED output
          /\ UNCHANGED <<fds, result, retval, unread>>
       \/ /\ "IN" \in revents["output"]
          /\ MayFail("read_output")
          /\ ReadFails("output")
          /\ UNCHANGED <<output, out>>
       \/ /\ HungUp("output")
          /\ Close("output")
          /\ UNCHANGED <<result, retval, output, unread, out>>
       \/ /\ revents["output"] = {}
          /\ UNCHANGED <<fds, result, retval, output, unread, out>>
    /\ pc' = "poll"
    /\ UNCHANGED <<started, completed, consumer, reader, revents, leaked,
                   reaped, childVars, hooks>>

\* read_failure: SIGKILL has no effect on a child that is a zombie already.
\* MUTANT of Kill: the child is left alone.
KillForgotten ==
    /\ pc = "kill"
    /\ pc' = "wait"
    /\ UNCHANGED <<result, retval, started, completed, consumer, reader,
                   output, fds, revents, leaked, reaped, unread, childVars,
                   hooks, out>>
Kill ==
    /\ pc = "kill"
    /\ pc' = "wait"
    /\ status' = IF status = "alive" THEN "killed" ELSE status
    /\ UNCHANGED <<result, retval, started, completed, consumer, reader,
                   output, fds, revents, leaked, reaped, unread, cpc, sig,
                   entered, pending, report, exitType, stdio, printed,
                   signals, hooks, out>>

\* retval: a failed test counts, a skipped one does not.
\* MUTANT of ReturnValue: everything but a pass counts.
ReturnUnlessPass(type) == IF type = "PASS" THEN 0 ELSE 1
ReturnValue(type) == IF type \in {"PASS", "SKIPPED"} THEN 0 ELSE 1

\* WIFEXITED: the result is the one the child exited with; a failure the
\* child reported is handed over to it.
\* MUTANT of TakeExitStatus: an error met while reading is not overwritten.
KeepError ==
    /\ IF result.type = "ERROR"
       THEN UNCHANGED result
       ELSE result' = [type |-> exitType, failure |-> consumer.failure]
    /\ retval' = ReturnValue(exitType)
    /\ UNCHANGED consumer
\* MUTANT of TakeExitStatus: the failure is not handed over.
LoseFailure ==
    /\ retval' = ReturnValue(exitType)
    /\ result' = [type |-> exitType, failure |-> NoFailure]
    /\ UNCHANGED consumer
TakeExitStatus ==
    /\ retval' = ReturnValue(exitType)
    /\ IF exitType = "PASS"
       THEN /\ result' = [type |-> "PASS", failure |-> NoFailure]
            /\ UNCHANGED consumer
       ELSE /\ result' = [type |-> exitType, failure |-> consumer.failure]
            /\ consumer' = [consumer EXCEPT !.failure = NoFailure]

\* WIFSIGNALED
\* MUTANT of TakeSignal: WEXITSTATUS, which is 0, is used regardless.
TakeSignalAsExit ==
    /\ result' = [type |-> "PASS", failure |-> NoFailure]
    /\ retval' = 0
TakeSignal == SetError

\* waitpid() blocks until the child is dead and returns its status, or fails at
\* once, with the child alive or dead (EINTR, or ECHILD when SIGCHLD is ignored);
\* it is not called again.
Wait ==
    /\ pc = "wait"
    /\ pc' = "done"
    /\ \/ MayFail("wait") /\ SetError /\ UNCHANGED <<reaped, consumer>>
       \/ status = "exited" /\ TakeExitStatus /\ reaped' = TRUE
       \/ /\ status = "killed" /\ TakeSignal /\ reaped' = TRUE
          /\ UNCHANGED consumer
    /\ UNCHANGED <<started, completed, reader, output, fds, revents, leaked,
                   unread, childVars, hooks, out>>

\* done: build the output, destroy the readers (closing the read ends of the
\* pipes) and complete the report.
Finish ==
    /\ pc = "done"
    /\ \E position \in {"below", "beyond"} :
         leaked' = (reader.buf = "failure" /\ ~DestroyFrees(reader, position))
    /\ consumer' = [consumer EXCEPT !.failure = NoFailure]
    /\ completed' = completed + 1
    /\ pc' = "returned"
    /\ UNCHANGED <<result, retval, started, reader, output, fds, revents,
                   reaped, unread, childVars, hooks, out>>

ParentNext ==
    \/ CreateResult
    \/ OpenPipe("hooks_pipe", "output_pipe")
    \/ OpenPipe("output_pipe", "fork")
    \/ Fork
    \/ Complete
    \/ Poll
    \/ HandleHooks
    \/ HandleOutput
    \/ Kill
    \/ Wait
    \/ Finish

-------------------------------------------------------------------------------
(***************************************************************************)
(* Child                                                                    *)
(***************************************************************************)
ChildUnchanged == UNCHANGED <<parentVars, status, signals>>

\* The parent holds the only read ends, until the readers are destroyed.
Readers == pc \notin {"returned", "crashed"}

\* Redirect stdin, stdout and stderr, initialise the hooks, capture signals.
ChildStart ==
    /\ status = "alive" /\ cpc = "init"
    /\ cpc' = "stage"
    /\ sig' = "captured"
    /\ ChildUnchanged
    /\ UNCHANGED <<entered, pending, report, exitType, stdio, printed, hooks,
                   out>>

\* exec_hooks_op_on_stage_change__, called by the test case for each stage.
EnterStage ==
    /\ status = "alive" /\ cpc = "stage"
    /\ entered' = entered + 1
    /\ pending' = StageChangeEvent(StageSeq[entered + 1])
    /\ cpc' = "write"
    /\ ChildUnchanged
    /\ UNCHANGED <<sig, report, exitType, stdio, printed, hooks, out>>

\* Where the child goes once the event is written.
AfterWrite == IF exitType = "none" THEN "code" ELSE "close"

\* A write() on the hooks pipe blocks until there is room.
WriteHooks ==
    /\ status = "alive" /\ cpc = "write" /\ Readers
    /\ \E n \in Transfers(Head(pending), HooksCap - Len(hooks)) :
         LET cells == Head(pending)
             rest == SubSeq(cells, n + 1, Len(cells))
         IN  /\ hooks' = hooks \o SubSeq(cells, 1, n)
             /\ pending' = IF rest = <<>> THEN Tail(pending)
                                          ELSE <<rest>> \o Tail(pending)
    /\ cpc' = IF pending' = <<>> THEN AfterWrite ELSE "write"
    /\ ChildUnchanged
    /\ UNCHANGED <<sig, entered, report, exitType, stdio, printed, out>>

\* The test prints: stdio buffers ...
PrintOutput ==
    /\ status = "alive" /\ cpc = "code"
    /\ printed < MaxOutput
    /\ printed' = printed + 1
    /\ stdio' = Append(stdio, printed + 1)
    /\ ChildUnchanged
    /\ UNCHANGED <<cpc, sig, entered, pending, report, exitType, hooks, out>>

\* ... and writes its buffer, at any time or in exit_child__.
FlushOutput ==
    /\ status = "alive" /\ cpc \in {"code", "exit", "quit"} /\ Readers
    /\ stdio # <<>>
    /\ Len(out) < OutputCap
    /\ out' = Append(out, Head(stdio))
    /\ stdio' = Tail(stdio)
    /\ ChildUnchanged
    /\ UNCHANGED <<cpc, sig, entered, pending, report, exitType, printed,
                   hooks>>

\* The code of a stage returns: the next stage, or the end of the test case.
StageReturns ==
    /\ status = "alive" /\ cpc = "code"
    /\ cpc' = IF entered < Len(StageSeq) THEN "stage" ELSE "restore"
    /\ ChildUnchanged
    /\ UNCHANGED <<sig, entered, pending, report, exitType, stdio, printed,
                   hooks, out>>

\* exec_hooks_on_short_circuit__: the test failed or was skipped.
ShortCircuit(type, failure) ==
    /\ status = "alive" /\ cpc = "code"
    /\ exitType' = type
    /\ report' = failure
    /\ IF failure # NoFailure
       THEN pending' = FailureEvent(failure) /\ cpc' = "write"
       ELSE cpc' = "close" /\ UNCHANGED pending
    /\ ChildUnchanged
    /\ UNCHANGED <<sig, entered, stdio, printed, hooks, out>>

\* A failure has the stage it was recorded in: the present one, or an earlier
\* one when the test case went on after it.
TestFailures ==
    [by : {"test"}, stage : {StageSeq[i] : i \in 1 .. entered},
     size : FailureSizes]
    \cup (IF MayFail("failure_create") THEN {NoFailure} ELSE {})

\* The code under test calls exit() itself.
TestExits(code) ==
    /\ status = "alive" /\ cpc = "code"
    /\ exitType' = CoerceResultType(code)
    /\ cpc' = "quit"
    /\ ChildUnchanged
    /\ UNCHANGED <<sig, entered, pending, report, stdio, printed, hooks, out>>

\* The test case passed.
SigRestore ==
    /\ status = "alive" /\ cpc = "restore"
    /\ sig' = "default"
    /\ exitType' = "PASS"
    /\ cpc' = "close"
    /\ ChildUnchanged
    /\ UNCHANGED <<entered, pending, report, stdio, printed, hooks, out>>

\* exec_hooks_destroy__ closes the pipe and then clears the hooks.
DestroyHooks ==
    /\ status = "alive" /\ cpc \in {"close", "clear"}
    /\ cpc' = IF cpc = "close" THEN "clear" ELSE "exit"
    /\ ChildUnchanged
    /\ UNCHANGED <<sig, entered, pending, report, exitType, stdio, printed,
                   hooks, out>>

\* fclose() has written all that was buffered.
\* MUTANT of Flushed: the child exits without flushing.
NotFlushed == TRUE
Flushed == stdio = <<>>

\* exit_child__ closes the streams ...
CloseStreams ==
    /\ status = "alive" /\ cpc = "exit"
    /\ Flushed
    /\ cpc' = "closed"
    /\ ChildUnchanged
    /\ UNCHANGED <<sig, entered, pending, report, exitType, stdio, printed,
                   hooks, out>>

\* ... and calls exit().
Exit ==
    /\ status = "alive"
    /\ cpc = "closed" \/ (cpc = "quit" /\ Flushed)
    /\ status' = "exited"
    /\ UNCHANGED <<parentVars, cpc, sig, entered, pending, report, exitType,
                   stdio, printed, signals, hooks, out>>

SignalFailure ==
    [by |-> "signal", stage |-> HooksStage, size |-> SignalFailureSize]

\* exec_hooks_on_signal__, with all signals masked.  Once the writer is
\* closed its writes fail; once the hooks are cleared the handler calls
\* through a NULL pointer, and the masked SIGSEGV kills the child.
HandleSignal ==
    IF cpc \in {"exit", "closed"}
    THEN /\ status' = "killed"
         /\ UNCHANGED <<cpc, sig, pending, report, exitType>>
    ELSE /\ sig' = "handling"
         /\ exitType' = "FAIL"
         /\ report' = SignalFailure
         /\ IF cpc = "clear"
            THEN UNCHANGED <<cpc, pending>>
            ELSE cpc' = "write" /\ pending' = FailureEvent(SignalFailure)
         /\ UNCHANGED status

\* A write() of a child whose parent is gone raises SIGPIPE, which is among
\* the signals that are captured; when it is masked the write() fails, and what
\* was to be written is given up.
WriteBroken ==
    /\ status = "alive" /\ ~Readers
    /\ cpc = "write" \/ (cpc \in {"code", "exit", "quit"} /\ stdio # <<>>)
    /\ \/ /\ sig = "default"
          /\ status' = "killed"
          /\ UNCHANGED <<cpc, sig, pending, report, exitType>>
       \/ sig = "captured" /\ HandleSignal
       \/ /\ sig = "handling"
          /\ cpc' = IF cpc = "write" THEN AfterWrite ELSE "closed"
          /\ pending' = <<>>
          /\ UNCHANGED <<status, sig, report, exitType>>
    /\ UNCHANGED <<parentVars, entered, stdio, printed, signals, hooks, out>>

ChildNext ==
    \/ ChildStart
    \/ EnterStage
    \/ WriteHooks
    \/ PrintOutput
    \/ FlushOutput
    \/ StageReturns
    \/ \E type \in {"FAIL", "SKIPPED"}, failure \in TestFailures :
         ShortCircuit(type, failure)
    \/ \E code \in ExitCodes : TestExits(code)
    \/ SigRestore
    \/ DestroyHooks
    \/ CloseStreams
    \/ Exit
    \/ WriteBroken

-------------------------------------------------------------------------------
(***************************************************************************)
(* Signals sent to the child                                                *)
(***************************************************************************)
CatchSignal ==
    /\ status = "alive" /\ sig = "captured"
    /\ "catchable" \in SignalKinds /\ signals < MaxSignals
    /\ signals' = signals + 1
    /\ HandleSignal
    /\ UNCHANGED <<parentVars, entered, stdio, printed, hooks, out>>

\* A signal with its default disposition: SIGKILL and the signals that are
\* not in signals__, or any signal outside of the captured region.
Terminate ==
    /\ status = "alive" /\ signals < MaxSignals
    /\ \/ "uncatchable" \in SignalKinds
       \/ "catchable" \in SignalKinds /\ sig = "default"
    /\ signals' = signals + 1
    /\ status' = "killed"
    /\ UNCHANGED <<parentVars, cpc, sig, entered, pending, report, exitType,
                   stdio, printed, hooks, out>>

\* The run is over: runner_run_testcase__ has returned (or crashed).
Terminating == pc \in {"returned", "crashed"} /\ UNCHANGED vars

Next == ParentNext \/ ChildNext \/ CatchSignal \/ Terminate \/ Terminating

\* The scheduler runs both processes and the test's own code terminates;
\* signals need never come.
Fairness == WF_vars(ParentNext) /\ WF_vars(ChildNext)

Spec == Init /\ [][Next]_vars
FairSpec == Spec /\ Fairness
-------------------------------------------------------------------------------
(***************************************************************************)
(* Properties                                                               *)
(***************************************************************************)
ParentTypeOK ==
    /\ pc \in {"create", "hooks_pipe", "output_pipe", "fork", "poll", "hooks",
               "output", "kill", "wait", "done", "complete", "returned",
               "crashed"}
    /\ result \in Result
    /\ retval \in {-1, 0, 1}
    /\ completed \in {0, 1}
    /\ consumer \in Consumer
    /\ reader \in Reader
    /\ output \in Seq(Nat)
    /\ fds \in [Handlers -> Int]
    /\ revents \in [Handlers -> SUBSET {"IN", "HUP"}]
    /\ unread \subseteq Handlers

FlagsTypeOK == started \in BOOLEAN /\ leaked \in BOOLEAN /\ reaped \in BOOLEAN

ChildTypeOK ==
    /\ cpc \in {"none", "init", "stage", "write", "code", "restore", "close",
                "clear", "exit", "closed", "quit"}
    /\ status \in {"none", "alive", "exited", "killed"}
    /\ sig \in {"default", "captured", "handling"}
    /\ entered \in 0 .. Len(StageSeq)
    /\ pending \in Seq(Seq(Cell))
    /\ report \in Failure
    /\ exitType \in ResultTypes \cup {"none"}
    /\ stdio \in Seq(Nat)
    /\ printed \in 0 .. MaxOutput
    /\ signals \in 0 .. MaxSignals

PipesTypeOK ==
    /\ hooks \in Seq(Cell) /\ Len(hooks) <= HooksCap
    /\ out \in Seq(Nat) /\ Len(out) <= OutputCap

\* The state of the parent, of the child and of the two bounded pipes: what
\* is read off the hooks pipe always makes a reader and a consumer.
TypeOK == ParentTypeOK /\ FlagsTypeOK /\ ChildTypeOK /\ PipesTypeOK

\* No test case is left running behind the next one.  The child may only outlive
\* runner_run_testcase__ when waitpid() has failed, which is reported as an error,
\* and is then past its test case, with nothing left but its exit(), unless its
\* output could not be read.
NoOrphan ==
    pc \in {"done", "returned"} /\ status = "alive" =>
        /\ ~reaped /\ result.type = "ERROR"
        /\ cpc = "closed" \/ "output" \in unread

\* wait_for_child__ only blocks in waitpid() once the child can no longer
\* block in a write(): both pipes are drained to their end.
DrainedBeforeWait ==
    pc \in {"wait", "done"} =>
        hooks = <<>> /\ out = <<>> /\ ~HooksOpen /\ ~OutputOpen

\* A test case is only reported as passed when its three stages returned and
\* neither a failure, a skip nor a signal cut them short.  (exec_hooks.h:20-21:
\* "success is implicit when the function for executing a test case returns";
\* it takes a test that calls exit(0) to break this.)
PassMeansPassed ==
    completed = 1 /\ result.type = "PASS" =>
        /\ status = "exited" /\ reaped
        /\ entered = Len(StageSeq) /\ sig = "default"
        /\ report = NoFailure /\ result.failure = NoFailure

\* The verdict is the one the child exited with, or an error when the child
\* was killed, whatever was read from the pipes before.
VerdictFaithful ==
    completed = 1 /\ reaped =>
        result.type = IF status = "exited" THEN exitType ELSE "ERROR"

\* The failure in the result is the last one the child passed to its event
\* writer, with the stage it happened in.
FailureFaithful ==
    completed = 1 /\ status = "exited" /\ result.type \in {"FAIL", "SKIPPED"} =>
        result.failure = report

\* What is collected is a prefix of what the test printed, in order, and all
\* of it when the child exits by itself.
OutputFaithful ==
    /\ output = [i \in 1 .. Len(output) |-> i]
    /\ completed = 1 /\ status = "exited" => Len(output) = printed

\* The condition under which exec_event_reader_destroy frees a half-read
\* failure never holds; it is not needed as long as the child is not killed
\* in the middle of its message, since every message is read to its end.
LeakOnlyWhenCut == leaked => status = "killed" /\ cpc = "write"

\* The parent never believes the child to be further than it is, and never gets
\* a failure of a stage it has not been told of.
StageNotAhead ==
    /\ StageNumber[consumer.stage] <= StageNumber[HooksStage]
    /\ consumer.failure # NoFailure =>
         StageNumber[consumer.failure.stage] <= StageNumber[consumer.stage]

\* exec_hooks.h:41: execution "progresses (monotonically increasingly)
\* through several stages", in the parent's view too.
StageMonotone ==
    [][StageNumber[consumer.stage] <= StageNumber[consumer'.stage]]_vars

\* Under fair scheduling the run always comes to its end: parent and child
\* never wait for each other.
Completes == <>(pc = "returned")

\* The run of a test case, as the callers of the runner see it.
Phase ==
    CASE pc = "create" -> "pending"
      [] pc = "returned" /\ ~started -> "abandoned"
      [] completed > 0 -> "completed"
      [] OTHER -> "running"

Verdict == IF completed > 0 THEN result.type ELSE "none"
ReturnCode == IF pc = "returned" THEN retval ELSE 0

Run == INSTANCE TestcaseRun
       WITH phase <- Phase, verdict <- Verdict, rc <- ReturnCode

\* The runner keeps the promise of a run_testcase callback: the report is
\* started, completed at most once, and the return value agrees with it.
ImplementsRun == Run!RunSpec

(***************************************************************************)
(* What the documentation promises and the code does not keep               *)
(***************************************************************************)

\* runner.h:56-57: "If zero is returned, all test cases passed or were
\* skipped."
ErrorsCounted ==
    completed = 1 /\ retval = 0 => result.type \in {"PASS", "SKIPPED"}

\* exec_events.h:98-99: writing a failure event "is a blocking call that will
\* return when the failure event is completely written".
WriterReturns == (status = "alive" /\ cpc = "write") ~> cpc # "write"
===============================================================================
