# A verification of ctest

ctest runs C unit tests. A test suite is a shared library of tests, each a
function with a fixture and a data provider; the data make the test cases. The
runner executes every test case, in a child process (the *forking runner*) or in
its own process (the *direct runner*), turns whatever happens to it into one
result, and hands that to a reporter. This directory holds TLA+ models of this
machinery, the properties that make it correct, TLC configurations that check
them on small instances, and TLAPS proofs for instances of every size.

## Inventory

| Part | Source (`src/src/exec` unless said otherwise) | State it keeps | Operations | Module | Status |
|---|---|---|---|---|---|
| Forking runner | `forking_runner.c` | the result; two pipes; the child; poll handlers | run a test case: pipes, fork, poll loop, waitpid, report; hooks and signal handler of the child | `ForkingRunner` | modelled |
| Execution events | `exec_events.c/.h` | the reader's buffer, offset and continuation | write stage change / failure; read, reframe, deliver | `ExecEvents` | modelled |
| Execution hooks | `include/ctest/exec/exec_hooks.h` | – (interface) | stage change, skip, failure | `ExecHooks` | abstract specification |
| Test case execution | `loader.c` (`testcase_op_execute__`), `tests/stub.c` | dynamic operations on the stack, the module's pointer to them, fixture | setup, test, teardown; report, abort | `TestcaseExecute` | modelled |
| Runner utilities | `runner_utils.c/.h` | arrays being rearranged, live reporters, sums | run suites / tests / test cases | `Repartition`, `RunnerUtils` | modelled |
| Direct runner | `direct_runner.c` | descriptors, stdio buffers, jump buffer, handlers, result | run a test case in the process | `DirectRunner` | modelled |
| Signal capture | `sig.c` | saved dispositions, the handler | capture, restore | `SigCapture` | modelled |
| Console reporter | `console_reporter.c` | state of each of four reporters, a stream of its own | create, start, complete, destroy | `RunnerUtils` (which exist), `TestcaseReport` (what is shown) | modelled |
| Output reader | `output_reader.c`, `output.c` | growing buffer | read, build, destroy | `OutputReader`; the interleaving in `ForkingRunner` | modelled |
| Results | `result.c` | type, failure, output | create, set, destroy | `TestcaseReport` and both runners | modelled |
| Failure storage | `failure.c`, `location.c`, `stacktrace.c`, `serialization.h` | one block of memory with relative pointers | format, serialize, deserialize | `FailureStorage` | modelled |
| Loader | `loader.c` (the rest) | module handle, suite, tests, test cases | load, destroy | `Loader` | modelled |
| Command line | `src/src/cli/main.c` | loaded suites, reporter, runner, exit status | run, ls | `Cli` | modelled |
| Test suite builder, tmpdir fixture, macros, examples | | | | – | not modelled: test support, file system I/O, preprocessor tables |

How they interact: `RunnerUtils` calls a runner for each test case and passes it
the reporter of that test case (`TestcaseRun` is the contract it asks for). A runner calls
`ctest_testcase_execute` with its hooks (`ExecHooks` is that contract). The forking
runner's child sends what its hooks are told through `ExecEvents` on one pipe and
its stdout on another; the parent polls both. Both runners take over signals with
`SigCapture` around the execution. The code under test reports failures through a
pointer in its module that the execution swaps in and out. `Cli` puts it together:
suites from the `Loader`, a reporter, a runner, and for each test case a result that
`TestcaseReport` follows from the runner to the console, with the output and the failure
it owns.

What is hard here: two processes with bounded pipes between them; a child that can
die between any two steps; signal handlers that write to the pipe or jump out of the
code they interrupt; a framed protocol whose reader must survive broken frames;
nested aborts; state of the process (descriptors, stdio, dispositions, the module's
pointer) that has to be as before however a test ends; cleanup paths when one of
several acquisitions fails. `PROJECT.json` lists these hazards line by line with the
properties that would catch them.

## Modules

**`ExecEvents`** – the protocol as operators. A message is a header and a body, each
written with a `write()` of its own; the unit is a *cell* (a header, a stage, or a
piece of a failure). A cell knows what it was written as, so that a reader that lost
the framing takes it for something else: `AsHeader`, `AsStage`, `AsFailure` are
then arbitrary. `LenMod` is 2^16 of `header.length`, `PipeBuf` the size up to which a
`write()` is atomic, `DropCap` the size of the buffer unwanted bytes are read into.

**`ForkingRunner`** – one call of `runner_run_testcase__`, parent and child. One
action per step another process or a signal can see: each acquisition, `poll()`,
each handler, `kill`, `waitpid`, the final report; in the child each stage change,
each `write()` (split when the pipe is full), each chunk of output, the ways a stage
ends (return, failure, skip, `exit()`), and the steps of exiting: the hooks pipe is
closed, then stdout, then the process ends, so that both pipes may hang up while the
child still lives. Signals are two actions, caught or fatal, possible wherever the
dispositions allow. `waitpid()` may fail with the child alive or dead; a child that is
left behind goes on, and finds its pipes broken when it writes (`WriteBroken`: the
SIGPIPE is a signal like the others, or EPIPE when it is masked). `Faults` is the set of
calls that may fail. Variables carry the names of the code where there is one; `reaped`,
`unread`, `printed`, `entered` and `signals` are history or bounds.

**`TestcaseRun`** – the abstract specification of a `run_testcase` callback: the
report is started, completed at most once, and the return value agrees with the
result; or nothing is reported and the value is negative. `ForkingRunner` is shown to
implement it, and `RunnerUtils` uses its actions for the call. The direct runner does not
implement it: without descriptors it returns 1 and reports nothing, and it returns 1 for a
skipped test case (`direct_skip`); what `RunnerUtils` is shown to add up is then what the
callback returned, not what happened.

**`ExecHooks`** – the abstract specification of executing a test case towards its
hooks. `TestcaseExecute` is shown to implement it; `DirectRunner` uses its actions.

**`TestcaseExecute`** – `testcase_op_execute__` and the dynamic operations:
`provider` is chosen initially (with or without setup, teardown, a large fixture, a
module with hooks), the code under test reports, aborts or returns in every stage,
also in a teardown run by an abort. A signal takes the control away.

**`Repartition`** – the two in-place sorts. The copy holds positions of the input, so
that equal elements stay distinguishable; `sorted`, `write`, `read`, `active`,
`next` are the code's variables (indices are one higher).

**`RunnerUtils`** – the three entry points and the loops they share, with the
reporters they create. Allocation may fail everywhere; the reporters' refusal of a
test that is not theirs is modelled too, and `ResultFaithful` shows it never happens.

**`DirectRunner`** – `runner_run_testcase__` of the direct runner for several test
cases in a row. `table` is the table of descriptors of the process: a new one gets the
lowest free number, `close()` frees the number whoever it belongs to. `loc` holds the five
local variables, `ladder` how many of them the labels from the present one on close; a
variable that was never assigned may hold any number, so that a jump to a wrong label
closes a descriptor of somebody else or forgets one of its own. Each of the six `dup2()`,
none of which the code checks, and `sigrestore__()`, whose result it ignores, may fail: a
standard descriptor then stays closed, its number is handed out again by the next test
case, and handlers stay installed. `stdio` is the buffer of stdout; where it is flushed to
depends on what descriptor 1 refers to at that moment. `CatchSignal` is the `siglongjmp()`;
a local variable changed since `sigsetjmp()` is then indeterminate. A signal that is still
caught after the function with the `sigsetjmp()` has returned is undefined behaviour
(`StraySignal`), of which nothing more is said.

**`SigCapture`** – `sigcapture__` and `sigrestore__`, one `sigaction()` per step, with
failing calls, repeated calls and code under test that changes dispositions.

**`Heap`** – what the process has acquired and not yet released, with a history variable
that notices a release or a use of something that is not held; any acquisition may fail.
`Loader`, `OutputReader`, `TestcaseReport` and `Cli` are written on top of it.

**`Loader`** – `ctest_load_testsuite`, one action per call that can fail, and
`testsuite_op_destroy__`. `DlOpenFailed`, `TestCreationFailed` and the others are what
the labels of the same names release. What a file contains is the constant `Module`:
the verdict of libltdl and of the checks, and its tests with their test cases, each with
or without a name of its own. Destroying a test case reads a name in the module
(`loader.c:317`), so the module has to be open still.

**`OutputReader`** – the buffer of `output_reader.c`: created, doubled, cut to length and
terminated, each of which may be refused, and `read_output__` of the direct runner. The
cells printed are 1, 2, ..., so that a hole in what is kept can be seen.

**`FailureStorage`** – the storage functions of failures, locations and stack traces as
operators on a memory of addresses, names as in the code. A string is a text and its
length, which decides the offsets of what comes behind it; `Ofs` is the variable of that
name in the functions of stack traces, after each frame. `Read` follows the pointers
the way the reporter does; a pointer to where nothing starts gives `Garbage`. Sizes are
in units of which a pointer has `Word`; `int` counts as a word, as its padding makes it.
`IsFailure` says what the structures of `failure.h`, `location.h` and `stacktrace.h` can
hold; the failures of a model are assumed to be such.

**`TestcaseReport`** – one result: created by the runner, given a verdict, a failure and
an output, shown and destroyed by the reporter. The failure of a child goes through
`failure_storage_format`, `_serialize`, a copy to another address and `_deserialize`. How a
runner finds the verdict is not repeated here: `Returns` is what `ForkingRunner` and
`DirectRunner` are shown to return. The reporter's stream has a buffer a forked child has
a copy of.

**`Cli`** – `main()`, `run__()`, `ls__()` and the collection of suites, from the command
line to the exit status, composed of `Loader` and `TestcaseReport`. Test cases are taken in
the order `RunnerUtils` is shown to keep; `RunFails` is a reporter that could not be
created on the way.

**`MC…`** modules give constants their values. The **`…Proofs`** modules hold the theorems
about the module they extend; **`SequenceLemmas`** holds what several of them need to
know about numbers and sequences.

Names such as `HungUpEarly` below a comment `MUTANT of …` are plausible bugs: each
property is known to fail when the definition is replaced by its mutant.

## Runs

| Run | Question | Bounds |
|---|---|---|
| `forking_kills` | Does the parent get everything the child sent, in order and of a stage already announced, and do both come to an end, when the child may be killed at any point? (`DrainedBeforeWait`, `FailureFaithful`, `OutputFaithful`, `StageNotAhead`, `StageMonotone`, `LeakOnlyWhenCut`, `Completes`) | pipes of 2 and 1 cells: smaller than a failure (3) and than the output (2), so that both writers block; one kill; `waitpid()` may fail |
| `forking_faults` | With caught and fatal signals and every call failing at will: is no test case left running behind its result (`NoOrphan`), is the verdict the child's, does a pass mean a pass, are the reports as `TestcaseRun` says? | two signals; all eleven faults |
| `execute_stages` | Teardown, fixture, pointer, first failure and verdict over all combinations of reports, aborts and nested aborts; refinement of `ExecHooks` | 3 reports: one before, in and after an abort |
| `runner_utils_runs` | Are selections put in the promised order without losing one, is every test case run in its place (`InOrder`), do reporters nest and is every report opened once (`ReportersNested`), are sums and errors right? | all selections of up to 4 test cases or 3 tests or suites, three suites (one empty, one with an empty test); 3 tests in one suite make `next_test` matter |
| `direct_runs` | Are the descriptors and handlers as before, or damaged by nothing but the call that should have restored them (`ProcessRestored`), and are output and verdict those of the test case, however it ends and whatever fails? | 3 test cases, so that one runs in a process that two others have damaged; 2 cells of output, 2 signals each; 9 descriptors, of which 0, 1, 2 and 4 are in use: exactly the five a test case needs are free, so a leak makes the next test case fail, and one in the middle belongs to somebody else |
| `sig_cycles` | Are dispositions remembered and given back under failing calls? | 6 signals, one unknown to the system |
| `cli_sessions` | Whole invocations: is everything released once and not used afterwards, do output and failure get to the console whole, is each test case shown once, is the exit status right, does the command end? (`Released`, `OutputIntact`, `ReportFaithful`, `ExitFaithful`, `Terminates`) | every command and option; up to 2 suites out of 5 files (a test with 2 test cases and one with none, one test case, no tests, a wrong version, not a module); any 2 calls failing, so that a cleanup follows a loss; up to 5 cells of output for a buffer of 2 that doubles twice; 29 failures with strings that end at, before and behind a word of 4 |

Runs that show a disagreement between the code and what it documents:

| Run | What it shows |
|---|---|
| `forking_errors` | A test killed by a signal makes the runner return 0 (`forking_runner.c:366`), so the run counts as successful; `runner.h` says that 0 means passed or skipped. |
| `forking_interrupted` | A signal between the two `write()`s of an event garbles the stream: the failure of a failed test is lost (`forking_runner.c:108`). |
| `forking_long_failure` | A failure of 64 KiB or more wraps the 16-bit length; the reader loses the framing and stops, the child blocks for ever (`exec_events.c:59`). |
| `execute_no_memory` | When the fixture cannot be allocated the module keeps a pointer into a dead stack frame (`loader.c:217`, against the comment in `loader.c:205`). |
| `direct_skip` | The direct runner counts a skipped test as failed (`direct_runner.c:193`). |

Disagreements the models show without a run of their own:

- A test that calls `exit(0)` passes in the forking runner (`forking_runner.c:349`),
  where `exec_hooks.h:20` ties success to returning. `PassMeansPassed` is checked for
  other exit codes, and proved under exactly that assumption.
- `exec_event_reader_destroy` never frees a half-read failure: its condition
  (`exec_events.c:260`) asks for an address below and beyond the reader at once.
  `LeakOnlyWhenCut` says when this matters.
- A signal ends a test case without its teardown, where the tutorial on fixtures says
  it is always called. `CleanedUp` excepts signals.
- In the direct runner a signal caught after the test case returned reports a failure
  while the returned value may still be 0 (`direct_runner.c:230`, a local variable that
  is not volatile); `VerdictFaithful` says exactly this.
- In the direct runner a descriptor that cannot be opened returns 1, a failed test,
  without any report, where `runner_utils.h:28` asks for a negative value, and the result
  is never destroyed (`direct_runner.c:199`).
- When one `dup2()` of the direct runner fails to restore a standard descriptor
  (`direct_runner.c:270`), all later test cases run without it, and each of them may lose
  another; only the descriptors above 2 are always as before.
- When `waitpid()` fails, as it may with EINTR, the code does not try again
  (`forking_runner.c:338`): the child stays a zombie, or runs on if its output could not be
  read. `NoOrphan` says that this is reported as an error and when it can happen.
- `ctest_load_testsuite` destroys the advice for libltdl only when it fails
  (`loader.c:550`), and does not free the array of tests when a test cannot be created
  (`loader.c:552`). `Forgotten` in `Cli` lists these and nothing else.
- `output_reader_build` returns NULL also when data was read for which there was no
  memory, where its comment (`output_reader.c:99`) says "NULL if no data has been read";
  and when the buffer is full and cannot be resized, the NUL is written one past its end
  (`output_reader.c:115`): the value "overrun" of `output`. `OutputIntact` excepts
  allocations that were refused.
- A description that `vsnprintf()` could not make is NULL, and crashes the reporter
  (`console_reporter.c:109`): `Complete` then ends in "dead".
- `failure.c:224` assigns (`len = ...`) where it means to subtract, and `stacktrace.c:28`
  takes the size of a pointer for that of the structure; both are without effect as the
  length is not used and the sizes are equal.

**Fairness.** `forking_kills` assumes weak fairness of the parent and of the child as
wholes: the scheduler runs both, and test code terminates. Signals and failures are never
required. The other liveness properties are about single-threaded code: weak fairness of
its next step; in `cli_sessions` too, where a test case and what it prints come to an end.
`forking_faults` has no liveness property and allows deadlock: after a
read error the code stops reading a pipe that stays open, and a child that fills it waits
for ever, with the parent in `waitpid()`.

**Why the bounds are enough.** The control of every module depends on comparisons of
lengths with capacities (empty, partial, full, larger than the pipe) and on which of a
handful of events comes next; each occurs within the bounds. Payloads are only compared
for identity.

## Proofs

All theorems hold for every value of the constants that satisfies the named
assumptions of the modules; the few that ask for more name it as a hypothesis.

**`ForkingRunnerProofs`** (from `EventsAssumption` and `RunnerAssumption`): for pipes of
any capacity, failures of any size, including those whose length wraps, any amount of
output, any number of signals and any set of failing calls.

| Theorem | States |
|---|---|
| `Invariance` | `Spec => []IInv`, the inductive invariant; also when garbage is read for an event, the reader never fills its buffer beyond the end |
| `TypeCorrect` | `TypeOK`: also when garbage is read for an event, the reader stays in one of its states; a pipe never holds more than its capacity |
| `NeverOrphans` | `NoOrphan`: whichever calls fail, a child that is alive when the runner goes on was not reaped, the result is an error, and the child has closed its output and has only its `exit()` left, unless the `read()` of its output had failed |
| `VerdictCorrect` | `VerdictFaithful`: the result of a reaped child is what it exited with, or an error when it was killed |
| `PassCorrect` | `PassMeansPassed`, under the one additional assumption that the code under test does not call `exit(0)` |
| `Refinement` | `ForkingRunner` implements `TestcaseRun` |

None of these is inductive by itself. `IInv` has four parts. `TypeOK`; `ReaderInv` ties
the reader's buffer to the message it waits for (without it the garbage a cut stream is
taken for could leave its types); `ParentInv` says for each place of the parent what it
knows there: whether the report was started, whether there is a child, that an error
path has set the result, that a reaped child is a dead one (this is what
`VerdictFaithful` and the refinement need); `ChildInv` says for each place of the
child which stages were entered and whether the exit code is decided (a pass is decided
only behind the third stage with the signals restored). `IInv` is preserved action by
action; lemmas about the operators of `ExecEvents` carry the steps of the reader.

`NoOrphan` needs more, as the guard of `waitpid()` says nothing of the child: `OrphanInv`
follows the descriptor of the output pipe. It is taken out of `poll()` only by a failed
`read()` or by a hang-up that was seen when the child had closed its output, which it never
opens again (`OutputClosedStays`), and `waitpid()` is reached only with that descriptor out or
behind the `kill()`.

The second half of **`ForkingRunnerProofs`** is about what gets from the child to the
parent. The runs show these properties when the child may only be killed; the theorems
name the weakest conditions on `Faults`, `FailureSizes` and `SignalKinds` they were found to
need, as hypotheses:

- `OutputReadable`: `poll()` and the `read()` of the output do not fail (after a failure the
  code stops reading the pipe);
- `OutputStored`: the output's buffer can be allocated (otherwise it is dropped);
- `EventsReadable`: `poll()` and the `read()` of the events do not fail, there is memory
  for a failure, its size fits the 16-bit length, and no signal handler writes into the pipe.
  The last two are what `forking_long_failure` and `forking_interrupted` are about.

Everything else (pipes, `fork()`, `kill`, `waitpid`, results, fatal signals at any point) may
still fail or happen.

| Theorem | States | Hypotheses |
|---|---|---|
| `OutputCorrect` | `OutputFaithful` | `OutputReadable`, `OutputStored` |
| `EventsInvariance` | the invariant `EventsInv` | `EventsReadable` |
| `DrainedCorrect` | `DrainedBeforeWait` | `EventsReadable`, `OutputReadable` |
| `StageCorrect`, `FailureCorrect`, `LeakCorrect` | `StageNotAhead`, `FailureFaithful`, `LeakOnlyWhenCut` | `EventsReadable` |
| `StageOnlyAdvances` | the action property `StageMonotone` | `EventsReadable` |

A failure is attributed to a stage its child had entered, which need not be the last:
the loader keeps the first one it was told of. It is delivered behind the events of all
stages entered, which is why `StageNotAhead` holds of the parent's own stage too. A child
that outlives its parent writes nothing more to the hooks pipe (`BrokenQuiet`).

For the output the invariant numbers the cells: collected, in the pipe and in the stdio
buffer they are 1 to `printed`, in order. For the events the sequence of messages a child has
started to write is a *stream* of cells with known positions (`StreamLen`): the cells in
the pipe are those from a position *p*, how far the reader is, to a position *w*, how far the
writer is, and the state of the reader (header expected, stage or failure half read) is a
function of *p* (`Protocol`, `InFlight`). `Reported` says that what was delivered is what
lies before *p*; `HooksDrained` that a pipe is given up only at its end; `Outcome` what
this makes of the result. `PipeBuf`, the capacities and the way a message is cut into reads
are arbitrary.

**`TestcaseExecuteProofs`**: for any number of reports, with signals and failing
allocations or without.

| Theorem | States |
|---|---|
| `Invariance` | `Spec => []IInv` |
| `TypeCorrect` | `TypeOK` |
| `AlwaysCleanedUp` | `CleanedUp`: teardown and `free()` exactly once, the module unhooked |
| `FirstAbortWins`, `FirstFailureWins`, `NeverSilent` | `FirstAbortDecides`, `FirstFailureKept`, `NoSilentFailure` |
| `Refinement` | `TestcaseExecute` implements `ExecHooks` |

The properties are about the end of an execution; the invariant says for every place
before it which stages were announced (`StageInv`), that the teardown function is known
exactly as long as it was not called (`TeardownInv`: this is why an abort in a teardown does
not call it again), that the fixture is held (`FixtureInv`), that the failure held is the
first that was recorded (`FailureInv`), and that the type of the abort differs from the one
asked for only when a failure was promoted after the teardown (`AbortInv`).

**`RunnerUtilsProofs`** (from `RepartitionAssumption` and `UtilsAssumption`): for any suites,
tests and test cases, selections of any length and order, with any repetition. First the two
sorts by themselves:

| Theorem | States |
|---|---|
| `SortInvariance` | `SortSpec => []SortInv`, the inductive invariant |
| `PermutationKept` | `Permutation`: no `memmove()` loses or duplicates an element |
| `PartitionedWhenDone` | `Partitioned`: when a sort is done, the array is in the promised order |

`SuiteAt` and `GroupAt` give the suite and the group of every element, where a group is
a suite for the first function and a test for the second, so that one argument covers
both. Its invariant: the elements in place (`Placed` of them) precede all later ones in
the promised order; the others are still as they were given; at the head of the outer
loop no suite is on both sides; in the inner loop only the active suite and the active
group are, and both occur before every other one that is left; what was read and left is
of other groups, and `next_test` is the group of the first such element of the suite.
The last part is why `repartition_testcases__` may go back and restart with
`next_test`: it is the group that occurs next in the array. The steps are first proved as
lemmas about values (`PlaceFirst`, `Collect`, `Leave`, `NextGroup`, `SuiteDone`), then
lifted to the actions.

Then the three functions around them:

| Theorem | States |
|---|---|
| `UtilsInvariance` | `Spec => []UtilsInv` |
| `UtilsTypeCorrect` | `TypeOK` |
| `ReportersAlwaysNested` | `ReportersNested`: parents outlive their children, all are destroyed, none is opened twice |
| `ResultCorrect` | `ResultFaithful`: the count, -1 exactly when something failed, and no refusal |
| `CopyIsPermutation`, `CopyIsPartitioned` | `Permutation`, `Partitioned`, for the loops that use the sorts |
| `SelectionIsRun` | `SelectionRun`: `runner_run_testcases` calls `run_testcase` for the elements of the sorted copy, in this order, and for all unless it returns an error |
| `AlwaysInOrder` | `InOrder`: all three functions call `run_testcase` for the test cases of the selection in the promised order, without a gap, and for all unless they return an error |

`UtilsInv`: where the control is says which reporters live (`LiveInv`); what is left to run
belongs to them, so that no reporter refuses it (`BelongInv`); an error is on its way up, or
is the result, exactly when something failed (`FaultInv`); the failures so far are the sum
of the results of the three levels (`CountInv`); and the copy satisfies the invariant of the
sorts (`CopyInv`). `RoundInv` is about the rounds of the outer loop: what is
left is the end of the sorted copy and starts with another group than what was taken
(`RestInv`); reports were opened only for what was taken (`OpenedInv`), so that, by the order
of the copy, the next one is new; what is called and what is about to be are together what
was taken (`RunInv`).

`InOrder` compares with a definition of the order that knows nothing of the sorts: the
place of an element is the number of those that precede it, plus one (`Place`), and
`Regrouped` puts every element into its place. In a sorted copy the elements that precede
the *i*-th are those before it, which are *i* - 1 as no element is there twice
(`PlaceOfSorted`), so that the copy is `Regrouped` (`SortedIsRegrouped`). For
`runner_run_testcases`, `RunInv` then gives `InOrder`. The other two functions run all test
cases of the tests or suites they are given; their invariant (`PlanInv`) is that what was
called, what is left of the test, what is left of the suite, and all test cases of what was
not yet taken, one behind the other, are the whole plan. Each step moves the head of one of
these sequences to the end of the one before it, which takes what `FlattenSeq` computes of a
sequence that is cut in two (`FlattenJoined`).

**`DirectRunnerProofs`** (from `DirectAssumption`): for any number of descriptors and any
that are in use, any number of test cases, cells of output and signals, and any calls that
fail.

| Theorem | States |
|---|---|
| `Invariance` | `Spec => []IInv` |
| `TypeCorrect`, `AlwaysRestored` | `TypeOK`, `ProcessRestored` |
| `OutputCorrect`, `VerdictCorrect` | `OutputFaithful`, `VerdictFaithful` |

The invariant says by place what the table of descriptors holds (`FdInv`): how many variables
the labels still have to close (`LadderInv`); every descriptor above 2 is as outside, or is
free outside and in one of those variables (`OwnedInv`); as long as no restoring `dup2()`
failed, descriptors 0 to 2 are never handed out and what was saved of them is there
(`SavedInv`); the temporary file is never opened as descriptor 0, and `stdout_new` refers to it
(`TempInv`). `OwnedInv` needs nothing of descriptors 0 to 2, which is why the labels close
exactly what was opened even when a failed `dup2()` makes their numbers available again.
Handlers are captured only around the
test case, or after `sigrestore__()` failed (`CapturedInv`); while redirected, the file followed by the stdio buffer is what the test case
printed, and outside the buffer holds nothing of it (`StreamsInv`); `VerdictInv` says what
result and return value are before, after a signal, and after the test case.

**`SigCaptureProofs`**: for any list of signals, known to the system or not, and any
calls that fail.

| Theorem | States |
|---|---|
| `Invariance` | `Spec => []IInv` |
| `TypeCorrect`, `OriginalNeverLost` | `TypeOK`, `OriginalKept` |
| `RestoreIsComplete`, `HandlerAlwaysSet` | `AllGivenBack`, `NoNullHandler` |

What is saved is the original or nothing (`SavedIsOriginal`), signals are blocked in both
loops (`LoopInv`), and a restore that has not failed has given back all signals up to its
index (`RestoreInv`).

**`FailureStorageProofs`** (from `StorageAssumption`): for every failure, with strings and a
stack trace of any length, every size of a word and every address.

| Theorem | States |
|---|---|
| `FormatFaithful` | `failure_storage_format` fills exactly the size `failure_storage_size` has computed, and a reader finds the failure in it |
| `PipeFaithful` | after `failure_storage_serialize`, a copy to any address and `failure_storage_deserialize`, a reader finds the failure there |

The argument is one of addresses: `Pad` rounds up to an aligned address by less than a word
(`Padded`); the offsets of the file names of a stack trace ascend, by an induction over its
frames (`OfsProperties`), so that no two strings start at the same address (`PartsSpaced`,
`PartsApart`) and all end within the block (`PartsWithin`); hence what was put at an address
is still there when all is formatted (`Formatted`), and following the pointers gives the
failure (`ReadBack`). Relative pointers are the same whatever the base, so that the pair
of the two translations leaves each part where it was, relative to the block (`Relocated`).

**`CliProofs`** (from the assumptions of `Cli` and of the modules it is composed of): for any
suites and command lines, test cases that print any amount and fail in any way, buffers of
any size, and any number of failing calls.

| Theorem | States |
|---|---|
| `CliInvariance` | `Spec => []CliInv` |
| `EverythingReleased` | `Released`: everything is released once and not used afterwards, and only what `Forgotten` lists is left at the exit |
| `OutputAlwaysIntact` | `OutputIntact` |
| `RunInvariance` | `Spec => []RunInv` |
| `TypeCorrect` | `TypeOK` |
| `ExitAlwaysFaithful` | `ExitFaithful` |
| `ReportInvariance` | `Spec => [](ToldInv /\ SaidInv)` |
| `ReportAlwaysFaithful` | `ReportFaithful` |

`CliInv` says exactly what is held at every place (`HeapInv`): `Held` is the union of what
the command holds itself, the parts of every suite, and those of the test case in progress.
A suite before the one being loaded is whole, the one being loaded has the parts of the tests
and test cases up to the counters of `ctest_load_testsuite` (`LoadingOf`), one behind it none,
and while suites are destroyed it is the other way round. Nothing but `Held` is on the heap,
except for what was lost when a call failed. `ControlInv` and `LoadInv` say where the counters
can be. `OutputInv` follows the cells from the pipe to the result: those
not yet read are the last ones printed (`UnreadLast`); those kept are some of the others in
order, and all of them, with room for them, as long as no memory was refused
(`KeptInOrder`), so that a buffer which could grow is never found full.

`RunInv` adds the run: the test cases that are left are the last of all there are, the one in
progress is the one before them, and those shown are some of the ones before that, each once
(`OrderInv`), all of them and in order unless the direct runner forgot one (`ShownInv`); the
return value of the callback agrees with the verdict (`RcInv`) and the count with those
(`CountInv`); `ExitInv` says why the exit status is going to be what it is. It rests on what
`AllCases`, a concatenation over suites and tests, is: a sequence in which no test case is
twice (`Flattened`). `ToldInv` says that the failure in the result is the
one the test told of, in the sense of `FailureStorageProofs`, however it got there, and
`SaidInv` that this is what was shown.

**`SequenceLemmas`**: induction over an interval (`Induct`: a set that holds 0, and with a number
the next one, holds all; the library's own induction theorem takes an operator, which
the provers cannot instantiate, so this one is derived from the well-foundedness of `<`), the
least element of a set, and what `FlattenSeq` computes. `Flat` is the function its definition
declares; that it exists is shown by induction (`FlatExists`), and the lemmas about it
(`FlatProperties`, `FlattenJoined`) are what the theorems about concatenations rest on.

Not provable here, and only model-checked: liveness (`Completes`, `Terminates`), which rests
on fairness. All invariants, the action property and the refinements that the
passing runs check are theorems; those about the streams of the forking runner, and
`PassMeansPassed`, under the hypotheses named above.

## What is not modelled

- The layout of what reporters print, `getopt()`, the macros that define tests, file system
  I/O of the tmpdir fixture, the builder of in-memory suites for the project's own tests
  (`testing_testsuite.c`), which no program of the repository calls: no state a property is about.
- In `Cli`, the interleaving of parent and child (that is `ForkingRunner`) and the exact
  place of a reporter that cannot be created (that is `RunnerUtils`).
- Threads of the code under test and processes it starts; the C library's own locks when a
  handler interrupts it.
- Descriptor 0 among the pipes (the runner started with a closed stdin).

## Plan

Every component that takes part in running tests is modelled and model-checked, and every
safety property of the passing runs is proved. What could follow:

1. `RunnerUtils` with the calls of `Cli` as its environment, so that the order `Cli` takes the
   test cases in is an instance of `InOrder` instead of being stated again.
2. `ExecEvents` on bytes instead of cells, with the layout of `FailureStorage` as its body.
