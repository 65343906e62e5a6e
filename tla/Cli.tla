---------------------------------- MODULE Cli ----------------------------------
(***************************************************************************)
(* src/src/cli/main.c: one invocation of the command, from main() to its    *)
(* exit status.  The suites are loaded (Loader), a reporter and a runner    *)
(* are created, the test cases are run one after the other and reported     *)
(* (TestcaseReport), and everything is destroyed.  In which order test      *)
(* cases are run, and how their results are added up, is RunnerUtils; here  *)
(* they are taken in that order, and the run may end early with an error.   *)
(***************************************************************************)
EXTENDS Loader, TestcaseReport

CONSTANT ArgVectors    \* the sequences of files that may be named

ASSUME CliAssumption == ArgVectors \subseteq Seq(Files)

VARIABLES
    command,        \* argv[0]: run, ls, another word, or none
    option,         \* the option before or after it, if any
    pc,             \* where the control is
    count,          \* number of suites to destroy
    rest,           \* test cases not yet run
    failureCount,   \* failure_count
    exit,           \* the exit status
    \* history
    failed,         \* a test case has failed
    unsuccessful    \* a test case was reported as neither passed nor skipped,
                    \* or was skipped by the direct runner

cliVars == <<command, option, isolated, argv>>
runVars == <<rest, failureCount, failed, unsuccessful>>
allVars == <<heapVars, loaderVars, reportVars, cliVars, runVars, pc, count, exit>>

EX_OK == 0
EX_USAGE == 64
EX_UNAVAILABLE == 69
EX_SOFTWARE == 70
LsFailed == 1

CasesOf(s) ==
    FlattenSeq([t \in DOMAIN Tests(s) |->
                   [c \in DOMAIN Tests(s)[t] |-> <<s, t, c>>]])
AllCases == FlattenSeq([s \in DOMAIN argv |-> CasesOf(s)])

Init ==
    /\ HeapInit /\ LoaderInit /\ ReportInit
    /\ command \in {"run", "ls", "unknown", "none"}
    /\ option \in {"none", "-h", "-?", "cmd -h", "cmd -?"}
    /\ isolated \in BOOLEAN /\ (~isolated => command = "run" /\ option = "none")
    /\ argv \in ArgVectors
    /\ command \notin {"run", "ls"} => argv = <<>> /\ option \in {"none", "-h", "-?"}
    /\ option # "none" => argv = <<>>
    /\ pc = "main" /\ count = 0 /\ exit = EX_SOFTWARE
    /\ rest = <<>> /\ failureCount = 0
    /\ failed = FALSE /\ unsuccessful = FALSE

-------------------------------------------------------------------------------
(***************************************************************************)
(* main(), run__() and ls__() up to the suites                              *)
(***************************************************************************)

Runs == command \in {"run", "none"}

\* What an option, or an unknown command, makes the exit status.
Usage ==
    CASE option \in {"-h", "cmd -h"} -> EX_OK
      [] option = "-?" \/ (option = "cmd -?" /\ Runs) -> EX_USAGE
      [] option = "cmd -?" -> LsFailed
      [] OTHER -> EX_SOFTWARE

Main ==
    /\ pc = "main"
    /\ IF option # "none" \/ command = "unknown"
       THEN pc' = "exited" /\ exit' = Usage
       ELSE pc' = "collection" /\ UNCHANGED exit
    /\ UNCHANGED <<heapVars, loaderVars, reportVars, cliVars, runVars, count>>

\* The exit status when anything fails before the test cases have been run.
Unavailable == IF Runs THEN EX_UNAVAILABLE ELSE LsFailed

\* load_testsuites__: the collection, an array unless there are no suites, ...
AllocCollection ==
    /\ pc = "collection"
    /\ \/ /\ Acquire({<<"collection">>})
          /\ pc' = IF argv = <<>> THEN "load" ELSE "testsuites"
          /\ UNCHANGED exit
       \/ FaultOnly /\ pc' = "exited" /\ exit' = Unavailable
    /\ UNCHANGED <<loaderVars, reportVars, cliVars, runVars, count>>
AllocTestsuites ==
    /\ pc = "testsuites"
    /\ \/ /\ Acquire({<<"testsuites">>})
          /\ pc' = "load"
          /\ UNCHANGED exit
       \/ /\ Fault
          /\ Release({<<"collection">>}, {})
          /\ pc' = "exited" /\ exit' = Unavailable
    /\ UNCHANGED <<loaderVars, reportVars, cliVars, runVars, count>>

\* ... and one suite after the other.
LoadTestsuite ==
    /\ pc = "load" /\ load = "idle" /\ suite <= Len(argv)
    /\ load' = "dlinit"
    /\ UNCHANGED <<heapVars, suite, test, cases, reportVars, cliVars, runVars,
                   pc, count, exit>>
InLoader ==
    /\ pc = "load" /\ suite <= Len(argv)
    /\ LoadStep
    /\ UNCHANGED <<reportVars, cliVars, runVars, pc, count, exit>>
TestsuiteLoaded ==
    /\ pc = "load" /\ load = "loaded"
    /\ suite' = suite + 1 /\ load' = "idle"
    /\ UNCHANGED <<heapVars, test, cases, reportVars, cliVars, runVars, pc,
                   count, exit>>
\* The suites loaded before are destroyed.
\* MUTANT of LoadedBefore: the last one is forgotten.
LoadedBut == suite - 2
LoadedBefore == suite - 1
LoadSuiteFailed ==
    /\ pc = "load" /\ load = "failed"
    /\ pc' = "destroy" /\ count' = LoadedBefore /\ exit' = Unavailable
    /\ suite' = 1 /\ test' = 1 /\ cases' = 0 /\ load' = "idle"
    /\ UNCHANGED <<heapVars, reportVars, cliVars, runVars>>
AllLoaded ==
    /\ pc = "load" /\ suite > Len(argv)
    /\ count' = Len(argv) /\ suite' = 1
    /\ pc' = IF Runs THEN "reporter" ELSE "list"
    /\ exit' = IF Runs THEN EX_UNAVAILABLE ELSE exit
    /\ UNCHANGED <<heapVars, test, cases, load, reportVars, cliVars, runVars>>

\* ls__ reads the names, which are in the modules.
List ==
    /\ pc = "list"
    /\ Release({}, {<<"handle", s>> : s \in 1 .. count})
    /\ pc' = "destroy" /\ exit' = EX_OK
    /\ UNCHANGED <<faults, loaderVars, reportVars, cliVars, runVars, count>>

-------------------------------------------------------------------------------
(***************************************************************************)
(* run__()                                                                  *)
(***************************************************************************)

\* ctest_create_console_reporter: the reporter and a stream of its own.
CreateReporter ==
    /\ pc = "reporter"
    /\ \/ Acquire({<<"reporter">>, <<"console">>}) /\ pc' = "runner"
       \/ FaultOnly /\ pc' = "destroy"
    /\ UNCHANGED <<loaderVars, reportVars, cliVars, runVars, count, exit>>

CreateRunner ==
    /\ pc = "runner"
    /\ \/ Acquire({<<"runner">>}) /\ pc' = "run" /\ rest' = AllCases
       \/ FaultOnly /\ pc' = "runner_creation_failed" /\ UNCHANGED rest
    /\ UNCHANGED <<loaderVars, reportVars, cliVars, failureCount, failed,
                   unsuccessful, count, exit>>

RunTestcase ==
    /\ pc = "run" /\ rest # <<>>
    /\ Start(Head(rest))
    /\ rest' = Tail(rest)
    /\ UNCHANGED <<loaderVars, cliVars, failureCount, failed, unsuccessful,
                   pc, count, exit>>
InTestcase ==
    /\ pc = "run"
    /\ ReportStep
    /\ UNCHANGED <<loaderVars, cliVars, runVars, pc, count, exit>>

\* The callback returns: a negative number ends the run.
TestcaseReturns ==
    /\ pc = "run" /\ step = "returned"
    /\ IF rc < 0
       THEN failureCount' = -1 /\ rest' = <<>>
       ELSE failureCount' = failureCount + rc /\ UNCHANGED rest
    /\ failed' = (failed \/ type = "FAIL")
    /\ unsuccessful' = (unsuccessful \/ type \in {"FAIL", "ERROR"}
                            \/ (type = "SKIPPED" /\ ~isolated))
    /\ Forget
    /\ UNCHANGED <<loaderVars, cliVars, pc, count, exit>>

\* A test or a suite without test cases comes last.
EmptyAtEnd ==
    /\ argv # <<>>
    /\ LET ts == Tests(Len(argv)) IN ts # <<>> => Last(ts) = <<>>
\* A reporter further down cannot be created: the run ends.
RunFails ==
    /\ pc = "run" /\ step = "idle" /\ failureCount >= 0
    /\ rest = <<>> => EmptyAtEnd
    /\ FaultOnly
    /\ failureCount' = -1 /\ rest' = <<>>
    /\ UNCHANGED <<loaderVars, reportVars, cliVars, failed, unsuccessful, pc,
                   count, exit>>

\* MUTANT of Status: a run that ended early is a success.
StatusOfCount == IF failureCount <= 0 THEN EX_OK ELSE EX_UNAVAILABLE
Status == IF failureCount = 0 THEN EX_OK ELSE EX_UNAVAILABLE
DestroyRunner ==
    /\ pc = "run" /\ step = "idle" /\ rest = <<>>
    /\ Release({<<"runner">>}, {})
    /\ pc' = "runner_creation_failed" /\ exit' = Status
    /\ UNCHANGED <<faults, loaderVars, reportVars, cliVars, runVars, count>>

\* fclose() flushes.
DestroyReporter ==
    /\ pc = "runner_creation_failed"
    /\ Release({<<"reporter">>, <<"console">>}, {})
    /\ Flush(buffered)
    /\ pc' = "destroy"
    /\ UNCHANGED <<faults, outputVars, step, testcase, reporter, type, told,
                   failure, rc, shown, printed, loaderVars, cliVars, runVars,
                   count, exit>>

-------------------------------------------------------------------------------
(***************************************************************************)
(* destroy_testsuite_collection__, and the end of load_testsuites__         *)
(***************************************************************************)

DestroyTestsuite ==
    /\ pc = "destroy" /\ suite <= count
    /\ IF load = "idle"
       THEN DestroyTests(suite) /\ load' = "closing" /\ UNCHANGED suite
       ELSE CloseSuite(suite) /\ load' = "idle" /\ suite' = suite + 1
    /\ UNCHANGED <<test, cases, reportVars, cliVars, runVars, pc, count, exit>>

DestroyCollection ==
    /\ pc = "destroy" /\ suite > count
    /\ Release({<<"collection">>}
                   \union (IF argv = <<>> THEN {} ELSE {<<"testsuites">>}), {})
    /\ pc' = "exited"
    /\ UNCHANGED <<faults, loaderVars, reportVars, cliVars, runVars, count, exit>>

-------------------------------------------------------------------------------
Step ==
    \/ Main \/ AllocCollection \/ AllocTestsuites
    \/ LoadTestsuite \/ InLoader \/ TestsuiteLoaded \/ LoadSuiteFailed \/ AllLoaded
    \/ List \/ CreateReporter \/ CreateRunner
    \/ RunTestcase \/ InTestcase \/ TestcaseReturns \/ RunFails
    \/ DestroyRunner \/ DestroyReporter \/ DestroyTestsuite \/ DestroyCollection

\* The process has exited, has crashed, or hangs in a signal handler.
Ended == pc = "exited" \/ step = "dead"
Next == Step \/ (Ended /\ UNCHANGED allVars)

\* One thread; test cases, and what they print, come to an end.
Spec == Init /\ [][Next]_allVars /\ WF_allVars(Step)

-------------------------------------------------------------------------------
(***************************************************************************)
(* Properties                                                               *)
(***************************************************************************)

\* The state of the command, its suites and the test case in progress.
TypeOK ==
    /\ argv \in ArgVectors /\ isolated \in BOOLEAN /\ misused \in BOOLEAN
    /\ faults \in 0 .. MaxFaults
    /\ pc \in {"main", "collection", "testsuites", "load", "list", "reporter",
               "runner", "run", "runner_creation_failed", "destroy", "exited"}
    /\ load \in {"idle", "dlinit", "dladvise_init", "dladvise_local", "dlopen",
                 "check", "suite", "tests", "test", "testcases", "testcase",
                 "name", "loaded", "failed", "closing"}
    /\ step \in {"idle", "output", "build", "verdict", "complete", "returned", "dead"}
    /\ suite \in 1 .. Len(argv) + 1 /\ count \in 0 .. Len(argv)
    /\ test \in Nat /\ cases \in Nat
    /\ Len(kept) <= capacity /\ Len(kept) + Len(unread) <= printed
    /\ output \in {"none", "intact", "overrun"}
    /\ type \in {"PASS", "FAIL", "SKIPPED", "ERROR"}
    /\ reporter \in {"PENDING", "RUNNING", "COMPLETED"}
    /\ rc \in -1 .. 1 /\ failureCount \in -1 .. Len(AllCases)
    /\ exit \in {EX_OK, EX_USAGE, EX_UNAVAILABLE, EX_SOFTWARE, LsFailed}

\* What the code is known not to give back: the advice of every suite it has
\* loaded (the one behind them when loading that failed is not kept), the array
\* of the tests of a suite of which one could not be created, and the result
\* of a test case for which the direct runner had no descriptors.
Forgotten(thing) ==
    \/ thing[1] = "advice"
    \/ faults > 0 /\ (thing[1] = "tests" \/ (thing[1] = "result" /\ ~isolated))

\* Whatever fails, everything is released once, in an order in which nothing is
\* used after its release, and but for what is forgotten nothing is left: in
\* particular no module, no initialization of libltdl, no stream and nothing
\* that belongs to a test case, its result, its output or its failure.
Released ==
    /\ ~misused
    /\ pc = "exited" =>
           /\ \A thing \in heap : Forgotten(thing)
           /\ \A s \in DOMAIN argv :
                  <<"advice", s>> \in heap <=> s <= count
    /\ step = "idle" => \A thing \in heap : thing[1] \notin {"output", "failure"}

\* What a test case has printed is in its result whole, in order and terminated
\* within its buffer, unless memory was refused; then cells may be missing, but
\* those that are there are in order.
OutputIntact ==
    step \in {"complete", "returned"} /\ reporter # "PENDING" =>
        /\ ~starved => /\ kept = [c \in 1 .. printed |-> c]
                       /\ output # "overrun"
        /\ \A a, b \in DOMAIN kept : a < b => kept[a] < kept[b]

\* The parts of a failure are apart, aligned, and as large as was foreseen.
Sound(buf, mem, size) ==
    /\ FormatResult(buf, mem, size) = size
    /\ \A a, b \in DOMAIN mem : a < b => EndOf(buf, mem, a) <= b
    /\ mem[buf].location % Word = 0 /\ mem[buf].stacktrace % Word = 0

\* The console shows every test case once and in order, whatever a forked child
\* flushes, but for those the direct runner had no descriptors for; and of one
\* that failed the failure it told its runner, to the last frame, through the
\* pipe or not, with its stage.
ReportFaithful ==
    /\ IsPrefix(console, AllCases)
           \/ (~isolated /\ faults > 0 /\ IsInjective(console))
    /\ failure # <<>> => Sound(ParentBuf, failure, failure_storage_size(told[1]))
    /\ shown # NotShown =>
           /\ console # <<>> /\ testcase = Last(console)
           /\ type \in {"FAIL", "ERROR"} => shown.failure = told
           /\ type = "FAIL" /\ told # <<>> =>
                  (shown.label = "FAILED" <=> told[1].stage = "EXECUTION")

\* The exit status is success only if there was nothing to do, or all suites
\* could be loaded and listed, or all their test cases were run and reported
\* and none failed (the direct runner excepted, see Returns); and it is another
\* one only if something was wrong with the command line, a suite, a test case
\* or a call.
Unloadable == \E s \in DOMAIN argv : Module[argv[s]].kind # "suite"
ExitFaithful ==
    pc = "exited" =>
        /\ exit = EX_OK /\ option = "none" =>
               /\ command # "unknown" /\ ~Unloadable
               /\ Runs /\ isolated => console = AllCases /\ ~failed
        /\ exit # EX_OK =>
               \/ command = "unknown" \/ option \in {"-?", "cmd -?"}
               \/ Unloadable \/ faults > 0 \/ unsuccessful

\* The command ends.
Terminates == <>Ended
===============================================================================
