-------------------------- MODULE ForkingRunnerProofs --------------------------
(***************************************************************************)
(* Proofs about ForkingRunner, for every value of its constants: any pipe   *)
(* capacities and failure sizes, any number and kind of signals, and any    *)
(* set of failing system calls.                                             *)
(***************************************************************************)
EXTENDS ForkingRunner, SequenceTheorems, TLAPS

(***************************************************************************)
(* The inductive invariant                                                  *)
(***************************************************************************)

\* The reader never asks for a negative number of bytes, and only completes
\* a header or a stage once it holds a cell.
WellFormed(r) ==
    /\ Len(r.got) <= r.cap
    /\ r.onDone = "header" => r.cap = 1
    /\ r.onDone = "body" /\ r.bodyDone = "stage" => r.cap = 1
ReaderInv == WellFormed(reader)

\* How far the parent is, and what it knows by then.
ParentInv ==
    /\ pc = "create" => ~started /\ retval = -1
    /\ pc \notin {"create", "returned"} => started
    /\ status # "none" => started
    /\ pc # "returned" => completed = 0
    /\ pc = "returned" => completed = IF started THEN 1 ELSE 0
    /\ pc = "returned" /\ ~started => retval = -1
    /\ pc \in {"create", "hooks_pipe", "output_pipe", "fork", "complete"} =>
         status = "none"
    /\ pc \in {"poll", "hooks", "output", "kill", "wait"} => status # "none"
    /\ pc = "complete" => result.type = "ERROR" /\ retval = 0
    /\ pc \in {"done", "returned"} /\ started /\ ~reaped =>
         result.type = "ERROR"
    /\ pc = "done" => retval \in Run!Returns(result.type)
    /\ reaped =>
         /\ pc \in {"done", "returned"}
         /\ status \in {"exited", "killed"}
         /\ result.type = IF status = "exited" THEN exitType ELSE "ERROR"
         /\ result.type = "PASS" => result.failure = NoFailure

\* How far the child is, and what it will exit with by then.
ChildInv ==
    /\ status = "none" => cpc = "none"
    /\ cpc \in {"none", "init", "stage", "code", "restore"} =>
         exitType = "none"
    /\ cpc \in {"close", "clear", "exit", "closed", "quit"} => exitType # "none"
    /\ status = "exited" \/ sig = "handling" => exitType # "none"
    /\ cpc \in {"none", "init"} => entered = 0
    /\ cpc = "stage" => entered < 3
    /\ cpc = "restore" => entered = 3
    /\ cpc = "write" => pending # <<>>
    /\ exitType = "none" => report = NoFailure
    /\ exitType = "PASS" /\ 0 \notin ExitCodes =>
         entered = 3 /\ sig = "default" /\ report = NoFailure

IInv == TypeOK /\ ReaderInv /\ ParentInv /\ ChildInv

(***************************************************************************)
(* Lemmas about sequences and about the operators of ExecEvents             *)
(***************************************************************************)

\* A sequence cut in two: the part a read() or write() transfers, and the
\* part it leaves.
LEMMA Cut ==
    ASSUME NEW S, NEW s \in Seq(S), NEW n \in Nat, n <= Len(s)
    PROVE  /\ SubSeq(s, 1, n) \in Seq(S) /\ Len(SubSeq(s, 1, n)) = n
           /\ SubSeq(s, n + 1, Len(s)) \in Seq(S)
           /\ Len(SubSeq(s, n + 1, Len(s))) = Len(s) - n
  <1>1. Len(s) \in Nat /\ \A i \in 1 .. Len(s) : s[i] \in S
    OBVIOUS
  <1>2. SubSeq(s, 1, n) \in Seq(S) /\ Len(SubSeq(s, 1, n)) = n
    BY <1>1, SubSeqProperties
  <1>3. /\ SubSeq(s, n + 1, Len(s)) \in Seq(S)
        /\ Len(SubSeq(s, n + 1, Len(s))) = Len(s) - n
    BY <1>1, SubSeqProperties
  <1> QED
    BY <1>2, <1>3

\* Appending data keeps the element type and adds up the lengths.
LEMMA Joined ==
    ASSUME NEW S, NEW s \in Seq(S), NEW t \in Seq(S)
    PROVE  s \o t \in Seq(S) /\ Len(s \o t) = Len(s) + Len(t)
  BY ConcatProperties

\* A stage change is two write() calls of cells.
LEMMA StageChangeEventType ==
    ASSUME NEW stage \in Stages
    PROVE  /\ StageChangeEvent(stage) \in Seq(Seq(Cell))
           /\ StageChangeEvent(stage) # <<>>
  <1>1. HeaderCell("STAGE_CHANGE", 1) \in Cell
    BY DEF HeaderCell, Cell, EventTypes
  <1>2. StageCell(stage) \in Cell
    BY DEF StageCell, Cell
  <1>3. <<HeaderCell("STAGE_CHANGE", 1)>> \in Seq(Cell)
    BY <1>1
  <1>4. <<StageCell(stage)>> \in Seq(Cell)
    BY <1>2
  <1> QED
    BY <1>3, <1>4 DEF StageChangeEvent

\* A failure is two write() calls of cells: the length in its header wraps.
LEMMA FailureEventType ==
    ASSUME NEW failure \in Failure
    PROVE  /\ FailureEvent(failure) \in Seq(Seq(Cell))
           /\ FailureEvent(failure) # <<>>
  <1>1. failure.size \in Nat
    BY DEF Failure
  <1>2. failure.size % LenMod \in Nat
    BY <1>1, EventsAssumption
  <1>3. HeaderCell("FAILURE", failure.size % LenMod) \in Cell
    BY <1>2 DEF HeaderCell, Cell, EventTypes
  <1>4. \A i \in 1 .. failure.size : BodyCell(failure, i) \in Cell
    BY <1>1 DEF BodyCell, Cell
  <1>5. Body(failure) \in Seq(Cell)
    BY <1>1, <1>4 DEF Body
  <1>6. <<HeaderCell("FAILURE", failure.size % LenMod)>> \in Seq(Cell)
    BY <1>3
  <1> QED
    BY <1>5, <1>6 DEF FailureEvent

\* Whatever four bytes are taken for a header make a header.
LEMMA AsHeaderType ==
    ASSUME NEW cell \in Cell, NEW h \in AsHeader(cell)
    PROVE  h.length \in Nat
  BY EventsAssumption DEF AsHeader, Header, Cell

\* Whatever is taken for a stage is one, or is known to be garbage.
LEMMA AsStageType ==
    ASSUME NEW cell \in Cell
    PROVE  AsStage(cell) \in AnyStage
  BY DEF AsStage, AnyStage, Cell

\* failure_storage_deserialize() returns a failure whatever was read.
LEMMA AsFailureType ==
    ASSUME NEW cells \in Seq(Cell)
    PROVE  AsFailure(cells) \in Failure
  <1>1. GarbageFailure \in Failure
    BY DEF GarbageFailure, Failure, AnyStage
  <1>2. CASE cells # <<>> /\ cells[1].kind = "body"
    <2>1. cells[1] \in Cell
      BY <1>2
    <2>2. cells[1].failure \in Failure
      BY <1>2, <2>1 DEF Cell
    <2> QED
      BY <1>1, <2>2 DEF AsFailure
  <1>3. CASE ~(cells # <<>> /\ cells[1].kind = "body")
    BY <1>1, <1>3 DEF AsFailure
  <1> QED
    BY <1>2, <1>3

\* A header leaves a reader that waits for a well-formed body.
LEMMA HeaderDoneType ==
    ASSUME NEW cell \in Cell, NEW h \in AsHeader(cell),
           NEW allocated \in BOOLEAN
    PROVE  LET r == HeaderDone(h, allocated)
           IN  r \in Reader /\ WellFormed(r) /\ r.onDone = "body"
  <1>1. h.length \in Nat
    BY AsHeaderType
  <1>2. <<>> \in Seq(Cell)
    OBVIOUS
  <1> QED
    BY <1>1, <1>2 DEF HeaderDone, Reader, WellFormed

\* The reader between two messages waits for a header.
LEMMA PrepNextMsgType ==
    PrepNextMsg \in Reader /\ WellFormed(PrepNextMsg)
  BY DEF PrepNextMsg, Reader, WellFormed

\* Completing a message leaves reader and consumer well-formed.
LEMMA DoneType ==
    ASSUME NEW r \in Reader, NEW c \in Consumer, NEW allocated \in BOOLEAN,
           WellFormed(r), MessageComplete(r),
           NEW next \in Done(r, c, allocated)
    PROVE  /\ next.reader \in Reader /\ WellFormed(next.reader)
           /\ next.consumer \in Consumer
  <1>1. /\ r.got \in Seq(Cell) /\ Len(r.got) \in Nat /\ Len(r.got) >= r.cap
        /\ r.onDone \in {"header", "body", "next"}
        /\ r.cap \in Nat /\ r.len \in Nat
    BY DEF Reader, MessageComplete
  <1>2. r.cap = 1 => r.got[1] \in Cell
    BY <1>1
  <1>3. CASE r.onDone = "header"
    <2>1. r.got[1] \in Cell
      BY <1>2, <1>3 DEF WellFormed
    <2>2. PICK h \in AsHeader(r.got[1]) :
            next = [reader |-> HeaderDone(h, allocated), consumer |-> c]
      BY <1>3 DEF Done
    <2> QED
      BY <2>1, <2>2, HeaderDoneType DEF WellFormed
  <1>4. CASE r.onDone = "body"
    <2>1. next = [reader |-> BodyDone(r), consumer |-> Deliver(r, c)]
      BY <1>4 DEF Done
    <2>2. BodyDone(r) \in Reader /\ WellFormed(BodyDone(r))
      <3> DEFINE b == [r EXCEPT !.buf = "null", !.cap = r.len,
                                !.onDone = "next"]
      <3>1. b \in Reader /\ b.got = r.got /\ b.cap = r.len /\ b.onDone = "next"
        BY <1>1 DEF Reader
      <3>2. r.cap < r.len => WellFormed(b)
        BY <1>1, <3>1 DEF WellFormed
      <3> QED
        BY <3>1, <3>2, PrepNextMsgType DEF BodyDone
    <2>3. r.bodyDone = "stage" => AsStage(r.got[1]) \in AnyStage
      BY <1>2, <1>4, AsStageType DEF WellFormed
    <2>4. AsFailure(r.got) \in Failure
      BY <1>1, AsFailureType
    <2>5. Deliver(r, c) \in Consumer
      BY <2>3, <2>4 DEF Deliver, Consumer
    <2> QED
      BY <2>1, <2>2, <2>5
  <1>5. CASE r.onDone = "next"
    <2>1. next = [reader |-> PrepNextMsg, consumer |-> c]
      BY <1>5 DEF Done
    <2> QED
      BY <2>1, PrepNextMsgType DEF WellFormed
  <1> QED
    BY <1>1, <1>3, <1>4, <1>5

(***************************************************************************)
(* Initial states                                                           *)
(***************************************************************************)

\* Before the run starts there is no child, no report and no data.
LEMMA InitInv == Init => IInv
  <1> SUFFICES ASSUME Init PROVE IInv
    OBVIOUS
  <1>1. NoFailure \in Failure
    BY DEF NoFailure, Failure, AnyStage, Stages
  <1>2. TypeOK
    <2>1. result \in Result /\ consumer \in Consumer
      BY <1>1 DEF Init, Result, ResultTypes, Consumer, AnyStage, Stages
    <2>2. /\ fds \in [Handlers -> Int]
          /\ revents \in [Handlers -> SUBSET {"IN", "HUP"}]
      BY RunnerAssumption DEF Init
    <2>3. entered \in 0 .. Len(StageSeq)
      BY DEF Init, StageSeq
    <2>4. ParentTypeOK
      BY <2>1, <2>2, PrepNextMsgType DEF Init, ParentTypeOK
    <2>5. FlagsTypeOK
      BY DEF Init, FlagsTypeOK
    <2>6. ChildTypeOK
      BY <1>1, <2>3, RunnerAssumption DEF Init, ChildTypeOK
    <2>7. PipesTypeOK
      BY RunnerAssumption DEF Init, PipesTypeOK
    <2> QED
      BY <2>4, <2>5, <2>6, <2>7 DEF TypeOK
  <1>3. ReaderInv
    BY PrepNextMsgType DEF Init, ReaderInv, WellFormed
  <1>4. ParentInv
    BY DEF Init, ParentInv
  <1>5. ChildInv
    BY DEF Init, ChildInv
  <1> QED
    BY <1>2, <1>3, <1>4, <1>5 DEF IInv

(***************************************************************************)
(* Steps                                                                    *)
(***************************************************************************)

\* There are three stages, in the order of StageSeq.
LEMMA Lengths == Len(StageSeq) = 3
  BY DEF StageSeq

\* A failure of the runner itself (ctest_failure_create) makes a result.
LEMMA SetErrorType ==
    ASSUME ParentTypeOK, SetError
    PROVE  /\ result' \in Result /\ result'.type = "ERROR"
           /\ retval' = 0
  BY DEF ParentTypeOK, SetError, Result, ResultTypes, RunnerFailure, Failure,
         Consumer

\* A descriptor that is negated is taken out of poll() and stays a number.
LEMMA CloseType ==
    ASSUME ParentTypeOK, NEW h \in Handlers, Close(h)
    PROVE  fds' \in [Handlers -> Int]
  BY DEF ParentTypeOK, Close

\* A step of the parent that leaves the child alone.
LEMMA ChildUntouched ==
    ASSUME ChildTypeOK, ChildInv, UNCHANGED childVars
    PROVE  ChildTypeOK' /\ ChildInv'
  BY DEF ChildTypeOK, ChildInv, childVars

\* A step of the child, or a signal: it has no access to the parent's state,
\* and the parent relies on nothing of a living child.
LEMMA ParentUntouched ==
    ASSUME ParentTypeOK, FlagsTypeOK, ReaderInv, ParentInv,
           UNCHANGED parentVars,
           status = "alive", status' \in {"alive", "exited", "killed"}
    PROVE  ParentTypeOK' /\ FlagsTypeOK' /\ ReaderInv' /\ ParentInv'
  <1>1. ParentTypeOK'
    BY DEF ParentTypeOK, parentVars
  <1>2. FlagsTypeOK'
    BY DEF FlagsTypeOK, parentVars
  <1>3. ReaderInv'
    BY DEF ReaderInv, WellFormed, parentVars
  <1>4. ~reaped
    BY DEF ParentInv
  <1>5. ParentInv'
    BY <1>4 DEF ParentInv, parentVars
  <1> QED
    BY <1>1, <1>2, <1>3, <1>5

\* Until there is a child to wait for: the result and the report.
LEMMA SetupStep ==
    ASSUME IInv,
           \/ CreateResult
           \/ OpenPipe("hooks_pipe", "output_pipe")
           \/ OpenPipe("output_pipe", "fork")
           \/ Fork
           \/ Complete
    PROVE  IInv'
  <1> USE DEF IInv, TypeOK
  <1>1. CASE CreateResult
    <2>1. ParentTypeOK' /\ PipesTypeOK'
      BY <1>1 DEF CreateResult, ParentTypeOK, PipesTypeOK
    <2>2. FlagsTypeOK'
      BY <1>1 DEF CreateResult, FlagsTypeOK
    <2>3. ReaderInv'
      BY <1>1 DEF CreateResult, ReaderInv, WellFormed
    <2>4. ParentInv'
      BY <1>1 DEF CreateResult, ParentInv, childVars
    <2> QED
      BY <1>1, <2>1, <2>2, <2>3, <2>4, ChildUntouched DEF CreateResult
  <1>2. ASSUME NEW call \in {"hooks_pipe", "output_pipe"},
               NEW next \in {"output_pipe", "fork"}, OpenPipe(call, next)
        PROVE  IInv'
    <2>1. ParentTypeOK' /\ PipesTypeOK'
      BY <1>2, SetErrorType DEF OpenPipe, ParentTypeOK, PipesTypeOK
    <2>2. FlagsTypeOK'
      BY <1>2 DEF OpenPipe, FlagsTypeOK
    <2>3. ReaderInv'
      BY <1>2 DEF OpenPipe, ReaderInv, WellFormed
    <2>4. ParentInv'
      BY <1>2, SetErrorType DEF OpenPipe, ParentInv, childVars
    <2> QED
      BY <1>2, <2>1, <2>2, <2>3, <2>4, ChildUntouched DEF OpenPipe
  <1>3. CASE Fork
    <2>1. ParentTypeOK' /\ PipesTypeOK'
      BY <1>3, SetErrorType DEF Fork, ParentTypeOK, PipesTypeOK
    <2>2. FlagsTypeOK'
      BY <1>3 DEF Fork, FlagsTypeOK
    <2>3. ReaderInv'
      BY <1>3 DEF Fork, ReaderInv, WellFormed
    <2>4. ParentInv'
      BY <1>3, SetErrorType DEF Fork, ParentInv
    <2>5. ChildTypeOK'
      BY <1>3 DEF Fork, ChildTypeOK
    <2>6. ChildInv'
      BY <1>3 DEF Fork, ChildInv, ParentInv
    <2> QED
      BY <2>1, <2>2, <2>3, <2>4, <2>5, <2>6
  <1>4. CASE Complete
    <2>1. ParentTypeOK' /\ PipesTypeOK'
      BY <1>4 DEF Complete, ParentTypeOK, ParentInv, PipesTypeOK
    <2>2. FlagsTypeOK'
      BY <1>4 DEF Complete, FlagsTypeOK
    <2>3. ReaderInv'
      BY <1>4 DEF Complete, ReaderInv, WellFormed
    <2>4. ParentInv'
      BY <1>4 DEF Complete, ParentInv, childVars
    <2> QED
      BY <1>4, <2>1, <2>2, <2>3, <2>4, ChildUntouched DEF Complete
  <1> QED
    BY <1>1, <1>2, <1>3, <1>4

\* wait_for_child__: while the child lives, only what is read off the pipes
\* changes; the verdict is taken once the child is dead.
LEMMA WaitStep ==
    ASSUME IInv,
           Poll \/ HandleHooks \/ HandleOutput \/ Kill \/ Wait \/ Finish
    PROVE  IInv'
  <1> USE DEF IInv, TypeOK
  <1>1. CASE Poll
    <2>1. \A fd, data, open : Revents(fd, data, open) \in SUBSET {"IN", "HUP"}
      BY DEF Revents
    <2>2. revents' \in [Handlers -> SUBSET {"IN", "HUP"}]
      BY <1>1, <2>1 DEF Poll, ParentTypeOK
    <2>3. ParentTypeOK' /\ PipesTypeOK'
      BY <1>1, <2>2, SetErrorType DEF Poll, ParentTypeOK, PipesTypeOK
    <2>4. FlagsTypeOK'
      BY <1>1 DEF Poll, FlagsTypeOK
    <2>5. ReaderInv'
      BY <1>1 DEF Poll, ReaderInv, WellFormed
    <2>6. ParentInv'
      BY <1>1 DEF Poll, ParentInv, childVars
    <2> QED
      BY <1>1, <2>3, <2>4, <2>5, <2>6, ChildUntouched DEF Poll
  <1>2. CASE HandleHooks
    <2>1. /\ UNCHANGED <<started, completed, output, revents, leaked, reaped,
                        childVars, out>>
          /\ pc = "hooks" /\ pc' \in {"output", "crashed"}
      BY <1>2 DEF HandleHooks, ReadHooks
    <2>2. /\ reader' \in Reader /\ WellFormed(reader')
          /\ consumer' \in Consumer
          /\ hooks' \in Seq(Cell) /\ Len(hooks') <= HooksCap
      <3>1. CASE ReadHooks
        <4> DEFINE wanted == Wanted(reader)
                   n == IF wanted <= Len(hooks) THEN wanted ELSE Len(hooks)
                   r == [reader EXCEPT !.got = @ \o SubSeq(hooks, 1, n)]
        <4>1. n \in Nat /\ n <= Len(hooks)
          BY EventsAssumption
          DEF Wanted, ParentTypeOK, PipesTypeOK, Reader, ReaderInv, WellFormed
        <4>2. /\ SubSeq(hooks, 1, n) \in Seq(Cell)
              /\ Len(SubSeq(hooks, 1, n)) = n
              /\ SubSeq(hooks, n + 1, Len(hooks)) \in Seq(Cell)
              /\ Len(SubSeq(hooks, n + 1, Len(hooks))) = Len(hooks) - n
          BY <4>1, Cut DEF PipesTypeOK
        <4>3. hooks' \in Seq(Cell) /\ Len(hooks') <= HooksCap
          <5>1. hooks' = SubSeq(hooks, n + 1, Len(hooks))
            BY <3>1 DEF ReadHooks
          <5>2. Len(hooks) - n <= HooksCap
            BY <4>1, RunnerAssumption DEF PipesTypeOK
          <5> QED
            BY <4>2, <5>1, <5>2
        <4>4. /\ reader \in Reader /\ reader.got \in Seq(Cell)
              /\ WellFormed(reader) /\ consumer \in Consumer
          BY DEF ReaderInv, ParentTypeOK, Reader
        <4>5. /\ reader.got \o SubSeq(hooks, 1, n) \in Seq(Cell)
              /\ Len(reader.got \o SubSeq(hooks, 1, n)) = Len(reader.got) + n
          BY <4>2, <4>4, Joined
        <4>6. r \in Reader
          BY <4>4, <4>5 DEF Reader
        <4>7. Len(reader.got) + n <= reader.cap
          BY <4>1, <4>4, EventsAssumption
          DEF Wanted, Reader, WellFormed, PipesTypeOK
        <4>8. WellFormed(r)
          BY <4>4, <4>5, <4>7 DEF Reader, WellFormed
        <4>9. CASE ~MessageComplete(r)
          BY <3>1, <4>3, <4>4, <4>6, <4>8, <4>9 DEF ReadHooks
        <4>10. CASE MessageComplete(r)
          <5>1. PICK allocated \in {TRUE, ~MayFail("malloc")} :
                  \E next \in Done(r, consumer, allocated) :
                    reader' = next.reader /\ consumer' = next.consumer
            BY <3>1, <4>10 DEF ReadHooks
          <5>2. PICK next \in Done(r, consumer, allocated) :
                  reader' = next.reader /\ consumer' = next.consumer
            BY <5>1
          <5>3. allocated \in BOOLEAN
            BY <5>1 DEF MayFail
          <5>4. /\ next.reader \in Reader /\ WellFormed(next.reader)
                /\ next.consumer \in Consumer
            BY <4>4, <4>6, <4>8, <4>10, <5>2, <5>3, DoneType
          <5> QED
            BY <4>3, <5>2, <5>4
        <4> QED
          BY <4>9, <4>10
      <3>2. CASE ~ReadHooks
        BY <1>2, <3>2 DEF HandleHooks, ReaderInv, ParentTypeOK, PipesTypeOK
      <3> QED
        BY <3>1, <3>2
    <2>3. /\ result' \in Result /\ retval' \in {-1, 0, 1}
          /\ fds' \in [Handlers -> Int] /\ unread' \subseteq Handlers
      BY <1>2, SetErrorType, CloseType
      DEF HandleHooks, ReadHooks, ReadFails, ParentTypeOK, Handlers
    <2>4. ParentTypeOK' /\ PipesTypeOK'
      BY <2>1, <2>2, <2>3 DEF ParentTypeOK, PipesTypeOK
    <2>5. FlagsTypeOK'
      BY <2>1 DEF FlagsTypeOK
    <2>6. ReaderInv'
      BY <2>2 DEF ReaderInv
    <2>7. ParentInv'
      BY <2>1 DEF ParentInv, childVars
    <2> QED
      BY <2>1, <2>4, <2>5, <2>6, <2>7, ChildUntouched
  <1>3. CASE HandleOutput
    <2>1. /\ UNCHANGED <<started, completed, consumer, reader, revents,
                        leaked, reaped, childVars, hooks>>
          /\ pc = "output" /\ pc' = "poll"
      BY <1>3 DEF HandleOutput
    <2>2. /\ output' \in Seq(Nat)
          /\ out' \in Seq(Nat) /\ Len(out') <= OutputCap
      <3>1. CASE \E n \in 1 .. Len(out) :
                   /\ out' = SubSeq(out, n + 1, Len(out))
                   /\ \/ output' = output \o SubSeq(out, 1, n)
                      \/ UNCHANGED output
        <4>1. PICK n \in 1 .. Len(out) :
                   /\ out' = SubSeq(out, n + 1, Len(out))
                   /\ \/ output' = output \o SubSeq(out, 1, n)
                      \/ UNCHANGED output
          BY <3>1
        <4>2. n \in Nat /\ n <= Len(out) /\ Len(out) \in Nat
          BY DEF PipesTypeOK
        <4>3. /\ SubSeq(out, 1, n) \in Seq(Nat)
              /\ SubSeq(out, n + 1, Len(out)) \in Seq(Nat)
              /\ Len(SubSeq(out, n + 1, Len(out))) = Len(out) - n
          BY <4>2, Cut DEF PipesTypeOK
        <4>4. output \o SubSeq(out, 1, n) \in Seq(Nat)
          BY <4>3, Joined DEF ParentTypeOK
        <4>5. output' \in Seq(Nat)
          BY <4>1, <4>4 DEF ParentTypeOK
        <4>6. Len(out) - n <= OutputCap
          BY <4>2, RunnerAssumption DEF PipesTypeOK
        <4> QED
          BY <4>1, <4>3, <4>5, <4>6
      <3>2. CASE UNCHANGED <<output, out>>
        BY <3>2 DEF ParentTypeOK, PipesTypeOK
      <3> QED
        BY <1>3, <3>1, <3>2 DEF HandleOutput, Collect
    <2>3. /\ result' \in Result /\ retval' \in {-1, 0, 1}
          /\ fds' \in [Handlers -> Int] /\ unread' \subseteq Handlers
      BY <1>3, SetErrorType, CloseType
      DEF HandleOutput, ReadFails, ParentTypeOK, Handlers
    <2>4. ParentTypeOK' /\ PipesTypeOK'
      BY <2>1, <2>2, <2>3 DEF ParentTypeOK, PipesTypeOK
    <2>5. FlagsTypeOK'
      BY <2>1 DEF FlagsTypeOK
    <2>6. ReaderInv'
      BY <2>1 DEF ReaderInv, WellFormed
    <2>7. ParentInv'
      BY <2>1 DEF ParentInv, childVars
    <2> QED
      BY <2>1, <2>4, <2>5, <2>6, <2>7, ChildUntouched
  <1>4. CASE Kill
    <2>1. ParentTypeOK' /\ PipesTypeOK'
      BY <1>4 DEF Kill, ParentTypeOK, PipesTypeOK
    <2>2. FlagsTypeOK'
      BY <1>4 DEF Kill, FlagsTypeOK
    <2>3. ReaderInv'
      BY <1>4 DEF Kill, ReaderInv, WellFormed
    <2>4. ParentInv'
      BY <1>4 DEF Kill, ParentInv
    <2>5. ChildTypeOK'
      BY <1>4 DEF Kill, ChildTypeOK
    <2>6. ChildInv'
      BY <1>4 DEF Kill, ChildInv
    <2> QED
      BY <2>1, <2>2, <2>3, <2>4, <2>5, <2>6
  <1>5. CASE Wait
    <2>1. /\ UNCHANGED <<started, completed, reader, output, fds, revents,
                        leaked, unread, childVars, hooks, out>>
          /\ pc = "wait" /\ pc' = "done"
      BY <1>5 DEF Wait
    <2>2. /\ result' \in Result /\ retval' \in Run!Returns(result'.type)
          /\ consumer' \in Consumer /\ reaped' \in BOOLEAN
          /\ ~reaped' => result'.type = "ERROR"
          /\ reaped' =>
               /\ status \in {"exited", "killed"}
               /\ result'.type = IF status = "exited" THEN exitType ELSE "ERROR"
               /\ result'.type = "PASS" => result'.failure = NoFailure
      <3>1. NoFailure \in Failure
        BY DEF NoFailure, Failure, AnyStage, Stages
      <3>2. CASE SetError /\ UNCHANGED <<reaped, consumer>>
        <4>1. ~reaped /\ ~reaped'
          BY <2>1, <3>2 DEF ParentInv, FlagsTypeOK
        <4>2. reaped' \in BOOLEAN
          BY <3>2 DEF FlagsTypeOK
        <4>3. /\ result' \in Result /\ result'.type = "ERROR"
              /\ retval' \in Run!Returns("ERROR")
          BY <3>2, SetErrorType DEF Run!Returns
        <4>4. consumer' \in Consumer
          BY <3>2 DEF ParentTypeOK
        <4> QED
          BY <4>1, <4>2, <4>3, <4>4
      <3>3. CASE status = "exited" /\ TakeExitStatus /\ reaped' = TRUE
        <4>1. exitType \in ResultTypes
          BY <3>3 DEF ChildTypeOK, ChildInv
        <4>2. consumer' \in Consumer /\ consumer.failure \in Failure
          BY <3>1, <3>3 DEF TakeExitStatus, ParentTypeOK, Consumer
        <4>3. retval' \in Run!Returns(exitType)
          BY <3>3, <4>1
          DEF TakeExitStatus, ReturnValue, Run!Returns, ResultTypes
        <4>4. result' \in Result /\ result'.type = exitType
          BY <3>1, <3>3, <4>1, <4>2 DEF TakeExitStatus, Result
        <4>5. exitType = "PASS" => result'.failure = NoFailure
          BY <3>3 DEF TakeExitStatus
        <4> QED
          BY <3>3, <4>2, <4>3, <4>4, <4>5
      <3>4. CASE /\ status = "killed" /\ TakeSignal /\ reaped' = TRUE
                 /\ UNCHANGED consumer
        BY <3>4, SetErrorType DEF TakeSignal, Run!Returns, ParentTypeOK
      <3> QED
        BY <1>5, <3>2, <3>3, <3>4 DEF Wait
    <2>3. retval' \in {-1, 0, 1}
      BY <2>2 DEF Run!Returns
    <2>4. ParentTypeOK' /\ PipesTypeOK'
      BY <2>1, <2>2, <2>3 DEF ParentTypeOK, PipesTypeOK
    <2>5. FlagsTypeOK'
      BY <2>1, <2>2 DEF FlagsTypeOK
    <2>6. ReaderInv'
      BY <2>1 DEF ReaderInv, WellFormed
    <2>7. ParentInv'
      BY <2>1, <2>2 DEF ParentInv, childVars
    <2> QED
      BY <2>1, <2>4, <2>5, <2>6, <2>7, ChildUntouched
  <1>6. CASE Finish
    <2>1. NoFailure \in Failure
      BY DEF NoFailure, Failure, AnyStage, Stages
    <2>2. consumer' \in Consumer
      BY <1>6, <2>1 DEF Finish, ParentTypeOK, Consumer
    <2>3. ParentTypeOK' /\ PipesTypeOK'
      BY <1>6, <2>2 DEF Finish, ParentTypeOK, ParentInv, PipesTypeOK
    <2>4. FlagsTypeOK'
      BY <1>6 DEF Finish, FlagsTypeOK
    <2>5. ReaderInv'
      BY <1>6 DEF Finish, ReaderInv, WellFormed
    <2>6. ParentInv'
      BY <1>6 DEF Finish, ParentInv, childVars
    <2> QED
      BY <1>6, <2>3, <2>4, <2>5, <2>6, ChildUntouched DEF Finish
  <1> QED
    BY <1>1, <1>2, <1>3, <1>4, <1>5, <1>6

\* What the child reports of itself, or of a signal, is a failure.
LEMMA ReportType ==
    ASSUME ChildTypeOK
    PROVE  /\ \A failure \in TestFailures : failure \in Failure
           /\ SignalFailure \in Failure
           /\ NoFailure \in Failure
  <1>1. HooksStage \in AnyStage /\ \A i \in 1 .. entered : StageSeq[i] \in AnyStage
    <2>1. entered \in 0 .. 3 /\ \A i \in 1 .. 3 : StageSeq[i] \in AnyStage
      BY Lengths DEF ChildTypeOK, StageSeq, AnyStage, Stages
    <2> QED
      BY <2>1 DEF HooksStage, AnyStage, Stages
  <1>2. NoFailure \in Failure
    BY DEF NoFailure, Failure, AnyStage, Stages
  <1> QED
    BY <1>1, <1>2, RunnerAssumption DEF TestFailures, SignalFailure, Failure

\* The handler of the signals that are captured.
LEMMA HandleSignalStep ==
    ASSUME ChildTypeOK, ChildInv, HandleSignal, status = "alive",
           UNCHANGED <<entered, stdio, printed>>, signals' \in 0 .. MaxSignals
    PROVE  ChildTypeOK' /\ ChildInv' /\ status' \in {"alive", "killed"}
  <1>1. pending' \in Seq(Seq(Cell)) /\ (cpc' = "write" => pending' # <<>>)
    BY FailureEventType, ReportType DEF HandleSignal, ChildTypeOK, ChildInv
  <1>2. ChildTypeOK'
    BY <1>1, ReportType DEF HandleSignal, ChildTypeOK, ResultTypes
  <1>3. ChildInv'
    BY <1>1 DEF HandleSignal, ChildInv
  <1> QED
    BY <1>2, <1>3 DEF HandleSignal

\* The child on its way through the stages of the test case.
LEMMA ChildStep ==
    ASSUME IInv, ChildNext
    PROVE  IInv'
  <1> USE DEF IInv, TypeOK
  <1>0. /\ UNCHANGED parentVars /\ status = "alive"
        /\ status' \in {"alive", "exited", "killed"}
    BY DEF ChildNext, ChildUnchanged, ChildStart, EnterStage, WriteHooks,
           PrintOutput, FlushOutput, StageReturns, ShortCircuit, TestExits,
           SigRestore, DestroyHooks, CloseStreams, Exit, WriteBroken, HandleSignal
  <1>1. ParentTypeOK' /\ FlagsTypeOK' /\ ReaderInv' /\ ParentInv'
    BY <1>0, ParentUntouched
  <1>2. CASE ChildStart
    <2>1. ChildTypeOK' /\ PipesTypeOK'
      BY <1>2 DEF ChildStart, ChildUnchanged, ChildTypeOK, PipesTypeOK
    <2>2. ChildInv'
      BY <1>2 DEF ChildStart, ChildUnchanged, ChildInv
    <2> QED
      BY <1>1, <2>1, <2>2
  <1>3. CASE EnterStage
    <2>1. /\ StageSeq[entered + 1] \in Stages
          /\ entered + 1 \in 0 .. Len(StageSeq)
      <3>1. entered \in 0 .. 3 /\ entered < 3
        BY <1>3, Lengths DEF EnterStage, ChildTypeOK, ChildInv
      <3>2. entered + 1 \in {1, 2, 3}
        BY <3>1
      <3> QED
        BY <3>2, Lengths DEF StageSeq, Stages
    <2>2. pending' \in Seq(Seq(Cell)) /\ pending' # <<>>
      BY <1>3, <2>1, StageChangeEventType DEF EnterStage
    <2>3. ChildTypeOK' /\ PipesTypeOK'
      BY <1>3, <2>1, <2>2
      DEF EnterStage, ChildUnchanged, ChildTypeOK, PipesTypeOK
    <2>4. ChildInv'
      BY <1>3, <2>2 DEF EnterStage, ChildUnchanged, ChildInv
    <2> QED
      BY <1>1, <2>3, <2>4
  <1>4. CASE WriteHooks
    <2> DEFINE cells == Head(pending)
    <2>1. /\ pending # <<>> /\ pending \in Seq(Seq(Cell))
          /\ cells \in Seq(Cell) /\ Tail(pending) \in Seq(Seq(Cell))
      BY <1>4 DEF WriteHooks, ChildInv, ChildTypeOK
    <2>2. PICK n \in Transfers(cells, HooksCap - Len(hooks)) :
            LET rest == SubSeq(cells, n + 1, Len(cells))
            IN  /\ hooks' = hooks \o SubSeq(cells, 1, n)
                /\ pending' = IF rest = <<>> THEN Tail(pending)
                                             ELSE <<rest>> \o Tail(pending)
      BY <1>4 DEF WriteHooks
    <2>3. /\ n \in Nat /\ n <= Len(cells) /\ n <= HooksCap - Len(hooks)
          /\ hooks \in Seq(Cell)
      BY <2>1, <2>2 DEF Transfers, PipesTypeOK
    <2>4. /\ SubSeq(cells, 1, n) \in Seq(Cell) /\ Len(SubSeq(cells, 1, n)) = n
          /\ SubSeq(cells, n + 1, Len(cells)) \in Seq(Cell)
      BY <2>1, <2>3, Cut
    <2>5. hooks' \in Seq(Cell) /\ Len(hooks') = Len(hooks) + n
      BY <2>2, <2>3, <2>4, Joined
    <2>6. Len(hooks') <= HooksCap
      BY <2>3, <2>5, RunnerAssumption
    <2>7. pending' \in Seq(Seq(Cell))
      <3>1. <<SubSeq(cells, n + 1, Len(cells))>> \in Seq(Seq(Cell))
        BY <2>4
      <3>2. <<SubSeq(cells, n + 1, Len(cells))>> \o Tail(pending)
              \in Seq(Seq(Cell))
        BY <2>1, <3>1, Joined
      <3> QED
        BY <2>1, <2>2, <3>2
    <2>8. cpc' = IF pending' = <<>> THEN AfterWrite ELSE "write"
      BY <1>4 DEF WriteHooks
    <2>9. ChildTypeOK' /\ PipesTypeOK'
      BY <1>4, <2>5, <2>6, <2>7, <2>8
      DEF WriteHooks, ChildUnchanged, AfterWrite, ChildTypeOK, PipesTypeOK
    <2>10. ChildInv'
      BY <1>4, <2>8 DEF WriteHooks, ChildUnchanged, AfterWrite, ChildInv
    <2> QED
      BY <1>1, <2>9, <2>10
  <1>5. CASE PrintOutput
    <2>1. printed' \in 0 .. MaxOutput /\ printed + 1 \in Nat
      BY <1>5, RunnerAssumption DEF PrintOutput, ChildTypeOK
    <2>2. stdio' \in Seq(Nat)
      BY <1>5, <2>1, AppendProperties DEF PrintOutput, ChildTypeOK
    <2>3. ChildTypeOK' /\ PipesTypeOK'
      BY <1>5, <2>1, <2>2 DEF PrintOutput, ChildUnchanged, ChildTypeOK, PipesTypeOK
    <2>4. ChildInv'
      BY <1>5 DEF PrintOutput, ChildUnchanged, ChildInv
    <2> QED
      BY <1>1, <2>3, <2>4
  <1>6. CASE FlushOutput
    <2>1. Head(stdio) \in Nat /\ stdio' \in Seq(Nat)
      BY <1>6, HeadTailProperties DEF FlushOutput, ChildTypeOK
    <2>2. out' \in Seq(Nat) /\ Len(out') <= OutputCap
      BY <1>6, <2>1, AppendProperties, RunnerAssumption
      DEF FlushOutput, PipesTypeOK
    <2>3. ChildTypeOK' /\ PipesTypeOK'
      BY <1>6, <2>1, <2>2
      DEF FlushOutput, ChildUnchanged, ChildTypeOK, PipesTypeOK
    <2>4. ChildInv'
      BY <1>6 DEF FlushOutput, ChildUnchanged, ChildInv
    <2> QED
      BY <1>1, <2>3, <2>4
  <1>7. CASE StageReturns
    <2>1. ChildTypeOK' /\ PipesTypeOK'
      BY <1>7 DEF StageReturns, ChildUnchanged, ChildTypeOK, PipesTypeOK
    <2>2. ChildInv'
      BY <1>7, Lengths DEF StageReturns, ChildUnchanged, ChildTypeOK, ChildInv
    <2> QED
      BY <1>1, <2>1, <2>2
  <1>8. ASSUME NEW type \in {"FAIL", "SKIPPED"}, NEW failure \in TestFailures,
               ShortCircuit(type, failure)
        PROVE  IInv'
    <2>1. failure \in Failure
      BY ReportType
    <2>2. pending' \in Seq(Seq(Cell)) /\ (cpc' = "write" => pending' # <<>>)
      BY <1>8, <2>1, FailureEventType DEF ShortCircuit, ChildTypeOK
    <2>3. ChildTypeOK' /\ PipesTypeOK'
      BY <1>8, <2>1, <2>2
      DEF ShortCircuit, ChildUnchanged, ChildTypeOK, ResultTypes, PipesTypeOK
    <2>4. ChildInv'
      BY <1>8, <2>2 DEF ShortCircuit, ChildUnchanged, ChildInv
    <2> QED
      BY <1>1, <2>3, <2>4
  <1>9. ASSUME NEW code \in ExitCodes, TestExits(code)
        PROVE  IInv'
    <2>1. /\ CoerceResultType(code) \in ResultTypes
          /\ CoerceResultType(code) = "PASS" => 0 \in ExitCodes
      BY DEF CoerceResultType, ResultTypes
    <2>2. ChildTypeOK' /\ PipesTypeOK'
      BY <1>9, <2>1 DEF TestExits, ChildUnchanged, ChildTypeOK, PipesTypeOK
    <2>3. ChildInv'
      BY <1>9, <2>1 DEF TestExits, ChildUnchanged, ChildInv, ResultTypes
    <2> QED
      BY <1>1, <2>2, <2>3
  <1>10. CASE SigRestore
    <2>1. ChildTypeOK' /\ PipesTypeOK'
      BY <1>10 DEF SigRestore, ChildUnchanged, ChildTypeOK, ResultTypes,
                   PipesTypeOK
    <2>2. ChildInv'
      BY <1>10 DEF SigRestore, ChildUnchanged, ChildInv
    <2> QED
      BY <1>1, <2>1, <2>2
  <1>11. CASE DestroyHooks
    <2>1. ChildTypeOK' /\ PipesTypeOK'
      BY <1>11 DEF DestroyHooks, ChildUnchanged, ChildTypeOK, PipesTypeOK
    <2>2. ChildInv'
      BY <1>11 DEF DestroyHooks, ChildUnchanged, ChildInv
    <2> QED
      BY <1>1, <2>1, <2>2
  <1>12. CASE CloseStreams \/ Exit
    <2>1. ChildTypeOK' /\ PipesTypeOK'
      BY <1>12 DEF CloseStreams, Exit, ChildUnchanged, ChildTypeOK, PipesTypeOK
    <2>2. ChildInv'
      BY <1>12 DEF CloseStreams, Exit, ChildUnchanged, ChildInv
    <2> QED
      BY <1>1, <2>1, <2>2
  <1>13. CASE WriteBroken
    <2>1. PipesTypeOK' /\ UNCHANGED <<entered, stdio, printed, signals>>
      BY <1>13 DEF WriteBroken, PipesTypeOK
    <2>2. CASE sig = "captured" /\ HandleSignal
      BY <1>0, <1>1, <2>1, <2>2, HandleSignalStep DEF ChildTypeOK
    <2>3. CASE /\ sig = "default" /\ status' = "killed"
               /\ UNCHANGED <<cpc, sig, pending, report, exitType>>
      <3>1. ChildTypeOK' /\ ChildInv'
        BY <2>1, <2>3 DEF ChildTypeOK, ChildInv
      <3> QED
        BY <1>1, <2>1, <3>1
    <2>4. CASE /\ sig = "handling"
               /\ cpc' = IF cpc = "write" THEN AfterWrite ELSE "closed"
               /\ pending' = <<>>
               /\ UNCHANGED <<status, sig, report, exitType>>
      <3>1. cpc' \in {"close", "closed"}
        BY <2>4 DEF AfterWrite, ChildInv
      <3>2. <<>> \in Seq(Seq(Cell))
        OBVIOUS
      <3>3. ChildTypeOK'
        BY <2>1, <2>4, <3>1, <3>2 DEF ChildTypeOK
      <3>4. ChildInv'
        BY <1>0, <2>1, <2>4, <3>1 DEF ChildInv
      <3> QED
        BY <1>1, <2>1, <3>3, <3>4
    <2> QED
      BY <1>13, <2>2, <2>3, <2>4 DEF WriteBroken
  <1> QED
    BY <1>2, <1>3, <1>4, <1>5, <1>6, <1>7, <1>8, <1>9, <1>10, <1>11, <1>12, <1>13
    DEF ChildNext

\* A signal between any two steps of the child.
LEMMA SignalStep ==
    ASSUME IInv, CatchSignal \/ Terminate
    PROVE  IInv'
  <1> USE DEF IInv, TypeOK
  <1>0. /\ UNCHANGED parentVars /\ status = "alive"
        /\ status' \in {"alive", "killed"}
    BY DEF CatchSignal, HandleSignal, Terminate
  <1>1. ParentTypeOK' /\ FlagsTypeOK' /\ ReaderInv' /\ ParentInv'
    BY <1>0, ParentUntouched
  <1>2. CASE CatchSignal
    <2>1. /\ UNCHANGED <<entered, stdio, printed>> /\ HandleSignal
          /\ signals' \in 0 .. MaxSignals /\ PipesTypeOK'
      BY <1>2, RunnerAssumption DEF CatchSignal, ChildTypeOK, PipesTypeOK
    <2> QED
      BY <1>0, <1>1, <2>1, HandleSignalStep
  <1>3. CASE Terminate
    <2>1. ChildTypeOK' /\ PipesTypeOK'
      BY <1>3, RunnerAssumption DEF Terminate, ChildTypeOK, PipesTypeOK
    <2>2. ChildInv'
      BY <1>3 DEF Terminate, ChildInv
    <2> QED
      BY <1>1, <2>1, <2>2
  <1> QED
    BY <1>2, <1>3

\* Every step of the specification preserves the inductive invariant.
LEMMA NextInv == IInv /\ [Next]_vars => IInv'
  <1> SUFFICES ASSUME IInv, [Next]_vars PROVE IInv'
    OBVIOUS
  <1>1. CASE ParentNext
    BY <1>1, SetupStep, WaitStep DEF ParentNext
  <1>2. CASE ChildNext
    BY <1>2, ChildStep
  <1>3. CASE CatchSignal \/ Terminate
    BY <1>3, SignalStep
  <1>4. CASE UNCHANGED vars
    <2>1. ParentTypeOK' /\ PipesTypeOK'
      BY <1>4 DEF IInv, TypeOK, ParentTypeOK, PipesTypeOK, vars, parentVars
    <2>2. FlagsTypeOK'
      BY <1>4 DEF IInv, TypeOK, FlagsTypeOK, vars, parentVars
    <2>3. ReaderInv'
      BY <1>4 DEF IInv, ReaderInv, WellFormed, vars, parentVars
    <2>4. ParentInv'
      BY <1>4 DEF IInv, ParentInv, vars, parentVars, childVars
    <2>5. ChildTypeOK' /\ ChildInv'
      BY <1>4, ChildUntouched DEF IInv, TypeOK, vars
    <2> QED
      BY <2>1, <2>2, <2>3, <2>4, <2>5 DEF IInv, TypeOK
  <1> QED
    BY <1>1, <1>2, <1>3, <1>4 DEF Next, Terminating

(***************************************************************************)
(* Theorems                                                                 *)
(***************************************************************************)

\* The invariant the theorems below rest on: how far parent and child are,
\* and what each has decided by then.
THEOREM Invariance == Spec => []IInv
  BY InitInv, NextInv, PTL DEF Spec

\* Whatever is read off the pipes, whichever call fails and whenever a signal
\* arrives, all state keeps its type: a read never runs past a pipe, and the
\* pipes never hold more than their capacity.
THEOREM TypeCorrect == Spec => []TypeOK
  <1>1. IInv => TypeOK
    BY DEF IInv
  <1> QED
    BY <1>1, Invariance, PTL

\* The verdict of a child that was reaped is the one it exited with, or an
\* error when it was killed: an error met while reading never survives it.
THEOREM VerdictCorrect == Spec => []VerdictFaithful
  <1>1. IInv => VerdictFaithful
    BY DEF IInv, ParentInv, VerdictFaithful
  <1> QED
    BY <1>1, Invariance, PTL

\* Unless the code under test calls exit(0) itself, a test case is reported
\* as passed only when its three stages returned.
THEOREM PassCorrect ==
    ASSUME 0 \notin ExitCodes
    PROVE  Spec => []PassMeansPassed
  <1>1. IInv => PassMeansPassed
    <2> SUFFICES ASSUME IInv, completed = 1, result.type = "PASS"
                 PROVE  /\ status = "exited" /\ reaped
                        /\ entered = Len(StageSeq) /\ sig = "default"
                        /\ report = NoFailure /\ result.failure = NoFailure
      BY DEF PassMeansPassed
    <2>1. pc = "returned" /\ started
      BY DEF IInv, ParentInv, TypeOK, ParentTypeOK
    <2>2. reaped
      BY <2>1 DEF IInv, ParentInv
    <2>3. status = "exited" /\ exitType = "PASS" /\ result.failure = NoFailure
      BY <2>2 DEF IInv, ParentInv
    <2> QED
      BY <2>2, <2>3, Lengths DEF IInv, ChildInv
  <1> QED
    BY <1>1, Invariance, PTL

(***************************************************************************)
(* Refinement of TestcaseRun                                                *)
(***************************************************************************)

\* What the callers see, by how far the parent is.
Seen ==
    /\ pc = "create" =>
         Phase = "pending" /\ Verdict = "none" /\ ReturnCode = 0
    /\ pc \notin {"create", "returned"} =>
         Phase = "running" /\ Verdict = "none" /\ ReturnCode = 0
    /\ pc = "returned" /\ started =>
         Phase = "completed" /\ Verdict = result.type /\ ReturnCode = retval
    /\ pc = "returned" /\ ~started =>
         Phase = "abandoned" /\ Verdict = "none" /\ ReturnCode = -1

\* The refinement mapping in terms of the parent's program counter.
LEMMA Mapping == IInv => Seen
  BY DEF IInv, ParentInv, Phase, Verdict, ReturnCode, Seen

\* The initial state is one of the abstract run's.
LEMMA RefinesInit == Init => Run!RunInit
  <1> SUFFICES ASSUME Init PROVE Run!RunInit
    OBVIOUS
  <1>1. IInv /\ pc = "create"
    BY InitInv DEF Init
  <1> QED
    BY <1>1, Mapping DEF Seen, Run!RunInit

\* Every step is a step of the abstract run, or invisible to the callers.
LEMMA RefinesNext ==
    IInv /\ IInv' /\ [Next]_vars => [Run!RunNext]_(Run!runVars)
  <1>1. Seen /\ Seen' /\ IInv /\ [Next]_vars => [Run!RunNext]_(Run!runVars)
    <2> SUFFICES ASSUME Seen, Seen', IInv, [Next]_vars
                 PROVE  [Run!RunNext]_(Run!runVars)
      OBVIOUS
    <2> USE DEF Seen
    <2>1. CASE CreateResult
      <3>1. CASE pc' = "hooks_pipe"
        BY <2>1, <3>1 DEF CreateResult, Run!RunNext, Run!Start
      <3>2. CASE pc' = "returned" /\ UNCHANGED started
        <4>1. ~started'
          BY <2>1, <3>2 DEF CreateResult, IInv, ParentInv
        <4> QED
          BY <2>1, <3>2, <4>1 DEF CreateResult, Run!RunNext, Run!Abandon
      <3> QED
        BY <2>1, <3>1, <3>2 DEF CreateResult
    <2>2. CASE Complete \/ Finish
      <3>1. /\ pc \in {"complete", "done"} /\ pc' = "returned" /\ started'
            /\ UNCHANGED <<result, retval>>
        BY <2>2 DEF Complete, Finish, IInv, ParentInv, TypeOK, FlagsTypeOK
      <3>2. /\ result.type \in {"PASS", "FAIL", "SKIPPED", "ERROR"}
            /\ retval \in Run!Returns(result.type)
        BY <3>1 DEF IInv, ParentInv, Run!Returns, TypeOK, ParentTypeOK,
                    Result, ResultTypes
      <3> QED
        BY <3>1, <3>2 DEF Run!RunNext, Run!Report
    <2>3. CASE ~(CreateResult \/ Complete \/ Finish)
      <3>1. \/ pc \notin {"create", "returned"}
               /\ pc' \notin {"create", "returned"}
            \/ UNCHANGED parentVars
        BY <2>3 DEF Next, ParentNext, OpenPipe, Fork, Poll, HandleHooks,
           ReadHooks, HandleOutput, Kill, Wait, ChildNext, ChildUnchanged,
           ChildStart, EnterStage, WriteHooks, PrintOutput, FlushOutput,
           StageReturns, ShortCircuit, TestExits, SigRestore, DestroyHooks,
           CloseStreams, Exit, WriteBroken, CatchSignal, Terminate, Terminating,
           vars
      <3>2. UNCHANGED <<Phase, Verdict, ReturnCode>>
        BY <3>1 DEF Phase, Verdict, ReturnCode, parentVars
      <3> QED
        BY <3>2 DEF Run!runVars
    <2> QED
      BY <2>1, <2>2, <2>3
  <1>2. IInv' => Seen'
    BY Mapping, PTL
  <1> QED
    BY <1>1, <1>2, Mapping

\* To its callers, the forking runner behaves as TestcaseRun promises: one
\* report, completed at most once, and a return value that agrees with it.
THEOREM Refinement == Spec => ImplementsRun
  BY RefinesInit, RefinesNext, Invariance, PTL DEF Spec, ImplementsRun,
     Run!RunSpec

-------------------------------------------------------------------------------
(***************************************************************************)
(* What is left of the child when runner_run_testcase__ goes on             *)
(***************************************************************************)

\* There was a child, and nothing can come through the output pipe any more.
OutputClosed == status # "none" /\ ~OutputOpen

\* The output is only given up by an error, or once its pipe is closed.
OrphanInv ==
    /\ fds["output"] \in {OutputFd, -OutputFd}
    /\ fds["output"] < 0 => "output" \in unread \/ OutputClosed
    /\ pc \in {"hooks", "output"} /\ revents["output"] # {} =>
         fds["output"] = OutputFd
    /\ pc \in {"hooks", "output"} /\ HungUp("output") => OutputClosed
    /\ pc \in {"wait", "done", "returned"} =>
         status # "alive" \/ fds["output"] < 0

\* A step of the child, or a signal: a pipe that is closed stays closed, and is
\* only closed with nothing left in stdio's buffer while there is a reader.
LEMMA OutputClosedStays ==
    ASSUME IInv, ChildNext \/ CatchSignal \/ Terminate
    PROVE  /\ UNCHANGED parentVars /\ status = "alive"
           /\ status' \in {"alive", "exited", "killed"}
           /\ OutputClosed => OutputClosed' /\ UNCHANGED <<cpc, out, stdio>>
           /\ Readers /\ ~OutputClosed /\ (status' = "exited" \/ cpc' = "closed")
                => stdio' = <<>>
  <1>1. CASE WriteBroken
    BY <1>1 DEF WriteBroken, HandleSignal, OutputClosed, OutputOpen
  <1>2. CASE CatchSignal \/ Terminate
    BY <1>2 DEF CatchSignal, HandleSignal, Terminate, OutputClosed, OutputOpen
  <1>3. CASE CloseStreams \/ Exit
    BY <1>3 DEF CloseStreams, Exit, Flushed, ChildUnchanged, OutputClosed,
                OutputOpen
  <1>4. CASE /\ ChildNext /\ ~CloseStreams /\ ~Exit /\ ~WriteBroken
    <2>1. /\ UNCHANGED parentVars /\ status = "alive" /\ status' = "alive"
          /\ cpc # "closed" /\ cpc' # "closed"
      BY <1>4 DEF ChildNext, ChildUnchanged, ChildStart, EnterStage, WriteHooks,
         AfterWrite, PrintOutput, FlushOutput, StageReturns, ShortCircuit,
         TestExits, SigRestore, DestroyHooks
    <2> QED
      BY <2>1 DEF OutputClosed, OutputOpen
  <1> QED
    BY <1>1, <1>2, <1>3, <1>4

\* Action by action: the child that is left behind has closed its output.
LEMMA OrphanStep ==
    ASSUME IInv, OrphanInv, [Next]_vars
    PROVE  OrphanInv'
  <1>0. /\ OutputFd \in Nat /\ OutputFd > 0 /\ fds["output"] \in Int
        /\ fds \in [Handlers -> Int] /\ "output" \in Handlers
        /\ status \in {"none", "alive", "exited", "killed"}
    BY RunnerAssumption
    DEF IInv, TypeOK, ParentTypeOK, ChildTypeOK, Handlers
  <1> USE DEF OrphanInv, OutputClosed, OutputOpen
  <1>1. CASE \/ CreateResult \/ OpenPipe("hooks_pipe", "output_pipe")
             \/ OpenPipe("output_pipe", "fork") \/ Fork \/ Complete
    <2>1. /\ status = "none" /\ UNCHANGED <<fds, unread>>
          /\ status' \in {"none", "alive"} /\ (pc' = "returned" => status' = "none")
          /\ pc' \in {"returned", "hooks_pipe", "output_pipe", "fork", "poll",
                      "complete"}
      BY <1>1 DEF CreateResult, OpenPipe, Fork, Complete, childVars, IInv, ParentInv
    <2> QED
      BY <1>0, <2>1
  <1>2. CASE Poll
    <2>1. /\ pc = "poll" /\ status # "none"
          /\ UNCHANGED <<fds, unread, status, cpc>>
      BY <1>2 DEF Poll, childVars, IInv, ParentInv
    <2>2. CASE pc' = "wait" /\ \A h \in Handlers : fds[h] < 0
      BY <1>0, <2>1, <2>2
    <2>3. CASE /\ pc' = "hooks"
               /\ revents'["output"] = Revents(fds["output"], out, OutputOpen)
      <3>1. revents'["output"] # {} => fds["output"] = OutputFd
        BY <1>0, <2>3 DEF Revents
      <3>2. ASSUME revents'["output"] = {"HUP"} PROVE OutputClosed
        <4>1. "HUP" \in revents'["output"]
          BY <3>2
        <4>2. ~(fds["output"] < 0)
          BY <2>3, <4>1 DEF Revents
        <4> QED
          BY <2>1, <2>3, <4>1, <4>2 DEF Revents
      <3> QED
        BY <2>1, <2>3, <3>1, <3>2 DEF HungUp
    <2>4. CASE pc' = "kill"
      BY <1>0, <2>1, <2>4
    <2> QED
      BY <1>2, <2>2, <2>3, <2>4 DEF Poll, Handlers
  <1>3. CASE HandleHooks
    <2>1. /\ UNCHANGED <<revents, status, cpc>> /\ unread \subseteq unread'
          /\ pc = "hooks" /\ pc' \in {"output", "crashed"}
      BY <1>3 DEF HandleHooks, ReadHooks, ReadFails, childVars
    <2>2. fds'["output"] = fds["output"]
      BY <1>0, <1>3 DEF HandleHooks, ReadHooks, ReadFails, Close, Handlers
    <2> QED
      BY <2>1, <2>2 DEF HungUp
  <1>4. CASE HandleOutput
    <2>1. pc = "output" /\ pc' = "poll" /\ UNCHANGED <<cpc, status>>
      BY <1>4 DEF HandleOutput, childVars
    <2>2. CASE UNCHANGED <<fds, unread>>
      BY <1>0, <2>1, <2>2
    <2>3. CASE HungUp("output") /\ Close("output") /\ UNCHANGED unread
      <3>1. OutputClosed /\ fds["output"] = OutputFd
        BY <2>1, <2>3 DEF HungUp
      <3>2. fds'["output"] = -OutputFd
        BY <1>0, <2>3, <3>1 DEF Close
      <3> QED
        BY <1>0, <2>1, <2>3, <3>1, <3>2
    <2>4. CASE "IN" \in revents["output"] /\ ReadFails("output")
      <3>1. fds["output"] = OutputFd
        BY <2>1, <2>4
      <3>2. fds'["output"] = -OutputFd /\ "output" \in unread'
        BY <1>0, <2>4, <3>1 DEF ReadFails, Close
      <3> QED
        BY <1>0, <2>1, <3>2
    <2> QED
      BY <1>4, <2>2, <2>3, <2>4 DEF HandleOutput
  <1>5. CASE Kill
    <2>1. /\ UNCHANGED <<fds, unread, cpc>> /\ pc' = "wait" /\ status # "none"
          /\ status' = IF status = "alive" THEN "killed" ELSE status
      BY <1>5 DEF Kill, IInv, ParentInv
    <2> QED
      BY <2>1
  <1>6. CASE Wait \/ Finish
    <2>1. /\ UNCHANGED <<fds, unread, cpc, status>>
          /\ pc \in {"wait", "done"} /\ pc' \in {"done", "returned"}
      BY <1>6 DEF Wait, Finish, childVars
    <2> QED
      BY <2>1
  <1>7. CASE ChildNext \/ CatchSignal \/ Terminate
    <2>1. /\ UNCHANGED <<pc, fds, unread, revents>> /\ status # "none"
          /\ status' \in {"alive", "exited", "killed"} /\ status = "alive"
          /\ OutputClosed => OutputClosed'
      BY <1>7, OutputClosedStays DEF parentVars
    <2> QED
      BY <2>1 DEF HungUp
  <1>8. CASE UNCHANGED vars
    BY <1>8 DEF HungUp, vars, parentVars, childVars
  <1> QED
    BY <1>1, <1>2, <1>3, <1>4, <1>5, <1>6, <1>7, <1>8
    DEF Next, ParentNext, Terminating

\* Whichever calls fail, and whenever: a child that outlives the run of its test
\* case was not waited for because waitpid() failed, the result is an error, and
\* nothing of the test case is left to run unless its output could not be read.
THEOREM NeverOrphans == Spec => []NoOrphan
  <1>1. Init => OrphanInv
    <2> SUFFICES ASSUME Init PROVE OrphanInv
      OBVIOUS
    <2>1. fds["output"] = OutputFd
      BY DEF Init, Handlers
    <2> QED
      BY <2>1, RunnerAssumption DEF Init, OrphanInv
  <1>2. IInv /\ OrphanInv => NoOrphan
    <2> SUFFICES ASSUME IInv, OrphanInv, pc \in {"done", "returned"},
                        status = "alive"
                 PROVE  /\ ~reaped /\ result.type = "ERROR"
                        /\ cpc = "closed" \/ "output" \in unread
      BY DEF NoOrphan
    <2>1. ~reaped
      BY DEF IInv, ParentInv
    <2>2. started
      BY DEF IInv, ParentInv
    <2>3. result.type = "ERROR"
      BY <2>1, <2>2 DEF IInv, ParentInv
    <2> QED
      BY <2>1, <2>3 DEF OrphanInv, OutputClosed, OutputOpen
  <1> QED
    BY <1>1, <1>2, InitInv, NextInv, OrphanStep, PTL DEF Spec

-------------------------------------------------------------------------------
(***************************************************************************)
(* The two streams between the child and the parent: what the parent knows  *)
(* is what the child has sent, in the order it was sent, and both pipes are *)
(* read to their end before wait_for_child__ blocks in waitpid().           *)
(* Capacities, sizes, the amount of output and the number of kills are      *)
(* arbitrary; each theorem names the calls that must not fail for it.       *)
(***************************************************************************)


(***************************************************************************)
(* What the theorems ask of the environment                                 *)
(***************************************************************************)

\* poll() and the read() of output do not fail.
OutputReadable == "poll" \notin Faults /\ "read_output" \notin Faults

\* There is memory for the output.
OutputStored == "output_alloc" \notin Faults

\* poll() and the read() of events do not fail, there is memory for a
\* failure, whose size fits into the length field of its header, and the
\* signal handler writes nothing into the middle of another message.
EventsReadable ==
    /\ "poll" \notin Faults /\ "read_hooks" \notin Faults
    /\ "malloc" \notin Faults
    /\ \A size \in FailureSizes : size < LenMod
    /\ "catchable" \notin SignalKinds

(***************************************************************************)
(* The output pipe                                                          *)
(***************************************************************************)

\* Everything printed is collected, in the pipe or still buffered, in order.
OutputInOrder ==
    /\ Len(output) + Len(out) + Len(stdio) = printed
    /\ \A i \in 1 .. Len(output) : output[i] = i
    /\ \A i \in 1 .. Len(out) : out[i] = Len(output) + i
    /\ \A i \in 1 .. Len(stdio) : stdio[i] = Len(output) + Len(out) + i

\* The parent is through with the pipes.
Waited == pc \in {"wait", "done"} \/ (pc = "returned" /\ status # "none")

\* The descriptor is only taken out of poll() when the pipe is empty for good.
OutputDrained ==
    /\ fds["output"] \in {OutputFd, -OutputFd}
    /\ fds["output"] < 0 => OutputClosed /\ out = <<>>
    /\ pc \in {"hooks", "output"} /\ revents["output"] # {} =>
         fds["output"] = OutputFd
    /\ pc \in {"hooks", "output"} /\ HungUp("output") =>
         OutputClosed /\ out = <<>>
    /\ pc # "kill"
    /\ Waited => fds["output"] < 0
    /\ pc # "crashed" /\ (status = "exited" \/ cpc = "closed") => stdio = <<>>

(***************************************************************************)
(* The hooks pipe                                                           *)
(***************************************************************************)

\* The events of the stages, as they come one after the other.
Announced ==
    << HeaderCell("STAGE_CHANGE", 1), StageCell("SETUP"),
       HeaderCell("STAGE_CHANGE", 1), StageCell("EXECUTION"),
       HeaderCell("STAGE_CHANGE", 1), StageCell("TEARDOWN") >>

\* The child sends 2 * entered cells of stages, then a failure if it has one.
CellAt(i) ==
    IF i <= 2 * entered THEN Announced[i]
    ELSE IF i = 2 * entered + 1 THEN HeaderCell("FAILURE", report.size)
    ELSE BodyCell(report, i - 2 * entered - 1)

StreamLen ==
    2 * entered + (IF report = NoFailure THEN 0 ELSE report.size + 1)

\* What is left of the body of the failure behind its first k cells.
RestOfBody(k) == [i \in 1 .. (report.size - k) |-> BodyCell(report, k + i)]

\* What the child has still to write once w cells are written.
Unwritten(w) ==
    \/ cpc # "write" /\ pending = <<>> /\ w = StreamLen
    \/ /\ cpc = "write" /\ report = NoFailure /\ entered > 0
       /\ \/ w = StreamLen - 2 /\ pending = StageChangeEvent(HooksStage)
          \/ w = StreamLen - 1 /\ pending = << <<StageCell(HooksStage)>> >>
    \/ /\ cpc = "write" /\ report # NoFailure
       /\ \/ w = 2 * entered /\ pending = FailureEvent(report)
          \/ \E k \in 0 .. (report.size - 1) :
               /\ w = 2 * entered + 1 + k
               /\ pending = <<RestOfBody(k)>>

StageReader ==
    [buf |-> "stage", got |-> <<>>, cap |-> 1, len |-> 1,
     onDone |-> "body", bodyDone |-> "stage"]

FailureReader(k) ==
    [buf |-> "failure", got |-> [i \in 1 .. k |-> BodyCell(report, i)],
     cap |-> report.size, len |-> report.size,
     onDone |-> "body", bodyDone |-> "failure"]

\* The stage announced by the first p cells.
StageAfter(p) ==
    IF p < 4 THEN "SETUP" ELSE IF p < 6 THEN "EXECUTION" ELSE "TEARDOWN"

\* What the parent knows once p cells are read.
ReadUpTo(p) ==
    /\ p <= 2 * entered =>
         /\ \/ p \in {0, 2, 4, 6} /\ reader = PrepNextMsg
            \/ p \in {1, 3, 5} /\ reader = StageReader
         /\ consumer.stage = StageAfter(p)
    /\ p > 2 * entered =>
         /\ reader = IF p < StreamLen THEN FailureReader(p - 2 * entered - 1)
                                      ELSE PrepNextMsg
         /\ consumer.stage = StageAfter(2 * entered)
    /\ p < StreamLen => consumer.failure = NoFailure
    /\ p = StreamLen =>
         \/ consumer.failure = report
         \/ consumer.failure = NoFailure /\ pc \in {"done", "returned"}

\* The child has written w cells, of which the parent has read p.
InFlight(p, w) ==
    /\ Len(hooks) = w - p
    /\ \A i \in 1 .. Len(hooks) : hooks[i] = CellAt(p + i)
    /\ Unwritten(w)
    /\ ReadUpTo(p)

Protocol == \E p \in 0 .. StreamLen : \E w \in p .. StreamLen : InFlight(p, w)

\* A failure is reported once, of a stage that the child has entered, and the
\* child is through with its pipes when it exits.
Reported ==
    /\ report # NoFailure =>
         /\ report.size \in FailureSizes
         /\ StageNumber[report.stage] <= StageNumber[HooksStage]
         /\ entered > 0
    /\ status = "exited" => cpc \in {"closed", "quit"}
    /\ cpc = "code" => entered > 0
    /\ pc # "crashed"

HooksClosed == status # "none" /\ ~HooksOpen

HooksDrained ==
    /\ fds["hooks"] \in {HooksFd, -HooksFd}
    /\ fds["hooks"] < 0 => HooksClosed /\ hooks = <<>>
    /\ pc = "hooks" /\ revents["hooks"] # {} => fds["hooks"] = HooksFd
    /\ pc = "hooks" /\ "IN" \in revents["hooks"] => hooks # <<>>
    /\ pc = "hooks" /\ HungUp("hooks") => HooksClosed /\ hooks = <<>>
    /\ pc # "kill"
    /\ Waited => fds["hooks"] < 0

\* What is left of the run when the readers are gone.
Outcome ==
    /\ (/\ pc \in {"done", "returned"} /\ status = "exited"
        /\ result.type \in {"FAIL", "SKIPPED"}) => result.failure = report
    /\ leaked => status = "killed" /\ cpc = "write"

EventsInv == Protocol /\ Reported /\ HooksDrained /\ Outcome

(***************************************************************************)
(* Sequences, element by element                                            *)
(***************************************************************************)

\* The elements of the two parts of a sequence.
LEMMA CutElements ==
    ASSUME NEW S, NEW s \in Seq(S), NEW n \in 0 .. Len(s)
    PROVE  /\ \A i \in 1 .. n : SubSeq(s, 1, n)[i] = s[i]
           /\ \A i \in 1 .. (Len(s) - n) : SubSeq(s, n + 1, Len(s))[i] = s[n + i]
  <1>1. Len(s) \in Nat /\ \A i \in 1 .. Len(s) : s[i] \in S
    OBVIOUS
  <1>2. \A i \in 1 .. n : SubSeq(s, 1, n)[i] = s[i]
    <2>1. Len(SubSeq(s, 1, n)) = n
      BY Cut
    <2> QED
      BY <1>1, <2>1, SubSeqProperties
  <1>3. \A i \in 1 .. (Len(s) - n) : SubSeq(s, n + 1, Len(s))[i] = s[n + i]
    <2>1. Len(SubSeq(s, n + 1, Len(s))) = Len(s) - n
      BY Cut
    <2> QED
      BY <1>1, <2>1, SubSeqProperties
  <1> QED
    BY <1>2, <1>3

\* The elements of two sequences put together.
LEMMA JoinedElements ==
    ASSUME NEW S, NEW s \in Seq(S), NEW t \in Seq(S)
    PROVE  /\ \A i \in 1 .. Len(s) : (s \o t)[i] = s[i]
           /\ \A i \in 1 .. Len(t) : (s \o t)[Len(s) + i] = t[i]
  <1>1. Len(s) \in Nat /\ Len(t) \in Nat
    OBVIOUS
  <1>2. \A i \in 1 .. Len(s) + Len(t) :
          (s \o t)[i] = IF i <= Len(s) THEN s[i] ELSE t[i - Len(s)]
    BY ConcatProperties
  <1>3. ASSUME NEW i \in 1 .. Len(t)
        PROVE  (s \o t)[Len(s) + i] = t[i]
    <2>1. /\ Len(s) + i \in 1 .. Len(s) + Len(t)
          /\ ~(Len(s) + i <= Len(s)) /\ (Len(s) + i) - Len(s) = i
      BY <1>1
    <2> QED
      BY <1>2, <2>1
  <1> QED
    BY <1>1, <1>2, <1>3

\* u is s, and behind it the first n elements of t.
Extended(u, s, t, n) ==
    /\ Len(u) = Len(s) + n
    /\ \A i \in 1 .. Len(s) : u[i] = s[i]
    /\ \A i \in 1 .. n : u[Len(s) + i] = t[i]

\* The front of a sequence behind another: what a read() or a write() does.
LEMMA JoinedToCut ==
    ASSUME NEW S, NEW s \in Seq(S), NEW t \in Seq(S), NEW n \in 0 .. Len(t)
    PROVE  /\ s \o SubSeq(t, 1, n) \in Seq(S)
           /\ Extended(s \o SubSeq(t, 1, n), s, t, n)
  <1>1. Len(t) \in Nat /\ n \in Nat /\ n <= Len(t)
    OBVIOUS
  <1>2. PICK u \in Seq(S) : u = SubSeq(t, 1, n)
    BY <1>1, Cut
  <1>3. Len(u) = n /\ \A i \in 1 .. n : u[i] = t[i]
    BY <1>1, <1>2, Cut, CutElements
  <1>4. /\ s \o u \in Seq(S) /\ Len(s \o u) = Len(s) + Len(u)
        /\ \A i \in 1 .. Len(s) : (s \o u)[i] = s[i]
        /\ \A i \in 1 .. Len(u) : (s \o u)[Len(s) + i] = u[i]
    BY Joined, JoinedElements
  <1> QED
    BY <1>2, <1>3, <1>4 DEF Extended

(***************************************************************************)
(* The output pipe                                                          *)
(***************************************************************************)

\* The output only changes hands, or grows by what is printed.
LEMMA OutputMoves ==
    ASSUME Next
    PROVE  \/ HandleOutput \/ PrintOutput \/ FlushOutput
           \/ UNCHANGED <<output, out, stdio, printed>>
  BY DEF Next, ParentNext, CreateResult, OpenPipe, Fork, Complete, Poll,
     HandleHooks, Kill, Wait, Finish, ChildNext, ChildUnchanged, ChildStart,
     EnterStage, WriteHooks, StageReturns, ShortCircuit, TestExits, SigRestore,
     DestroyHooks, CloseStreams, Exit, WriteBroken, CatchSignal, Terminate,
     Terminating, vars, parentVars, childVars

\* Reading moves the front of the pipe behind what was collected.
LEMMA OutputInOrderStep ==
    ASSUME IInv, OutputStored, OutputInOrder, [Next]_vars
    PROVE  OutputInOrder'
  <1>0. /\ output \in Seq(Nat) /\ out \in Seq(Nat) /\ stdio \in Seq(Nat)
        /\ Len(output) \in Nat /\ Len(out) \in Nat /\ Len(stdio) \in Nat
        /\ printed \in Nat /\ Len(output) + Len(out) + Len(stdio) = printed
    BY RunnerAssumption
    DEF IInv, TypeOK, ParentTypeOK, PipesTypeOK, ChildTypeOK, OutputInOrder
  <1>1. CASE UNCHANGED <<output, out, stdio, printed>>
    BY <1>1 DEF OutputInOrder
  <1>2. CASE HandleOutput /\ ~UNCHANGED <<output, out>>
    <2>1. PICK n \in 1 .. Len(out) :
            /\ out' = SubSeq(out, n + 1, Len(out))
            /\ output' = output \o SubSeq(out, 1, n)
      BY <1>2 DEF HandleOutput, Collect, OutputStored, MayFail
    <2>2. UNCHANGED <<stdio, printed>>
      BY <1>2 DEF HandleOutput, childVars
    <2> DEFINE read == SubSeq(out, 1, n)
    <2>3. /\ read \in Seq(Nat) /\ Len(read) = n
          /\ Len(out') = Len(out) - n /\ n \in Nat /\ n <= Len(out)
      BY <1>0, <2>1, Cut
    <2>4. /\ \A i \in 1 .. n : read[i] = out[i]
          /\ \A i \in 1 .. (Len(out) - n) : out'[i] = out[n + i]
      <3>1. n \in 0 .. Len(out)
        BY <2>3
      <3>2. /\ \A i \in 1 .. n : SubSeq(out, 1, n)[i] = out[i]
            /\ \A i \in 1 .. (Len(out) - n) :
                 SubSeq(out, n + 1, Len(out))[i] = out[n + i]
        BY <1>0, <3>1, CutElements
      <3> QED
        BY <2>1, <3>2
    <2>5. Len(output') = Len(output) + n
      BY <1>0, <2>1, <2>3, Joined
    <2> HIDE DEF read
    <2>6. /\ \A i \in 1 .. Len(output) : output'[i] = output[i]
          /\ \A i \in 1 .. n : output'[Len(output) + i] = read[i]
      <3>1. output' = output \o read
        BY <2>1 DEF read
      <3> QED
        BY <1>0, <2>3, <3>1, JoinedElements
    <2>7. \A i \in 1 .. Len(output') : output'[i] = i
      <3> SUFFICES ASSUME NEW i \in 1 .. Len(output') PROVE output'[i] = i
        OBVIOUS
      <3>1. CASE i <= Len(output)
        <4>1. i \in 1 .. Len(output)
          BY <1>0, <2>5, <3>1
        <4> QED
          BY <2>6, <4>1 DEF OutputInOrder
      <3>2. CASE i > Len(output)
        <4>1. i - Len(output) \in 1 .. n /\ i - Len(output) \in 1 .. Len(out)
              /\ i = Len(output) + (i - Len(output))
          BY <1>0, <2>3, <2>5, <3>2
        <4>2. read[i - Len(output)] = out[i - Len(output)]
          BY <2>4, <4>1
        <4>3. out[i - Len(output)] = i
          BY <4>1 DEF OutputInOrder
        <4> QED
          BY <2>6, <4>1, <4>2, <4>3
      <3> QED
        BY <1>0, <3>1, <3>2
    <2>8. \A i \in 1 .. Len(out') : out'[i] = Len(output') + i
      BY <1>0, <2>3, <2>4, <2>5 DEF OutputInOrder
    <2>9. Len(output') + Len(out') = Len(output) + Len(out)
      BY <1>0, <2>3, <2>5
    <2>10. /\ Len(output') + Len(out') + Len(stdio') = printed'
           /\ \A i \in 1 .. Len(stdio') :
                stdio'[i] = Len(output') + Len(out') + i
      BY <2>2, <2>9 DEF OutputInOrder
    <2> QED
      BY <2>7, <2>8, <2>10 DEF OutputInOrder
  <1>3. CASE PrintOutput
    <2>1. /\ stdio' = Append(stdio, printed + 1) /\ printed' = printed + 1
          /\ UNCHANGED <<output, out>>
      BY <1>3 DEF PrintOutput, ChildUnchanged, parentVars
    <2>2. /\ Len(stdio') = Len(stdio) + 1 /\ stdio'[Len(stdio) + 1] = printed + 1
          /\ \A i \in 1 .. Len(stdio) : stdio'[i] = stdio[i]
      BY <1>0, <2>1, AppendProperties
    <2>3. Len(output') + Len(out') + Len(stdio') = printed'
      BY <1>0, <2>1, <2>2
    <2>4. ASSUME NEW i \in 1 .. Len(stdio')
          PROVE  stdio'[i] = Len(output) + Len(out) + i
      <3>1. CASE i = Len(stdio) + 1
        <4>1. stdio'[i] = printed + 1
          BY <2>2, <3>1
        <4> QED
          BY <1>0, <3>1, <4>1
      <3>2. CASE i # Len(stdio) + 1
        <4>1. i \in 1 .. Len(stdio)
          BY <1>0, <2>2, <3>2
        <4> QED
          BY <2>2, <4>1 DEF OutputInOrder
      <3> QED
        BY <3>1, <3>2
    <2> QED
      BY <2>1, <2>3, <2>4 DEF OutputInOrder
  <1>4. CASE FlushOutput
    <2>1. /\ out' = Append(out, Head(stdio)) /\ stdio' = Tail(stdio)
          /\ stdio # <<>> /\ UNCHANGED <<output, printed>>
      BY <1>4 DEF FlushOutput, ChildUnchanged, parentVars
    <2>2. /\ Len(stdio) > 0 /\ Head(stdio) = stdio[1] /\ Head(stdio) \in Nat
          /\ Len(stdio') = Len(stdio) - 1
          /\ \A i \in 1 .. Len(stdio') : stdio'[i] = stdio[i + 1]
      BY <1>0, <2>1, HeadTailProperties, EmptySeq
    <2>3. /\ Len(out') = Len(out) + 1 /\ out'[Len(out) + 1] = stdio[1]
          /\ \A i \in 1 .. Len(out) : out'[i] = out[i]
      BY <1>0, <2>1, <2>2, AppendProperties
    <2>4. stdio[1] = Len(output) + Len(out) + 1
      BY <1>0, <2>2 DEF OutputInOrder
    <2>5. \A i \in 1 .. Len(out') : out'[i] = Len(output') + i
      <3> SUFFICES ASSUME NEW i \in 1 .. Len(out')
                   PROVE  out'[i] = Len(output') + i
        OBVIOUS
      <3>1. CASE i = Len(out) + 1
        BY <1>0, <2>1, <2>3, <2>4, <3>1
      <3>2. CASE i # Len(out) + 1
        <4>1. i \in 1 .. Len(out)
          BY <1>0, <2>3, <3>2
        <4> QED
          BY <2>1, <2>3, <4>1 DEF OutputInOrder
      <3> QED
        BY <3>1, <3>2
    <2>6. \A i \in 1 .. Len(stdio') : stdio'[i] = Len(output') + Len(out') + i
      BY <1>0, <2>1, <2>2, <2>3 DEF OutputInOrder
    <2>7. Len(output') + Len(out') + Len(stdio') = printed'
      BY <1>0, <2>1, <2>2, <2>3
    <2>8. \A i \in 1 .. Len(output') : output'[i] = i
      BY <2>1 DEF OutputInOrder
    <2> QED
      BY <2>5, <2>6, <2>7, <2>8 DEF OutputInOrder
  <1>5. CASE UNCHANGED vars
    BY <1>1, <1>5 DEF vars, parentVars, childVars
  <1>6. CASE HandleOutput /\ UNCHANGED <<output, out>>
    BY <1>1, <1>6 DEF HandleOutput, childVars
  <1> QED
    BY <1>1, <1>2, <1>3, <1>4, <1>5, <1>6, OutputMoves

\* A step of the child, or a signal: nobody takes its output for complete before
\* the child has closed it, and then nothing more comes.
LEMMA OutputDrainedAlive ==
    ASSUME IInv, OutputDrained, ChildNext \/ CatchSignal \/ Terminate
    PROVE  OutputDrained'
  <1>1. /\ UNCHANGED <<pc, fds, revents>> /\ status = "alive"
        /\ status' \in {"alive", "exited", "killed"}
        /\ OutputClosed => OutputClosed' /\ UNCHANGED <<cpc, out, stdio>>
        /\ Readers /\ ~OutputClosed /\ (status' = "exited" \/ cpc' = "closed")
             => stdio' = <<>>
    BY OutputClosedStays DEF parentVars
  <1>2. CASE OutputClosed
    <2>1. cpc = "closed" /\ UNCHANGED <<cpc, out, stdio>> /\ OutputClosed'
      BY <1>1, <1>2 DEF OutputClosed, OutputOpen
    <2> QED
      BY <1>1, <2>1 DEF OutputDrained, Waited, HungUp
  <1>3. CASE ~OutputClosed
    <2>1. /\ fds["output"] = OutputFd /\ OutputFd > 0
          /\ ~Waited /\ pc # "kill"
          /\ ~(pc \in {"hooks", "output"} /\ HungUp("output"))
      BY <1>3, RunnerAssumption DEF OutputDrained
    <2>2. pc \notin {"wait", "done", "returned"}
      BY <1>1, <2>1 DEF Waited
    <2>3. ~(OutputFd < 0)
      BY RunnerAssumption
    <2>4. pc # "crashed" /\ (status' = "exited" \/ cpc' = "closed")
            => stdio' = <<>>
      BY <1>1, <1>3, <2>2 DEF Readers
    <2> QED
      BY <1>1, <2>1, <2>2, <2>3, <2>4 DEF OutputDrained, Waited, HungUp
  <1> QED
    BY <1>2, <1>3

\* The output pipe is drained, action by action.
LEMMA OutputDrainedStep ==
    ASSUME IInv, OutputReadable, OutputDrained, [Next]_vars
    PROVE  OutputDrained'
  <1> USE DEF OutputClosed, OutputOpen
  <1>0. /\ OutputFd \in Nat /\ OutputFd > 0 /\ fds["output"] \in Int
        /\ fds \in [Handlers -> Int] /\ "output" \in Handlers
        /\ status \in {"none", "alive", "exited", "killed"}
    BY RunnerAssumption
    DEF IInv, TypeOK, ParentTypeOK, ChildTypeOK, Handlers
  <1>1. CASE \/ CreateResult \/ OpenPipe("hooks_pipe", "output_pipe")
             \/ OpenPipe("output_pipe", "fork") \/ Fork \/ Complete
    <2>1. /\ status = "none" /\ UNCHANGED <<fds, stdio, out>>
          /\ cpc' \in {"none", "init"}
          /\ status' \in {"none", "alive"} /\ (pc' = "returned" => status' = "none")
          /\ pc' \in {"returned", "hooks_pipe", "output_pipe", "fork", "poll",
                      "complete"}
      BY <1>1 DEF CreateResult, OpenPipe, Fork, Complete, childVars, IInv, ParentInv,
                ChildInv
    <2> QED
      BY <1>0, <2>1 DEF OutputDrained, Waited, OutputClosed
  <1>2. CASE Poll
    <2>1. /\ pc = "poll" /\ status # "none"
          /\ UNCHANGED <<fds, stdio, out, status, cpc>>
      BY <1>2 DEF Poll, childVars, IInv, ParentInv
    <2>2. CASE pc' = "wait" /\ \A h \in Handlers : fds[h] < 0
      BY <1>0, <2>1, <2>2 DEF OutputDrained, Waited
    <2>3. CASE /\ pc' = "hooks"
               /\ revents'["output"] = Revents(fds["output"], out, OutputOpen)
      <3>1. revents'["output"] # {} => fds["output"] = OutputFd
        BY <1>0, <2>3 DEF Revents, OutputDrained
      <3>2. revents'["output"] = {"HUP"} => OutputClosed /\ out = <<>>
        <4>1. ASSUME revents'["output"] = {"HUP"} PROVE ~(fds["output"] < 0)
          BY <2>3, <4>1 DEF Revents
        <4>2. ASSUME revents'["output"] = {"HUP"} PROVE out = <<>>
          <5>1. "IN" \notin revents'["output"]
            BY <4>2
          <5> QED
            BY <2>3, <4>1, <4>2, <5>1 DEF Revents
        <4>3. ASSUME revents'["output"] = {"HUP"} PROVE ~OutputOpen
          <5>1. "HUP" \in revents'["output"]
            BY <4>3
          <5> QED
            BY <2>3, <4>1, <4>3, <5>1 DEF Revents
        <4> QED
          BY <1>0, <2>1, <4>2, <4>3 DEF OutputOpen
      <3> QED
        BY <2>1, <2>3, <3>1, <3>2 DEF OutputDrained, Waited, HungUp
    <2> QED
      BY <1>2, <2>2, <2>3 DEF Poll, OutputReadable, MayFail, Handlers
  <1>3. CASE HandleHooks
    <2>1. /\ UNCHANGED <<revents, stdio, out, status, cpc>>
          /\ pc = "hooks" /\ pc' \in {"output", "crashed"}
      BY <1>3 DEF HandleHooks, ReadHooks, childVars
    <2>2. fds'["output"] = fds["output"]
      BY <1>0, <1>3 DEF HandleHooks, ReadHooks, ReadFails, Close, Handlers
    <2> QED
      BY <2>1, <2>2 DEF OutputDrained, Waited, HungUp
  <1>4. CASE HandleOutput
    <2>1. pc = "output" /\ pc' = "poll" /\ UNCHANGED <<stdio, status, cpc>>
      BY <1>4 DEF HandleOutput, childVars
    <2>2. CASE "IN" \in revents["output"] /\ UNCHANGED fds
      BY <1>0, <2>1, <2>2 DEF OutputDrained, Waited
    <2>3. CASE HungUp("output") /\ Close("output") /\ UNCHANGED out
      <3>1. OutputClosed /\ out = <<>> /\ fds["output"] = OutputFd
        BY <2>1, <2>3 DEF OutputDrained, HungUp
      <3>2. fds'["output"] = -OutputFd
        BY <1>0, <2>3, <3>1 DEF Close
      <3> QED
        BY <1>0, <2>1, <2>3, <3>1, <3>2 DEF OutputDrained, Waited
    <2>4. CASE UNCHANGED <<fds, out>>
      BY <1>0, <2>1, <2>4 DEF OutputDrained, Waited
    <2> QED
      BY <1>4, <2>2, <2>3, <2>4 DEF HandleOutput, OutputReadable, MayFail
  <1>5. CASE Wait \/ Finish
    <2>1. /\ UNCHANGED <<fds, stdio, out, status, cpc>>
          /\ pc \in {"wait", "done"} /\ pc' \in {"done", "returned"}
      BY <1>5 DEF Wait, Finish, childVars
    <2> QED
      BY <2>1 DEF OutputDrained, Waited
  <1>6. CASE ChildNext \/ CatchSignal \/ Terminate
    BY <1>6, OutputDrainedAlive
  <1>7. CASE UNCHANGED vars
    BY <1>7 DEF OutputDrained, Waited, HungUp, vars, parentVars, childVars
  <1>8. CASE Kill
    BY <1>8 DEF Kill, OutputDrained
  <1> QED
    BY <1>1, <1>2, <1>3, <1>4, <1>5, <1>6, <1>7, <1>8
    DEF Next, ParentNext, Terminating

\* Before the run nothing is printed.
LEMMA OutputInit == Init => OutputInOrder /\ OutputDrained
  <1> SUFFICES ASSUME Init PROVE OutputInOrder /\ OutputDrained
    OBVIOUS
  <1>1. OutputInOrder
    BY DEF Init, OutputInOrder
  <1>2. fds["output"] = OutputFd
    BY DEF Init, Handlers
  <1>3. OutputDrained
    BY <1>2, RunnerAssumption DEF Init, OutputDrained, Waited
  <1> QED
    BY <1>1, <1>3

\* Everything the test prints arrives in order, and all of it when the child
\* exits by itself: whatever the capacity of the pipe, whenever stdio writes
\* its buffer, whatever else fails and whichever signals arrive.  (poll(),
\* the read() of the pipe and the allocation of the buffer must not fail.)
THEOREM OutputCorrect ==
    ASSUME OutputReadable, OutputStored
    PROVE  Spec => []OutputFaithful
  <1>1. Init => IInv /\ OutputInOrder /\ OutputDrained
    BY InitInv, OutputInit
  <1>2. IInv /\ OutputInOrder /\ OutputDrained /\ [Next]_vars =>
          (IInv /\ OutputInOrder /\ OutputDrained)'
    BY NextInv, OutputInOrderStep, OutputDrainedStep
  <1>3. IInv /\ OutputInOrder /\ OutputDrained => OutputFaithful
    <2> SUFFICES ASSUME IInv, OutputInOrder, OutputDrained
                 PROVE  OutputFaithful
      OBVIOUS
    <2>1. output \in Seq(Nat) /\ Len(output) \in Nat
      BY DEF IInv, TypeOK, ParentTypeOK
    <2>2. output = [i \in 1 .. Len(output) |-> i]
      BY <2>1, LenProperties DEF OutputInOrder
    <2>3. ASSUME completed = 1, status = "exited"
          PROVE  Len(output) = printed
      <3>1. Waited /\ pc # "crashed"
        BY <2>3 DEF IInv, ParentInv, Waited
      <3>2. out = <<>> /\ stdio = <<>>
        BY <2>3, <3>1 DEF OutputDrained
      <3>3. Len(output) + Len(out) + Len(stdio) = printed
        BY DEF OutputInOrder
      <3> QED
        BY <2>1, <3>2, <3>3
    <2> QED
      BY <2>2, <2>3 DEF OutputFaithful
  <1> QED
    BY <1>1, <1>2, <1>3, PTL DEF Spec

(***************************************************************************)
(* The hooks pipe: what the child sends                                     *)
(***************************************************************************)

\* The length of the stream, with and without a failure at its end.
LEMMA StreamTypes ==
    ASSUME IInv, Reported, EventsReadable
    PROVE  /\ entered \in 0 .. 3 /\ StreamLen \in Nat
           /\ hooks \in Seq(Cell) /\ Len(hooks) \in Nat
           /\ report = NoFailure => StreamLen = 2 * entered
           /\ report # NoFailure =>
                /\ report.size \in Nat /\ 0 < report.size /\ report.size < LenMod
                /\ StreamLen = 2 * entered + report.size + 1 /\ entered > 0
  <1>1. entered \in 0 .. 3 /\ hooks \in Seq(Cell) /\ Len(hooks) \in Nat
    BY Lengths DEF IInv, TypeOK, ChildTypeOK, PipesTypeOK
  <1>2. report # NoFailure =>
          /\ report.size \in Nat /\ 0 < report.size /\ report.size < LenMod
          /\ entered > 0
    <2>1. FailureSizes \subseteq Nat \ {0}
      BY RunnerAssumption
    <2>2. \A size \in FailureSizes : size \in Nat /\ 0 < size /\ size < LenMod
      BY <2>1 DEF EventsReadable
    <2> QED
      BY <2>2 DEF Reported
  <1> QED
    BY <1>1, <1>2 DEF StreamLen

\* A step that touches neither the stream nor its reader.
LEMMA ProtocolUntouched ==
    ASSUME Protocol,
           UNCHANGED <<hooks, reader, entered, report, pending>>,
           consumer'.stage = consumer.stage,
           \/ UNCHANGED consumer
           \/ consumer'.failure = NoFailure /\ pc' \in {"done", "returned"},
           cpc' = "write" <=> cpc = "write",
           pc \in {"done", "returned"} => pc' \in {"done", "returned"}
    PROVE  Protocol'
  <1>1. PICK p \in 0 .. StreamLen : \E w \in p .. StreamLen : InFlight(p, w)
    BY DEF Protocol
  <1>2. PICK w \in p .. StreamLen : InFlight(p, w)
    BY <1>1
  <1>3. StreamLen' = StreamLen /\ \A i : CellAt(i)' = CellAt(i)
    BY DEF StreamLen, CellAt
  <1>4. Unwritten(w)'
    <2>1. HooksStage' = HooksStage /\ \A k : RestOfBody(k)' = RestOfBody(k)
      BY DEF HooksStage, RestOfBody
    <2> QED
      BY <1>2, <1>3, <2>1 DEF InFlight, Unwritten
  <1>5. ReadUpTo(p)'
    <2>1. \A k : FailureReader(k)' = FailureReader(k)
      BY DEF FailureReader
    <2> QED
      BY <1>2, <1>3, <2>1 DEF InFlight, ReadUpTo
  <1>6. InFlight(p, w)'
    BY <1>2, <1>3, <1>4, <1>5 DEF InFlight
  <1> QED
    BY <1>3, <1>6 DEF Protocol

\* The child announces its next stage.
LEMMA EnterStageProtocol ==
    ASSUME IInv, Reported, EventsReadable, Protocol, EnterStage
    PROVE  Protocol'
  <1>1. PICK p \in 0 .. StreamLen : \E w \in p .. StreamLen : InFlight(p, w)
    BY DEF Protocol
  <1>2. PICK w \in p .. StreamLen : InFlight(p, w)
    BY <1>1
  <1>3. /\ cpc = "stage" /\ cpc' = "write" /\ entered' = entered + 1
        /\ pending' = StageChangeEvent(StageSeq[entered + 1])
        /\ UNCHANGED <<hooks, reader, consumer, report, pc>>
    BY DEF EnterStage, ChildUnchanged, parentVars
  <1>4. report = NoFailure /\ entered \in 0 .. 2 /\ StreamLen = 2 * entered
    BY <1>3, StreamTypes DEF IInv, ChildInv
  <1>5. w = StreamLen
    BY <1>2, <1>3 DEF InFlight, Unwritten
  <1>6. StreamLen' = StreamLen + 2 /\ p \in Nat /\ w \in Nat /\ p <= w
    BY <1>3, <1>4, <1>5 DEF StreamLen
  <1>7. \A i \in 1 .. w : CellAt(i)' = CellAt(i)
    BY <1>3, <1>4, <1>5 DEF CellAt
  <1>8. Unwritten(w)'
    <2>1. HooksStage' = StageSeq[entered + 1]
      BY <1>3, <1>4 DEF HooksStage
    <2> QED
      BY <1>3, <1>4, <1>5, <1>6, <2>1 DEF Unwritten
  <1>9. ReadUpTo(p)'
    <2>1. /\ p <= 2 * entered /\ p <= 2 * entered' /\ ~(p > 2 * entered')
          /\ p < StreamLen'
      BY <1>3, <1>4, <1>6, <1>5
    <2>2. consumer.failure = NoFailure
      BY <1>2, <1>4, <1>5, <1>6 DEF InFlight, ReadUpTo
    <2> QED
      BY <1>2, <1>3, <2>1, <2>2 DEF InFlight, ReadUpTo
  <1>10. InFlight(p, w)'
    <2>1. Len(hooks) = w - p /\ \A i \in 1 .. Len(hooks) : hooks[i] = CellAt(p + i)
      BY <1>2 DEF InFlight
    <2>2. \A i \in 1 .. Len(hooks) : p + i \in 1 .. w
      BY <1>6, <2>1
    <2> QED
      BY <1>3, <1>7, <1>8, <1>9, <2>1, <2>2 DEF InFlight
  <1> QED
    BY <1>5, <1>6, <1>10 DEF Protocol

\* The child reports the failure that ends its test case.
LEMMA ShortCircuitProtocol ==
    ASSUME IInv, Reported, EventsReadable, Protocol,
           NEW type \in {"FAIL", "SKIPPED"}, NEW failure \in TestFailures,
           ShortCircuit(type, failure)
    PROVE  Protocol'
  <1>1. PICK p \in 0 .. StreamLen : \E w \in p .. StreamLen : InFlight(p, w)
    BY DEF Protocol
  <1>2. PICK w \in p .. StreamLen : InFlight(p, w)
    BY <1>1
  <1>3. /\ cpc = "code" /\ report' = failure
        /\ UNCHANGED <<hooks, reader, consumer, entered, pc>>
    BY DEF ShortCircuit, ChildUnchanged, parentVars
  <1>4. /\ report = NoFailure /\ entered \in 0 .. 3 /\ StreamLen = 2 * entered
    BY <1>3, StreamTypes DEF IInv, ChildInv
  <1>5. w = StreamLen /\ pending = <<>>
    BY <1>2, <1>3 DEF InFlight, Unwritten
  <1>6. CASE failure = NoFailure
    <2>1. cpc' # "write" /\ UNCHANGED pending
      BY <1>6 DEF ShortCircuit
    <2> QED
      BY <1>3, <1>4, <1>6, <2>1, ProtocolUntouched
  <1>7. CASE failure # NoFailure
    <2>1. cpc' = "write" /\ pending' = FailureEvent(failure)
      BY <1>7 DEF ShortCircuit
    <2>2. failure.size \in Nat
      BY <1>7, RunnerAssumption DEF TestFailures
    <2>3. /\ StreamLen' = StreamLen + failure.size + 1
          /\ p \in Nat /\ w \in Nat /\ p <= w
      BY <1>3, <1>4, <1>5, <1>7, <2>2 DEF StreamLen
    <2>4. \A i \in 1 .. w : CellAt(i)' = CellAt(i)
      BY <1>3, <1>4, <1>5 DEF CellAt
    <2>5. Unwritten(w)'
      BY <1>3, <1>4, <1>5, <1>7, <2>1 DEF Unwritten
    <2>6. ReadUpTo(p)'
      <3>1. p <= 2 * entered /\ ~(p > 2 * entered) /\ p < StreamLen' /\ p # StreamLen'
        BY <1>4, <1>5, <2>2, <2>3
      <3>2. consumer.failure = NoFailure
        BY <1>2, <1>4, <1>5, <2>3 DEF InFlight, ReadUpTo
      <3> QED
        BY <1>2, <1>3, <3>1, <3>2 DEF InFlight, ReadUpTo
    <2>7. InFlight(p, w)'
      <3>1. /\ Len(hooks) = w - p
            /\ \A i \in 1 .. Len(hooks) : hooks[i] = CellAt(p + i)
        BY <1>2 DEF InFlight
      <3>2. \A i \in 1 .. Len(hooks) : p + i \in 1 .. w
        BY <2>3, <3>1
      <3> QED
        BY <1>3, <2>4, <2>5, <2>6, <3>1, <3>2 DEF InFlight
    <2> QED
      BY <1>5, <2>2, <2>3, <2>7 DEF Protocol
  <1> QED
    BY <1>6, <1>7

\* A write() puts the next cells of the stream behind those in the pipe.
LEMMA CellsWritten ==
    ASSUME NEW cells \in Seq(Cell), NEW n \in 1 .. Len(cells),
           NEW p \in Nat, NEW w \in Nat, hooks \in Seq(Cell),
           Len(hooks) = w - p,
           \A i \in 1 .. Len(hooks) : hooks[i] = CellAt(p + i),
           \A i \in 1 .. n : cells[i] = CellAt(w + i),
           hooks' = hooks \o SubSeq(cells, 1, n)
    PROVE  /\ Len(hooks') = (w + n) - p
           /\ \A i \in 1 .. Len(hooks') : hooks'[i] = CellAt(p + i)
  <1>1. Len(hooks) \in Nat /\ Len(cells) \in Nat /\ n \in Nat /\ n <= Len(cells)
    OBVIOUS
  <1>2. /\ Len(hooks') = Len(hooks) + n
        /\ \A i \in 1 .. Len(hooks) : hooks'[i] = hooks[i]
        /\ \A i \in 1 .. n : hooks'[Len(hooks) + i] = cells[i]
    <2>1. n \in 0 .. Len(cells)
      BY <1>1
    <2>2. Extended(hooks', hooks, cells, n)
      BY <2>1, JoinedToCut
    <2> QED
      BY <2>2 DEF Extended
  <1>3. ASSUME NEW i \in 1 .. Len(hooks')
        PROVE  hooks'[i] = CellAt(p + i)
    <2>1. CASE i <= Len(hooks)
      <3>1. i \in 1 .. Len(hooks)
        BY <1>1, <1>2, <2>1
      <3> QED
        BY <1>2, <3>1
    <2>2. CASE i > Len(hooks)
      <3>1. PICK j \in 1 .. n : i = Len(hooks) + j
        <4>1. i - Len(hooks) \in 1 .. n /\ i = Len(hooks) + (i - Len(hooks))
          BY <1>1, <1>2, <2>2
        <4> QED
          BY <4>1
      <3>2. hooks'[i] = CellAt(w + j)
        BY <1>2, <3>1
      <3>3. w + j = p + i
        BY <1>1, <3>1
      <3> QED
        BY <3>2, <3>3
    <2> QED
      BY <1>1, <1>2, <2>1, <2>2
  <1> QED
    BY <1>1, <1>2, <1>3

\* The parts of the body of the failure.
LEMMA RestProperties ==
    ASSUME report \in Failure, NEW k \in 0 .. report.size
    PROVE  /\ RestOfBody(k) \in Seq(Cell)
           /\ Len(RestOfBody(k)) = report.size - k
           /\ \A i \in 1 .. (report.size - k) :
                RestOfBody(k)[i] = BodyCell(report, k + i)
  <1>1. report.size \in Nat
    BY DEF Failure
  <1>2. \A i \in 1 .. (report.size - k) : BodyCell(report, k + i) \in Cell
    BY <1>1 DEF BodyCell, Cell
  <1>3. report.size - k \in Nat
    BY <1>1
  <1>4. RestOfBody(k) \in [1 .. (report.size - k) -> Cell]
    BY <1>2 DEF RestOfBody
  <1>5. RestOfBody(k) \in Seq(Cell)
    BY <1>3, <1>4
  <1>6. DOMAIN RestOfBody(k) = 1 .. (report.size - k)
    BY DEF RestOfBody
  <1>7. Len(RestOfBody(k)) = report.size - k
    BY <1>3, <1>5, <1>6, LenProperties
  <1> QED
    BY <1>5, <1>7 DEF RestOfBody

\* The rest of a rest is a rest.
LEMMA RestOfRest ==
    ASSUME report \in Failure, NEW k \in 0 .. report.size,
           NEW n \in 1 .. (report.size - k)
    PROVE  /\ SubSeq(RestOfBody(k), n + 1, Len(RestOfBody(k))) = RestOfBody(k + n)
           /\ RestOfBody(k + n) = <<>> <=> k + n = report.size
  <1>1. /\ report.size \in Nat /\ k \in Nat /\ n \in Nat
        /\ k + n \in 0 .. report.size /\ n <= report.size - k
    BY DEF Failure
  <1> DEFINE s == RestOfBody(k)
             t == SubSeq(s, n + 1, Len(s))
  <1>2. /\ s \in Seq(Cell) /\ Len(s) = report.size - k
        /\ \A i \in 1 .. (report.size - k) : s[i] = BodyCell(report, k + i)
    BY RestProperties
  <1>3. /\ RestOfBody(k + n) \in Seq(Cell)
        /\ Len(RestOfBody(k + n)) = report.size - (k + n)
        /\ \A i \in 1 .. (report.size - (k + n)) :
             RestOfBody(k + n)[i] = BodyCell(report, (k + n) + i)
    BY <1>1, RestProperties
  <1> HIDE DEF s
  <1>4. t \in Seq(Cell) /\ Len(t) = Len(s) - n
    BY <1>1, <1>2, Cut
  <1>5. \A i \in 1 .. (Len(s) - n) : t[i] = s[n + i]
    <2>1. n \in 0 .. Len(s)
      BY <1>1, <1>2
    <2> QED
      BY <1>2, <2>1, CutElements
  <1>6. Len(t) = Len(RestOfBody(k + n))
    BY <1>1, <1>2, <1>3, <1>4
  <1>7. ASSUME NEW i \in 1 .. Len(t)
        PROVE  t[i] = RestOfBody(k + n)[i]
    <2>1. /\ i \in 1 .. (Len(s) - n) /\ n + i \in 1 .. (report.size - k)
          /\ i \in 1 .. (report.size - (k + n)) /\ k + (n + i) = (k + n) + i
      BY <1>1, <1>2, <1>4
    <2>2. t[i] = BodyCell(report, (k + n) + i)
      BY <1>2, <1>5, <2>1
    <2> QED
      BY <1>3, <2>1, <2>2
  <1>8. t = RestOfBody(k + n)
    BY <1>3, <1>4, <1>6, <1>7, SeqEqual
  <1>9. RestOfBody(k + n) = <<>> <=> k + n = report.size
    BY <1>1, <1>3, EmptySeq
  <1> QED
    BY <1>8, <1>9 DEF s

\* One write() of the child, complete or not.
LEMMA WriteHooksProtocol ==
    ASSUME IInv, Reported, EventsReadable, Protocol, WriteHooks
    PROVE  Protocol'
  <1>1. PICK p \in 0 .. StreamLen : \E w \in p .. StreamLen : InFlight(p, w)
    BY DEF Protocol
  <1>2. PICK w \in p .. StreamLen : InFlight(p, w)
    BY <1>1
  <1>3. /\ cpc = "write" /\ UNCHANGED <<reader, consumer, entered, report, pc>>
        /\ cpc' = IF pending' = <<>> THEN AfterWrite ELSE "write"
    BY DEF WriteHooks, ChildUnchanged, parentVars
  <1>4. PICK n \in Transfers(Head(pending), HooksCap - Len(hooks)) :
          LET cells == Head(pending)
              rest == SubSeq(cells, n + 1, Len(cells))
          IN  /\ hooks' = hooks \o SubSeq(cells, 1, n)
              /\ pending' = IF rest = <<>> THEN Tail(pending)
                                           ELSE <<rest>> \o Tail(pending)
    BY DEF WriteHooks
  <1>5. /\ p \in Nat /\ w \in Nat /\ p <= w /\ w <= StreamLen
        /\ StreamLen \in Nat /\ entered \in 0 .. 3
        /\ hooks \in Seq(Cell) /\ Len(hooks) \in Nat
        /\ report \in Failure /\ n \in 1 .. Len(Head(pending))
        /\ report = NoFailure => StreamLen = 2 * entered
        /\ report # NoFailure =>
             /\ report.size \in Nat /\ 0 < report.size /\ report.size < LenMod
             /\ StreamLen = 2 * entered + report.size + 1
    BY <1>4, StreamTypes DEF Transfers, IInv, TypeOK, ChildTypeOK
  <1>6. /\ StreamLen' = StreamLen /\ HooksStage' = HooksStage
        /\ \A i : CellAt(i)' = CellAt(i)
        /\ \A k : RestOfBody(k)' = RestOfBody(k)
    BY <1>3 DEF StreamLen, CellAt, HooksStage, RestOfBody
  <1>7. ReadUpTo(p)'
    <2>1. \A k : FailureReader(k)' = FailureReader(k)
      BY <1>3 DEF FailureReader
    <2> QED
      BY <1>2, <1>3, <1>6, <2>1 DEF InFlight, ReadUpTo
  <1>8. AfterWrite # "write"
    BY DEF AfterWrite
  \* what the write() has to achieve for the rest to follow
  <1>9. ASSUME NEW cells \in Seq(Cell), Head(pending) = cells,
               w + n <= StreamLen,
               \A i \in 1 .. n : cells[i] = CellAt(w + i),
               Unwritten(w + n)'
        PROVE  Protocol'
    <2>1. /\ Len(hooks) = w - p
          /\ \A i \in 1 .. Len(hooks) : hooks[i] = CellAt(p + i)
      BY <1>2 DEF InFlight
    <2>2. hooks' = hooks \o SubSeq(cells, 1, n) /\ n \in 1 .. Len(cells)
      BY <1>4, <1>5, <1>9
    <2>3. /\ Len(hooks') = (w + n) - p
          /\ \A i \in 1 .. Len(hooks') : hooks'[i] = CellAt(p + i)
      <3>1. /\ p \in Nat /\ w \in Nat /\ hooks \in Seq(Cell)
            /\ \A i \in 1 .. n : cells[i] = CellAt(w + i)
        BY <1>5, <1>9
      <3> QED
        BY <2>1, <2>2, <3>1, CellsWritten
    <2>4. InFlight(p, w + n)'
      BY <1>6, <1>7, <1>9, <2>3 DEF InFlight
    <2>5. p \in 0 .. StreamLen' /\ w + n \in p .. StreamLen'
      BY <1>5, <1>6, <1>9
    <2> QED
      BY <2>4, <2>5 DEF Protocol
  \* a header or a stage is one cell
  <1>10. ASSUME NEW cell \in Cell, Head(pending) = <<cell>>
         PROVE  /\ n = 1 /\ pending' = Tail(pending) /\ <<cell>> \in Seq(Cell)
                /\ <<cell>>[1] = cell
    <2>1. Len(<<cell>>) = 1 /\ <<cell>> \in Seq(Cell) /\ <<cell>>[1] = cell
      OBVIOUS
    <2>2. n = 1
      <3>1. n \in 1 .. Len(<<cell>>)
        BY <1>5, <1>10
      <3> QED
        BY <2>1, <3>1
    <2>3. SubSeq(<<cell>>, n + 1, Len(<<cell>>)) = <<>>
      BY <2>1, <2>2, SubSeqEmpty
    <2>4. pending' = Tail(pending)
      BY <1>4, <1>10, <2>3
    <2> QED
      BY <2>1, <2>2, <2>4
  <1>11. CASE /\ report = NoFailure /\ entered > 0
              /\ w = StreamLen - 2 /\ pending = StageChangeEvent(HooksStage)
    <2>1. /\ HeaderCell("STAGE_CHANGE", 1) \in Cell
          /\ Head(pending) = <<HeaderCell("STAGE_CHANGE", 1)>>
          /\ Tail(pending) = << <<StageCell(HooksStage)>> >>
      BY <1>11 DEF StageChangeEvent, HeaderCell, Cell, EventTypes
    <2>2. n = 1 /\ pending' = << <<StageCell(HooksStage)>> >>
      BY <1>10, <2>1
    <2>3. CellAt(w + 1) = HeaderCell("STAGE_CHANGE", 1)
      <3>1. w + 1 \in {1, 3, 5} /\ w + 1 <= 2 * entered
        BY <1>5, <1>11
      <3> QED
        BY <3>1 DEF CellAt, Announced
    <2>4. Unwritten(w + 1)'
      BY <1>3, <1>5, <1>6, <1>11, <2>2 DEF Unwritten
    <2>5. w + 1 <= StreamLen
      BY <1>5, <1>11
    <2> QED
      <3> DEFINE cell == HeaderCell("STAGE_CHANGE", 1)
      <3>1. <<cell>> \in Seq(Cell) /\ \A i \in 1 .. n : <<cell>>[i] = CellAt(w + i)
        BY <1>10, <2>1, <2>2, <2>3
      <3> QED
        BY <1>9, <2>1, <2>2, <2>4, <2>5, <3>1
  <1>12. CASE /\ report = NoFailure /\ entered > 0
              /\ w = StreamLen - 1 /\ pending = << <<StageCell(HooksStage)>> >>
    <2>1. /\ StageCell(HooksStage) \in Cell
          /\ Head(pending) = <<StageCell(HooksStage)>>
          /\ Tail(pending) = <<>>
      BY <1>5, <1>12 DEF StageCell, Cell, HooksStage, StageSeq, Stages
    <2>2. n = 1 /\ pending' = <<>>
      BY <1>10, <2>1
    <2>3. CellAt(w + 1) = StageCell(HooksStage)
      <3>1. w + 1 = 2 * entered /\ entered \in {1, 2, 3}
        BY <1>5, <1>12
      <3> QED
        BY <3>1 DEF CellAt, Announced, HooksStage, StageSeq
    <2>4. w + 1 = StreamLen
      BY <1>5, <1>12
    <2>5. Unwritten(w + 1)'
      BY <1>3, <1>6, <1>8, <2>2, <2>4 DEF Unwritten
    <2>6. w + 1 <= StreamLen
      BY <1>5, <2>4
    <2> QED
      <3> DEFINE cell == StageCell(HooksStage)
      <3>1. <<cell>> \in Seq(Cell) /\ \A i \in 1 .. n : <<cell>>[i] = CellAt(w + i)
        BY <1>10, <2>1, <2>2, <2>3
      <3> QED
        BY <1>9, <2>1, <2>2, <2>5, <2>6, <3>1
  <1>13. CASE /\ report # NoFailure
              /\ w = 2 * entered /\ pending = FailureEvent(report)
    <2>1. report.size % LenMod = report.size
      <3>1. PICK size \in Nat : size = report.size /\ size < LenMod
        BY <1>5, <1>13
      <3>2. size % LenMod = size
        BY <3>1, EventsAssumption
      <3> QED
        BY <3>1, <3>2
    <2>2. /\ HeaderCell("FAILURE", report.size) \in Cell
          /\ Head(pending) = <<HeaderCell("FAILURE", report.size)>>
          /\ Tail(pending) = <<Body(report)>>
      BY <1>5, <1>13, <2>1 DEF FailureEvent, HeaderCell, Cell, EventTypes
    <2>3. Body(report) = RestOfBody(0)
      BY <1>5, <1>13 DEF Body, RestOfBody
    <2>4. n = 1 /\ pending' = <<RestOfBody(0)>>
      BY <1>10, <2>2, <2>3
    <2>5. CellAt(w + 1) = HeaderCell("FAILURE", report.size)
      BY <1>5, <1>13 DEF CellAt
    <2>6. Unwritten(w + 1)'
      <3>1. /\ 0 \in 0 .. (report.size - 1) /\ w + 1 = 2 * entered + 1 + 0
            /\ pending' # <<>>
        BY <1>5, <1>13, <2>4
      <3> QED
        BY <1>3, <1>6, <1>13, <2>4, <3>1 DEF Unwritten
    <2>7. w + 1 <= StreamLen
      BY <1>5, <1>13
    <2> QED
      <3> DEFINE cell == HeaderCell("FAILURE", report.size)
      <3>1. <<cell>> \in Seq(Cell) /\ \A i \in 1 .. n : <<cell>>[i] = CellAt(w + i)
        BY <1>10, <2>2, <2>4, <2>5
      <3> QED
        BY <1>9, <2>2, <2>4, <2>6, <2>7, <3>1
  <1>14. ASSUME NEW k \in 0 .. (report.size - 1), report # NoFailure,
                w = 2 * entered + 1 + k, pending = <<RestOfBody(k)>>
         PROVE  Protocol'
    <2> DEFINE cells == RestOfBody(k)
    <2>1. Head(pending) = cells /\ Tail(pending) = <<>>
      BY <1>14
    <2>2. /\ k \in 0 .. report.size /\ cells \in Seq(Cell)
          /\ Len(cells) = report.size - k
          /\ \A i \in 1 .. (report.size - k) : cells[i] = BodyCell(report, k + i)
      <3>1. k \in 0 .. report.size
        BY <1>5, <1>14
      <3> QED
        BY <1>5, <3>1, RestProperties
    <2>3. n \in 1 .. (report.size - k)
      BY <1>5, <2>1, <2>2
    <2>4. /\ SubSeq(cells, n + 1, Len(cells)) = RestOfBody(k + n)
          /\ RestOfBody(k + n) = <<>> <=> k + n = report.size
      BY <1>5, <2>2, <2>3, RestOfRest
    <2>5. pending' = IF k + n = report.size THEN <<>> ELSE <<RestOfBody(k + n)>>
      <3>1. <<RestOfBody(k + n)>> \o <<>> = <<RestOfBody(k + n)>>
        OBVIOUS
      <3> QED
        BY <1>4, <2>1, <2>4, <3>1
    <2>6. \A i \in 1 .. n : cells[i] = CellAt(w + i)
      <3> SUFFICES ASSUME NEW i \in 1 .. n PROVE cells[i] = CellAt(w + i)
        OBVIOUS
      <3>1. /\ i \in 1 .. (report.size - k) /\ ~(w + i <= 2 * entered)
            /\ w + i # 2 * entered + 1 /\ (w + i) - 2 * entered - 1 = k + i
        BY <1>5, <1>14, <2>3
      <3> QED
        BY <2>2, <3>1 DEF CellAt
    <2>7. w + n <= StreamLen
      BY <1>5, <1>14, <2>3
    <2>8. Unwritten(w + n)'
      <3>1. CASE k + n = report.size
        <4>1. w + n = StreamLen /\ pending' = <<>> /\ cpc' # "write"
          BY <1>3, <1>5, <1>8, <1>14, <2>3, <2>5, <3>1
        <4> QED
          BY <1>6, <4>1 DEF Unwritten
      <3>2. CASE k + n # report.size
        <4>1. /\ k + n \in 0 .. (report.size - 1)
              /\ w + n = 2 * entered + 1 + (k + n)
              /\ pending' = <<RestOfBody(k + n)>> /\ cpc' = "write"
          <5>1. pending' = <<RestOfBody(k + n)>> /\ pending' # <<>>
            BY <2>5, <3>2
          <5>2. /\ k + n \in 0 .. (report.size - 1)
                /\ w + n = 2 * entered + 1 + (k + n)
            <6>1. report.size \in Nat /\ entered \in Nat
              BY <1>5, <1>14
            <6>2. k \in Nat /\ n \in Nat /\ k + n < report.size
              BY <2>3, <3>2, <6>1
            <6> QED
              BY <1>14, <6>1, <6>2
          <5> QED
            BY <1>3, <5>1, <5>2
        <4> QED
          BY <1>3, <1>6, <1>14, <4>1 DEF Unwritten
      <3> QED
        BY <3>1, <3>2
    <2> HIDE DEF cells
    <2> QED
      BY <1>9, <2>1, <2>2, <2>6, <2>7, <2>8
  <1> QED
    BY <1>2, <1>3, <1>11, <1>12, <1>13, <1>14 DEF InFlight, Unwritten

(***************************************************************************)
(* The hooks pipe: what the parent makes of it                              *)
(***************************************************************************)

\* Where the reader is when there is something to read.
LEMMA ReaderAt ==
    ASSUME IInv, Reported, EventsReadable, NEW p \in 0 .. StreamLen,
           NEW w \in p .. StreamLen, InFlight(p, w), hooks # <<>>
    PROVE  /\ p \in Nat /\ p < w /\ w \in Nat /\ Len(hooks) > 0
           /\ \/ /\ p < 2 * entered /\ p \in {0, 2, 4}
                 /\ reader = PrepNextMsg
              \/ /\ p < 2 * entered /\ p \in {1, 3, 5}
                 /\ reader = StageReader
              \/ /\ p = 2 * entered /\ report # NoFailure
                 /\ reader = PrepNextMsg
              \/ /\ report # NoFailure
                 /\ \E k \in 0 .. (report.size - 1) :
                      p = 2 * entered + 1 + k /\ reader = FailureReader(k)
  <1>1. /\ entered \in 0 .. 3 /\ StreamLen \in Nat
        /\ hooks \in Seq(Cell) /\ Len(hooks) \in Nat
        /\ report = NoFailure => StreamLen = 2 * entered
        /\ report # NoFailure =>
             report.size \in Nat /\ StreamLen = 2 * entered + report.size + 1
    BY StreamTypes
  <1>2. Len(hooks) > 0
    BY <1>1, EmptySeq
  <1>3. p \in Nat /\ w \in Nat /\ p < w /\ p < StreamLen
    BY <1>1, <1>2 DEF InFlight
  <1>4. CASE p <= 2 * entered
    <2>1. CASE p \in {0, 2, 4, 6} /\ reader = PrepNextMsg
      BY <1>1, <1>2, <1>3, <1>4, <2>1
    <2>2. CASE p \in {1, 3, 5} /\ reader = StageReader
      BY <1>1, <1>2, <1>3, <1>4, <2>2
    <2> QED
      BY <1>4, <2>1, <2>2 DEF InFlight, ReadUpTo
  <1>5. CASE p > 2 * entered
    <2>1. report # NoFailure
      BY <1>1, <1>3, <1>5
    <2>2. reader = FailureReader(p - 2 * entered - 1)
      BY <1>3, <1>5 DEF InFlight, ReadUpTo
    <2>3. /\ p - 2 * entered - 1 \in 0 .. (report.size - 1)
          /\ p = 2 * entered + 1 + (p - 2 * entered - 1)
      BY <1>1, <1>3, <1>5, <2>1
    <2> QED
      BY <1>2, <1>3, <2>1, <2>2, <2>3
  <1> QED
    BY <1>1, <1>3, <1>4, <1>5

\* The elements of a part of the body.
LEMMA BodyPrefix ==
    ASSUME report \in Failure, NEW k \in 0 .. report.size
    PROVE  LET got == [i \in 1 .. k |-> BodyCell(report, i)]
           IN  /\ got \in Seq(Cell) /\ Len(got) = k
               /\ \A i \in 1 .. k : got[i] = BodyCell(report, i)
  <1> DEFINE got == [i \in 1 .. k |-> BodyCell(report, i)]
  <1>1. report.size \in Nat /\ k \in Nat
    BY DEF Failure
  <1>2. \A i \in 1 .. k : BodyCell(report, i) \in Cell
    BY <1>1 DEF BodyCell, Cell
  <1>3. got \in [1 .. k -> Cell] /\ DOMAIN got = 1 .. k
    BY <1>2
  <1>4. got \in Seq(Cell)
    BY <1>1, <1>3
  <1>5. Len(got) = k
    BY <1>1, <1>3, <1>4, LenProperties
  <1> QED
    BY <1>4, <1>5

\* read() is asked for at least one byte, at an address that is valid.
LEMMA ReaderReady ==
    ASSUME IInv, Reported, EventsReadable, Protocol, hooks # <<>>
    PROVE  ~BadAddress(reader) /\ Wanted(reader) \in Nat \ {0}
  <1>1. PICK p \in 0 .. StreamLen : \E w \in p .. StreamLen : InFlight(p, w)
    BY DEF Protocol
  <1>2. PICK w \in p .. StreamLen : InFlight(p, w)
    BY <1>1
  <1>3. CASE reader = PrepNextMsg \/ reader = StageReader
    BY <1>3 DEF PrepNextMsg, StageReader, BadAddress, Wanted
  <1>4. ASSUME report # NoFailure,
               NEW k \in 0 .. (report.size - 1), reader = FailureReader(k)
        PROVE  ~BadAddress(reader) /\ Wanted(reader) \in Nat \ {0}
    <2>1. report \in Failure /\ report.size \in Nat /\ k \in 0 .. report.size
      BY <1>4, StreamTypes DEF IInv, TypeOK, ChildTypeOK
    <2>2. Len(reader.got) = k /\ reader.cap = report.size /\ reader.buf = "failure"
      BY <1>4, <2>1, BodyPrefix DEF FailureReader
    <2> QED
      BY <1>4, <2>1, <2>2 DEF BadAddress, Wanted
  <1> QED
    BY <1>2, <1>3, <1>4, ReaderAt

\* What StageMonotone asks of a step.
StageAdvances == StageNumber[consumer.stage] <= StageNumber[consumer'.stage]

\* The more of the stream is read, the later is the stage it has announced.
LEMMA FurtherOn ==
    ASSUME NEW p \in Nat, NEW n \in Nat, entered \in 0 .. 3, entered' = entered,
           ReadUpTo(p), ReadUpTo(p + n)'
    PROVE  StageAdvances
  <1>1. PICK q \in Nat : /\ q = IF p <= 2 * entered THEN p ELSE 2 * entered
                         /\ consumer.stage = StageAfter(q)
    <2>1. (IF p <= 2 * entered THEN p ELSE 2 * entered) \in Nat
      OBVIOUS
    <2> QED
      BY <2>1 DEF ReadUpTo
  <1>2. PICK r \in Nat : /\ r = IF p + n <= 2 * entered THEN p + n ELSE 2 * entered
                         /\ consumer'.stage = StageAfter(r)
    <2>1. (IF p + n <= 2 * entered THEN p + n ELSE 2 * entered) \in Nat
      OBVIOUS
    <2> QED
      BY <2>1 DEF ReadUpTo
  <1>3. q <= r
    BY <1>1, <1>2
  <1> QED
    BY <1>1, <1>2, <1>3 DEF StageAdvances, StageAfter, StageNumber

\* The reader has read n more cells of the stream.
LEMMA ReadHooksProtocol ==
    ASSUME IInv, Reported, EventsReadable, Protocol, hooks # <<>>,
           ReadHooks, UNCHANGED <<entered, report, pending, cpc>>,
           pc = "hooks"
    PROVE  Protocol' /\ UNCHANGED fds /\ StageAdvances /\ pc' = "output"
  <1>1. PICK p \in 0 .. StreamLen : \E w \in p .. StreamLen : InFlight(p, w)
    BY DEF Protocol
  <1>2. PICK w \in p .. StreamLen : InFlight(p, w)
    BY <1>1
  <1> DEFINE wanted == Wanted(reader)
  <1>3. /\ p \in Nat /\ p < w /\ w \in Nat /\ w <= StreamLen
        /\ Len(hooks) > 0 /\ Len(hooks) = w - p
        /\ entered \in 0 .. 3 /\ StreamLen \in Nat
        /\ hooks \in Seq(Cell) /\ Len(hooks) \in Nat
        /\ report = NoFailure => StreamLen = 2 * entered
        /\ report # NoFailure =>
             /\ report.size \in Nat \ {0} /\ report.size < LenMod
             /\ StreamLen = 2 * entered + report.size + 1
    BY <1>2, ReaderAt, StreamTypes DEF InFlight
  <1>4. PICK n \in 0 .. Len(hooks) :
          /\ n \in Nat /\ 0 < n /\ n <= Len(hooks)
          /\ n = IF wanted <= Len(hooks) THEN wanted ELSE Len(hooks)
    BY <1>3, ReaderReady
  <1> DEFINE got == reader.got \o SubSeq(hooks, 1, n)
             r == [reader EXCEPT !.got = @ \o SubSeq(hooks, 1, n)]
  <1>5. /\ hooks' = SubSeq(hooks, n + 1, Len(hooks))
        /\ UNCHANGED fds
        /\ ~MessageComplete(r) => reader' = r /\ consumer' = consumer
        /\ MessageComplete(r) =>
             \E next \in Done(r, consumer, TRUE) :
               reader' = next.reader /\ consumer' = next.consumer
        /\ pc' \notin {"done", "returned"}
        /\ pc' = "output" \/ DeserializesNull(r)
    <2>1. ~MayFail("malloc")
      BY DEF EventsReadable, MayFail
    <2>2. \A allocated \in {TRUE, ~MayFail("malloc")} : allocated = TRUE
      BY <2>1
    <2>3. MessageComplete(r) =>
             \E allocated \in {TRUE, ~MayFail("malloc")} :
             \E next \in Done(r, consumer, allocated) :
               reader' = next.reader /\ consumer' = next.consumer
      BY <1>4 DEF ReadHooks
    <2>4. MessageComplete(r) =>
            \E next \in Done(r, consumer, TRUE) :
               reader' = next.reader /\ consumer' = next.consumer
      BY <2>2, <2>3
    <2>5. ~MessageComplete(r) => reader' = r /\ consumer' = consumer
      BY <1>4 DEF ReadHooks
    <2>6. hooks' = SubSeq(hooks, n + 1, Len(hooks)) /\ UNCHANGED fds
      BY <1>4 DEF ReadHooks
    <2>7. pc' \in {"output", "crashed"} /\ (pc' = "output" \/ DeserializesNull(r))
      BY <1>4 DEF ReadHooks
    <2> QED
      BY <2>4, <2>5, <2>6, <2>7
  <1>6. got \in Seq(Cell) /\ Extended(got, reader.got, hooks, n)
    <2>1. reader.got \in Seq(Cell)
      BY DEF IInv, TypeOK, ParentTypeOK, Reader
    <2> QED
      BY <1>3, <1>4, <2>1, JoinedToCut
  <1>7. /\ r.got = got /\ r.buf = reader.buf /\ r.cap = reader.cap
        /\ r.len = reader.len /\ r.onDone = reader.onDone
        /\ r.bodyDone = reader.bodyDone
    BY DEF IInv, TypeOK, ParentTypeOK, Reader
  <1>8. /\ StreamLen' = StreamLen /\ HooksStage' = HooksStage
        /\ \A i : CellAt(i)' = CellAt(i)
        /\ \A k : RestOfBody(k)' = RestOfBody(k)
        /\ \A k : FailureReader(k)' = FailureReader(k)
    BY DEF StreamLen, CellAt, HooksStage, RestOfBody, FailureReader
  <1>9. \A i \in 1 .. n : hooks[i] = CellAt(p + i)
    BY <1>2, <1>4 DEF InFlight
  <1>10. wanted = reader.cap - Len(reader.got) \/ reader.buf = "null"
    BY DEF Wanted
  <1>11. Len(got) = Len(reader.got) + n
    BY <1>6 DEF Extended
  <1> HIDE DEF r, got, wanted
  \* what the reader has to become for the rest to follow
  <1>12. ASSUME ReadUpTo(p + n)' PROVE Protocol' /\ StageAdvances
    <2>1. /\ Len(hooks') = w - (p + n)
          /\ \A i \in 1 .. Len(hooks') : hooks'[i] = CellAt((p + n) + i)
      <3>1. Len(hooks') = Len(hooks) - n
        BY <1>3, <1>4, <1>5, Cut
      <3>2. \A i \in 1 .. (Len(hooks) - n) : hooks'[i] = hooks[n + i]
        BY <1>3, <1>4, <1>5, CutElements
      <3>3. ASSUME NEW i \in 1 .. Len(hooks')
            PROVE  hooks'[i] = CellAt((p + n) + i)
        <4>1. /\ n + i \in 1 .. Len(hooks) /\ p + (n + i) = (p + n) + i
              /\ i \in 1 .. (Len(hooks) - n)
          BY <1>3, <1>4, <3>1
        <4>2. hooks[n + i] = CellAt(p + (n + i))
          BY <1>2, <4>1 DEF InFlight
        <4> QED
          BY <3>2, <4>1, <4>2
      <3> QED
        BY <1>3, <1>4, <3>1, <3>3
    <2>2. Unwritten(w)'
      BY <1>2, <1>8 DEF InFlight, Unwritten
    <2>3. InFlight(p + n, w)'
      BY <1>8, <1>12, <2>1, <2>2 DEF InFlight
    <2>4. p + n \in 0 .. StreamLen' /\ w \in (p + n) .. StreamLen'
      BY <1>3, <1>4, <1>8
    <2>5. Protocol'
      BY <2>3, <2>4 DEF Protocol
    <2>6. ReadUpTo(p) /\ entered' = entered
      BY <1>2 DEF InFlight
    <2> QED
      BY <1>3, <1>4, <1>12, <2>5, <2>6, FurtherOn
  <1>13. p < StreamLen /\ consumer.failure = NoFailure
    BY <1>2, <1>3 DEF InFlight, ReadUpTo
  <1>14. pc' = "output"
    <2>1. \/ reader.onDone = "header" \/ reader.bodyDone = "stage"
          \/ reader.buf = "failure"
      BY <1>2, ReaderAt DEF PrepNextMsg, StageReader, FailureReader
    <2> QED
      BY <1>5, <1>7, <2>1 DEF DeserializesNull
  \* a header or a stage: one cell is read
  <1>15. ASSUME reader.cap = 1, reader.got = <<>>, reader.buf # "null"
         PROVE  /\ n = 1 /\ MessageComplete(r) /\ got[1] = CellAt(p + 1)
    <2>1. n = 1
      BY <1>3, <1>4, <1>10, <1>15
    <2>2. got[1] = hooks[1]
      BY <1>6, <1>15, <2>1 DEF Extended
    <2>3. Len(got) = 1
      BY <1>11, <1>15, <2>1
    <2> QED
      BY <1>7, <1>9, <1>15, <2>1, <2>2, <2>3 DEF MessageComplete
  <1>16. CASE p < 2 * entered /\ p \in {0, 2, 4} /\ reader = PrepNextMsg
    <2>1. /\ reader.cap = 1 /\ reader.got = <<>> /\ reader.buf # "null"
          /\ reader.onDone = "header"
      BY <1>16 DEF PrepNextMsg
    <2>2. n = 1 /\ MessageComplete(r) /\ r.got[1] = HeaderCell("STAGE_CHANGE", 1)
      BY <1>3, <1>7, <1>15, <1>16, <2>1 DEF CellAt, Announced
    <2>3. PICK next \in Done(r, consumer, TRUE) :
            reader' = next.reader /\ consumer' = next.consumer
      BY <1>5, <2>2
    <2>4. consumer' = consumer /\ reader' = StageReader
      <3>1. PICK h \in AsHeader(r.got[1]) :
              next = [reader |-> HeaderDone(h, TRUE), consumer |-> consumer]
        BY <1>7, <2>1, <2>3 DEF Done
      <3>2. h.type = "STAGE_CHANGE" /\ h.length = 1
        BY <2>2, <3>1 DEF AsHeader, HeaderCell
      <3> QED
        BY <2>3, <3>1, <3>2 DEF HeaderDone, StageReader
    <2>5. /\ p + 1 \in {1, 3, 5} /\ p + 1 <= 2 * entered
          /\ ~(p + 1 > 2 * entered) /\ StageAfter(p + 1) = StageAfter(p)
      BY <1>3, <1>16 DEF StageAfter
    <2>6. consumer.stage = StageAfter(p)
      BY <1>2, <1>3, <1>16 DEF InFlight, ReadUpTo
    <2>7. p + 1 = StreamLen => report = NoFailure
      BY <1>3, <2>5
    <2>8. ReadUpTo(p + 1)'
      BY <1>8, <1>13, <2>4, <2>5, <2>6, <2>7 DEF ReadUpTo
    <2> QED
      BY <1>5, <1>12, <1>14, <2>2, <2>8
  <1>17. CASE p < 2 * entered /\ p \in {1, 3, 5} /\ reader = StageReader
    <2>1. /\ reader.cap = 1 /\ reader.got = <<>> /\ reader.buf # "null"
          /\ reader.onDone = "body" /\ reader.bodyDone = "stage"
          /\ reader.len = 1
      BY <1>17 DEF StageReader
    <2>2. /\ n = 1 /\ MessageComplete(r)
          /\ r.got[1] = StageCell(StageAfter(p + 1))
      BY <1>3, <1>7, <1>15, <1>17, <2>1 DEF CellAt, Announced, StageAfter
    <2>3. PICK next \in Done(r, consumer, TRUE) :
            reader' = next.reader /\ consumer' = next.consumer
      BY <1>5, <2>2
    <2>4. next = [reader |-> BodyDone(r), consumer |-> Deliver(r, consumer)]
      BY <1>7, <2>1, <2>3 DEF Done
    <2>5. reader' = PrepNextMsg
      BY <1>7, <2>1, <2>3, <2>4 DEF BodyDone
    <2>6. consumer' = [consumer EXCEPT !.stage = StageAfter(p + 1)]
      BY <1>7, <2>1, <2>2, <2>3, <2>4 DEF Deliver, AsStage, StageCell
    <2>7. consumer'.stage = StageAfter(p + 1) /\ consumer'.failure = NoFailure
      BY <1>13, <2>6 DEF IInv, TypeOK, ParentTypeOK, Consumer
    <2>8. /\ p + 1 \in {2, 4, 6} /\ p + 1 <= 2 * entered
          /\ ~(p + 1 > 2 * entered)
      BY <1>3, <1>17
    <2>9. p + 1 = StreamLen => report = NoFailure
      BY <1>3, <2>8
    <2>10. ReadUpTo(p + 1)'
      BY <1>8, <2>5, <2>7, <2>8, <2>9 DEF ReadUpTo
    <2> QED
      BY <1>5, <1>12, <1>14, <2>2, <2>10
  <1>18. CASE p = 2 * entered /\ report # NoFailure /\ reader = PrepNextMsg
    <2>1. /\ reader.cap = 1 /\ reader.got = <<>> /\ reader.buf # "null"
          /\ reader.onDone = "header"
      BY <1>18 DEF PrepNextMsg
    <2>2. /\ n = 1 /\ MessageComplete(r)
          /\ r.got[1] = HeaderCell("FAILURE", report.size)
      BY <1>3, <1>7, <1>15, <1>18, <2>1 DEF CellAt
    <2>3. PICK next \in Done(r, consumer, TRUE) :
            reader' = next.reader /\ consumer' = next.consumer
      BY <1>5, <2>2
    <2>4. consumer' = consumer /\ reader' = FailureReader(0)
      <3>1. [i \in 1 .. 0 |-> BodyCell(report, i)] = <<>>
        OBVIOUS
      <3>2. report.size \in Nat \ {0}
        BY <1>3, <1>18
      <3>3. PICK h \in AsHeader(r.got[1]) :
              next = [reader |-> HeaderDone(h, TRUE), consumer |-> consumer]
        BY <1>7, <2>1, <2>3 DEF Done
      <3>4. h.type = "FAILURE" /\ h.length = report.size
        BY <2>2, <3>3 DEF AsHeader, HeaderCell
      <3> QED
        BY <2>3, <3>1, <3>2, <3>3, <3>4 DEF HeaderDone, FailureReader
    <2>5. /\ ~(p + 1 <= 2 * entered) /\ p + 1 > 2 * entered
          /\ p + 1 < StreamLen /\ (p + 1) - 2 * entered - 1 = 0
      BY <1>3, <1>18
    <2>6. consumer.stage = StageAfter(2 * entered)
      BY <1>2, <1>3, <1>18 DEF InFlight, ReadUpTo
    <2>7. ReadUpTo(p + 1)'
      BY <1>8, <1>13, <2>4, <2>5, <2>6 DEF ReadUpTo
    <2> QED
      BY <1>5, <1>12, <1>14, <2>2, <2>7
  <1>19. ASSUME report # NoFailure, NEW k \in 0 .. (report.size - 1),
                p = 2 * entered + 1 + k, reader = FailureReader(k)
         PROVE  Protocol' /\ StageAdvances
    <2>1. /\ report \in Failure /\ report.size \in Nat \ {0}
          /\ k \in 0 .. report.size /\ k \in Nat
      BY <1>3, <1>19 DEF IInv, TypeOK, ChildTypeOK
    <2>2. /\ reader.cap = report.size /\ reader.len = report.size
          /\ reader.buf = "failure" /\ reader.onDone = "body"
          /\ reader.bodyDone = "failure"
          /\ reader.got = [i \in 1 .. k |-> BodyCell(report, i)]
      BY <1>19 DEF FailureReader
    <2>3. /\ Len(reader.got) = k
          /\ \A i \in 1 .. k : reader.got[i] = BodyCell(report, i)
      BY <2>1, <2>2, BodyPrefix
    <2>4. n <= report.size - k /\ k + n \in 0 .. report.size
      BY <1>3, <1>4, <1>10, <2>1, <2>2, <2>3
    <2>5. /\ Len(got) = k + n
          /\ \A i \in 1 .. (k + n) : got[i] = BodyCell(report, i)
      <3>1. Len(got) = k + n
        BY <1>11, <2>3
      <3>2. ASSUME NEW i \in 1 .. (k + n) PROVE got[i] = BodyCell(report, i)
        <4>1. CASE i <= k
          <5>1. i \in 1 .. k
            BY <2>1, <4>1
          <5> QED
            BY <1>6, <2>3, <5>1 DEF Extended
        <4>2. CASE i > k
          <5>1. PICK j \in 1 .. n : i = k + j
            <6>1. i - k \in 1 .. n /\ i = k + (i - k)
              BY <1>4, <2>1, <4>2
            <6> QED
              BY <6>1
          <5>2. got[i] = CellAt(p + j)
            BY <1>6, <1>9, <2>3, <5>1 DEF Extended
          <5>3. /\ ~(p + j <= 2 * entered) /\ p + j # 2 * entered + 1
                /\ (p + j) - 2 * entered - 1 = i
            BY <1>3, <1>4, <1>19, <2>1, <5>1
          <5> QED
            BY <5>2, <5>3 DEF CellAt
        <4> QED
          BY <2>1, <4>1, <4>2
      <3> QED
        BY <3>1, <3>2
    <2>6. got = [i \in 1 .. (k + n) |-> BodyCell(report, i)]
      <3>1. PICK b \in Seq(Cell) : b = [i \in 1 .. (k + n) |-> BodyCell(report, i)]
        BY <2>1, <2>4, BodyPrefix
      <3>2. Len(b) = k + n /\ \A i \in 1 .. (k + n) : b[i] = BodyCell(report, i)
        BY <2>1, <2>4, <3>1, BodyPrefix
      <3> QED
        BY <1>6, <2>5, <3>1, <3>2, SeqEqual
    <2>7. /\ ~(p + n <= 2 * entered) /\ p + n > 2 * entered
          /\ (p + n) - 2 * entered - 1 = k + n
          /\ StreamLen - (p + n) = report.size - (k + n)
      <3>1. /\ entered \in Nat /\ report.size \in Nat /\ n \in Nat /\ k \in Nat
            /\ StreamLen = 2 * entered + report.size + 1
        BY <1>3, <1>4, <1>19, <2>1
      <3> QED
        BY <1>19, <3>1
    <2>8. consumer.stage = StageAfter(2 * entered)
      <3>1. p > 2 * entered
        BY <1>3, <1>19, <2>1
      <3> QED
        BY <1>2, <3>1 DEF InFlight, ReadUpTo
    <2>9. CASE k + n < report.size
      <3>1. ~MessageComplete(r)
        BY <1>7, <2>1, <2>2, <2>4, <2>5, <2>9 DEF MessageComplete
      <3>2. consumer' = consumer /\ reader' = FailureReader(k + n)
        <4>1. r = [reader EXCEPT !.got = got]
          BY DEF r, got
        <4>2. r = FailureReader(k + n)
          BY <1>19, <2>6, <4>1 DEF FailureReader
        <4> QED
          BY <1>5, <3>1, <4>2
      <3>3. p + n < StreamLen /\ p + n # StreamLen
        BY <1>3, <1>4, <2>1, <2>7, <2>9
      <3>4. ReadUpTo(p + n)'
        BY <1>8, <1>13, <2>7, <2>8, <3>2, <3>3 DEF ReadUpTo
      <3> QED
        BY <1>12, <3>4
    <2>10. CASE k + n = report.size
      <3>1. MessageComplete(r)
        BY <1>7, <2>1, <2>2, <2>5, <2>10 DEF MessageComplete
      <3>2. PICK next \in Done(r, consumer, TRUE) :
              reader' = next.reader /\ consumer' = next.consumer
        BY <1>5, <3>1
      <3>3. next = [reader |-> BodyDone(r), consumer |-> Deliver(r, consumer)]
        BY <1>7, <2>2, <3>2 DEF Done
      <3>4. reader' = PrepNextMsg
        BY <1>7, <2>1, <2>2, <3>2, <3>3 DEF BodyDone
      <3>5. AsFailure(got) = report
        <4>1. got = Body(report)
          BY <2>6, <2>10 DEF Body
        <4>2. got # <<>> /\ got[1] = BodyCell(report, 1)
          BY <2>1, <2>5, <2>10, EmptySeq
        <4> QED
          BY <4>1, <4>2 DEF AsFailure, BodyCell
      <3>6. consumer' = [consumer EXCEPT !.failure = report]
        BY <1>7, <2>2, <3>2, <3>3, <3>5 DEF Deliver
      <3>7. consumer'.stage = consumer.stage /\ consumer'.failure = report
        BY <3>6 DEF IInv, TypeOK, ParentTypeOK, Consumer
      <3>8. ~(p + n < StreamLen)
        BY <1>3, <1>4, <2>1, <2>7, <2>10
      <3>9. ReadUpTo(p + n)'
        BY <1>8, <2>7, <2>8, <3>4, <3>7, <3>8 DEF ReadUpTo
      <3> QED
        BY <1>12, <3>9
    <2> QED
      BY <2>1, <2>4, <2>9, <2>10
  <1>20. Protocol' /\ StageAdvances
    BY <1>2, <1>16, <1>17, <1>18, <1>19, ReaderAt
  <1> QED
    BY <1>5, <1>20, <1>14

(***************************************************************************)
(* The hooks pipe: every step                                               *)
(***************************************************************************)

\* Once the parent has gone, the child has already closed the hooks pipe: what
\* cannot be written any more is output.
LEMMA BrokenQuiet ==
    ASSUME IInv, EventsReadable, EventsInv, WriteBroken
    PROVE  /\ UNCHANGED <<hooks, parentVars, entered, report, pending>>
           /\ cpc = "exit" /\ cpc' \in {"exit", "closed"}
           /\ status = "alive" /\ status' \in {"alive", "killed"}
  <1>1. /\ status = "alive" /\ pc \in {"returned", "crashed"}
        /\ cpc \in {"write", "code", "exit", "quit"}
        /\ UNCHANGED <<hooks, parentVars, entered>>
    BY DEF WriteBroken, Readers, IInv, TypeOK, ParentTypeOK
  <1>2. Waited
    BY <1>1 DEF EventsInv, Reported, Waited
  <1>3. cpc = "exit"
    BY <1>1, <1>2 DEF EventsInv, HooksDrained, HooksClosed, HooksOpen
  <1>4. pending = <<>>
    BY <1>3 DEF EventsInv, Protocol, InFlight, Unwritten
  <1> QED
    BY <1>1, <1>3, <1>4 DEF WriteBroken, HandleSignal

\* Whoever moves, the stream stays what the child sent.
LEMMA ProtocolStep ==
    ASSUME IInv, EventsReadable, EventsInv, [Next]_vars
    PROVE  Protocol'
  <1> USE DEF EventsInv
  <1>1. CASE HandleHooks /\ ReadHooks
    <2>1. pc = "hooks" /\ hooks # <<>> /\ UNCHANGED <<entered, report, pending, cpc>>
      BY <1>1 DEF HandleHooks, ReadHooks, HooksDrained, childVars
    <2> QED
      BY <1>1, <2>1, ReadHooksProtocol
  <1>2. CASE EnterStage
    BY <1>2, EnterStageProtocol
  <1>3. CASE \E type \in {"FAIL", "SKIPPED"}, failure \in TestFailures :
               ShortCircuit(type, failure)
    BY <1>3, ShortCircuitProtocol
  <1>4. CASE WriteHooks
    BY <1>4, WriteHooksProtocol
  <1>5. CASE Wait \/ Finish
    <2>1. /\ UNCHANGED <<hooks, reader, entered, report, pending, cpc>>
          /\ pc' \in {"done", "returned"}
      BY <1>5 DEF Wait, Finish, childVars
    <2>2. UNCHANGED consumer \/ consumer' = [consumer EXCEPT !.failure = NoFailure]
      BY <1>5 DEF Wait, TakeExitStatus, Finish
    <2>3. /\ consumer'.stage = consumer.stage
          /\ UNCHANGED consumer \/ consumer'.failure = NoFailure
      BY <2>2 DEF IInv, TypeOK, ParentTypeOK, Consumer
    <2> QED
      BY <2>1, <2>3, ProtocolUntouched
  <1>6. CASE \/ CreateResult \/ OpenPipe("hooks_pipe", "output_pipe")
             \/ OpenPipe("output_pipe", "fork") \/ Fork \/ Complete \/ Poll
             \/ (HandleHooks /\ ~ReadHooks) \/ HandleOutput \/ Kill
    <2>1. /\ UNCHANGED <<hooks, reader, consumer, entered, report, pending>>
          /\ cpc' = "write" <=> cpc = "write"
          /\ pc \notin {"done", "returned"}
      BY <1>6 DEF CreateResult, OpenPipe, Fork, Complete, Poll, HandleHooks,
         HandleOutput, Kill, childVars, IInv, ParentInv, ChildInv
    <2> QED
      BY <2>1, ProtocolUntouched
  <1>7. CASE \/ ChildStart \/ PrintOutput \/ FlushOutput \/ StageReturns
             \/ (\E code \in ExitCodes : TestExits(code))
             \/ SigRestore \/ DestroyHooks \/ CloseStreams \/ Exit
             \/ Terminate
    <2>1. /\ UNCHANGED <<hooks, reader, consumer, entered, report, pending, pc>>
          /\ cpc' = "write" <=> cpc = "write"
      BY <1>7 DEF ChildStart, PrintOutput, FlushOutput, StageReturns, TestExits,
         SigRestore, DestroyHooks, CloseStreams, Exit, Terminate, ChildUnchanged,
         parentVars
    <2> QED
      BY <2>1, ProtocolUntouched
  <1>8. CASE UNCHANGED vars
    <2>1. UNCHANGED <<hooks, reader, consumer, entered, report, pending, pc, cpc>>
      BY <1>8 DEF vars, parentVars, childVars
    <2> QED
      BY <2>1, ProtocolUntouched
  <1>9. ~CatchSignal
    BY DEF CatchSignal, EventsReadable
  <1>10. CASE WriteBroken
    <2>1. /\ UNCHANGED <<hooks, reader, consumer, entered, report, pending, pc>>
          /\ cpc' # "write" /\ cpc # "write"
      BY <1>10, BrokenQuiet DEF parentVars
    <2> QED
      BY <2>1, ProtocolUntouched
  <1> QED
    BY <1>1, <1>2, <1>3, <1>4, <1>5, <1>6, <1>7, <1>8, <1>9, <1>10
    DEF Next, ParentNext, ChildNext, Terminating

\* What the child reports is of a stage it has entered.
LEMMA ReportedStep ==
    ASSUME IInv, EventsReadable, EventsInv, [Next]_vars
    PROVE  Reported'
  <1> USE DEF EventsInv
  <1>0. pc # "crashed" /\ entered \in 0 .. 3
    BY StreamTypes DEF Reported
  <1>1. CASE EnterStage
    <2>1. report = NoFailure
      BY <1>1 DEF EnterStage, IInv, ChildInv
    <2> QED
      BY <1>1, <2>1 DEF EnterStage, ChildUnchanged, parentVars, Reported
  <1>2. CASE WriteHooks
    <2>1. entered > 0
      <3>1. cpc = "write" => entered > 0
        BY DEF Protocol, InFlight, Unwritten, Reported
      <3> QED
        BY <1>2, <3>1 DEF WriteHooks
    <2>2. /\ UNCHANGED <<entered, report, status, pc>> /\ status = "alive"
      BY <1>2 DEF WriteHooks, ChildUnchanged, parentVars
    <2>3. HooksStage' = HooksStage
      BY <2>2 DEF HooksStage
    <2> QED
      BY <2>1, <2>2, <2>3 DEF Reported
  <1>3. ASSUME NEW type \in {"FAIL", "SKIPPED"}, NEW failure \in TestFailures,
               ShortCircuit(type, failure)
        PROVE  Reported'
    <2>1. /\ cpc = "code" /\ status = "alive" /\ UNCHANGED <<entered, status, pc>>
          /\ report' = failure /\ cpc' \in {"write", "close"}
      BY <1>3 DEF ShortCircuit, ChildUnchanged, parentVars
    <2>2. ASSUME failure # NoFailure
          PROVE  /\ failure.size \in FailureSizes
                 /\ StageNumber[failure.stage] <= StageNumber[HooksStage]
      <3>1. failure \in [by : {"test"}, stage : {StageSeq[i] : i \in 1 .. entered},
                         size : FailureSizes]
        BY <2>2 DEF TestFailures
      <3>2. /\ failure.stage \in {StageSeq[i] : i \in 1 .. entered}
            /\ failure.size \in FailureSizes
        BY <3>1, Zenon
      <3>3. PICK i \in 1 .. entered : failure.stage = StageSeq[i]
        BY <3>2
      <3>4. entered \in {1, 2, 3} /\ i \in {1, 2, 3} /\ i <= entered
        BY <1>0, <3>3
      <3>5. /\ StageNumber[StageSeq[1]] = 0 /\ StageNumber[StageSeq[2]] = 1
            /\ StageNumber[StageSeq[3]] = 2
        BY DEF StageSeq, StageNumber
      <3>6. HooksStage = StageSeq[entered]
        BY <3>4 DEF HooksStage
      <3>7. StageNumber[StageSeq[i]] <= StageNumber[StageSeq[entered]]
        BY <3>4, <3>5
      <3> QED
        BY <3>2, <3>3, <3>6, <3>7
    <2>3. HooksStage' = HooksStage
      BY <2>1 DEF HooksStage
    <2> QED
      BY <1>0, <2>1, <2>2, <2>3 DEF Reported
  <1>4. CASE HandleHooks /\ ReadHooks
    <2>1. /\ pc = "hooks" /\ hooks # <<>>
          /\ UNCHANGED <<entered, report, pending, cpc, status>>
      BY <1>4 DEF HandleHooks, ReadHooks, HooksDrained, childVars
    <2>2. pc' = "output"
      BY <1>4, <2>1, ReadHooksProtocol
    <2>3. HooksStage' = HooksStage
      BY <2>1 DEF HooksStage
    <2> QED
      BY <2>1, <2>2, <2>3 DEF Reported
  <1>5. CASE \/ (ParentNext /\ ~(HandleHooks /\ ReadHooks)) \/ Terminate
             \/ ChildStart \/ PrintOutput
             \/ FlushOutput \/ StageReturns \/ SigRestore \/ DestroyHooks
             \/ CloseStreams \/ Exit
             \/ (\E code \in ExitCodes : TestExits(code)) \/ UNCHANGED vars
    <2>1. /\ UNCHANGED <<entered, report>>
          /\ cpc' = "code" => cpc = "code"
          /\ status' = "exited" => cpc' \in {"closed", "quit"}
          /\ pc' # "crashed"
      BY <1>0, <1>5 DEF ParentNext, CreateResult, OpenPipe, Fork, Complete, Poll,
         HandleHooks, HandleOutput, Kill, Wait, Finish, childVars, Terminate,
         ChildStart, PrintOutput, FlushOutput, StageReturns, SigRestore,
         DestroyHooks, CloseStreams, Exit, TestExits, ChildUnchanged, parentVars,
         vars, Reported
    <2>2. HooksStage' = HooksStage
      BY <2>1 DEF HooksStage
    <2> QED
      BY <2>1, <2>2 DEF Reported
  <1>6. CASE WriteBroken
    <2>1. /\ UNCHANGED <<entered, report, pc>> /\ cpc' # "code"
          /\ status' # "exited"
      BY <1>6, BrokenQuiet DEF parentVars
    <2>2. HooksStage' = HooksStage
      BY <2>1 DEF HooksStage
    <2> QED
      BY <2>1, <2>2 DEF Reported
  <1>7. ~CatchSignal
    BY DEF CatchSignal, EventsReadable
  <1> QED
    BY <1>1, <1>2, <1>3, <1>4, <1>5, <1>6, <1>7 DEF Next, ChildNext, Terminating

\* A child that is through with the hooks pipe does not come back to it, and
\* what it wrote does not vanish.
LEMMA HooksClosedStays ==
    ASSUME IInv, EventsReadable, ChildNext \/ Terminate
    PROVE  /\ HooksClosed => HooksClosed' /\ UNCHANGED hooks
           /\ hooks # <<>> => hooks' # <<>>
           /\ status = "alive" /\ status' # "none" /\ UNCHANGED parentVars
  <1>1. /\ status = "alive" /\ UNCHANGED parentVars
        /\ status' \in {"alive", "exited", "killed"}
    BY DEF ChildNext, ChildUnchanged, ChildStart, EnterStage, WriteHooks,
       PrintOutput, FlushOutput, StageReturns, ShortCircuit, TestExits,
       SigRestore, DestroyHooks, CloseStreams, Exit, WriteBroken, HandleSignal,
       Terminate
  <1>2. CASE WriteHooks
    <2>1. ~HooksClosed
      BY <1>2 DEF WriteHooks, HooksClosed, HooksOpen
    <2>2. PICK n \in Transfers(Head(pending), HooksCap - Len(hooks)) :
            hooks' = hooks \o SubSeq(Head(pending), 1, n)
      BY <1>2 DEF WriteHooks
    <2>3. /\ hooks \in Seq(Cell) /\ Head(pending) \in Seq(Cell)
          /\ n \in 0 .. Len(Head(pending)) /\ n \in Nat /\ n > 0
      <3>1. pending \in Seq(Seq(Cell)) /\ pending # <<>> /\ hooks \in Seq(Cell)
        BY <1>2 DEF WriteHooks, IInv, TypeOK, ChildTypeOK, ChildInv, PipesTypeOK
      <3>2. Head(pending) \in Seq(Cell)
        BY <3>1
      <3>3. n \in 1 .. Len(Head(pending))
        BY <2>2 DEF Transfers
      <3> QED
        BY <3>1, <3>2, <3>3
    <2>4. hooks' \in Seq(Cell) /\ Extended(hooks', hooks, Head(pending), n)
      BY <2>2, <2>3, JoinedToCut
    <2>5. Len(hooks') > 0
      BY <2>3, <2>4 DEF Extended
    <2>6. hooks' # <<>>
      BY <2>5
    <2> QED
      BY <1>1, <2>1, <2>6
  <1>3. CASE ~WriteHooks
    <2>1. /\ UNCHANGED hooks
          /\ \/ status' # "alive"
             \/ cpc \in {"clear", "exit", "closed"} =>
                  cpc' \in {"clear", "exit", "closed"}
      BY <1>3 DEF ChildNext, ChildUnchanged, ChildStart, EnterStage,
         PrintOutput, FlushOutput, StageReturns, ShortCircuit, TestExits,
         SigRestore, DestroyHooks, CloseStreams, Exit, WriteBroken, HandleSignal,
         Terminate
    <2> QED
      BY <1>1, <2>1 DEF HooksClosed, HooksOpen
  <1> QED
    BY <1>2, <1>3

\* The hooks pipe is drained, action by action.
LEMMA HooksDrainedStep ==
    ASSUME IInv, EventsReadable, EventsInv, [Next]_vars
    PROVE  HooksDrained'
  <1> USE DEF EventsInv
  <1>0. /\ HooksFd \in Nat /\ HooksFd > 0 /\ fds["hooks"] \in Int
        /\ fds \in [Handlers -> Int] /\ "hooks" \in Handlers
        /\ status \in {"none", "alive", "exited", "killed"}
    BY RunnerAssumption
    DEF IInv, TypeOK, ParentTypeOK, ChildTypeOK, Handlers
  <1>1. CASE \/ CreateResult \/ OpenPipe("hooks_pipe", "output_pipe")
             \/ OpenPipe("output_pipe", "fork") \/ Fork \/ Complete
    <2>1. /\ status = "none" /\ UNCHANGED <<fds, hooks>>
          /\ (pc' = "returned" => status' = "none")
          /\ pc' \in {"returned", "hooks_pipe", "output_pipe", "fork", "poll",
                      "complete"}
      BY <1>1 DEF CreateResult, OpenPipe, Fork, Complete, childVars, IInv, ParentInv
    <2> QED
      BY <1>0, <2>1 DEF HooksDrained, HooksClosed, Waited
  <1>2. CASE Poll
    <2>1. /\ pc = "poll" /\ status # "none"
          /\ UNCHANGED <<fds, hooks, status, cpc>>
      BY <1>2 DEF Poll, childVars, IInv, ParentInv
    <2>2. HooksClosed' <=> HooksClosed
      BY <2>1 DEF HooksClosed, HooksOpen
    <2>3. CASE pc' = "wait" /\ \A h \in Handlers : fds[h] < 0
      BY <1>0, <2>1, <2>2, <2>3 DEF HooksDrained, Waited
    <2>4. CASE /\ pc' = "hooks"
               /\ revents'["hooks"] = Revents(fds["hooks"], hooks, HooksOpen)
      <3>1. revents'["hooks"] # {} => fds["hooks"] = HooksFd
        BY <1>0, <2>4 DEF Revents, HooksDrained
      <3>2. "IN" \in revents'["hooks"] => hooks # <<>>
        BY <2>4 DEF Revents
      <3>3. ASSUME revents'["hooks"] = {"HUP"} PROVE ~(fds["hooks"] < 0)
        BY <2>4, <3>3 DEF Revents
      <3>4. ASSUME revents'["hooks"] = {"HUP"} PROVE hooks = <<>>
        <4>1. "IN" \notin revents'["hooks"]
          BY <3>4
        <4> QED
          BY <2>4, <3>3, <3>4, <4>1 DEF Revents
      <3>5. ASSUME revents'["hooks"] = {"HUP"} PROVE HooksClosed
        <4>1. "HUP" \in revents'["hooks"]
          BY <3>5
        <4>2. ~HooksOpen
          BY <2>4, <3>3, <3>5, <4>1 DEF Revents
        <4> QED
          BY <2>1, <4>2 DEF HooksClosed
      <3> QED
        BY <2>1, <2>2, <2>4, <3>1, <3>2, <3>4, <3>5
        DEF HooksDrained, Waited, HungUp
    <2> QED
      BY <1>2, <2>3, <2>4 DEF Poll, EventsReadable, MayFail, Handlers
  <1>3. CASE HandleHooks
    <2>1. /\ UNCHANGED <<revents, status, cpc>>
          /\ pc = "hooks" /\ pc' \in {"output", "crashed"}
      BY <1>3 DEF HandleHooks, ReadHooks, childVars
    <2>2. HooksClosed' <=> HooksClosed
      BY <2>1 DEF HooksClosed, HooksOpen
    <2>3. CASE ReadHooks
      <3>1. hooks # <<>> /\ fds["hooks"] = HooksFd
        BY <2>1, <2>3 DEF ReadHooks, HooksDrained
      <3>2. UNCHANGED fds
        <4>1. UNCHANGED <<entered, report, pending, cpc>>
          BY <1>3 DEF HandleHooks, childVars
        <4> QED
          BY <2>1, <2>3, <3>1, <4>1, ReadHooksProtocol
      <3> QED
        BY <1>0, <2>1, <3>1, <3>2 DEF HooksDrained, Waited
    <2>4. CASE HungUp("hooks") /\ Close("hooks") /\ UNCHANGED hooks
      <3>1. HooksClosed /\ hooks = <<>> /\ fds["hooks"] = HooksFd
        BY <2>1, <2>4 DEF HooksDrained, HungUp
      <3>2. fds'["hooks"] = -HooksFd
        BY <1>0, <2>4, <3>1 DEF Close
      <3> QED
        BY <1>0, <2>1, <2>2, <2>4, <3>1, <3>2 DEF HooksDrained, Waited
    <2>5. CASE UNCHANGED <<fds, hooks>>
      BY <2>1, <2>2, <2>5 DEF HooksDrained, Waited
    <2>6. "IN" \in revents["hooks"] => ~BadAddress(reader)
      BY <2>1, ReaderReady DEF HooksDrained
    <2> QED
      BY <1>3, <2>3, <2>4, <2>5, <2>6 DEF HandleHooks, EventsReadable, MayFail
  <1>4. CASE HandleOutput
    <2>1. /\ pc' = "poll" /\ UNCHANGED <<hooks, status, cpc>>
      BY <1>4 DEF HandleOutput, childVars
    <2>2. fds'["hooks"] = fds["hooks"]
      BY <1>0, <1>4 DEF HandleOutput, ReadFails, Close, Handlers
    <2> QED
      BY <2>1, <2>2 DEF HooksDrained, HooksClosed, HooksOpen, Waited
  <1>5. CASE Wait \/ Finish
    <2>1. /\ UNCHANGED <<fds, hooks, status, cpc>>
          /\ pc \in {"wait", "done"} /\ pc' \in {"done", "returned"}
      BY <1>5 DEF Wait, Finish, childVars
    <2> QED
      BY <2>1 DEF HooksDrained, HooksClosed, HooksOpen, Waited
  <1>6. CASE ChildNext \/ Terminate
    <2>1. /\ HooksClosed => HooksClosed' /\ UNCHANGED hooks
          /\ hooks # <<>> => hooks' # <<>>
          /\ status = "alive" /\ status' # "none" /\ UNCHANGED parentVars
      BY <1>6, HooksClosedStays
    <2>2. UNCHANGED <<fds, revents, pc>>
      BY <2>1 DEF parentVars
    <2> QED
      BY <2>1, <2>2 DEF HooksDrained, Waited, HungUp
  <1>7. CASE UNCHANGED vars
    BY <1>7 DEF HooksDrained, HooksClosed, HooksOpen, Waited, HungUp, vars,
       parentVars, childVars
  <1>8. CASE Kill
    BY <1>8 DEF Kill, HooksDrained
  <1>9. ~CatchSignal
    BY DEF CatchSignal, EventsReadable
  <1> QED
    BY <1>1, <1>2, <1>3, <1>4, <1>5, <1>6, <1>7, <1>8, <1>9
    DEF Next, ParentNext, Terminating

\* When the pipe is drained the parent knows all that the child has written.
LEMMA AllRead ==
    ASSUME IInv, Reported, EventsReadable, Protocol, hooks = <<>>
    PROVE  /\ cpc # "write" /\ pc \notin {"done", "returned"} =>
                consumer.failure = report
           /\ reader.buf = "failure" => cpc = "write"
  <1>1. PICK p \in 0 .. StreamLen : \E w \in p .. StreamLen : InFlight(p, w)
    BY DEF Protocol
  <1>2. PICK w \in p .. StreamLen : InFlight(p, w)
    BY <1>1
  <1>3. StreamLen \in Nat /\ Len(hooks) = 0 /\ entered \in 0 .. 3
    BY StreamTypes
  <1>4. w = p /\ p \in Nat
    BY <1>2, <1>3 DEF InFlight
  <1>5. cpc # "write" => p = StreamLen /\ ~(p < StreamLen)
    BY <1>2, <1>3, <1>4 DEF InFlight, Unwritten
  <1>6. cpc # "write" => reader.buf # "failure"
    <2> SUFFICES ASSUME cpc # "write" PROVE reader.buf # "failure"
      OBVIOUS
    <2>1. p <= 2 * entered \/ p > 2 * entered
      BY <1>3, <1>4
    <2>2. reader = PrepNextMsg \/ reader = StageReader
      BY <1>2, <1>5, <2>1 DEF InFlight, ReadUpTo
    <2> QED
      BY <2>2 DEF PrepNextMsg, StageReader
  <1> QED
    BY <1>2, <1>5, <1>6 DEF InFlight, ReadUpTo

\* The result carries the failure the child reported last.
LEMMA OutcomeStep ==
    ASSUME IInv, EventsReadable, EventsInv, [Next]_vars
    PROVE  Outcome'
  <1> USE DEF EventsInv
  <1>1. CASE Wait
    <2>1. /\ pc = "wait" /\ pc' = "done"
          /\ UNCHANGED <<leaked, status, cpc, report>>
      BY <1>1 DEF Wait, childVars
    <2>2. hooks = <<>>
      BY <2>1 DEF HooksDrained, Waited
    <2>3. ASSUME status = "exited", result'.type \in {"FAIL", "SKIPPED"}
          PROVE  result'.failure = report
      <3>1. result'.type # "ERROR"
        BY <2>3
      <3>2. TakeExitStatus
        BY <1>1, <2>3, <3>1 DEF Wait, SetError, TakeSignal
      <3>3. result'.failure = consumer.failure
        BY <2>3, <3>2 DEF TakeExitStatus
      <3>4. cpc # "write"
        BY <2>3 DEF Reported
      <3> QED
        BY <2>1, <2>2, <3>3, <3>4, AllRead
    <2> QED
      BY <2>1, <2>3 DEF Outcome
  <1>2. CASE Finish
    <2>1. /\ pc = "done" /\ pc' = "returned"
          /\ UNCHANGED <<result, status, cpc, report>>
      BY <1>2 DEF Finish, childVars
    <2>2. hooks = <<>> /\ HooksClosed
      BY <2>1 DEF HooksDrained, Waited
    <2>3. leaked' => reader.buf = "failure"
      BY <1>2, Zenon DEF Finish
    <2>4. leaked' => cpc = "write"
      BY <2>2, <2>3, AllRead
    <2>5. cpc = "write" => status = "killed"
      BY <2>2 DEF HooksClosed, HooksOpen, Reported, IInv, TypeOK, ChildTypeOK
    <2> QED
      BY <2>1, <2>4, <2>5 DEF Outcome
  <1>3. CASE CreateResult \/ Complete
    <2>1. status = "none" /\ UNCHANGED <<leaked, status, cpc>>
      BY <1>3 DEF CreateResult, Complete, childVars, IInv, ParentInv
    <2> QED
      BY <2>1 DEF Outcome
  <1>4. CASE \/ OpenPipe("hooks_pipe", "output_pipe")
             \/ OpenPipe("output_pipe", "fork") \/ Fork \/ Poll \/ HandleHooks
             \/ HandleOutput \/ Kill
    <2>1. /\ pc' \notin {"done", "returned"} /\ UNCHANGED leaked
          /\ status = "killed" => UNCHANGED <<status, cpc>>
      BY <1>4 DEF OpenPipe, Fork, Poll, HandleHooks, ReadHooks, HandleOutput,
         Kill, childVars, IInv, ParentInv
    <2> QED
      BY <2>1 DEF Outcome
  <1>5. CASE ChildNext \/ Terminate
    <2>1. status = "alive" /\ UNCHANGED parentVars
      BY <1>5, HooksClosedStays
    <2>2. pc \in {"done", "returned"} => result.type = "ERROR"
      BY <2>1 DEF IInv, ParentInv
    <2>3. ~leaked
      BY <2>1 DEF Outcome
    <2>4. UNCHANGED <<pc, result>> /\ (leaked' <=> leaked)
      BY <2>1 DEF parentVars
    <2> QED
      BY <2>2, <2>3, <2>4 DEF Outcome
  <1>6. CASE UNCHANGED vars
    BY <1>6 DEF Outcome, vars, parentVars, childVars
  <1>7. ~CatchSignal
    BY DEF CatchSignal, EventsReadable
  <1> QED
    BY <1>1, <1>2, <1>3, <1>4, <1>5, <1>6, <1>7
    DEF Next, ParentNext, Terminating

\* Before the run nothing is sent.
LEMMA EventsInit == Init => EventsInv
  <1> SUFFICES ASSUME Init PROVE EventsInv
    OBVIOUS
  <1>1. StreamLen = 0
    BY DEF Init, StreamLen
  <1>2. Unwritten(0) /\ ReadUpTo(0)
    BY <1>1 DEF Init, Unwritten, ReadUpTo, StageAfter
  <1>3. InFlight(0, 0)
    BY <1>2 DEF Init, InFlight
  <1>4. Protocol
    BY <1>1, <1>3 DEF Protocol
  <1>5. fds["hooks"] = HooksFd
    BY DEF Init, Handlers
  <1>6. HooksDrained
    BY <1>5, RunnerAssumption DEF Init, HooksDrained, HooksClosed, Waited
  <1>7. Reported /\ Outcome
    BY DEF Init, Reported, Outcome
  <1> QED
    BY <1>4, <1>6, <1>7 DEF EventsInv

\* The invariant the theorems below rest on: what is in the hooks pipe is a
\* part of the stream of the child's events, and the reader is where the
\* part before it ends.
THEOREM EventsInvariance ==
    ASSUME EventsReadable
    PROVE  Spec => [](IInv /\ EventsInv)
  <1>1. Init => IInv /\ EventsInv
    BY InitInv, EventsInit
  <1>2. IInv /\ EventsInv /\ [Next]_vars => (IInv /\ EventsInv)'
    BY NextInv, ProtocolStep, ReportedStep, HooksDrainedStep, OutcomeStep
    DEF EventsInv
  <1> QED
    BY <1>1, <1>2, PTL DEF Spec

\* wait_for_child__ blocks in waitpid() only when both pipes are at their
\* end, so a child never waits in a write() for a parent that waits for it.
THEOREM DrainedCorrect ==
    ASSUME EventsReadable, OutputReadable
    PROVE  Spec => []DrainedBeforeWait
  <1>1. Init => OutputDrained
    BY OutputInit
  <1>2. IInv /\ OutputDrained /\ [Next]_vars => OutputDrained'
    BY OutputDrainedStep
  <1>3. IInv /\ EventsInv /\ OutputDrained => DrainedBeforeWait
    <2> SUFFICES ASSUME IInv, EventsInv, OutputDrained, pc \in {"wait", "done"}
                 PROVE  hooks = <<>> /\ out = <<>> /\ ~HooksOpen /\ ~OutputOpen
      BY DEF DrainedBeforeWait
    <2>1. hooks = <<>> /\ ~HooksOpen
      BY DEF EventsInv, HooksDrained, HooksClosed, Waited
    <2>2. out = <<>> /\ ~OutputOpen
      BY DEF OutputDrained, OutputClosed, Waited
    <2> QED
      BY <2>1, <2>2
  <1> QED
    BY <1>1, <1>2, <1>3, EventsInvariance, PTL DEF Spec

\* The parent never takes the child to be further than it is, however many
\* events the pipe holds, and a failure belongs to a stage the parent has been
\* told of.
THEOREM StageCorrect ==
    ASSUME EventsReadable
    PROVE  Spec => []StageNotAhead
  <1>1. IInv /\ EventsInv => StageNotAhead
    <2> SUFFICES ASSUME IInv, EventsInv PROVE StageNotAhead
      OBVIOUS
    <2>1. PICK p \in 0 .. StreamLen : \E w \in p .. StreamLen : InFlight(p, w)
      BY DEF EventsInv, Protocol
    <2>2. ReadUpTo(p) /\ p \in Nat /\ entered \in 0 .. 3
      BY <2>1, StreamTypes DEF InFlight, EventsInv
    <2>3. StageNumber[consumer.stage] <= StageNumber[HooksStage]
      <3>1. PICK q \in 0 .. 2 * entered : consumer.stage = StageAfter(q)
        <4>1. CASE p <= 2 * entered
          BY <2>2, <4>1 DEF ReadUpTo
        <4>2. CASE p > 2 * entered
          BY <2>2, <4>2 DEF ReadUpTo
        <4> QED
          BY <2>2, <4>1, <4>2
      <3>2. entered \in {0, 1, 2, 3} /\ q \in Nat /\ q <= 2 * entered
        BY <2>2
      <3> QED
        BY <3>1, <3>2 DEF StageAfter, StageNumber, HooksStage, StageSeq
    <2>4. ASSUME consumer.failure # NoFailure
          PROVE  StageNumber[consumer.failure.stage] <= StageNumber[consumer.stage]
      <3>1. StreamLen \in Nat /\ ~(p < StreamLen)
        BY <2>2, <2>4, StreamTypes DEF ReadUpTo, EventsInv
      <3>2. p = StreamLen
        BY <2>1, <2>2, <3>1
      <3>3. consumer.failure = report /\ report # NoFailure
        BY <2>2, <2>4, <3>2 DEF ReadUpTo
      <3>4. p > 2 * entered /\ entered \in {1, 2, 3}
        BY <2>2, <3>2, <3>3, StreamTypes DEF EventsInv
      <3>5. consumer.stage = StageAfter(2 * entered)
        BY <2>2, <3>4 DEF ReadUpTo
      <3>6. StageAfter(2 * entered) = HooksStage
        BY <3>4 DEF StageAfter, HooksStage, StageSeq
      <3> QED
        BY <3>3, <3>5, <3>6 DEF EventsInv, Reported
    <2> QED
      BY <2>3, <2>4 DEF StageNotAhead
  <1> QED
    BY <1>1, EventsInvariance, PTL

\* The failure in the result is the one the child reported last, intact.
THEOREM FailureCorrect ==
    ASSUME EventsReadable
    PROVE  Spec => []FailureFaithful
  <1>1. IInv /\ EventsInv => FailureFaithful
    BY DEF IInv, ParentInv, EventsInv, Outcome, FailureFaithful
  <1> QED
    BY <1>1, EventsInvariance, PTL

\* exec_event_reader_destroy never frees its buffer, and only a child killed
\* in the middle of a write() leaves it one.
THEOREM LeakCorrect ==
    ASSUME EventsReadable
    PROVE  Spec => []LeakOnlyWhenCut
  <1>1. IInv /\ EventsInv => LeakOnlyWhenCut
    BY DEF EventsInv, Outcome, LeakOnlyWhenCut
  <1> QED
    BY <1>1, EventsInvariance, PTL

\* exec_hooks.h:41 holds for the parent's copy of the stage too: no event
\* takes it back.
THEOREM StageOnlyAdvances ==
    ASSUME EventsReadable
    PROVE  Spec => StageMonotone
  <1>1. IInv /\ EventsInv /\ [Next]_vars => [StageAdvances]_vars
    <2> SUFFICES ASSUME IInv, EventsInv, Next PROVE StageAdvances
      BY DEF StageAdvances
    <2>1. CASE HandleHooks /\ ReadHooks
      <3>1. /\ pc = "hooks" /\ UNCHANGED <<entered, report, pending, cpc>>
            /\ hooks # <<>>
        BY <2>1 DEF HandleHooks, ReadHooks, childVars, EventsInv, HooksDrained
      <3> QED
        BY <2>1, <3>1, ReadHooksProtocol DEF EventsInv
    <2>2. CASE consumer'.stage = consumer.stage
      <3>1. StageNumber[consumer.stage] \in Nat
        BY DEF IInv, TypeOK, ParentTypeOK, Consumer, AnyStage, Stages, StageNumber
      <3> QED
        BY <2>2, <3>1 DEF StageAdvances
    <2>3. (HandleHooks /\ ReadHooks) \/ consumer'.stage = consumer.stage
      <3>1. CASE Wait \/ Finish
        <4>1. UNCHANGED consumer \/ consumer' = [consumer EXCEPT !.failure = NoFailure]
          BY <3>1 DEF Wait, TakeExitStatus, Finish
        <4> QED
          BY <4>1 DEF IInv, TypeOK, ParentTypeOK, Consumer
      <3>2. CASE \/ CreateResult \/ OpenPipe("hooks_pipe", "output_pipe")
                 \/ OpenPipe("output_pipe", "fork") \/ Fork \/ Complete \/ Poll
                 \/ (HandleHooks /\ ~ReadHooks) \/ HandleOutput \/ Kill
        BY <3>2 DEF CreateResult, OpenPipe, Fork, Complete, Poll, HandleHooks,
           HandleOutput, Kill
      <3>3. CASE ChildNext \/ Terminate \/ Terminating
        BY <3>3 DEF ChildNext, ChildStart, EnterStage, PrintOutput, FlushOutput,
           WriteHooks, StageReturns, ShortCircuit, TestExits, SigRestore,
           DestroyHooks, CloseStreams, Exit, WriteBroken, Terminate, Terminating,
           ChildUnchanged, parentVars, vars
      <3>4. CASE CatchSignal
        BY <3>4 DEF CatchSignal, ChildUnchanged, parentVars
      <3> QED
        BY <3>1, <3>2, <3>3, <3>4 DEF Next, ParentNext
    <2> QED
      BY <2>1, <2>2, <2>3
  <1> QED
    BY <1>1, EventsInvariance, PTL DEF Spec, StageMonotone, StageAdvances
===============================================================================
