------------------------------ MODULE ExecEvents ------------------------------
(***************************************************************************)
(* The execution event stream of src/src/exec/exec_events.{c,h}: the        *)
(* messages an exec_event_writer_t puts on the hooks pipe and the state     *)
(* machine with which an exec_event_reader_t takes them off again.          *)
(*                                                                          *)
(* The stream is a sequence of cells.  A cell stands for four bytes, the    *)
(* size of a message header and of a ctest_stage_t; the storage of a        *)
(* failure is counted in whole cells.  The module has no state of its own:  *)
(* a reader is a record and each callback of the reader an operator on it,  *)
(* so that the runner can take them as parts of its own steps.              *)
(***************************************************************************)
EXTENDS Integers, Sequences

CONSTANTS
    LenMod,    \* values of the 16-bit length field of a header, in cells
    PipeBuf,   \* PIPE_BUF: a write() of at most this many cells is atomic
    DropCap    \* size of the scratch buffer ignored bytes are read into

ASSUME EventsAssumption ==
    /\ LenMod \in Nat \ {0}
    /\ PipeBuf \in Nat \ {0}
    /\ DropCap \in Nat \ {0}

(***************************************************************************)
(* Stages and failures                                                      *)
(***************************************************************************)
Stages == {"SETUP", "EXECUTION", "TEARDOWN"}
StageNumber == [SETUP |-> 0, EXECUTION |-> 1, TEARDOWN |-> 2, garbage |-> 3]
AnyStage == Stages \cup {"garbage"}

\* A ctest_failure_t, by who reported it; "garbage" is one put together from
\* bytes that are not the storage of any failure.
Failure == [by : {"none", "test", "signal", "runner", "garbage"},
            stage : AnyStage, size : Nat]

NoFailure == [by |-> "none", stage |-> "SETUP", size |-> 0]
GarbageFailure == [by |-> "garbage", stage |-> "garbage", size |-> 0]

(***************************************************************************)
(* Cells                                                                    *)
(***************************************************************************)
HeaderCell(type, length) ==
    [kind |-> "header", type |-> type, length |-> length]
StageCell(stage) == [kind |-> "stage", stage |-> stage]
BodyCell(failure, i) == [kind |-> "body", failure |-> failure, index |-> i]

EventTypes == {"STAGE_CHANGE", "FAILURE"}
Header == [type : EventTypes \cup {"unknown"}, length : 0 .. (LenMod - 1)]

Cell == [kind : {"header"}, type : EventTypes, length : Nat]
        \cup [kind : {"stage"}, stage : Stages]
        \cup [kind : {"body"}, failure : Failure, index : Nat]

(***************************************************************************)
(* Writer: an event is the sequence of its write() calls, each a sequence   *)
(* of cells.  The length of a failure is stored in a uint16_t.              *)
(***************************************************************************)
Body(failure) == [i \in 1 .. failure.size |-> BodyCell(failure, i)]

\* MUTANT of StageChangeEvent: an off-by-one in the stage sent.
LateStageEvent(stage) ==
    << <<HeaderCell("STAGE_CHANGE", 1)>>,
       <<StageCell(IF stage = "SETUP" THEN "EXECUTION" ELSE "TEARDOWN")>> >>
StageChangeEvent(stage) ==
    << <<HeaderCell("STAGE_CHANGE", 1)>>, <<StageCell(stage)>> >>

FailureEvent(failure) ==
    << <<HeaderCell("FAILURE", failure.size % LenMod)>>, Body(failure) >>

\* How many cells a write() of "cells" may transfer when "room" cells fit.
Transfers(cells, room) ==
    LET atomic == cells[1].kind # "body" \/ cells[1].failure.size <= PipeBuf
    IN  {n \in 1 .. Len(cells) : n <= room /\ (atomic => n = Len(cells))}

(***************************************************************************)
(* Reader                                                                   *)
(*                                                                          *)
(* buf     where the data goes: the header or the stage inside the reader,  *)
(*         an allocated failure, or nowhere ("null": the data is dropped)   *)
(* got     the cells of this message read so far; Len(got) is reader->ofs   *)
(* cap     capacity of buf                                                  *)
(* len     length of the message                                            *)
(* onDone  reader->on_done, bodyDone  reader->state.read_body.on_done       *)
(***************************************************************************)
Reader == [buf : {"header", "stage", "failure", "null"}, got : Seq(Cell),
           cap : Nat, len : Nat, onDone : {"header", "body", "next"},
           bodyDone : {"ignored", "stage", "failure"}]

Consumer == [stage : AnyStage, failure : Failure]

PrepNextMsg ==
    [buf |-> "header", got |-> <<>>, cap |-> 1, len |-> 1,
     onDone |-> "header", bodyDone |-> "ignored"]

\* The headers four bytes may be taken for.  The first four bytes of a stage
\* and of a failure are the stage, a small little-endian integer: a type
\* with length zero.
AsHeader(cell) ==
    LET stageAsHeader(stage) ==
            [type |-> CASE StageNumber[stage] = 0 -> "STAGE_CHANGE"
                        [] StageNumber[stage] = 1 -> "FAILURE"
                        [] OTHER -> "unknown",
             length |-> 0]
    IN  CASE cell.kind = "header" ->
               {[type |-> cell.type, length |-> cell.length]}
          [] cell.kind = "stage" -> {stageAsHeader(cell.stage)}
          [] cell.kind = "body" /\ cell.index = 1 ->
               {stageAsHeader(cell.failure.stage)}
          [] OTHER -> Header

AsStage(cell) == IF cell.kind = "stage" THEN cell.stage ELSE "garbage"

\* failure_storage_deserialize() never fails: whatever was read is delivered.
AsFailure(cells) ==
    IF cells # <<>> /\ cells[1].kind = "body"
                    /\ cells = Body(cells[1].failure)
    THEN cells[1].failure
    ELSE GarbageFailure

\* reader_on_msg_header_done__; "allocated" says whether malloc() succeeded.
HeaderDone(header, allocated) ==
    LET wantStage == header.type = "STAGE_CHANGE" /\ header.length >= 1
        isFailure == header.type = "FAILURE"
    IN  [buf |-> CASE wantStage -> "stage"
                   [] isFailure /\ allocated -> "failure"
                   [] OTHER -> "null",
         got |-> <<>>,
         cap |-> IF wantStage THEN 1 ELSE header.length,
         len |-> header.length,
         onDone |-> "body",
         bodyDone |-> CASE wantStage -> "stage"
                        [] isFailure -> "failure"
                        [] OTHER -> "ignored"]

\* reader_on_msg_body_done__: what follows a message longer than its buffer
\* is dropped.
BodyDone(r) ==
    IF r.cap < r.len
    THEN [r EXCEPT !.buf = "null", !.cap = r.len, !.onDone = "next"]
    ELSE PrepNextMsg

\* MUTANT of Deliver: the consumer starts over with each failure.
DeliverAfresh(r, consumer) ==
    CASE r.bodyDone = "stage" ->
           [consumer EXCEPT !.stage = AsStage(r.got[1])]
      [] r.bodyDone = "failure" ->
           [stage |-> "SETUP", failure |-> AsFailure(r.got)]
      [] OTHER -> consumer

\* What the consumer knows once the body of a message is complete: a newer
\* failure replaces an older one.
Deliver(r, consumer) ==
    CASE r.bodyDone = "stage" ->
           [consumer EXCEPT !.stage = AsStage(r.got[1])]
      [] r.bodyDone = "failure" ->
           [consumer EXCEPT !.failure = AsFailure(r.got)]
      [] OTHER -> consumer

\* The reader dereferences a NULL failure: its allocation failed, and all of
\* the message was dropped.
DeserializesNull(r) ==
    r.onDone = "body" /\ r.bodyDone = "failure" /\ r.buf = "null"

\* The ways (*reader->on_done)(reader) may leave reader and consumer.
Done(r, consumer, allocated) ==
    CASE r.onDone = "header" ->
           {[reader |-> HeaderDone(h, allocated), consumer |-> consumer] :
              h \in AsHeader(r.got[1])}
      [] r.onDone = "body" ->
           {[reader |-> BodyDone(r), consumer |-> Deliver(r, consumer)]}
      [] OTHER ->
           {[reader |-> PrepNextMsg, consumer |-> consumer]}

\* The address read() is given: NULL plus an offset is neither NULL nor valid.
BadAddress(r) == r.buf = "null" /\ r.got # <<>>

\* The number of cells read() is asked for.
Wanted(r) ==
    LET rest == r.cap - Len(r.got)
    IN  IF r.buf = "null" /\ rest > DropCap THEN DropCap ELSE rest

\* All of the header or body has been read.
MessageComplete(r) == Len(r.got) >= r.cap

\* exec_event_reader_destroy() frees the buffer when its address is both
\* below the reader and beyond it.
DestroyFrees(r, position) ==
    /\ r.buf # "null"
    /\ position = "below"
    /\ position = "beyond"
===============================================================================
