----------------------------- MODULE OutputReader -----------------------------
(***************************************************************************)
(* src/src/exec/output_reader.c with src/src/exec/output.c: what a test     *)
(* case prints is read from a pipe into a buffer that doubles when it is    *)
(* full, and at the end is cut to size and given a terminating NUL; and     *)
(* read_output__ of src/src/exec/direct_runner.c, which reads it from a     *)
(* file.  The cells that are printed are 1, 2, ... in this order.           *)
(***************************************************************************)
EXTENDS Heap, SequencesExt

CONSTANTS
    Initial,     \* capacity of the first buffer, 128
    DrainCap,    \* size of the buffer that takes what is dropped, 4096
    MaxOutput    \* bound: number of cells printed

ASSUME OutputAssumption == {Initial, DrainCap, MaxOutput} \subseteq Nat \ {0}

VARIABLES
    unread,      \* the cells printed and not yet read
    capacity,    \* room in the buffer; 0 for no buffer
    kept,        \* the cells in the buffer: reader->length is their number
    output,      \* how the buffer was left: none, intact or overrun
    starved      \* history: memory for the buffer was refused

outputVars == <<unread, capacity, kept, output, starved>>

OutputInit ==
    /\ unread = <<>> /\ capacity = 0 /\ kept = <<>>
    /\ output = "none"
    /\ starved = FALSE

Buffer == {<<"output">>}
NoCells == capacity = 0 \/ kept = <<>>

\* Creates or doubles the buffer.
\* MUTANT of Grown: a full buffer is not noticed.
GrownLate ==
    IF capacity = 0 THEN Initial
    ELSE IF Len(kept) > capacity THEN 2 * Len(kept) ELSE capacity
Grown ==
    IF capacity = 0 THEN Initial
    ELSE IF Len(kept) >= capacity THEN 2 * Len(kept) ELSE capacity

\* When the memory is refused, the buffer stays as it is.
Resize(to) ==
    \/ /\ capacity' = to
       /\ Acquire(Buffer)
       /\ UNCHANGED starved
    \/ /\ to # capacity
       /\ FaultOnly
       /\ starved' = TRUE
       /\ UNCHANGED capacity

\* op_on_data_available__: the read() takes what there is room for, or what
\* is available by then; without room, it is dropped.  At the end of the
\* file, where poll() reports that as data, it takes nothing.
OnDataAvailable ==
    /\ Resize(Grown)
    /\ LET full == Len(kept) >= capacity'
           room == IF full THEN DrainCap ELSE capacity' - Len(kept)
       IN  \E n \in 0 .. room :
               /\ n <= Len(unread) /\ (n = 0 => unread = <<>>)
               /\ unread' = SubSeq(unread, n + 1, Len(unread))
               /\ kept' = IF full THEN kept ELSE kept \o SubSeq(unread, 1, n)
    /\ UNCHANGED output

\* output_reader_build and output_reader_destroy: without a cell the buffer is
\* destroyed with the reader; otherwise it is the caller's, and the NUL goes
\* where the buffer ends unless it was resized.
\* MUTANT of CutTo: no room for the NUL.
CutToLength == Len(kept)
CutTo == Len(kept) + 1
Build ==
    /\ IF NoCells
       THEN /\ Release(heap \intersect Buffer, {})
            /\ capacity' = 0
            /\ UNCHANGED <<output, starved, faults>>
       ELSE /\ Resize(CutTo)
            /\ output' = IF capacity' > Len(kept) THEN "intact" ELSE "overrun"
    /\ UNCHANGED <<unread, kept>>

\* read_output__: a buffer for all of the file and a NUL, whatever its size;
\* when the read() fails it stays empty.
ReadOutput ==
    /\ \/ /\ Acquire(Buffer)
          /\ capacity' = Len(unread) + 1
          /\ kept' = unread
          /\ output' = "intact"
          /\ UNCHANGED starved
       \/ /\ Fault
          /\ starved' = TRUE
          /\ \/ /\ UNCHANGED <<heap, misused, capacity, kept, output>>
             \/ /\ heap' = heap \union Buffer
                /\ capacity' = Len(unread) + 1
                /\ output' = "intact"
                /\ UNCHANGED <<misused, kept>>
    /\ unread' = <<>>

===============================================================================
