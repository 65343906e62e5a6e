---------------------------- MODULE FailureStorage ----------------------------
(***************************************************************************)
(* src/src/exec/failure.c, location.c, stacktrace.c and serialization.h: a  *)
(* failure in one block of memory, with its description, its location and   *)
(* its stack trace behind it; made position-independent, copied and made    *)
(* usable at another address.                                               *)
(*                                                                          *)
(* A string is <<its text, its length>>, and <<>> for NULL; a location is   *)
(* <<filename, line>> or <<>>; a stack trace is <<frames>> or <<>>, a frame *)
(* <<filename, line>>.  Memory is a function from addresses to what starts  *)
(* there.  char has no alignment, so that nothing is padded for a string.   *)
(***************************************************************************)
EXTENDS Integers, Sequences, FiniteSetsExt

CONSTANT Word    \* size and alignment of a pointer, and of size_t

ASSUME StorageAssumption == Word \in Nat \ {0}

Null == 0

IsString(str) == str = <<>> \/ (str = <<str[1], str[2]>> /\ str[2] \in Nat)
IsPlace(place) == place = <<place[1], place[2]>> /\ IsString(place[1])
IsTrace(frames) ==
    /\ frames \in Seq({frames[n] : n \in DOMAIN frames})
    /\ \A n \in DOMAIN frames : IsPlace(frames[n])
IsFailure(f) ==
    /\ f = [stage |-> f.stage, description |-> f.description,
            location |-> f.location, stacktrace |-> f.stacktrace]
    /\ f.stage \in {"SETUP", "EXECUTION", "TEARDOWN"}
    /\ IsString(f.description)
    /\ f.location = <<>> \/ IsPlace(f.location)
    /\ f.stacktrace = <<>> \/ (/\ f.stacktrace = <<f.stacktrace[1]>>
                               /\ IsTrace(f.stacktrace[1]))

\* sizeof, of the structures with one, two, three and four words.
StacktraceSize == Word
LocationSize == 2 * Word
FrameSize == 3 * Word
FailureSize == 4 * Word

\* serialize_pad_size
\* MUTANT of Pad: rounds down.
PadDown(size, alignment) == (size \div alignment) * alignment
Pad(size, alignment) == ((size + alignment - 1) \div alignment) * alignment

\* strlen() and the NUL.
StringSize(str) == IF str = <<>> THEN 0 ELSE str[2] + 1

\* ofs, when the names of the first n files follow the array of frames.
Ofs(frames) ==
    LET ofs[n \in 0 .. Len(frames)] ==
            IF n = 0 THEN StacktraceSize + FrameSize * Len(frames)
            ELSE ofs[n - 1] + StringSize(frames[n][1])
    IN  ofs

location_storage_size(location) == LocationSize + StringSize(location[1])
stacktrace_storage_size(frames) == Ofs(frames)[Len(frames)]

\* Where the description and the location end, the stack trace not yet behind
\* them.
LocationEnd(f) ==
    LET size == FailureSize + StringSize(f.description)
    IN  IF f.location = <<>> THEN size
        ELSE Pad(size, Word) + location_storage_size(f.location)
failure_storage_size(f) ==
    IF f.stacktrace = <<>> THEN LocationEnd(f)
    ELSE Pad(LocationEnd(f), Word) + stacktrace_storage_size(f.stacktrace[1])

-------------------------------------------------------------------------------
(***************************************************************************)
(* Formatting: what is put where.                                           *)
(***************************************************************************)

\* A thing at an address, and one memory with another: what :> and @@ of TLC are,
\* which the provers do not know.
At(at, thing) == [a \in {at} |-> thing]
With(mem, more) ==
    [a \in DOMAIN mem \union DOMAIN more |->
        IF a \in DOMAIN mem THEN mem[a] ELSE more[a]]

StringAt(at, str) == IF str = <<>> THEN <<>> ELSE At(at, str)
PtrTo(at, part) == IF part = <<>> THEN Null ELSE at

location_storage_format(at, location) ==
    LET file == at + LocationSize
    IN  With(At(at, [filename |-> PtrTo(file, location[1]), line |-> location[2]]),
             StringAt(file, location[1]))

stacktrace_storage_format(at, frames) ==
    LET file(n) == at + Ofs(frames)[n - 1]
        named == {n \in DOMAIN frames : frames[n][1] # <<>>}
    IN  With(At(at, [n \in DOMAIN frames |->
                        [filename |-> PtrTo(file(n), frames[n][1]),
                         line |-> frames[n][2]]]),
             [a \in {file(n) : n \in named} |->
                 frames[CHOOSE n \in named : file(n) = a][1]])

failure_storage_format(buf, f) ==
    LET description == buf + FailureSize
        location == buf + Pad(FailureSize + StringSize(f.description), Word)
        stacktrace == buf + Pad(LocationEnd(f), Word)
        head == With(At(buf, [stage |-> f.stage,
                              description |-> PtrTo(description, f.description),
                              location |-> PtrTo(location, f.location),
                              stacktrace |-> PtrTo(stacktrace, f.stacktrace)]),
                     StringAt(description, f.description))
        located == IF f.location = <<>> THEN head
                   ELSE With(head, location_storage_format(location, f.location))
    IN  IF f.stacktrace = <<>> THEN located
        ELSE With(located, stacktrace_storage_format(stacktrace, f.stacktrace[1]))

-------------------------------------------------------------------------------
(***************************************************************************)
(* Relative pointers: the failure's to the block, those of a location or a  *)
(* stack trace to where that is.                                            *)
(***************************************************************************)

RelPtr(ptr, base) == IF ptr = Null THEN Null ELSE ptr - base
AbsPtr(ptr, base) == IF ptr = Null THEN Null ELSE base + ptr

location_storage_serialize(at, location) ==
    [location EXCEPT !.filename = RelPtr(@, at)]
location_storage_deserialize(at, location) ==
    [location EXCEPT !.filename = AbsPtr(@, at)]
stacktrace_storage_serialize(at, frames) ==
    [n \in DOMAIN frames |-> [frames[n] EXCEPT !.filename = RelPtr(@, at)]]
stacktrace_storage_deserialize(at, frames) ==
    [n \in DOMAIN frames |-> [frames[n] EXCEPT !.filename = AbsPtr(@, at)]]

\* The pointers of the failure itself.
RelPtrs(failure, buf) ==
    [stage |-> failure.stage, description |-> RelPtr(failure.description, buf),
     location |-> RelPtr(failure.location, buf),
     stacktrace |-> RelPtr(failure.stacktrace, buf)]
AbsPtrs(failure, buf) ==
    [stage |-> failure.stage, description |-> AbsPtr(failure.description, buf),
     location |-> AbsPtr(failure.location, buf),
     stacktrace |-> AbsPtr(failure.stacktrace, buf)]

\* MUTANT of failure_storage_serialize: pointers within the location and the
\* stack trace are left as they are.
SerializeTop(buf, mem) == [mem EXCEPT ![buf] = RelPtrs(@, buf)]
failure_storage_serialize(buf, mem) ==
    [at \in DOMAIN mem |->
        CASE at = buf -> RelPtrs(mem[at], buf)
          [] at = mem[buf].location -> location_storage_serialize(at, mem[at])
          [] at = mem[buf].stacktrace -> stacktrace_storage_serialize(at, mem[at])
          [] OTHER -> mem[at]]
failure_storage_deserialize(buf, mem) ==
    LET failure == AbsPtrs(mem[buf], buf)
    IN  [at \in DOMAIN mem |->
            CASE at = buf -> failure
              [] at = failure.location -> location_storage_deserialize(at, mem[at])
              [] at = failure.stacktrace ->
                     stacktrace_storage_deserialize(at, mem[at])
              [] OTHER -> mem[at]]

\* The block copied from one address to another.
Copied(mem, from, to) ==
    [at \in {a + to - from : a \in DOMAIN mem} |-> mem[at - to + from]]

-------------------------------------------------------------------------------
(***************************************************************************)
(* What a failure in memory is.                                             *)
(***************************************************************************)

\* Where what starts at an address ends.
EndOf(buf, mem, at) ==
    at + CASE at = buf -> FailureSize
           [] at = mem[buf].location -> LocationSize
           [] at = mem[buf].stacktrace ->
                  StacktraceSize + FrameSize * Len(mem[at])
           [] OTHER -> StringSize(mem[at])

\* What failure_storage_format returns.
FormatResult(buf, mem, len) ==
    LET end == Max({EndOf(buf, mem, at) : at \in DOMAIN mem})
    IN  IF end > buf + len THEN -1 ELSE end - buf

\* What a reader finds who follows the pointers.
Garbage == <<"garbage", 0>>
Deref(mem, ptr) ==
    CASE ptr = Null -> <<>>
      [] ptr \in DOMAIN mem -> mem[ptr]
      [] OTHER -> Garbage
Line(mem, at) == <<Deref(mem, at.filename), at.line>>
Read(buf, mem) ==
    LET failure == mem[buf]
    IN  [stage |-> failure.stage,
         description |-> Deref(mem, failure.description),
         location |-> IF failure.location = Null THEN <<>>
                      ELSE Line(mem, mem[failure.location]),
         stacktrace |-> IF failure.stacktrace = Null THEN <<>>
                        ELSE LET frames == mem[failure.stacktrace]
                             IN  <<[n \in DOMAIN frames |-> Line(mem, frames[n])]>>]
===============================================================================
