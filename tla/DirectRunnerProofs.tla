-------------------------- MODULE DirectRunnerProofs --------------------------
(***************************************************************************)
(* Proofs about DirectRunner, for any number of test cases, of cells they   *)
(* print and of signals they catch, and any calls that fail.                *)
(***************************************************************************)
EXTENDS DirectRunner, SequenceTheorems, TLAPS

(***************************************************************************)
(* The inductive invariant, by where the control is                         *)
(***************************************************************************)

\* Before the test case, while it runs and until its end is dealt with, and
\* after it.  A signal caught when sigrestore__() failed leads from "complete"
\* back into the middle.
Before == {"init", "open", "opentemp", "start"}
Within == {"capture", "execute", "signalled", "sigrestore", "restore"}
After == {"complete", "cleanup", "returned"}

\* How many descriptors are left to close, by where the control is.
LadderInv ==
    /\ pc \in {"init", "returned"} => ladder = 0
    /\ pc = "open" => ladder <= 3
    /\ pc = "opentemp" => ladder = 4
    /\ pc \in {"start", "complete"} \cup Within => ladder = 5

\* Whatever is open above 2 is somebody else's, or is in a variable that the
\* labels still close.  This needs no assumption on descriptors 0 to 2.
OwnedInv ==
    /\ \A fd \in 3 .. MaxFd :
         \/ table[fd] = Outside(fd)
         \/ Outside(fd) = "none" /\ \E n \in 1 .. ladder : loc[n] = fd
    /\ \A n \in 1 .. ladder :
         loc[n] \in Fds /\ (loc[n] > 2 => Outside(loc[n]) = "none")

\* As long as every dup2() that restores a descriptor has succeeded, descriptors
\* 0 to 2 are never handed out, and what was saved of them is there.
SavedInv ==
    "dup2" \notin failed =>
        /\ \A n \in 1 .. ladder : loc[n] > 2
        /\ pc \notin {"cleanup", "returned", "undefined"} =>
             \A n \in 1 .. 3 : n <= ladder => table[loc[n]] = Outside(n - 1)
        /\ pc \in Before \cup After => \A fd \in 0 .. 2 : table[fd] = Outside(fd)

\* The temporary file is never opened as descriptor 0.
TempInv ==
    /\ pc \in {"open", "opentemp", "start"} /\ ladder > 0 => table[0] # "none"
    /\ pc = "start" => loc[5] # 0 /\ table[loc[5]] = "temp"

CapturedInv ==
    /\ failed \subseteq Faults
    /\ captured => \/ "sigrestore" \in failed
                   \/ pc \in {"execute", "signalled", "sigrestore", "stuck", "dead"}

\* What the test case has printed so far.
Mine == [i \in 1 .. printed |-> <<runs, i>>]

\* Cells of the caller of the runner.
Foreign(s) == \A i \in DOMAIN s : s[i] = <<0, 0>>

\* What was printed is in the file or still buffered and will get there, or
\* descriptor 1 was not redirected and it is lost ...
Collecting ==
    \/ table[1] = "temp" /\ temp \o stdio = Mine
    \/ table[1] = "none" /\ temp = <<>> /\ "dup2" \in Faults
\* ... until all of it or nothing is in the file.
Collected ==
    stdio = <<>> /\ (temp = Mine \/ (temp = <<>> /\ "dup2" \in Faults))

StreamsInv ==
    /\ Foreign(console)
    /\ pc \in Before \cup {"cleanup", "returned"} =>
         Foreign(stdio) /\ ("dup2" \in failed => stdio = <<>>)
    /\ pc \in Before => temp = <<>> /\ printed = 0
    /\ pc \in {"capture", "execute"} => Collecting
    /\ pc \in Within => Collecting \/ Collected
    /\ pc = "complete" => Collected
    /\ completed = 0 => output = <<>>
    /\ completed = 1 => pc \in {"cleanup", "returned", "undefined"}
    /\ completed = 1 =>
         output = Mine \/ (output = <<>> /\ Faults \intersect {"dup2", "output"} # {})

\* What result and return value say once the test case has ended.
Verdict ==
    /\ result # Null
    /\ result.type = "PASS" => rc = 0
    /\ rc = 0 => ending = "PASS"
    /\ signals > 0 => result = SignalFailure
    /\ signals = 0 =>
         /\ result.type = ending
         /\ result.failure = IF ending = "PASS" THEN "none" ELSE "test"

VerdictInv ==
    /\ pc \in Before \cup {"capture", "execute"} =>
         result \in {Empty, Null} /\ rc = 1 /\ signals = 0 /\ ending = "none"
    /\ pc = "signalled" => signals > 0 /\ (rc = 0 => ending = "PASS")
    /\ pc \in {"sigrestore", "restore", "complete"} \/ completed = 1 => Verdict

FdInv == LadderInv /\ OwnedInv /\ SavedInv /\ TempInv

IInv == TypeOK /\ FdInv /\ CapturedInv /\ StreamsInv /\ VerdictInv

(***************************************************************************)
(* Lemmas                                                                   *)
(***************************************************************************)

\* Who has a descriptor, by its number.
LEMMA Numbers ==
    /\ Outside(0) = "stdin" /\ Outside(1) = "stdout" /\ Outside(2) = "stderr"
    /\ {0, 1, 2} \subseteq Fds /\ 3 .. MaxFd \subseteq Fds
    /\ \A fd \in Fds : fd \in 0 .. 2 \/ fd \in 3 .. MaxFd
    /\ \A fd \in Fds : fd > 2 => Outside(fd) \in {"none", "other"}
  BY DirectAssumption DEF Outside, Fds

Files == {"none", "stdin", "stdout", "stderr", "null", "temp", "other"}

\* What dup2() does to a table.
LEMMA Duplicates ==
    ASSUME NEW t \in [Fds -> Files], NEW from \in Int, NEW to \in 0 .. 2,
           NEW succeeds
    PROVE  /\ Dup2(t, from, to, succeeds) \in [Fds -> Files]
           /\ \A fd \in Fds : fd # to => Dup2(t, from, to, succeeds)[fd] = t[fd]
           /\ Dup2(t, from, to, succeeds)[to] \in {t[to], t[from]}
           /\ succeeds /\ from \in Fds /\ t[from] # "none" =>
                Dup2(t, from, to, succeeds)[to] = t[from]
  BY DirectAssumption DEF Dup2, Fds

\* What replacing descriptors 0 to 2 does to the others, and to them.
LEMMA Replaces ==
    ASSUME table \in [Fds -> Files], NEW in \in Int, NEW out \in Int, NEW err \in Int,
           NEW succeeds
    PROVE  LET t == Replaced(in, out, err, succeeds) IN
           /\ t \in [Fds -> Files]
           /\ \A fd \in Fds : fd > 2 => t[fd] = table[fd]
           /\ succeeds[1] /\ in \in Fds /\ in > 2 /\ table[in] # "none" =>
                t[0] = table[in]
           /\ succeeds[2] /\ out \in Fds /\ out > 2 /\ table[out] # "none" =>
                t[1] = table[out]
           /\ succeeds[3] /\ err \in Fds /\ err > 2 /\ table[err] # "none" =>
                t[2] = table[err]
           /\ out \in Fds /\ out # 0 => t[1] \in {"none", table[out]}
  <1> DEFINE closed == [fd \in Fds |-> IF fd < 3 THEN "none" ELSE table[fd]]
             first == Dup2(closed, in, 0, succeeds[1])
             second == Dup2(first, out, 1, succeeds[2])
             third == Dup2(second, err, 2, succeeds[3])
  <1>1. /\ closed \in [Fds -> Files]
        /\ \A fd \in Fds : fd > 2 => closed[fd] = table[fd]
        /\ \A fd \in Fds : fd < 3 => closed[fd] = "none"
    BY DEF Files, Fds
  <1>2. Replaced(in, out, err, succeeds) = third
    BY DEF Replaced
  <1>3. 0 \in Fds /\ 1 \in Fds /\ 2 \in Fds /\ \A fd \in Fds : fd \in Nat
    BY Numbers DEF Fds
  <1> HIDE DEF closed
  <1>4. /\ first \in [Fds -> Files]
        /\ \A fd \in Fds : fd # 0 => first[fd] = closed[fd]
        /\ succeeds[1] /\ in \in Fds /\ closed[in] # "none" => first[0] = closed[in]
    BY <1>1, Duplicates
  <1> HIDE DEF first
  <1>5. /\ second \in [Fds -> Files]
        /\ \A fd \in Fds : fd # 1 => second[fd] = first[fd]
        /\ second[1] \in {first[1], first[out]}
        /\ succeeds[2] /\ out \in Fds /\ first[out] # "none" => second[1] = first[out]
    BY <1>4, Duplicates
  <1> HIDE DEF second
  <1>6. /\ third \in [Fds -> Files]
        /\ \A fd \in Fds : fd # 2 => third[fd] = second[fd]
        /\ succeeds[3] /\ err \in Fds /\ second[err] # "none" => third[2] = second[err]
    BY <1>5, Duplicates
  <1> HIDE DEF third
  <1> QED
    BY <1>1, <1>2, <1>3, <1>4, <1>5, <1>6

\* What flushing the buffer leads to.
LEMMA Flushed ==
    ASSUME Flush
    PROVE  /\ stdio' = <<>>
           /\ table[1] = "stdout" => UNCHANGED temp /\ console' = console \o stdio
           /\ table[1] = "temp" => UNCHANGED console /\ temp' = temp \o stdio
           /\ table[1] \notin {"stdout", "temp"} => UNCHANGED <<console, temp>>
           /\ temp' \in {temp, temp \o stdio}
           /\ console' \in {console, console \o stdio}
  BY DEF Flush

\* Cells behind cells.
LEMMA Joined ==
    ASSUME NEW s \in Seq(Cells), NEW t \in Seq(Cells)
    PROVE  s \o t \in Seq(Cells) /\ <<>> \in Seq(Cells)
  BY ConcatProperties, EmptySeq

\* Nothing of a test case ever joins what its caller had printed.
LEMMA ForeignJoined ==
    ASSUME NEW S, NEW s \in Seq(S), NEW t \in Seq(S), Foreign(s), Foreign(t)
    PROVE  Foreign(s \o t)
  <1>1. /\ Len(s) \in Nat /\ Len(t) \in Nat
        /\ DOMAIN s = 1 .. Len(s) /\ DOMAIN t = 1 .. Len(t)
        /\ DOMAIN (s \o t) = 1 .. (Len(s) + Len(t))
    BY ConcatProperties, LenProperties
  <1> QED
    BY <1>1, ConcatProperties DEF Foreign

\* What test case "run" has printed when it has printed n cells.
CellsOf(run, n) == [i \in 1 .. n |-> <<run, i>>]

\* A cell printed comes behind what was printed before.
LEMMA Printed ==
    ASSUME NEW s \in Seq(Cells), NEW t \in Seq(Cells), NEW n \in Nat, NEW run,
           s \o t = CellsOf(run, n), <<run, n + 1>> \in Cells
    PROVE  s \o Append(t, <<run, n + 1>>) = CellsOf(run, n + 1)
  <1> USE DEF CellsOf
  <1>1. PICK c \in Cells : c = <<run, n + 1>>
    OBVIOUS
  <1>2. Len(s \o t) = n
    <2>1. s \o t \in Seq(Cells)
      BY ConcatProperties
    <2>2. DOMAIN (s \o t) = 1 .. n
      OBVIOUS
    <2> QED
      BY <2>1, <2>2, LenProperties
  <1>3. /\ Append(t, c) \in Seq(Cells) /\ Len(Append(t, c)) = Len(t) + 1
        /\ \A i \in 1 .. Len(t) : Append(t, c)[i] = t[i]
        /\ Append(t, c)[Len(t) + 1] = c
    BY AppendProperties
  <1>4. /\ Len(s) \in Nat /\ Len(t) \in Nat /\ Len(s) + Len(t) = n
        /\ \A i \in 1 .. n : <<run, i>> =
               IF i <= Len(s) THEN s[i] ELSE t[i - Len(s)]
    <2>1. Len(s) \in Nat /\ Len(t) \in Nat /\ Len(s) + Len(t) = n
      BY <1>2, ConcatProperties, LenProperties
    <2>2. \A i \in 1 .. (Len(s) + Len(t)) : (s \o t)[i] =
               IF i <= Len(s) THEN s[i] ELSE t[i - Len(s)]
      BY ConcatProperties
    <2>3. \A i \in 1 .. n : (s \o t)[i] = <<run, i>>
      OBVIOUS
    <2> QED
      BY <2>1, <2>2, <2>3
  <1>5. /\ s \o Append(t, c) \in Seq(Cells) /\ Len(s \o Append(t, c)) = n + 1
        /\ \A i \in 1 .. (n + 1) : (s \o Append(t, c))[i] =
               IF i <= Len(s) THEN s[i] ELSE Append(t, c)[i - Len(s)]
    <2>1. PICK u \in Seq(Cells) : u = Append(t, c)
      BY <1>3
    <2>2. /\ s \o u \in Seq(Cells) /\ Len(s \o u) = Len(s) + Len(u)
          /\ \A i \in 1 .. (Len(s) + Len(u)) : (s \o u)[i] =
                 IF i <= Len(s) THEN s[i] ELSE u[i - Len(s)]
      BY ConcatProperties
    <2>3. Len(s) + Len(u) = n + 1
      BY <1>3, <1>4, <2>1
    <2> QED
      BY <2>1, <2>2, <2>3
  <1>6. DOMAIN (s \o Append(t, c)) = 1 .. (n + 1)
    BY <1>5, LenProperties
  <1>7. ASSUME NEW i \in 1 .. (n + 1)
        PROVE  (s \o Append(t, c))[i] = <<run, i>>
    <2>1. CASE i <= Len(s)
      BY <1>4, <1>5, <2>1
    <2>2. CASE i > Len(s) /\ i <= n
      <3>1. i \in 1 .. n /\ i - Len(s) \in 1 .. Len(t) /\ ~(i <= Len(s))
        BY <1>4, <2>2
      <3> QED
        BY <1>3, <1>4, <1>5, <3>1
    <2>3. CASE i = n + 1
      BY <1>1, <1>3, <1>4, <1>5, <2>3
    <2> QED
      BY <2>1, <2>2, <2>3, <1>4
  <1>8. s \o Append(t, c) = [i \in 1 .. (n + 1) |-> (s \o Append(t, c))[i]]
    BY <1>5, <1>6, LenProperties
  <1> QED
    BY <1>1, <1>7, <1>8

\* The flags are flags.
LEMMA FlagsStep == FlagsTypeOK /\ [Next]_directVars => FlagsTypeOK'
  BY Zenon DEF FlagsTypeOK, Next, Step, directVars, reportVars, Create, Open, OpenTemp,
     Redirect, Capture, StageChange, PrintOutput, BufferFull, ShortCircuit,
     Passes, CatchSignal, StraySignal, HandleSignal, SigRestore, RestoreFds, Complete,
     Cleanup, NextTestcase, Over

\* The actions that leave the descriptors alone.
LEMMA FdsKept ==
    ASSUME \/ Create \/ Capture \/ StageChange \/ PrintOutput \/ BufferFull
           \/ ShortCircuit \/ Passes \/ CatchSignal \/ StraySignal \/ HandleSignal
           \/ SigRestore \/ Complete \/ Over
    PROVE  UNCHANGED fdVars
  BY DEF Create, Capture, StageChange, PrintOutput, BufferFull, ShortCircuit, Passes,
     CatchSignal, StraySignal, HandleSignal, SigRestore, Complete, Over, directVars

\* The descriptor that is handed out, and what else a call that opens one does.
LEMMA Allocated ==
    ASSUME IInv, ladder < 5, NEW file \in Files \ {"none"}, Allocate(file)
    PROVE  \E fd \in Fds :
             /\ table[fd] = "none"
             /\ table' = [table EXCEPT ![fd] = file]
             /\ loc' = [loc EXCEPT ![ladder + 1] = fd]
             /\ ladder' = ladder + 1
  BY DEF Allocate, Free, IInv

\* What the descriptors are after opening one more, or none.
Opening(file) ==
    \/ /\ ladder < 5
       /\ file \in Files \ {"none"}
       /\ \E fd \in Fds :
             /\ table[fd] = "none"
             /\ table' = [table EXCEPT ![fd] = file]
             /\ loc' = [loc EXCEPT ![ladder + 1] = fd]
             /\ ladder' = ladder + 1
       /\ pc' = CASE ladder = 3 -> "opentemp" [] ladder = 4 -> "start" [] OTHER -> "open"
    \/ pc' = "cleanup" /\ UNCHANGED fdVars

\* The calls of dup(), open() and opentemp().
LEMMA Opened ==
    ASSUME IInv, Open \/ OpenTemp
    PROVE  LET file == IF pc = "open" THEN Opens ELSE "temp" IN
           /\ pc \in {"open", "opentemp"}
           /\ pc = "open" => ladder <= 3
           /\ pc = "opentemp" => ladder = 4
           /\ Opening(file)
           /\ UNCHANGED <<result, rc, captured, streamVars, reportVars, historyVars,
                          hooksVars>>
  <1> USE DEF IInv, TypeOK, StateTypeOK, FdInv, LadderInv
  <1>1. ladder \in 0 .. 5 /\ (ladder < 3 => ladder \in Fds)
    BY Numbers
  <1>2. CASE Open
    <2>1. pc = "open" /\ ladder <= 3
      BY <1>2 DEF Open
    <2>2. Opens # "none" => Opens \in Files \ {"none"}
      BY <1>1 DEF Opens, Files
    <2>3. CASE Fail
      BY <1>1, <1>2, <2>1, <2>3 DEF Fail, Behind, Opening, fdVars, Open
    <2>4. CASE /\ Opens # "none"
               /\ Allocate(Opens)
               /\ pc' = IF ladder = 3 THEN "opentemp" ELSE "open"
      <3>1. ladder < 5 /\ pc' = CASE ladder = 3 -> "opentemp" [] ladder = 4 -> "start"
                                  [] OTHER -> "open"
        BY <1>1, <2>1, <2>4
      <3> QED
        BY <1>2, <2>1, <2>2, <2>4, <3>1, Allocated DEF Opening, Open
    <2> QED
      BY <1>2, <2>3, <2>4 DEF Open
  <1>3. CASE OpenTemp
    <2>1. pc = "opentemp" /\ ladder = 4
      BY <1>3 DEF OpenTemp
    <2>2. CASE Fail
      BY <1>1, <1>3, <2>1, <2>2 DEF Fail, Behind, Opening, fdVars, OpenTemp
    <2>3. CASE Allocate("temp") /\ pc' = "start"
      <3>1. ladder < 5 /\ "temp" \in Files \ {"none"}
        BY <2>1 DEF Files
      <3>2. pc' = CASE ladder = 3 -> "opentemp" [] ladder = 4 -> "start"
                    [] OTHER -> "open"
        BY <2>1, <2>3
      <3> QED
        BY <1>3, <2>1, <2>3, <3>1, <3>2, Allocated DEF Opening, OpenTemp
    <2> QED
      BY <1>3, <2>2, <2>3 DEF OpenTemp
  <1> QED
    BY <1>2, <1>3

\* What replaces descriptors 0 to 2.
LEMMA RedirectReplaces ==
    ASSUME IInv, Redirect
    PROVE  /\ table' \in [Fds -> Files]
           /\ \A fd \in Fds : fd > 2 => table'[fd] = table[fd]
           /\ table'[1] \in {"none", "temp"}
           /\ "dup2" \notin Faults => table'[1] = "temp"
  <1> USE DEF IInv, TypeOK, StateTypeOK, FdInv
  <1>1. PICK succeeds \in Successes : table' = Replaced(loc[4], loc[5], loc[5], succeeds)
    BY DEF Redirect
  <1>2. /\ loc[4] \in Int /\ loc[5] \in Fds /\ loc[5] \in Int
        /\ loc[5] # 0 /\ table[loc[5]] = "temp"
    BY DEF Redirect, LadderInv, OwnedInv, TempInv, Fds, Unassigned
  <1>3. table \in [Fds -> Files]
    BY DEF Files
  <1>4. "dup2" \notin Faults => loc[5] > 2 /\ succeeds[2]
    BY DEF Redirect, LadderInv, SavedInv, CapturedInv, Successes
  <1> QED
    BY <1>1, <1>2, <1>3, <1>4, Replaces

LEMMA RestoreReplaces ==
    ASSUME IInv, RestoreFds
    PROVE  /\ table' \in [Fds -> Files]
           /\ \A fd \in Fds : fd > 2 => table'[fd] = table[fd]
           /\ "dup2" \notin failed' => \A fd \in 0 .. 2 : table'[fd] = Outside(fd)
           /\ failed' \in {failed, failed \cup {"dup2"}} /\ failed' \subseteq Faults
  <1> USE DEF IInv, TypeOK, StateTypeOK, FdInv
  <1>1. PICK succeeds \in Successes :
          /\ table' = Replaced(loc[1], loc[2], loc[3], succeeds)
          /\ failed' = IF \A n \in 1 .. 3 : succeeds[n] THEN failed
                       ELSE failed \cup {"dup2"}
    BY DEF RestoreFds, Undo
  <1>2. pc = "restore" /\ ladder = 5
    BY DEF RestoreFds, LadderInv, Within
  <1>3. \A n \in 1 .. 3 : loc[n] \in Fds /\ loc[n] \in Int
    BY <1>2 DEF OwnedInv, Fds
  <1>4. table \in [Fds -> Files]
    BY DEF Files
  <1>5. /\ failed' \in {failed, failed \cup {"dup2"}}
        /\ "dup2" \notin failed' => "dup2" \notin failed /\ \A n \in 1 .. 3 : succeeds[n]
        /\ "dup2" \notin Faults => \A n \in 1 .. 3 : succeeds[n]
    BY <1>1 DEF Successes
  <1>6. "dup2" \notin failed =>
          /\ loc[1] > 2 /\ table[loc[1]] = "stdin"
          /\ loc[2] > 2 /\ table[loc[2]] = "stdout"
          /\ loc[3] > 2 /\ table[loc[3]] = "stderr"
    BY <1>2, Numbers DEF SavedInv
  <1>7. "dup2" \notin failed' =>
          table'[0] = "stdin" /\ table'[1] = "stdout" /\ table'[2] = "stderr"
    BY <1>1, <1>3, <1>4, <1>5, <1>6, Replaces
  <1>8. "dup2" \notin failed' => \A fd \in 0 .. 2 : table'[fd] = Outside(fd)
    BY <1>7, Numbers
  <1>9. table' \in [Fds -> Files] /\ \A fd \in Fds : fd > 2 => table'[fd] = table[fd]
    BY <1>1, <1>3, <1>4, Replaces
  <1> QED
    BY <1>1, <1>5, <1>8, <1>9 DEF CapturedInv

\* The descriptors and the variables that hold them keep their types.
LEMMA FdTypeStep ==
    ASSUME IInv, Next
    PROVE  /\ table' \in [Fds -> Files]
           /\ loc' \in [1 .. 5 -> Fds \cup {Unassigned}]
           /\ ladder' \in 0 .. 5
  <1>1. /\ table \in [Fds -> Files]
        /\ loc \in [1 .. 5 -> Fds \cup {Unassigned}]
        /\ ladder \in 0 .. 5
    BY DEF IInv, TypeOK, StateTypeOK, Files
  <1>2. CASE UNCHANGED fdVars
    BY <1>1, <1>2 DEF fdVars
  <1>3. CASE Open \/ OpenTemp
    <2>1. PICK file \in {IF pc = "open" THEN Opens ELSE "temp"} : TRUE
      OBVIOUS
    <2>2. Opening(file)
      BY <1>3, <2>1, Opened
    <2> QED
      BY <1>1, <2>2 DEF Opening, fdVars
  <1>4. CASE Redirect
    BY <1>1, <1>4, RedirectReplaces DEF Redirect
  <1>5. CASE RestoreFds
    BY <1>1, <1>5, RestoreReplaces DEF RestoreFds
  <1>6. CASE Cleanup
    <2>1. \A fd \in Fds : [table EXCEPT ![fd] = "none"] \in [Fds -> Files]
      BY <1>1 DEF Files
    <2>2. table' \in [Fds -> Files]
      BY <1>1, <1>6, <2>1 DEF Cleanup
    <2> QED
      BY <1>1, <1>6, <2>2 DEF Cleanup
  <1>7. CASE NextTestcase
    BY <1>1, <1>7 DEF NextTestcase
  <1> QED
    BY <1>2, <1>3, <1>4, <1>5, <1>6, <1>7, FdsKept DEF Next, Step

\* The state of the runner keeps its type.
LEMMA StateStep ==
    ASSUME IInv, Next
    PROVE  StateTypeOK'
  <1> DEFINE Rest ==
        /\ pc \in {"init", "open", "opentemp", "start", "capture", "execute",
                   "signalled", "sigrestore", "restore", "complete", "cleanup",
                   "returned", "stuck", "dead", "undefined"}
        /\ result \in [type : {"PASS", "FAIL", "SKIPPED", "NULL"},
                       failure : {"none", "test", "signal"}, stage : 0 .. 3]
        /\ rc \in {0, 1}
        /\ failed \subseteq {"dup2", "sigrestore"}
        /\ completed \in {0, 1}
        /\ runs \in 1 .. MaxRuns /\ printed \in 0 .. MaxOutput
        /\ signals \in 0 .. MaxSignals
        /\ reached \in 0 .. 3
        /\ ending \in {"none", "PASS", "FAIL", "SKIPPED", "signal"}
  <1>0. Rest /\ (pc = "complete" => completed = 0)
    BY DEF IInv, TypeOK, StateTypeOK, StreamsInv
  <1> USE DirectAssumption DEF Null, Empty, hooksVars, reportVars, historyVars
  <1>1. Rest'
    <2>1. CASE Create
      BY <1>0, <2>1 DEF Create
    <2>2. CASE Open \/ OpenTemp
      <3>1. /\ pc' \in {"open", "opentemp", "start", "cleanup"}
            /\ UNCHANGED <<result, rc, reportVars, historyVars, hooksVars>>
        <4>1. CASE Open
          BY <4>1 DEF Open, Fail
        <4>2. CASE OpenTemp
          BY <4>2 DEF OpenTemp, Fail
        <4> QED
          BY <2>2, <4>1, <4>2
      <3> QED
        BY <1>0, <3>1
    <2>3. CASE Redirect \/ Capture \/ BufferFull \/ StraySignal
      <3>1. /\ pc' \in {"capture", "execute", "undefined"}
            /\ UNCHANGED <<result, rc, completed, historyVars, hooksVars>>
        BY <2>3 DEF Redirect, Capture, BufferFull, StraySignal
      <3> QED
        BY <1>0, <3>1
    <2>4. CASE StageChange \/ PrintOutput
      <3>1. CASE StageChange
        BY <1>0, <3>1 DEF StageChange, Advance
      <3>2. CASE PrintOutput
        <4>1. printed' \in 0 .. MaxOutput
          BY <1>0, <3>2 DEF PrintOutput
        <4> QED
          BY <1>0, <3>2, <4>1 DEF PrintOutput
      <3> QED
        BY <2>4, <3>1, <3>2
    <2>5. CASE ShortCircuit
      BY <1>0, <2>5 DEF ShortCircuit, ShortCircuits, Accessed
    <2>6. CASE Passes
      BY <1>0, <2>6 DEF Passes, Returns, Accessed
    <2>7. CASE CatchSignal \/ HandleSignal
      BY <1>0, <2>7 DEF CatchSignal, HandleSignal, SignalFailure, Accessed
    <2>8. CASE SigRestore
      <3>1. /\ pc' = "restore" /\ failed' \in {failed, failed \cup {"sigrestore"}}
            /\ UNCHANGED <<result, rc, completed, runs, printed, signals, hooksVars>>
        BY <2>8 DEF SigRestore
      <3> QED
        BY <1>0, <3>1
    <2>9. CASE RestoreFds
      <3>1. /\ pc' = "complete" /\ failed' \in {failed, failed \cup {"dup2"}}
            /\ UNCHANGED <<result, rc, completed, runs, printed, signals, hooksVars>>
        BY <2>9, RestoreReplaces DEF RestoreFds
      <3> QED
        BY <1>0, <3>1
    <2>10. CASE Complete \/ NextTestcase
      <3>1. CASE Complete
        <4>1. completed' = 1
          BY <1>0, <3>1 DEF Complete
        <4> QED
          BY <1>0, <3>1, <4>1 DEF Complete
      <3>2. CASE NextTestcase
        <4>1. runs' \in 1 .. MaxRuns
          BY <1>0, <3>2 DEF NextTestcase
        <4> QED
          BY <1>0, <3>2, <4>1 DEF NextTestcase
      <3> QED
        BY <2>10, <3>1, <3>2
    <2>11. CASE Cleanup \/ Over
      <3>1. /\ pc' \in {pc, "returned"}
            /\ UNCHANGED <<result, rc, completed, runs, printed, signals, failed, hooksVars>>
        BY <2>11 DEF Cleanup, Over, directVars
      <3> QED
        BY <1>0, <3>1
    <2> QED
      BY <2>1, <2>2, <2>3, <2>4, <2>5, <2>6, <2>7, <2>8, <2>9, <2>10, <2>11 DEF Next, Step
  <1> HIDE DEF Rest
  <1>2. Rest' /\ table' \in [Fds -> Files] /\ loc' \in [1 .. 5 -> Fds \cup {Unassigned}]
         /\ ladder' \in 0 .. 5
    BY <1>1, FdTypeStep
  <1> QED
    BY <1>2 DEF Rest, StateTypeOK, Files

(***************************************************************************)
(* Descriptors are kept, and only their own are closed                      *)
(***************************************************************************)

\* The places where the descriptors stay as they are.
LEMMA KeptStep ==
    ASSUME IInv, Next, UNCHANGED fdVars, ~Open, ~OpenTemp, ~RestoreFds, ~Redirect,
           ~Cleanup, ~NextTestcase
    PROVE  FdInv'
  <1> USE DEF IInv, FdInv
  <1>1. UNCHANGED <<table, loc, ladder>>
    BY DEF fdVars
  <1>2. \/ pc' = pc
        \/ pc = "init" /\ pc' = "open"
        \/ pc = "capture" /\ pc' = "execute"
        \/ pc \in {"execute", "signalled"} /\ pc' \in {"sigrestore", "stuck", "dead"}
        \/ pc \in Within \cup {"complete"} /\ pc' = "signalled"
        \/ pc' = "undefined"
        \/ pc = "sigrestore" /\ pc' = "restore"
        \/ pc = "complete" /\ pc' = "cleanup"
    <2>1. CASE Create \/ Capture \/ StageChange \/ PrintOutput \/ BufferFull
      BY <2>1 DEF Create, Capture, StageChange, PrintOutput, BufferFull
    <2>2. CASE ShortCircuit \/ Passes \/ HandleSignal
      BY <2>2 DEF ShortCircuit, Passes, HandleSignal, Accessed
    <2>3. CASE CatchSignal \/ StraySignal
      BY <2>3 DEF CatchSignal, StraySignal, Within
    <2>4. CASE SigRestore \/ Complete \/ Over
      BY <2>4 DEF SigRestore, Complete, Over, directVars
    <2> QED
      BY <2>1, <2>2, <2>3, <2>4 DEF Next, Step
  <1>3. "dup2" \in failed => "dup2" \in failed'
    <2>1. CASE SigRestore
      BY <2>1 DEF SigRestore
    <2>2. CASE ~SigRestore
      BY <2>2 DEF Next, Step, Create, Capture, StageChange, PrintOutput, BufferFull,
         ShortCircuit, Passes, CatchSignal, StraySignal, HandleSignal, Complete, Over,
         directVars, historyVars
    <2> QED
      BY <2>1, <2>2
  <1>4. LadderInv'
    BY <1>1, <1>2 DEF LadderInv, Within
  <1>5. OwnedInv'
    BY <1>1 DEF OwnedInv
  <1>6. SavedInv'
    <2> SUFFICES ASSUME "dup2" \notin failed'
                 PROVE  SavedInv'
      BY DEF SavedInv
    <2>1. "dup2" \notin failed
      BY <1>3
    <2>2. \A n \in 1 .. ladder' : loc'[n] > 2
      BY <1>1, <2>1 DEF SavedInv
    <2>3. pc' \notin {"cleanup", "returned", "undefined"} =>
             pc \notin {"cleanup", "returned", "undefined"}
      BY <1>2, <1>4 DEF Within
    <2>4. pc' \in Before \cup After => pc \in Before \cup After
      BY <1>2 DEF Within, Before, After
    <2> QED
      BY <1>1, <2>1, <2>2, <2>3, <2>4 DEF SavedInv
  <1>7. TempInv'
    <2>1. /\ pc' \in {"open", "opentemp", "start"} /\ ladder' > 0 =>
               pc \in {"open", "opentemp", "start"} /\ ladder > 0
          /\ pc' = "start" => pc = "start"
      BY <1>1, <1>2 DEF LadderInv
    <2> QED
      BY <1>1, <2>1 DEF TempInv
  <1> QED
    BY <1>4, <1>5, <1>6, <1>7

\* One more descriptor is opened, or none.
LEMMA OpenedStep ==
    ASSUME IInv, Open \/ OpenTemp
    PROVE  FdInv'
  <1> USE DEF IInv, FdInv
  <1> DEFINE opens == IF pc = "open" THEN Opens ELSE "temp"
  <1>1. /\ pc \in {"open", "opentemp"} /\ (pc = "open" => ladder <= 3)
        /\ pc = "opentemp" => ladder = 4
        /\ Opening(opens) /\ UNCHANGED failed
    BY Opened DEF historyVars
  <1>2. /\ table \in [Fds -> Files] /\ ladder \in 0 .. 5
        /\ loc \in [1 .. 5 -> Fds \cup {Unassigned}]
    BY DEF TypeOK, StateTypeOK, Files
  <1>3. CASE pc' = "cleanup" /\ UNCHANGED fdVars
    <2>1. UNCHANGED <<table, loc, ladder>>
      BY <1>3 DEF fdVars
    <2>2. LadderInv' /\ OwnedInv' /\ TempInv'
      BY <1>3, <2>1 DEF LadderInv, OwnedInv, TempInv, Within
    <2>3. SavedInv'
      BY <1>1, <1>3, <2>1 DEF SavedInv, Before, After
    <2> QED
      BY <2>2, <2>3
  <1>4. CASE ~(pc' = "cleanup" /\ UNCHANGED fdVars)
    <2>1. PICK file \in Files \ {"none"}, fd \in Fds :
            /\ file = opens
            /\ table[fd] = "none"
            /\ table' = [table EXCEPT ![fd] = file]
            /\ loc' = [loc EXCEPT ![ladder + 1] = fd]
            /\ ladder' = ladder + 1
      BY <1>1, <1>4 DEF Opening
    <2>2. pc' = CASE ladder = 3 -> "opentemp" [] ladder = 4 -> "start" [] OTHER -> "open"
      BY <1>1, <1>4 DEF Opening
    <2>3. /\ ladder + 1 \in 1 .. 5
          /\ \A n \in 1 .. ladder : loc'[n] = loc[n]
          /\ loc'[ladder + 1] = fd
          /\ \A n \in 1 .. ladder' : n \in 1 .. ladder \/ n = ladder + 1
      BY <1>1, <1>2, <2>1
    <2>4. /\ table'[fd] = file /\ file # "none"
          /\ \A other \in Fds : other # fd => table'[other] = table[other]
      BY <1>2, <2>1
    <2>5. LadderInv'
      BY <1>1, <1>2, <2>1, <2>2 DEF LadderInv, Within
    <2>6. fd > 2 => Outside(fd) = "none"
      BY <2>1, Numbers DEF OwnedInv
    <2>7. OwnedInv'
      <3>1. \A n \in 1 .. ladder' :
              loc'[n] \in Fds /\ (loc'[n] > 2 => Outside(loc'[n]) = "none")
        BY <2>1, <2>3, <2>6 DEF OwnedInv
      <3>2. ASSUME NEW f \in 3 .. MaxFd
            PROVE  \/ table'[f] = Outside(f)
                   \/ Outside(f) = "none" /\ \E n \in 1 .. ladder' : loc'[n] = f
        <4>1. f \in Fds /\ f > 2
          BY Numbers
        <4>2. CASE f = fd
          BY <1>2, <2>1, <2>3, <2>6, <4>1, <4>2
        <4>3. CASE f # fd
          <5>1. \A n \in 1 .. ladder : n \in 1 .. ladder'
            BY <1>2, <2>1
          <5> QED
            BY <2>3, <2>4, <4>1, <4>3, <5>1 DEF OwnedInv
        <4> QED
          BY <4>2, <4>3
      <3> QED
        BY <3>1, <3>2 DEF OwnedInv
    <2>8. SavedInv'
      <3> SUFFICES ASSUME "dup2" \notin failed
                   PROVE  SavedInv'
        BY <1>1 DEF SavedInv
      <3>1. /\ \A n \in 1 .. ladder : loc[n] > 2
            /\ \A n \in 1 .. 3 : n <= ladder => table[loc[n]] = Outside(n - 1)
            /\ \A f \in 0 .. 2 : table[f] = Outside(f)
        BY <1>1 DEF SavedInv, Before
      <3>2. fd > 2 /\ \A f \in 0 .. 2 : table'[f] = Outside(f)
        BY <2>1, <2>4, <3>1, Numbers DEF Fds
      <3>3. \A n \in 1 .. ladder' : loc'[n] > 2
        BY <2>3, <3>1, <3>2
      <3>4. ASSUME NEW n \in 1 .. 3, n <= ladder'
            PROVE  table'[loc'[n]] = Outside(n - 1)
        <4>1. CASE n <= ladder
          <5>1. Outside(n - 1) # "none" /\ loc[n] \in Fds /\ n \in 1 .. ladder
            BY <1>2, <4>1, Numbers DEF OwnedInv
          <5> QED
            BY <2>1, <2>3, <2>4, <3>1, <4>1, <5>1
        <4>2. CASE n = ladder + 1
          <5>1. ladder < 3 /\ ladder \in 0 .. 2 /\ pc = "open" /\ n - 1 = ladder
            BY <1>1, <1>2, <4>2
          <5>2. file = table[ladder]
            BY <2>1, <5>1 DEF Opens
          <5> QED
            BY <2>3, <2>4, <3>1, <4>2, <5>1, <5>2
        <4> QED
          BY <1>2, <2>1, <3>4, <4>1, <4>2
      <3> QED
        BY <3>2, <3>3, <3>4 DEF SavedInv
    <2>9. TempInv'
      <3>1. table'[0] # "none"
        <4>1. CASE fd = 0
          BY <2>4, <4>1
        <4>2. CASE fd # 0 /\ ladder > 0
          BY <1>1, <2>4, <4>2, Numbers DEF TempInv
        <4>3. CASE fd # 0 /\ ladder = 0
          <5>1. file = table[0]
            BY <1>1, <2>1, <4>3 DEF Opens
          <5> QED
            BY <2>4, <4>3, <5>1, Numbers
        <4> QED
          BY <1>2, <4>1, <4>2, <4>3
      <3>2. pc' = "start" => loc'[5] # 0 /\ table'[loc'[5]] = "temp"
        <4>1. SUFFICES ASSUME pc' = "start"
                       PROVE  loc'[5] # 0 /\ table'[loc'[5]] = "temp"
          OBVIOUS
        <4>2. ladder = 4 /\ pc = "opentemp"
          BY <1>1, <1>2, <2>2, <4>1
        <4>3. table[0] # "none"
          BY <4>2 DEF TempInv
        <4> QED
          BY <2>1, <2>3, <2>4, <4>2, <4>3
      <3> QED
        BY <3>1, <3>2 DEF TempInv
    <2> QED
      BY <2>5, <2>7, <2>8, <2>9
  <1> QED
    BY <1>3, <1>4

\* Descriptors 0 to 2 are replaced.
LEMMA ReplacedStep ==
    ASSUME IInv, Redirect \/ RestoreFds
    PROVE  FdInv'
  <1> USE DEF IInv, FdInv
  <1>1. /\ \A fd \in Fds : fd > 2 => table'[fd] = table[fd]
        /\ UNCHANGED <<loc, ladder>> /\ ladder = 5
        /\ pc \in {"start", "restore"} /\ pc' \in {"capture", "complete"}
        /\ "dup2" \in failed => "dup2" \in failed'
    <2>1. CASE Redirect
      BY <2>1, RedirectReplaces DEF Redirect, historyVars, LadderInv
    <2>2. CASE RestoreFds
      BY <2>2, RestoreReplaces DEF RestoreFds, LadderInv, Within
    <2> QED
      BY <2>1, <2>2
  <1>2. LadderInv' /\ TempInv'
    BY <1>1 DEF LadderInv, TempInv
  <1>3. OwnedInv'
    BY <1>1, Numbers DEF OwnedInv
  <1>4. SavedInv'
    <2> SUFFICES ASSUME "dup2" \notin failed'
                 PROVE  SavedInv'
      BY DEF SavedInv
    <2>1. /\ \A n \in 1 .. ladder : loc[n] > 2
          /\ \A n \in 1 .. 3 : n <= ladder => table[loc[n]] = Outside(n - 1)
      BY <1>1 DEF SavedInv
    <2>2. \A n \in 1 .. 3 : table'[loc'[n]] = Outside(n - 1)
      BY <1>1, <2>1 DEF OwnedInv
    <2>3. pc' \in Before \cup After => \A fd \in 0 .. 2 : table'[fd] = Outside(fd)
      BY <1>1, RestoreReplaces DEF Redirect, Before, After
    <2> QED
      BY <1>1, <2>1, <2>2, <2>3 DEF SavedInv
  <1> QED
    BY <1>2, <1>3, <1>4

\* The labels are passed, and the runner is called again.
LEMMA ClosedStep ==
    ASSUME IInv, Cleanup \/ NextTestcase
    PROVE  FdInv'
  <1> USE DEF IInv, FdInv
  <1>0. table \in [Fds -> Files] /\ ladder \in 0 .. 5
    BY DEF TypeOK, StateTypeOK, Files
  <1>1. CASE Cleanup /\ ladder > 0
    <2>1. PICK fd \in Fds :
            /\ fd = loc[ladder]
            /\ table' = [table EXCEPT ![fd] = "none"]
            /\ ladder' = ladder - 1
            /\ pc = "cleanup" /\ UNCHANGED <<pc, loc, failed>>
            /\ fd > 2 => Outside(fd) = "none"
      <3>1. loc[ladder] \in Fds /\ (loc[ladder] > 2 => Outside(loc[ladder]) = "none")
        BY <1>0, <1>1 DEF OwnedInv
      <3> QED
        BY <1>1, <3>1 DEF Cleanup, historyVars
    <2>2. /\ \A n \in 1 .. ladder : n \in 1 .. ladder' \/ n = ladder
          /\ \A n \in 1 .. ladder' : n \in 1 .. ladder
      BY <1>0, <1>1, <2>1
    <2>3. LadderInv' /\ TempInv'
      BY <2>1 DEF LadderInv, TempInv, Within
    <2>4. OwnedInv'
      <3>1. ASSUME NEW f \in 3 .. MaxFd
            PROVE  \/ table'[f] = Outside(f)
                   \/ Outside(f) = "none" /\ \E n \in 1 .. ladder' : loc'[n] = f
        <4>1. f \in Fds /\ f > 2
          BY Numbers
        <4>2. CASE f = fd
          BY <1>0, <2>1, <4>1, <4>2
        <4>3. CASE f # fd
          <5>1. table'[f] = table[f]
            BY <1>0, <2>1, <4>1, <4>3
          <5> QED
            BY <2>1, <2>2, <4>3, <5>1 DEF OwnedInv
        <4> QED
          BY <4>2, <4>3
      <3> QED
        BY <2>1, <2>2, <3>1 DEF OwnedInv
    <2>5. SavedInv'
      <3> SUFFICES ASSUME "dup2" \notin failed
                   PROVE  SavedInv'
        BY <2>1 DEF SavedInv
      <3>1. \A n \in 1 .. ladder : loc[n] > 2
        BY DEF SavedInv
      <3>2. fd > 2
        BY <1>0, <1>1, <2>1, <3>1
      <3>3. \A f \in 0 .. 2 : table'[f] = Outside(f)
        BY <1>0, <2>1, <3>2, Numbers DEF SavedInv, After, Fds
      <3> QED
        BY <2>1, <2>2, <3>1, <3>3 DEF SavedInv
    <2> QED
      BY <2>3, <2>4, <2>5
  <1>2. CASE (Cleanup /\ ladder = 0) \/ NextTestcase
    <2>1. /\ ladder = 0 /\ UNCHANGED <<table, ladder, failed>>
          /\ pc \in {"cleanup", "returned"} /\ pc' \in {"returned", "init"}
      BY <1>2 DEF Cleanup, NextTestcase, historyVars, LadderInv
    <2>2. LadderInv' /\ TempInv'
      BY <2>1 DEF LadderInv, TempInv, Within
    <2>3. OwnedInv'
      BY <2>1 DEF OwnedInv
    <2>4. SavedInv'
      BY <2>1 DEF SavedInv, Before, After
    <2> QED
      BY <2>2, <2>3, <2>4
  <1> QED
    BY <1>0, <1>1, <1>2 DEF Cleanup

\* In every step.
LEMMA FdStep ==
    ASSUME IInv, Next
    PROVE  FdInv'
  <1>1. CASE Open \/ OpenTemp
    BY <1>1, OpenedStep
  <1>2. CASE Redirect \/ RestoreFds
    BY <1>2, ReplacedStep
  <1>3. CASE Cleanup \/ NextTestcase
    BY <1>3, ClosedStep
  <1>4. CASE ~(Open \/ OpenTemp \/ Redirect \/ RestoreFds \/ Cleanup \/ NextTestcase)
    <2>1. UNCHANGED fdVars
      BY <1>4, FdsKept DEF Next, Step
    <2> QED
      BY <1>4, <2>1, KeptStep
  <1> QED
    BY <1>1, <1>2, <1>3, <1>4

\* Signals are caught in the test case only, unless sigrestore__ has failed.
LEMMA CapturedStep ==
    ASSUME IInv, Next
    PROVE  CapturedInv'
  <1> USE DEF IInv, CapturedInv, historyVars
  <1>1. CASE Create \/ Open \/ OpenTemp \/ Redirect
    BY <1>1 DEF Create, Open, OpenTemp, Redirect
  <1>2. CASE Capture
    BY <1>2 DEF Capture
  <1>3. CASE StageChange \/ PrintOutput \/ BufferFull
    BY <1>3 DEF StageChange, PrintOutput, BufferFull
  <1>4. CASE ShortCircuit \/ Passes \/ CatchSignal \/ StraySignal \/ HandleSignal
    BY <1>4 DEF ShortCircuit, Accessed, Passes, CatchSignal, StraySignal, HandleSignal
  <1>5. CASE SigRestore
    BY <1>5 DEF SigRestore
  <1>6. CASE RestoreFds
    BY <1>6, RestoreReplaces DEF RestoreFds
  <1>7. CASE Complete \/ Cleanup \/ NextTestcase \/ Over
    BY <1>7 DEF Complete, Cleanup, NextTestcase, Over, directVars
  <1> QED
    BY <1>1, <1>2, <1>3, <1>4, <1>5, <1>6, <1>7 DEF Next, Step

\* The result tells how the test case ended.
LEMMA VerdictStep ==
    ASSUME IInv, Next
    PROVE  VerdictInv'
  <1> USE DEF IInv, TypeOK, StateTypeOK, StreamsInv, VerdictInv, Verdict,
     SignalFailure, Before, Null, Empty, hooksVars, reportVars, historyVars
  <1>1. CASE Create
    BY <1>1 DEF Create
  <1>2. CASE Open \/ OpenTemp
    <2>1. pc' \in Before \cup {"cleanup"}
      BY <1>2 DEF Open, OpenTemp, Fail
    <2> QED
      BY <1>2, <2>1 DEF Open, OpenTemp
  <1>3. CASE Redirect \/ Capture
    BY <1>3 DEF Redirect, Capture
  <1>4. CASE StageChange \/ PrintOutput \/ BufferFull
    BY <1>4 DEF StageChange, Advance, PrintOutput, BufferFull
  <1>5. CASE ShortCircuit
    BY <1>5 DEF ShortCircuit, ShortCircuits, Accessed
  <1>6. CASE Passes
    BY <1>6 DEF Passes, Returns, Accessed
  <1>7. CASE CatchSignal
    BY <1>7 DEF CatchSignal
  <1>8. CASE HandleSignal
    BY <1>8 DEF HandleSignal, SignalFailure, Accessed
  <1>9. CASE SigRestore \/ RestoreFds
    BY <1>9 DEF SigRestore, RestoreFds
  <1>10. CASE Complete
    BY <1>10 DEF Complete
  <1>11. CASE Cleanup \/ StraySignal
    BY <1>11 DEF Cleanup, StraySignal
  <1>12. CASE NextTestcase
    BY <1>12 DEF NextTestcase
  <1>13. CASE Over
    BY <1>13 DEF Over, directVars
  <1> QED
    BY <1>1, <1>2, <1>3, <1>4, <1>5, <1>6, <1>7, <1>8, <1>9, <1>10, <1>11, <1>12, <1>13
       DEF Next, Step

\* Only cells are ever in the streams.
LEMMA StreamsTypeStep ==
    ASSUME IInv, Next
    PROVE  StreamsTypeOK'
  <1> USE DEF IInv, TypeOK, StreamsTypeOK, hooksVars, streamVars, reportVars
  <1>1. CASE Create \/ Open \/ OpenTemp \/ Capture \/ StageChange \/
     ShortCircuit \/ Passes
    BY <1>1 DEF Create, Open, OpenTemp, Capture, StageChange, ShortCircuit, Passes
  <1>2. CASE Redirect \/ BufferFull \/ RestoreFds
    <2>1. {stdio', console', temp'} \subseteq Seq(Cells)
      BY <1>2, Flushed, Joined DEF Redirect, BufferFull, RestoreFds
    <2> QED
      BY <1>2, <2>1 DEF Redirect, BufferFull, RestoreFds
  <1>3. CASE PrintOutput
    <2>1. <<runs, printed + 1>> \in Cells
      <3>1. runs \in 0 .. MaxRuns /\ printed + 1 \in 0 .. MaxOutput
        BY <1>3, DirectAssumption DEF PrintOutput, StateTypeOK
      <3> QED
        BY <3>1 DEF Cells
    <2>2. stdio' \in Seq(Cells)
      BY <1>3, <2>1, AppendProperties DEF PrintOutput
    <2> QED
      BY <1>3, <2>2 DEF PrintOutput
  <1>4. CASE CatchSignal \/ StraySignal \/ HandleSignal \/ SigRestore \/ Cleanup \/ Over
    BY <1>4 DEF CatchSignal, StraySignal, HandleSignal, SigRestore, Cleanup, Over,
       directVars
  <1>5. CASE Complete \/ NextTestcase
    BY <1>5, EmptySeq DEF Complete, NextTestcase
  <1> QED
    BY <1>1, <1>2, <1>3, <1>4, <1>5 DEF Next, Step

\* What the test case prints stays its own.
LEMMA StreamsStep ==
    ASSUME IInv, Next
    PROVE  StreamsInv'
  <1> USE DEF IInv, TypeOK, StateTypeOK, StreamsTypeOK, StreamsInv, Mine, Collecting,
     Collected, Before, Within, hooksVars, fdVars, streamVars, reportVars, historyVars
  <1>1. CASE Create \/ Capture
    BY <1>1 DEF Create, Capture
  <1>2. CASE Open \/ OpenTemp
    <2>1. pc \in {"open", "opentemp"} /\ pc' \in Before \cup {"cleanup"}
      BY <1>2 DEF Open, OpenTemp, Fail
    <2>2. UNCHANGED <<streamVars, reportVars, historyVars>>
      BY <1>2 DEF Open, OpenTemp
    <2> QED
      BY <2>1, <2>2 DEF Foreign
  <1>3. CASE Redirect
    <2>1. /\ pc = "start" /\ pc' = "capture"
          /\ UNCHANGED <<completed, output, printed, runs, failed>>
          /\ stdio' = <<>> /\ temp = <<>> /\ printed = 0
      BY <1>3, Flushed DEF Redirect
    <2>2. UNCHANGED temp /\ console' \in {console, console \o stdio}
      <3>1. CASE "dup2" \in failed
        <4>1. stdio = <<>> /\ temp' \in {temp, temp \o stdio}
          BY <1>3, <2>1, <3>1, Flushed DEF Redirect
        <4> QED
          BY <1>3, <2>1, <4>1, Flushed, ConcatEmptySeq DEF Redirect
      <3>2. CASE "dup2" \notin failed
        <4>1. table[1] = "stdout"
          BY <2>1, <3>2, Numbers DEF FdInv, SavedInv
        <4> QED
          BY <1>3, <4>1, Flushed DEF Redirect
      <3> QED
        BY <3>1, <3>2
    <2>3. Foreign(console')
      <3>1. Foreign(console) /\ Foreign(stdio)
        BY <2>1
      <3>2. Foreign(console \o stdio)
        BY <3>1, ForeignJoined
      <3> QED
        BY <2>2, <3>1, <3>2
    <2>4. Collecting'
      <3>1. temp' \o stdio' = Mine'
        BY <2>1, <2>2
      <3> QED
        BY <1>3, <2>1, <2>2, <3>1, RedirectReplaces
    <2> QED
      BY <2>1, <2>3, <2>4
  <1>4. CASE StageChange \/ ShortCircuit \/ Passes \/ HandleSignal
    BY <1>4 DEF StageChange, Advance, ShortCircuit, ShortCircuits, Accessed,
       Passes, Returns, HandleSignal, Foreign
  <1>5. CASE CatchSignal \/ StraySignal \/ SigRestore
    BY <1>5 DEF CatchSignal, StraySignal, SigRestore, Foreign
  <1>6. CASE PrintOutput
    <2>1. /\ pc = "execute" /\ printed' = printed + 1 /\ printed \in Nat
          /\ stdio' = Append(stdio, <<runs, printed + 1>>)
          /\ UNCHANGED <<pc, console, temp, completed, output, runs, table>>
          /\ completed = 0
      BY <1>6 DEF PrintOutput
    <2>2. Collecting'
      <3>1. CASE table[1] = "temp" /\ temp \o stdio = Mine
        <4>1. <<runs, printed + 1>> \in Cells
          <5>1. runs \in 0 .. MaxRuns /\ printed + 1 \in 0 .. MaxOutput
            BY <1>6, DirectAssumption DEF PrintOutput
          <5> QED
            BY <5>1 DEF Cells
        <4>2. temp \in Seq(Cells) /\ stdio \in Seq(Cells)
          OBVIOUS
        <4>3. temp \o stdio = CellsOf(runs, printed)
          BY <3>1 DEF CellsOf
        <4>4. temp \o Append(stdio, <<runs, printed + 1>>) = CellsOf(runs, printed + 1)
          <5> HIDE DEF IInv, TypeOK, StateTypeOK, StreamsTypeOK, StreamsInv, Mine,
             Collecting, Collected, Before, Within
          <5>1. printed \in Nat
            BY <2>1
          <5> QED
            BY <4>1, <4>2, <4>3, <5>1, Printed, Zenon
        <4> QED
          BY <2>1, <3>1, <4>4 DEF CellsOf
      <3>2. CASE table[1] = "none" /\ temp = <<>> /\ "dup2" \in Faults
        BY <2>1, <3>2
      <3> QED
        BY <2>1, <3>1, <3>2
    <2> HIDE DEF Collecting
    <2> QED
      BY <2>1, <2>2 DEF Foreign
  <1>7. CASE BufferFull
    <2>1. /\ pc = "execute" /\ UNCHANGED <<pc, completed, output, printed, runs, table>>
          /\ stdio' = <<>> /\ completed = 0 /\ Collecting
      BY <1>7, Flushed DEF BufferFull
    <2>2. /\ UNCHANGED console
          /\ temp' = IF table[1] = "temp" THEN temp \o stdio ELSE temp
      BY <1>7, <2>1, Flushed DEF BufferFull
    <2>3. Collecting'
      BY <2>1, <2>2, StreamsTypeStep, ConcatEmptySeq, <1>7 DEF Next, Step
    <2> HIDE DEF Collecting
    <2> QED
      BY <2>1, <2>2, <2>3 DEF Foreign
  <1>8. CASE RestoreFds
    <2>1. /\ pc = "restore" /\ pc' = "complete"
          /\ UNCHANGED <<completed, output, printed, runs>>
          /\ stdio' = <<>> /\ completed = 0 /\ (Collecting \/ Collected)
      BY <1>8, Flushed DEF RestoreFds
    <2>2. UNCHANGED console /\ Collected'
      <3>1. CASE Collecting
        BY <1>8, <2>1, <3>1, Flushed DEF RestoreFds
      <3>2. CASE Collected
        <4>1. console \o stdio = console /\ temp \o stdio = temp
          BY <3>2, ConcatEmptySeq
        <4> QED
          BY <1>8, <2>1, <3>2, <4>1, Flushed DEF RestoreFds
      <3> QED
        BY <2>1, <3>1, <3>2
    <2> HIDE DEF Collecting, Collected
    <2> QED
      BY <2>1, <2>2 DEF Foreign
  <1>9. CASE Complete
    <2>1. /\ pc = "complete" /\ pc' = "cleanup" /\ completed = 0 /\ completed' = 1
          /\ UNCHANGED <<streamVars, historyVars>> /\ output = <<>> /\ Collected
          /\ (output' = temp \/ ("output" \in Faults /\ UNCHANGED output))
      BY <1>9 DEF Complete
    <2> QED
      BY <2>1 DEF Foreign
  <1>10. CASE Cleanup
    BY <1>10 DEF Cleanup, Foreign
  <1>11. CASE NextTestcase
    BY <1>11 DEF NextTestcase, Foreign
  <1>12. CASE Over
    BY <1>12 DEF Over, directVars, Foreign
  <1> QED
    BY <1>1, <1>2, <1>3, <1>4, <1>5, <1>6, <1>7, <1>8, <1>9, <1>10, <1>11, <1>12
       DEF Next, Step

\* The inductive invariant holds initially ...
LEMMA InitInv == Init => IInv
  <1> SUFFICES ASSUME Init PROVE IInv
    OBVIOUS
  <1> USE DirectAssumption DEF Init, HooksInit
  <1>1. FlagsTypeOK
    BY DEF FlagsTypeOK
  <1>2. StateTypeOK
    <2>1. table \in [Fds -> {"none", "stdin", "stdout", "stderr", "null", "temp", "other"}]
      BY DEF Outside
    <2> QED
      BY <2>1 DEF StateTypeOK, Null
  <1>3. StreamsTypeOK
    <2>1. <<0, 0>> \in Cells
      BY DEF Cells
    <2>2. <<>> \in Seq(Cells) /\ <<<<0, 0>>>> \in Seq(Cells)
      BY <2>1
    <2> QED
      BY <2>2 DEF StreamsTypeOK
  <1>4. LadderInv /\ TempInv /\ CapturedInv /\ VerdictInv
    BY DEF LadderInv, TempInv, CapturedInv, VerdictInv, Before, Within
  <1>5. OwnedInv /\ SavedInv
    <2>1. \A fd \in Fds : table[fd] = Outside(fd)
      OBVIOUS
    <2>2. ladder = 0 /\ \A fd \in 0 .. 2 : fd \in Fds
      BY Numbers
    <2> QED
      BY <2>1, <2>2, Numbers DEF OwnedInv, SavedInv
  <1>6. Foreign(console) /\ Foreign(stdio)
    BY DEF Foreign
  <1>7. StreamsInv
    BY <1>6 DEF StreamsInv, Before, Within
  <1> QED
    BY <1>1, <1>2, <1>3, <1>4, <1>5, <1>7 DEF IInv, TypeOK, FdInv

\* ... and is preserved by every step.
LEMMA NextInv == IInv /\ [Next]_directVars => IInv'
  <1> SUFFICES ASSUME IInv, [Next]_directVars PROVE IInv'
    OBVIOUS
  <1>1. FlagsTypeOK'
    BY FlagsStep DEF IInv, TypeOK
  <1>2. CASE Next
    BY <1>1, <1>2, StateStep, FdStep, CapturedStep, VerdictStep, StreamsTypeStep,
       StreamsStep DEF IInv, TypeOK
  <1>3. CASE UNCHANGED directVars
    <2> USE <1>3 DEF directVars, hooksVars, fdVars, streamVars, reportVars, historyVars,
       IInv, TypeOK, FdInv
    <2>1. StateTypeOK' /\ StreamsTypeOK'
      BY DEF StateTypeOK, StreamsTypeOK
    <2>2. FdInv'
      BY DEF LadderInv, OwnedInv, SavedInv, TempInv
    <2>3. CapturedInv' /\ VerdictInv'
      BY DEF CapturedInv, VerdictInv, Verdict, SignalFailure
    <2>4. StreamsInv'
      BY DEF StreamsInv, Mine, Foreign, Collecting, Collected
    <2> QED
      BY <1>1, <2>1, <2>2, <2>3, <2>4
  <1> QED
    BY <1>2, <1>3

(***************************************************************************)
(* Theorems                                                                 *)
(***************************************************************************)

\* The invariant the theorems below rest on.
THEOREM Invariance == Spec => []IInv
  BY InitInv, NextInv, PTL DEF Spec

\* Whatever fails and whenever signals are caught, the state of the runner
\* keeps its type.
THEOREM TypeCorrect == Spec => []TypeOK
  <1>1. IInv => TypeOK
    BY DEF IInv
  <1> QED
    BY <1>1, Invariance, PTL

\* However a test case is left, by its return, by siglongjmp() from a hook or
\* from the signal handler, or because a descriptor could not be had, the labels
\* close what was opened and nothing else, also when the numbers 0 to 2 are handed
\* out again.  Those descriptors are what they were unless a dup2() that restores
\* them has failed, and no signal is caught any more unless sigrestore__() has.
THEOREM AlwaysRestored == Spec => []ProcessRestored
  <1>1. IInv => ProcessRestored
    <2> SUFFICES ASSUME IInv, pc \in {"returned", "init"}
                 PROVE  /\ \A fd \in 3 .. MaxFd : table[fd] = Outside(fd)
                        /\ "dup2" \notin failed =>
                             \A fd \in 0 .. 2 : table[fd] = Outside(fd)
                        /\ "sigrestore" \notin failed => ~captured
      BY DEF ProcessRestored
    <2> USE DEF IInv, FdInv
    <2>1. \A fd \in 3 .. MaxFd : table[fd] = Outside(fd)
      BY DEF LadderInv, OwnedInv
    <2>2. "dup2" \notin failed => \A fd \in 0 .. 2 : table[fd] = Outside(fd)
      BY DEF SavedInv, Before, After
    <2>3. "sigrestore" \notin failed => ~captured
      BY DEF CapturedInv
    <2> QED
      BY <2>1, <2>2, <2>3
  <1> QED
    BY <1>1, Invariance, PTL

\* The output of a test case is all it printed and nothing else, or empty when
\* a dup2() or the reading failed, and none of it gets to the console.
THEOREM OutputCorrect == Spec => []OutputFaithful
  <1>1. IInv => OutputFaithful
    BY DEF IInv, StreamsInv, Foreign, Mine, OutputFaithful
  <1> QED
    BY <1>1, Invariance, PTL

\* The result and the return value are those of the last signal caught, or of
\* the test case, although the return value is indeterminate after a jump.
THEOREM VerdictCorrect == Spec => []VerdictFaithful
  <1>1. IInv => VerdictFaithful
    BY DEF IInv, VerdictInv, Verdict, SignalFailure, VerdictFaithful
  <1> QED
    BY <1>1, Invariance, PTL
===============================================================================
