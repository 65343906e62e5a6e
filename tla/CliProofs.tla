------------------------------- MODULE CliProofs -------------------------------
(***************************************************************************)
(* Proofs about Cli, for any suites and command lines, test cases that      *)
(* print any amount, buffers of any size, and any calls that fail.          *)
(***************************************************************************)
EXTENDS Cli, FailureStorageProofs

(***************************************************************************)
(* The output of a test case                                                *)
(***************************************************************************)

\* The variables of the output have their types.
OutputTypeOK ==
    /\ isolated \in BOOLEAN /\ starved \in BOOLEAN
    /\ unread \in Seq(Nat) /\ kept \in Seq(Nat)
    /\ capacity \in Nat /\ printed \in Nat
    /\ Len(unread) <= printed

\* What is to be read are the last cells that were printed.
UnreadLast ==
    \A i \in 1 .. Len(unread) : unread[i] = (printed - Len(unread)) + i

\* What is kept are cells that were read, in order; all of them unless memory
\* was refused, and then there is room for them.
KeptInOrder ==
    /\ \A i \in 1 .. Len(kept) : kept[i] <= printed - Len(unread)
    /\ \A i, j \in 1 .. Len(kept) : i < j => kept[i] < kept[j]
    /\ ~starved =>
         /\ Len(kept) = printed - Len(unread) /\ Len(kept) <= capacity
         /\ \A i \in 1 .. Len(kept) : kept[i] = i

\* Nothing was kept yet.
Blank == kept = <<>> /\ capacity = 0 /\ output = "none" /\ ~starved

\* From the start of a test case to its report.
OutputInv ==
    /\ OutputTypeOK
    /\ step = "idle" =>
         Blank /\ printed = 0 /\ unread = <<>> /\ reporter = "PENDING"
    /\ step = "output" => isolated
    /\ step \in {"output", "verdict", "build"} => UnreadLast
    /\ step \in {"output", "verdict", "build"} =>
         IF isolated THEN KeptInOrder /\ output = "none"
         ELSE Blank /\ Len(unread) = printed
    /\ step \in {"verdict", "build"} /\ isolated => unread = <<>>
    /\ OutputIntact

(***************************************************************************)
(* Sequences of cells                                                       *)
(***************************************************************************)

\* What a read() of n cells leaves, and what it takes.
LEMMA Cut ==
    ASSUME NEW s \in Seq(Nat), NEW n \in 0 .. Len(s)
    PROVE  /\ SubSeq(s, 1, n) \in Seq(Nat) /\ Len(SubSeq(s, 1, n)) = n
           /\ \A i \in 1 .. n : SubSeq(s, 1, n)[i] = s[i]
           /\ SubSeq(s, n + 1, Len(s)) \in Seq(Nat)
           /\ Len(SubSeq(s, n + 1, Len(s))) = Len(s) - n
           /\ \A i \in 1 .. (Len(s) - n) : SubSeq(s, n + 1, Len(s))[i] = s[n + i]
  <1>1. Len(s) \in Nat /\ \A i \in 1 .. Len(s) : s[i] \in Nat
    OBVIOUS
  <1>2. /\ SubSeq(s, 1, n) \in Seq(Nat) /\ Len(SubSeq(s, 1, n)) = n
        /\ \A i \in 1 .. n : SubSeq(s, 1, n)[i] = s[i]
    BY <1>1, SubSeqProperties
  <1>3. /\ SubSeq(s, n + 1, Len(s)) \in Seq(Nat)
        /\ Len(SubSeq(s, n + 1, Len(s))) = Len(s) - n
        /\ \A i \in 1 .. (Len(s) - n) : SubSeq(s, n + 1, Len(s))[i] = s[n + i]
    BY <1>1, SubSeqProperties
  <1> QED
    BY <1>2, <1>3

\* Cells put behind others, one by one.
LEMMA Joined ==
    ASSUME NEW k \in Seq(Nat), NEW u \in Seq(Nat), NEW n \in 0 .. Len(u)
    PROVE  /\ k \o SubSeq(u, 1, n) \in Seq(Nat)
           /\ Len(k \o SubSeq(u, 1, n)) = Len(k) + n
           /\ \A i \in 1 .. Len(k) : (k \o SubSeq(u, 1, n))[i] = k[i]
           /\ \A i \in 1 .. n : (k \o SubSeq(u, 1, n))[Len(k) + i] = u[i]
  <1>1. PICK t \in Seq(Nat) : /\ t = SubSeq(u, 1, n) /\ Len(t) = n
                              /\ \A i \in 1 .. n : t[i] = u[i]
    BY Cut
  <1>2. /\ k \o t \in Seq(Nat) /\ Len(k \o t) = Len(k) + Len(t)
        /\ \A i \in 1 .. (Len(k) + Len(t)) :
             (k \o t)[i] = IF i <= Len(k) THEN k[i] ELSE t[i - Len(k)]
    BY ConcatProperties
  <1>3. Len(k) \in Nat /\ n \in Nat
    OBVIOUS
  <1>4. ASSUME NEW i \in 1 .. Len(k) PROVE (k \o t)[i] = k[i]
    <2>1. i \in 1 .. (Len(k) + n) /\ i <= Len(k)
      BY <1>3
    <2> QED
      BY <1>1, <1>2, <2>1
  <1>5. ASSUME NEW i \in 1 .. n PROVE (k \o t)[Len(k) + i] = t[i]
    <2>1. /\ Len(k) + i \in 1 .. (Len(k) + n) /\ ~(Len(k) + i <= Len(k))
          /\ (Len(k) + i) - Len(k) = i
      BY <1>3
    <2> QED
      BY <1>1, <1>2, <2>1
  <1> QED
    BY <1>1, <1>2, <1>4, <1>5

\* w is k, a cells out of the first d in order, and the next n cells.
Extends(w, k, a, d, n) ==
    /\ \A i \in 1 .. a : w[i] = k[i]
    /\ \A i \in 1 .. n : w[a + i] = d + i
    /\ \A i \in 1 .. a : k[i] \in Nat /\ k[i] <= d
    /\ \A i, j \in 1 .. a : i < j => k[i] < k[j]

\* It is in order then, too, and complete if k was.
Extended(w, k, a, d, n) ==
    /\ \A i \in 1 .. (a + n) : w[i] <= d + n
    /\ \A i, j \in 1 .. (a + n) : i < j => w[i] < w[j]
    /\ (a = d /\ \A i \in 1 .. a : k[i] = i) =>
         \A i \in 1 .. (a + n) : w[i] = i

\* Cells that are read in order and put behind those that were read before
\* stay in order.
LEMMA Kept ==
    ASSUME NEW a \in Nat, NEW n \in Nat, NEW d \in Nat, NEW k, NEW w,
           Extends(w, k, a, d, n)
    PROVE  Extended(w, k, a, d, n)
  <1> USE DEF Extends
  <1>1. ASSUME NEW i \in 1 .. (a + n), ~(i \in 1 .. a)
        PROVE  i > a /\ w[i] = d + (i - a)
    <2>1. i - a \in 1 .. n /\ a + (i - a) = i /\ i > a
      BY <1>1
    <2> QED
      BY <2>1
  <1>2. ASSUME NEW i \in 1 .. (a + n) PROVE w[i] <= d + n
    <2>1. CASE i \in 1 .. a
      BY <2>1
    <2>2. CASE ~(i \in 1 .. a)
      BY <1>1, <2>2
    <2> QED
      BY <2>1, <2>2
  <1>3. ASSUME NEW i \in 1 .. (a + n), NEW j \in 1 .. (a + n), i < j
        PROVE  w[i] < w[j]
    <2>1. CASE i \in 1 .. a /\ j \in 1 .. a
      BY <1>3, <2>1
    <2>2. CASE i \in 1 .. a /\ ~(j \in 1 .. a)
      BY <1>1, <2>2
    <2>3. CASE ~(i \in 1 .. a)
      <3>1. ~(j \in 1 .. a)
        BY <1>3, <2>3
      <3> QED
        BY <1>1, <1>3, <2>3, <3>1
    <2> QED
      BY <2>1, <2>2, <2>3
  <1>4. ASSUME a = d, \A i \in 1 .. a : k[i] = i, NEW i \in 1 .. (a + n)
        PROVE  w[i] = i
    <2>1. CASE i \in 1 .. a
      BY <1>4, <2>1
    <2>2. CASE ~(i \in 1 .. a)
      BY <1>1, <1>4, <2>2
    <2> QED
      BY <2>1, <2>2
  <1> QED
    BY <1>2, <1>3, <1>4 DEF Extended

(***************************************************************************)
(* The steps that touch the output                                          *)
(***************************************************************************)

\* What a resize does: unless memory is refused, there is as much room as was
\* asked for.
LEMMA Resized ==
    ASSUME capacity \in Nat, starved \in BOOLEAN, NEW to \in Nat, Resize(to)
    PROVE  /\ capacity' \in Nat /\ starved' \in BOOLEAN
           /\ ~starved' => ~starved /\ capacity' = to
  BY DEF Resize

\* op_on_data_available__ keeps what it reads in order, and while memory is
\* not refused all of it.
LEMMA DataRead ==
    ASSUME OutputTypeOK, UnreadLast, KeptInOrder, OnDataAvailable,
           UNCHANGED <<isolated, printed>>
    PROVE  OutputTypeOK' /\ UnreadLast' /\ KeptInOrder'
  <1>1. /\ unread \in Seq(Nat) /\ kept \in Seq(Nat) /\ capacity \in Nat
        /\ printed \in Nat /\ starved \in BOOLEAN /\ Len(unread) <= printed
        /\ Len(kept) \in Nat /\ Len(unread) \in Nat
    BY DEF OutputTypeOK
  <1>2. Initial \in Nat \ {0} /\ DrainCap \in Nat
    BY OutputAssumption
  <1>3. /\ Grown \in Nat
        /\ Len(kept) <= capacity => Grown > Len(kept)
    BY <1>1, <1>2 DEF Grown
  <1>4. /\ capacity' \in Nat /\ starved' \in BOOLEAN
        /\ ~starved' => ~starved /\ capacity' = Grown
    BY <1>1, <1>3, Resized DEF OnDataAvailable
  <1>5. ~starved' => /\ ~starved /\ Len(kept) = printed - Len(unread)
                     /\ Len(kept) < capacity'
                     /\ \A i \in 1 .. Len(kept) : kept[i] = i
    BY <1>1, <1>3, <1>4 DEF KeptInOrder
  <1>6. PICK n \in 0 .. Len(unread) :
          /\ unread' = SubSeq(unread, n + 1, Len(unread))
          /\ \/ kept' = kept /\ Len(kept) >= capacity'
             \/ /\ kept' = kept \o SubSeq(unread, 1, n)
                /\ n <= capacity' - Len(kept) /\ Len(kept) < capacity'
    <2> DEFINE full == Len(kept) >= capacity'
               room == IF full THEN DrainCap ELSE capacity' - Len(kept)
    <2>1. PICK n \in 0 .. room :
            /\ n <= Len(unread)
            /\ unread' = SubSeq(unread, n + 1, Len(unread))
            /\ kept' = IF full THEN kept ELSE kept \o SubSeq(unread, 1, n)
      BY DEF OnDataAvailable
    <2>2. n \in 0 .. Len(unread) /\ (~full => n <= capacity' - Len(kept))
      BY <1>1, <1>2, <1>4, <2>1
    <2>3. ~full => Len(kept) < capacity'
      BY <1>1, <1>4
    <2> QED
      BY <2>1, <2>2, <2>3
  <1>7. /\ unread' \in Seq(Nat) /\ Len(unread') = Len(unread) - n
        /\ \A i \in 1 .. (Len(unread) - n) : unread'[i] = unread[n + i]
    BY <1>1, <1>6, Cut
  <1>8. UnreadLast'
    <2> SUFFICES ASSUME NEW i \in 1 .. (Len(unread) - n)
                 PROVE  unread'[i] = (printed - (Len(unread) - n)) + i
      BY <1>7 DEF UnreadLast
    <2>1. n + i \in 1 .. Len(unread)
      BY <1>1
    <2>2. unread'[i] = (printed - Len(unread)) + (n + i)
      BY <1>7, <2>1 DEF UnreadLast
    <2> QED
      BY <1>1, <2>2
  <1>9. CASE kept' = kept /\ Len(kept) >= capacity'
    <2>1. starved'
      BY <1>1, <1>4, <1>5, <1>9
    <2>2. \A i \in 1 .. Len(kept) : kept[i] <= printed - (Len(unread) - n)
      <3> SUFFICES ASSUME NEW i \in 1 .. Len(kept)
                   PROVE  kept[i] <= printed - (Len(unread) - n)
        OBVIOUS
      <3>1. kept[i] \in Nat /\ kept[i] <= printed - Len(unread)
        BY <1>1 DEF KeptInOrder
      <3> QED
        BY <1>1, <3>1
    <2>3. KeptInOrder'
      BY <1>7, <1>9, <2>1, <2>2 DEF KeptInOrder
    <2>4. OutputTypeOK'
      BY <1>1, <1>4, <1>7, <1>9 DEF OutputTypeOK
    <2> QED
      BY <1>8, <2>3, <2>4
  <1>10. CASE /\ kept' = kept \o SubSeq(unread, 1, n)
              /\ n <= capacity' - Len(kept) /\ Len(kept) < capacity'
    <2>1. PICK a \in Nat, d \in Nat :
            a = Len(kept) /\ d = printed - Len(unread) /\ n \in Nat
      BY <1>1
    <2>2. /\ kept' \in Seq(Nat) /\ Len(kept') = a + n
          /\ \A i \in 1 .. a : kept'[i] = kept[i]
          /\ \A i \in 1 .. n : kept'[a + i] = unread[i]
      BY <1>1, <1>10, <2>1, Joined
    <2>3. \A i \in 1 .. n : unread[i] = d + i
      BY <1>1, <2>1 DEF UnreadLast
    <2>4. /\ \A i \in 1 .. a : kept[i] \in Nat /\ kept[i] <= d
          /\ \A i, j \in 1 .. a : i < j => kept[i] < kept[j]
      BY <1>1, <2>1 DEF KeptInOrder
    <2>5. Extended(kept', kept, a, d, n)
      <3>1. Extends(kept', kept, a, d, n)
        BY <2>2, <2>3, <2>4 DEF Extends
      <3> QED
        BY <2>1, <3>1, Kept
    <2>6. printed' - Len(unread') = d + n
      BY <1>1, <1>7, <2>1
    <2>7. ~starved' => Len(kept') = d + n /\ Len(kept') <= capacity'
      <3>1. ~starved' => a = d
        BY <1>5, <2>1
      <3>2. a + n <= capacity'
        BY <1>4, <1>10, <2>1
      <3> QED
        BY <2>2, <3>1, <3>2
    <2>8. KeptInOrder'
      BY <1>5, <2>1, <2>2, <2>5, <2>6, <2>7 DEF KeptInOrder, Extended
    <2>9. OutputTypeOK'
      BY <1>1, <1>4, <1>7, <2>2 DEF OutputTypeOK
    <2> QED
      BY <1>8, <2>8, <2>9
  <1> QED
    BY <1>6, <1>9, <1>10

\* The cells 1 to n.
LEMMA Numbers ==
    ASSUME NEW n \in Nat, NEW s, s = [c \in 1 .. n |-> c]
    PROVE  s \in Seq(Nat) /\ Len(s) = n /\ \A i \in 1 .. n : s[i] = i
  <1>1. s \in [1 .. n -> Nat]
    OBVIOUS
  <1>2. s \in Seq(Nat) /\ DOMAIN s = 1 .. n
    BY <1>1
  <1>3. Len(s) \in Nat /\ DOMAIN s = 1 .. Len(s)
    BY <1>2, LenProperties
  <1>4. Len(s) = n
    BY <1>2, <1>3
  <1> QED
    BY <1>2, <1>4

\* What the steps above leave alone.
OutputSame ==
    UNCHANGED <<unread, capacity, kept, output, starved, printed, isolated, step,
                reporter>>
LEMMA OutputUntouched ==
    ASSUME OutputInv, OutputSame
    PROVE  OutputInv'
  BY DEF OutputInv, OutputSame, OutputTypeOK, UnreadLast, KeptInOrder, Blank,
         OutputIntact

\* A test case is started: what it is going to print is there to be read.
LEMMA StartStep ==
    ASSUME OutputInv, RunTestcase
    PROVE  OutputInv'
  <1>1. /\ step = "idle" /\ Blank /\ reporter = "PENDING" /\ isolated \in BOOLEAN
        /\ printed = 0 /\ unread = <<>> /\ starved \in BOOLEAN
    BY DEF RunTestcase, Start, OutputInv, OutputTypeOK
  <1>2. /\ UNCHANGED <<capacity, kept, output, starved, isolated>>
        /\ Blank' /\ isolated' \in BOOLEAN /\ starved' \in BOOLEAN
    <2>1. UNCHANGED <<capacity, kept, output, starved, isolated>>
      BY DEF RunTestcase, Start, cliVars
    <2> QED
      BY <1>1, <2>1 DEF Blank
  <1>3. CASE UNCHANGED <<reporter, printed, unread>> /\ step' \in {"returned", "dead"}
    <2>1. OutputTypeOK'
      BY <1>2, <1>3 DEF OutputInv, OutputTypeOK
    <2> QED
      BY <1>1, <1>3, <2>1 DEF OutputInv, OutputIntact
  <1>4. CASE /\ step' = IF isolated THEN "output" ELSE "verdict"
             /\ printed' \in 0 .. MaxOutput
             /\ unread' = [c \in 1 .. printed' |-> c]
    <2>1. PICK p \in Nat : p = printed'
      BY <1>4, OutputAssumption
    <2>2. /\ unread' \in Seq(Nat) /\ Len(unread') = p
          /\ \A i \in 1 .. p : unread'[i] = i
      BY <1>4, <2>1, Numbers
    <2>3. UnreadLast'
      BY <2>1, <2>2 DEF UnreadLast
    <2>4. OutputTypeOK'
      <3>1. kept' \in Seq(Nat) /\ capacity' \in Nat
        BY <1>2 DEF OutputInv, OutputTypeOK
      <3>2. Len(unread') <= printed' /\ printed' \in Nat
        BY <2>1, <2>2
      <3> QED
        BY <1>2, <2>2, <3>1, <3>2 DEF OutputTypeOK
    <2>5. Len(kept') = 0 /\ capacity' = 0
      BY <1>2 DEF Blank
    <2>6. KeptInOrder'
      <3>1. printed' - Len(unread') = 0
        <4>1. printed' = p /\ Len(unread') = p
          BY <2>1, <2>2
        <4> QED
          BY <4>1
      <3> QED
        BY <2>5, <3>1 DEF KeptInOrder
    <2>7. step' \in {"output", "verdict"} /\ (isolated => step' = "output")
          /\ (step' = "output" => isolated)
      BY <1>4
    <2> QED
      BY <1>2, <2>1, <2>2, <2>3, <2>4, <2>6, <2>7 DEF OutputInv, OutputIntact, Blank
  <1> QED
    BY <1>3, <1>4 DEF RunTestcase, Start

\* The parent reads until the pipe is at its end.
LEMMA CollectStep ==
    ASSUME OutputInv, CollectOutput, isolated' = isolated
    PROVE  OutputInv'
  <1>1. /\ OutputTypeOK /\ isolated /\ UnreadLast /\ KeptInOrder
        /\ output = "none" /\ step = "output"
    BY DEF CollectOutput, OutputInv
  <1>2. UNCHANGED <<printed, reporter>>
    BY DEF CollectOutput
  <1>3. CASE /\ OnDataAvailable
             /\ step' = IF unread = <<>> THEN "verdict" ELSE "output"
    <2>1. OutputTypeOK' /\ UnreadLast' /\ KeptInOrder'
      BY <1>1, <1>2, <1>3, DataRead
    <2>2. output' = "none"
      BY <1>1, <1>3 DEF OnDataAvailable
    <2>3. unread = <<>> => unread' = <<>>
      <3> SUFFICES ASSUME unread = <<>> PROVE unread' = <<>>
        OBVIOUS
      <3>1. \E n \in Nat : unread' = SubSeq(unread, n + 1, Len(unread)) /\ n <= 0
        <4>1. \E n \in 0 .. (IF Len(kept) >= capacity' THEN DrainCap
                             ELSE capacity' - Len(kept)) :
                 n <= Len(unread) /\ unread' = SubSeq(unread, n + 1, Len(unread))
          BY <1>3 DEF OnDataAvailable
        <4>2. Len(unread) = 0
          OBVIOUS
        <4> QED
          BY <4>1, <4>2
      <3> QED
        BY <3>1, SubSeqEmpty
    <2>4. step' \in {"output", "verdict"} /\ (step' = "verdict" => unread' = <<>>)
      BY <1>3, <2>3
    <2> QED
      BY <1>1, <2>1, <2>2, <2>4 DEF OutputInv, OutputIntact
  <1>4. CASE /\ unread = <<>> /\ step' = "verdict"
             /\ UNCHANGED <<heapVars, outputVars>>
    <2>1. UNCHANGED <<unread, capacity, kept, output, starved>>
      BY <1>4 DEF outputVars
    <2>2. OutputTypeOK' /\ UnreadLast' /\ KeptInOrder'
      BY <1>1, <1>2, <2>1 DEF OutputTypeOK, UnreadLast, KeptInOrder
    <2> QED
      BY <1>1, <1>4, <2>1, <2>2 DEF OutputInv, OutputIntact
  <1> QED
    BY <1>3, <1>4 DEF CollectOutput

\* What was read is whole, and so is what is handed over.
LEMMA KeptIsWhole ==
    ASSUME OutputTypeOK, KeptInOrder, unread = <<>>
    PROVE  /\ ~starved => kept = [c \in 1 .. printed |-> c]
           /\ \A i, j \in DOMAIN kept : i < j => kept[i] < kept[j]
  <1>1. /\ Len(unread) = 0 /\ printed \in Nat /\ kept \in Seq(Nat)
        /\ DOMAIN kept = 1 .. Len(kept)
    BY DEF OutputTypeOK
  <1>2. ASSUME ~starved PROVE kept = [c \in 1 .. printed |-> c]
    <2>1. Len(kept) = printed /\ \A i \in 1 .. Len(kept) : kept[i] = i
      BY <1>1, <1>2 DEF KeptInOrder
    <2>2. kept \in [1 .. printed -> Nat]
      BY <1>1, <2>1, LenProperties
    <2> QED
      BY <2>1, <2>2
  <1> QED
    BY <1>1, <1>2 DEF KeptInOrder

\* output_reader_build hands over the cells that were read.
LEMMA BuildStep ==
    ASSUME OutputInv, step = "build", isolated, Build, step' = "complete",
           UNCHANGED <<printed, isolated>>
    PROVE  OutputInv'
  <1>1. /\ OutputTypeOK /\ KeptInOrder /\ unread = <<>> /\ output = "none"
        /\ UNCHANGED <<unread, kept>>
    BY DEF OutputInv, Build
  <1>2. /\ ~starved => kept = [c \in 1 .. printed |-> c]
        /\ \A i, j \in DOMAIN kept : i < j => kept[i] < kept[j]
    BY <1>1, KeptIsWhole
  <1>3. /\ capacity' \in Nat /\ starved' \in BOOLEAN
        /\ ~starved' => ~starved /\ output' # "overrun"
    <2>1. Len(kept) \in Nat /\ capacity \in Nat /\ starved \in BOOLEAN
      BY <1>1 DEF OutputTypeOK
    <2>2. CASE NoCells
      BY <1>1, <2>1, <2>2 DEF Build
    <2>3. CASE ~NoCells
      <3>1. /\ Resize(Len(kept) + 1) /\ Len(kept) + 1 \in Nat
            /\ output' = IF capacity' > Len(kept) THEN "intact" ELSE "overrun"
        BY <2>1, <2>3 DEF Build, CutTo
      <3>2. /\ capacity' \in Nat /\ starved' \in BOOLEAN
            /\ ~starved' => ~starved /\ capacity' = Len(kept) + 1
        BY <2>1, <3>1, Resized
      <3> QED
        BY <2>1, <3>1, <3>2
    <2> QED
      BY <2>2, <2>3
  <1>4. OutputTypeOK'
    BY <1>1, <1>3 DEF OutputTypeOK
  <1> QED
    BY <1>1, <1>2, <1>3, <1>4 DEF OutputInv, OutputIntact

\* read_output__ of the direct runner takes the whole file, or nothing.
LEMMA ReadStep ==
    ASSUME OutputInv, step = "build", ~isolated, ReadOutput, step' = "complete",
           UNCHANGED <<printed, isolated>>
    PROVE  OutputInv'
  <1>1. /\ OutputTypeOK /\ UnreadLast /\ Blank /\ Len(unread) = printed
        /\ unread' = <<>>
    BY DEF OutputInv, ReadOutput
  <1>2. /\ unread \in Seq(Nat) /\ printed \in Nat /\ capacity \in Nat
        /\ starved \in BOOLEAN /\ kept \in Seq(Nat) /\ isolated \in BOOLEAN
    BY <1>1 DEF OutputTypeOK
  <1>3. /\ capacity' \in Nat /\ starved' \in BOOLEAN
        /\ \/ kept' = unread /\ output' # "overrun"
           \/ kept' = kept /\ starved'
    <2>1. \/ /\ capacity' = Len(unread) + 1 /\ kept' = unread
             /\ output' = "intact" /\ starved' = starved
          \/ /\ starved' = TRUE /\ kept' = kept
             /\ capacity' \in {capacity, Len(unread) + 1}
      BY DEF ReadOutput, Acquire
    <2>2. Len(unread) + 1 \in Nat
      BY <1>2
    <2> QED
      BY <1>2, <2>1, <2>2
  <1>4. \A i \in 1 .. printed : unread[i] = i
    BY <1>1, <1>2 DEF UnreadLast
  <1>5. unread = [c \in 1 .. printed |-> c]
    <2>1. unread \in [1 .. printed -> Nat]
      BY <1>1, <1>2, LenProperties
    <2> QED
      BY <1>4, <2>1
  <1>6. \A i, j \in DOMAIN kept' : i < j => kept'[i] < kept'[j]
    <2>1. CASE kept' = unread
      BY <1>2, <1>5, <2>1
    <2>2. CASE kept' = <<>>
      BY <2>2
    <2> QED
      BY <1>1, <1>3, <2>1, <2>2 DEF Blank
  <1>7. OutputTypeOK'
    <2>1. unread' \in Seq(Nat) /\ Len(unread') = 0 /\ kept' \in Seq(Nat)
      BY <1>1, <1>2, <1>3
    <2> QED
      BY <1>2, <1>3, <2>1 DEF OutputTypeOK
  <1> QED
    BY <1>3, <1>5, <1>6, <1>7 DEF OutputInv, OutputIntact

\* The invariant of the output: whatever is printed and refused.
LEMMA OutputStep ==
    ASSUME OutputInv, [Next]_allVars
    PROVE  OutputInv'
  <1>1. CASE RunTestcase
    BY <1>1, StartStep
  <1>2. CASE InTestcase
    <2>1. isolated' = isolated /\ ReportStep
      BY <1>2 DEF InTestcase, cliVars
    <2>2. CASE CollectOutput
      BY <2>1, <2>2, CollectStep
    <2>3. CASE SetFailure
      <3>1. /\ step = "verdict" /\ step' = "build"
            /\ UNCHANGED <<unread, capacity, kept, output, starved, printed,
                           reporter>>
        BY <2>3 DEF SetFailure, outputVars
      <3> QED
        BY <2>1, <3>1 DEF OutputInv, OutputTypeOK, UnreadLast, KeptInOrder, Blank,
           OutputIntact
    <2>4. CASE BuildOutput
      <3>1. /\ step = "build" /\ step' = "complete" /\ printed' = printed
            /\ IF isolated THEN Build ELSE ReadOutput
        BY <2>4 DEF BuildOutput
      <3> QED
        BY <2>1, <3>1, BuildStep, ReadStep
    <2>5. CASE Complete
      <3>1. /\ step = "complete" /\ step' \in {"returned", "dead"}
            /\ UNCHANGED <<unread, capacity, kept, output, starved, printed>>
            /\ reporter = "PENDING" => reporter' = "PENDING"
        BY <2>5 DEF Complete, outputVars
      <3> QED
        BY <2>1, <3>1 DEF OutputInv, OutputTypeOK, OutputIntact
    <2> QED
      BY <2>1, <2>2, <2>3, <2>4, <2>5 DEF ReportStep
  <1>3. CASE TestcaseReturns
    <2>1. /\ unread' = <<>> /\ capacity' = 0 /\ kept' = <<>> /\ output' = "none"
          /\ starved' = FALSE /\ step' = "idle" /\ reporter' = "PENDING"
          /\ printed' = 0 /\ isolated' = isolated
      BY <1>3 DEF TestcaseReturns, Forget, cliVars
    <2>2. OutputTypeOK'
      <3>1. Len(<<>>) = 0 /\ <<>> \in Seq(Nat)
        OBVIOUS
      <3>2. isolated \in BOOLEAN
        BY DEF OutputInv, OutputTypeOK
      <3>3. /\ unread' \in Seq(Nat) /\ kept' \in Seq(Nat) /\ capacity' \in Nat
            /\ printed' \in Nat /\ Len(unread') <= printed'
        BY <2>1, <3>1
      <3>4. starved' \in BOOLEAN /\ isolated' \in BOOLEAN
        BY <2>1, <3>2, Zenon
      <3> QED
        BY <3>3, <3>4, Zenon DEF OutputTypeOK
    <2>3. Blank'
      BY <2>1 DEF Blank
    <2> QED
      BY <2>1, <2>2, <2>3 DEF OutputInv, OutputIntact
  <1>4. CASE \/ Main \/ AllocCollection \/ AllocTestsuites \/ LoadTestsuite
             \/ InLoader \/ TestsuiteLoaded \/ LoadSuiteFailed \/ AllLoaded \/ List
    <2>1. UNCHANGED <<reportVars, cliVars>>
      BY <1>4 DEF Main, AllocCollection, AllocTestsuites, LoadTestsuite, InLoader,
         TestsuiteLoaded, LoadSuiteFailed, AllLoaded, List
    <2> QED
      BY <2>1, OutputUntouched DEF OutputSame, reportVars, outputVars, cliVars
  <1>5. CASE \/ CreateReporter \/ CreateRunner \/ RunFails \/ DestroyRunner
             \/ DestroyTestsuite \/ DestroyCollection \/ UNCHANGED allVars
    <2>1. UNCHANGED <<reportVars, cliVars>>
      BY <1>5 DEF CreateReporter, CreateRunner, RunFails, DestroyRunner,
         DestroyTestsuite, DestroyCollection, allVars
    <2> QED
      BY <2>1, OutputUntouched DEF OutputSame, reportVars, outputVars, cliVars
  <1>6. CASE DestroyReporter
    <2>1. OutputSame
      BY <1>6 DEF DestroyReporter, OutputSame, outputVars, cliVars
    <2> QED
      BY <2>1, OutputUntouched
  <1> QED
    BY <1>1, <1>2, <1>3, <1>4, <1>5, <1>6 DEF Next, Step

(***************************************************************************)
(* Where the control is                                                     *)
(***************************************************************************)

Prologue == {"main", "collection", "testsuites", "load"}
WithReporter == {"runner", "run", "runner_creation_failed"}
Loads == {"idle", "dlinit", "dladvise_init", "dladvise_local", "dlopen", "check",
          "suite", "tests", "test", "testcases", "testcase", "name", "loaded",
          "failed", "closing"}

\* The suites are counted once all are loaded or one could not be; before a
\* suite is loaded, and behind it, the other counters are at their start.
ControlInv ==
    /\ argv \in Seq(Files)
    /\ pc \in Prologue \union WithReporter
              \union {"list", "reporter", "destroy", "exited"}
    /\ suite \in 1 .. (Len(argv) + 1) /\ count \in 0 .. Len(argv)
    /\ load \in Loads
    /\ pc \notin {"load", "destroy"} => load = "idle"
    /\ pc \notin {"load", "destroy", "exited"} => suite = 1
    /\ pc \in Prologue => count = 0
    /\ pc = "destroy" => /\ load \in {"idle", "closing"} /\ suite <= count + 1
                         /\ load = "closing" => suite <= count
    /\ pc = "testsuites" => argv # <<>>
    /\ pc # "run" => step = "idle"

\* The test and the test case ctest_load_testsuite is at.
LoadInv ==
    /\ test \in Nat /\ cases \in Nat
    /\ pc = "load" /\ load # "idle" => suite <= Len(argv)
    /\ load # "closing" \/ pc # "load"
    /\ load \in {"testcases", "testcase", "name"} =>
         test \in 1 .. Len(Tests(suite))
    /\ load = "test" => test \in 1 .. (Len(Tests(suite)) + 1)
    /\ load \notin {"test", "testcases", "testcase", "name", "failed"} => test = 1
    /\ load = "testcase" => cases \in 0 .. Len(Tests(suite)[test])
    /\ load = "name" => cases \in 0 .. (Len(Tests(suite)[test]) - 1)
    /\ load \notin {"testcase", "name", "failed"} => cases = 0

(***************************************************************************)
(* What is held                                                             *)
(***************************************************************************)

\* By the command itself, ...
Globals ==
    (IF pc \in {"main", "collection", "exited"} THEN {} ELSE {<<"collection">>})
      \union (IF argv = <<>> \/ pc \in {"main", "collection", "testsuites", "exited"}
              THEN {} ELSE {<<"testsuites">>})
      \union (IF pc \in WithReporter THEN {<<"reporter">>, <<"console">>} ELSE {})
      \union (IF pc = "run" THEN {<<"runner">>} ELSE {})

\* ... by a suite s with the tests ts: the parts as in Loader, ...
CasePartsIn(ts, s, t, c) ==
    {<<"testcase", s, t, c>>} \union (IF ts[t][c] THEN {<<"name", s, t, c>>} ELSE {})
TestPartsIn(ts, s, t, n) ==
    {<<"test", s, t>>, <<"testcases", s, t>>}
        \union UNION {CasePartsIn(ts, s, t, c) : c \in 1 .. n}
TestsPartsIn(ts, s, n) == UNION {TestPartsIn(ts, s, t, Len(ts[t])) : t \in 1 .. n}

OpenedOf(s) == {<<"dlinit", s>>, <<"advice", s>>, <<"handle", s>>}
ArrayOf(ts, s) == IF ts = <<>> THEN {} ELSE {<<"tests", s>>}
RestOf(ts, s) ==
    {<<"suite", s>>, <<"handle", s>>, <<"dlinit", s>>} \union ArrayOf(ts, s)
WholeOf(ts, s) ==
    {<<"advice", s>>} \union RestOf(ts, s) \union TestsPartsIn(ts, s, Len(ts))

\* ... while it is being loaded and at the call l, test t and test case c, ...
CreatedOf(ts, s, t) ==
    OpenedOf(s) \union {<<"suite", s>>} \union ArrayOf(ts, s)
        \union TestsPartsIn(ts, s, t - 1)
LoadingOf(ts, l, s, t, c) ==
    CASE l = "dladvise_init" -> {<<"dlinit", s>>}
      [] l \in {"dladvise_local", "dlopen"} -> {<<"dlinit", s>>, <<"advice", s>>}
      [] l \in {"check", "suite"} -> OpenedOf(s)
      [] l = "tests" -> OpenedOf(s) \union {<<"suite", s>>}
      [] l = "test" -> CreatedOf(ts, s, t)
      [] l = "testcases" -> CreatedOf(ts, s, t) \union {<<"test", s, t>>}
      [] l = "testcase" -> CreatedOf(ts, s, t) \union TestPartsIn(ts, s, t, c)
      [] l = "name" -> CreatedOf(ts, s, t) \union TestPartsIn(ts, s, t, c)
                           \union {<<"testcase", s, t, c + 1>>}
      [] l = "loaded" -> WholeOf(ts, s)
      [] OTHER -> {}

\* ... and before and behind that, ...
PartsOf(s) ==
    IF pc = "load"
    THEN IF s = suite THEN LoadingOf(Tests(s), load, s, test, cases)
         ELSE IF s < suite THEN WholeOf(Tests(s), s) ELSE {}
    ELSE IF s > count THEN {}
    ELSE IF pc = "exited" \/ (pc = "destroy" /\ s < suite) THEN {<<"advice", s>>}
    ELSE IF pc = "destroy" /\ s = suite /\ load = "closing"
         THEN {<<"advice", s>>} \union RestOf(Tests(s), s)
    ELSE WholeOf(Tests(s), s)

\* ... and by the test case in progress.
InProgress == {"output", "verdict", "build", "complete"}
CaseParts ==
    IF step \notin InProgress THEN {}
    ELSE ResultBlock \union (IF failure = <<>> THEN {} ELSE FailureBlock)
           \union (IF (IF step = "complete" THEN output = "none" ELSE capacity = 0)
                   THEN {} ELSE Buffer)

Held == Globals \union (UNION {PartsOf(s) : s \in 1 .. Len(argv)}) \union CaseParts

\* What was forgotten when a call failed.
Lost(thing) ==
    faults > 0 /\ (thing[1] = "tests" \/ (thing[1] = "result" /\ ~isolated))

HeapInv ==
    /\ misused = FALSE /\ faults \in Nat
    /\ step # "dead" => /\ Held \subseteq heap
                        /\ \A thing \in heap : thing \in Held \/ Lost(thing)

\* The reporter runs while there is a result; there is no failure before.
ResultInv ==
    /\ step \in InProgress => reporter = "RUNNING"
    /\ step \in {"idle", "output", "verdict"} => failure = <<>>

(***************************************************************************)
(* The parts of a suite                                                     *)
(***************************************************************************)

GlobalKinds == {"collection", "testsuites", "reporter", "console", "runner"}
CaseKinds == {"result", "failure", "output"}
SuiteKinds == {"dlinit", "advice", "handle", "suite", "tests", "test", "testcases",
               "testcase", "name"}

\* x is a part of suite s.
PartOf(x, s) == x[1] \in SuiteKinds /\ x[2] = s

LEMMA CaseKind ==
    ASSUME NEW ts, NEW s, NEW t, NEW c, NEW x \in CasePartsIn(ts, s, t, c)
    PROVE  PartOf(x, s)
  BY DEF CasePartsIn, PartOf, SuiteKinds

LEMMA TestKind ==
    ASSUME NEW ts, NEW s, NEW t, NEW n, NEW x \in TestPartsIn(ts, s, t, n)
    PROVE  PartOf(x, s)
  <1>1. CASE x \in {<<"test", s, t>>, <<"testcases", s, t>>}
    BY <1>1 DEF PartOf, SuiteKinds
  <1>2. CASE \E c \in 1 .. n : x \in CasePartsIn(ts, s, t, c)
    BY <1>2, CaseKind
  <1> QED
    BY <1>1, <1>2 DEF TestPartsIn

LEMMA TestsKind ==
    ASSUME NEW ts, NEW s, NEW n, NEW x \in TestsPartsIn(ts, s, n)
    PROVE  PartOf(x, s)
  <1>1. PICK t \in 1 .. n : x \in TestPartsIn(ts, s, t, Len(ts[t]))
    BY DEF TestsPartsIn
  <1> QED
    BY <1>1, TestKind

\* The tests of a suite are none of its other parts.
LEMMA TestsOnly ==
    ASSUME NEW ts, NEW s, NEW n, NEW x \in TestsPartsIn(ts, s, n)
    PROVE  x \notin {<<"advice", s>>} \union RestOf(ts, s)
  <1>1. PICK t \in 1 .. n : x \in TestPartsIn(ts, s, t, Len(ts[t]))
    BY DEF TestsPartsIn
  <1>2. x[1] \in {"test", "testcases", "testcase", "name"}
    <2>1. CASE x \in {<<"test", s, t>>, <<"testcases", s, t>>}
      BY <2>1
    <2>2. CASE \E c \in 1 .. Len(ts[t]) : x \in CasePartsIn(ts, s, t, c)
      BY <2>2 DEF CasePartsIn
    <2> QED
      BY <1>1, <2>1, <2>2 DEF TestPartsIn
  <1>3. ASSUME NEW y \in {<<"advice", s>>} \union RestOf(ts, s)
        PROVE  y[1] \notin {"test", "testcases", "testcase", "name"}
    BY DEF RestOf, ArrayOf
  <1> QED
    BY <1>2, <1>3

LEMMA WholeKind ==
    ASSUME NEW ts, NEW s, NEW x \in WholeOf(ts, s)
    PROVE  PartOf(x, s)
  <1>1. CASE x \in TestsPartsIn(ts, s, Len(ts))
    BY <1>1, TestsKind
  <1>2. CASE x \in {<<"advice", s>>} \union RestOf(ts, s)
    BY <1>2 DEF PartOf, SuiteKinds, RestOf, ArrayOf
  <1> QED
    BY <1>1, <1>2 DEF WholeOf

LEMMA LoadingKind ==
    ASSUME NEW ts, NEW l \in Loads, NEW s, NEW t, NEW c,
           NEW x \in LoadingOf(ts, l, s, t, c)
    PROVE  PartOf(x, s)
  <1>1. ASSUME x \in OpenedOf(s) \union {<<"suite", s>>} \union ArrayOf(ts, s)
        PROVE  PartOf(x, s)
    BY <1>1 DEF OpenedOf, ArrayOf, PartOf, SuiteKinds
  <1>2. ASSUME x \in CreatedOf(ts, s, t) PROVE PartOf(x, s)
    BY <1>1, <1>2, TestsKind DEF CreatedOf
  <1>3. CASE l \in {"dladvise_init", "dladvise_local", "dlopen", "check", "suite",
                    "tests"}
    <2>1. LoadingOf(ts, l, s, t, c) \subseteq OpenedOf(s) \union {<<"suite", s>>}
      BY <1>3 DEF LoadingOf, OpenedOf
    <2> QED
      BY <1>1, <2>1
  <1>4. CASE l \in {"test", "testcases", "testcase", "name"}
    <2>1. \/ x \in CreatedOf(ts, s, t)
          \/ x \in TestPartsIn(ts, s, t, c)
          \/ x \in {<<"test", s, t>>, <<"testcase", s, t, c + 1>>}
      BY <1>4 DEF LoadingOf
    <2> QED
      BY <1>2, <2>1, TestKind DEF PartOf, SuiteKinds
  <1>5. CASE l = "loaded"
    BY <1>5, WholeKind DEF LoadingOf
  <1>6. CASE l \in {"idle", "dlinit", "failed", "closing"}
    BY <1>6 DEF LoadingOf
  <1> QED
    BY <1>3, <1>4, <1>5, <1>6 DEF Loads

\* One more test case, and one more test.
LEMMA OneMoreCase ==
    ASSUME NEW ts, NEW s, NEW t, NEW n \in Nat
    PROVE  TestPartsIn(ts, s, t, n + 1) =
             TestPartsIn(ts, s, t, n) \union CasePartsIn(ts, s, t, n + 1)
  <1>1. 1 .. (n + 1) = (1 .. n) \union {n + 1}
    OBVIOUS
  <1>2. ASSUME NEW x
        PROVE  (\E c \in 1 .. (n + 1) : x \in CasePartsIn(ts, s, t, c)) <=>
                 \/ \E c \in 1 .. n : x \in CasePartsIn(ts, s, t, c)
                 \/ x \in CasePartsIn(ts, s, t, n + 1)
    BY <1>1, Zenon
  <1> QED
    BY <1>2 DEF TestPartsIn

LEMMA OneMoreTest ==
    ASSUME NEW ts, NEW s, NEW n \in Nat
    PROVE  TestsPartsIn(ts, s, n + 1) =
             TestsPartsIn(ts, s, n) \union TestPartsIn(ts, s, n + 1, Len(ts[n + 1]))
  <1>1. 1 .. (n + 1) = (1 .. n) \union {n + 1}
    OBVIOUS
  <1>2. ASSUME NEW x
        PROVE  (\E t \in 1 .. (n + 1) : x \in TestPartsIn(ts, s, t, Len(ts[t]))) <=>
                 \/ \E t \in 1 .. n : x \in TestPartsIn(ts, s, t, Len(ts[t]))
                 \/ x \in TestPartsIn(ts, s, n + 1, Len(ts[n + 1]))
    BY <1>1, Zenon
  <1> QED
    BY <1>2 DEF TestsPartsIn

\* No test, and a test with no test case yet.
LEMMA NoParts ==
    ASSUME NEW ts, NEW s, NEW t
    PROVE  /\ TestsPartsIn(ts, s, 0) = {}
           /\ TestPartsIn(ts, s, t, 0) = {<<"test", s, t>>, <<"testcases", s, t>>}
  <1>1. 1 .. 0 = {}
    OBVIOUS
  <1> QED
    BY <1>1 DEF TestsPartsIn, TestPartsIn

\* The parts are those of Loader.
LEMMA PartsOfLoader ==
    ASSUME NEW s, NEW t, NEW n
    PROVE  /\ TestcaseParts(s, t, n) = CasePartsIn(Tests(s), s, t, n)
           /\ TestParts(s, t, n) = TestPartsIn(Tests(s), s, t, n)
           /\ TestsParts(s, n) = TestsPartsIn(Tests(s), s, n)
           /\ SuiteTests(s) = TestsPartsIn(Tests(s), s, Len(Tests(s)))
           /\ SuiteRest(s) = RestOf(Tests(s), s)
  <1>1. /\ TestcaseParts(s, t, n) = CasePartsIn(Tests(s), s, t, n)
        /\ SuiteRest(s) = RestOf(Tests(s), s)
    BY DEF TestcaseParts, CasePartsIn, SuiteRest, RestOf, ArrayOf
  <1>2. ASSUME NEW u, NEW m PROVE TestParts(s, u, m) = TestPartsIn(Tests(s), s, u, m)
    BY DEF TestParts, TestPartsIn, TestcaseParts, CasePartsIn
  <1>3. ASSUME NEW m PROVE TestsParts(s, m) = TestsPartsIn(Tests(s), s, m)
    BY <1>2, Zenon DEF TestsParts, TestsPartsIn
  <1> QED
    BY <1>1, <1>2, <1>3 DEF SuiteTests

(***************************************************************************)
(* What a step acquires and releases                                        *)
(***************************************************************************)

\* What is held by one suite is of this suite; what is not of any suite is of
\* another kind.
LEMMA KindsApart ==
    ASSUME load \in Loads
    PROVE  /\ \A s : \A x \in PartsOf(s) : PartOf(x, s)
           /\ \A x \in Globals : x[1] \in GlobalKinds
           /\ \A x \in CaseParts : x[1] \in CaseKinds
  <1>1. ASSUME NEW s, NEW x \in PartsOf(s) PROVE PartOf(x, s)
    <2>1. CASE x \in LoadingOf(Tests(s), load, s, test, cases)
      BY <2>1, LoadingKind
    <2>2. CASE x \in WholeOf(Tests(s), s)
      BY <2>2, WholeKind
    <2>3. CASE x \in {<<"advice", s>>} \union RestOf(Tests(s), s)
      BY <2>3, WholeKind DEF WholeOf
    <2> QED
      BY <2>1, <2>2, <2>3 DEF PartsOf
  <1>2. ASSUME NEW x \in Globals PROVE x[1] \in GlobalKinds
    BY DEF Globals, GlobalKinds
  <1>3. ASSUME NEW x \in CaseParts PROVE x[1] \in CaseKinds
    BY DEF CaseParts, CaseKinds, ResultBlock, FailureBlock, Buffer
  <1> QED
    BY <1>1, <1>2, <1>3

\* x is held.
LEMMA WhoHolds ==
    ASSUME NEW x
    PROVE  x \in Held <=> \/ x \in Globals \/ x \in CaseParts
                          \/ \E s \in 1 .. Len(argv) : x \in PartsOf(s)
  <1>1. x \in UNION {PartsOf(s) : s \in 1 .. Len(argv)} <=>
          \E s \in 1 .. Len(argv) : x \in PartsOf(s)
    BY Zenon
  <1> QED
    BY <1>1 DEF Held
LEMMA WhoWillHold ==
    ASSUME NEW x
    PROVE  x \in Held' <=> \/ x \in Globals' \/ x \in CaseParts'
                           \/ \E s \in 1 .. Len(argv') : x \in PartsOf(s)'
  <1>1. x \in UNION {PartsOf(s)' : s \in 1 .. Len(argv')} <=>
          \E s \in 1 .. Len(argv') : x \in PartsOf(s)'
    BY Zenon
  <1> QED
    BY <1>1 DEF Held

\* The number of failed calls does not decrease.
Going == /\ isolated' = isolated /\ faults' \in Nat /\ faults' >= faults
         /\ step # "dead"

\* What is held is more by what was acquired ...
LEMMA HeldAcquires ==
    ASSUME HeapInv, Going, NEW got, heap' = heap \union got, misused' = misused,
           Held' \subseteq Held \union got,
           \A x \in Held \union got : x \in Held' \/ Lost(x)'
    PROVE  HeapInv'
  <1>1. ASSUME NEW x \in heap' PROVE x \in Held' \/ Lost(x)'
    <2>1. CASE x \in Held \union got
      BY <2>1
    <2>2. CASE Lost(x)
      BY <2>2 DEF Lost, Going, HeapInv
    <2> QED
      BY <2>1, <2>2 DEF HeapInv, Going
  <1>2. Held' \subseteq heap'
    BY DEF HeapInv, Going
  <1>3. misused' = FALSE /\ faults' \in Nat
    BY DEF HeapInv, Going
  <1> QED
    BY <1>1, <1>2, <1>3 DEF HeapInv

\* ... and less by what was released, or by what a failed call makes forgotten.
LEMMA HeldReleases ==
    ASSUME HeapInv, Going, NEW gone, NEW needed, Release(gone, needed),
           gone \subseteq Held, needed \subseteq Held,
           Held' \subseteq Held \ gone,
           \A x \in Held \ gone : x \in Held' \/ Lost(x)'
    PROVE  HeapInv'
  <1>1. ASSUME NEW x \in heap' PROVE x \in Held' \/ Lost(x)'
    <2>1. x \in heap /\ x \notin gone
      BY DEF Release
    <2>2. CASE x \in Held
      BY <2>1, <2>2
    <2>3. CASE Lost(x)
      BY <2>3 DEF Lost, Going, HeapInv
    <2> QED
      BY <2>1, <2>2, <2>3 DEF HeapInv, Going
  <1>2. Held' \subseteq heap'
    BY DEF HeapInv, Going, Release
  <1>3. misused' = FALSE
    <2>1. gone \union needed \subseteq heap /\ misused = FALSE
      BY DEF HeapInv, Going
    <2> QED
      BY <2>1 DEF Release
  <1>4. faults' \in Nat
    BY DEF Going
  <1> QED
    BY <1>1, <1>2, <1>3, <1>4 DEF HeapInv

\* Only suite s, only the command, only the test case holds something else.
OnlySuite(s) ==
    /\ argv' = argv /\ Globals' = Globals /\ CaseParts' = CaseParts
    /\ \A r \in 1 .. Len(argv) : r # s => PartsOf(r)' = PartsOf(r)
OnlyCommand ==
    /\ argv' = argv /\ CaseParts' = CaseParts
    /\ \A r \in 1 .. Len(argv) : PartsOf(r)' = PartsOf(r)
OnlyTestcase ==
    /\ argv' = argv /\ Globals' = Globals
    /\ \A r \in 1 .. Len(argv) : PartsOf(r)' = PartsOf(r)

LEMMA SuiteAcquires ==
    ASSUME HeapInv, Going, NEW got, Acquire(got), NEW s \in 1 .. Len(argv),
           OnlySuite(s), PartsOf(s)' = PartsOf(s) \union got
    PROVE  HeapInv'
  <1>1. \A x : x \in Held' <=> x \in Held \union got
    BY WhoHolds, WhoWillHold DEF OnlySuite
  <1> QED
    BY <1>1, HeldAcquires DEF Acquire

LEMMA SuiteReleases ==
    ASSUME HeapInv, Going, NEW gone, NEW needed, Release(gone, needed),
           load \in Loads, NEW s \in 1 .. Len(argv), OnlySuite(s),
           gone \subseteq PartsOf(s), needed \subseteq PartsOf(s),
           PartsOf(s)' \subseteq PartsOf(s) \ gone,
           \A x \in PartsOf(s) \ gone : x \in PartsOf(s)' \/ Lost(x)'
    PROVE  HeapInv'
  <1>1. gone \subseteq Held /\ needed \subseteq Held
    BY WhoHolds
  <1>2. ASSUME NEW x \in gone
        PROVE  /\ x \notin Globals /\ x \notin CaseParts
               /\ \A r \in 1 .. Len(argv) : r # s => x \notin PartsOf(r)
    <2>1. PartOf(x, s)
      BY KindsApart
    <2>2. x[1] \notin GlobalKinds \union CaseKinds
      BY <2>1 DEF PartOf, SuiteKinds, GlobalKinds, CaseKinds
    <2>3. ASSUME NEW r \in 1 .. Len(argv), r # s PROVE x \notin PartsOf(r)
      BY <2>1, <2>3, KindsApart DEF PartOf
    <2> QED
      BY <2>2, <2>3, KindsApart
  <1>3. Held' \subseteq Held \ gone
    BY <1>2, WhoHolds, WhoWillHold DEF OnlySuite
  <1>4. ASSUME NEW x \in Held \ gone PROVE x \in Held' \/ Lost(x)'
    BY WhoHolds, WhoWillHold DEF OnlySuite
  <1> QED
    BY <1>1, <1>3, <1>4, HeldReleases

LEMMA CommandAcquires ==
    ASSUME HeapInv, Going, NEW got, Acquire(got), OnlyCommand,
           Globals' = Globals \union got
    PROVE  HeapInv'
  <1>1. \A x : x \in Held' <=> x \in Held \union got
    BY WhoHolds, WhoWillHold DEF OnlyCommand
  <1> QED
    BY <1>1, HeldAcquires DEF Acquire

LEMMA CommandReleases ==
    ASSUME HeapInv, Going, NEW gone, Release(gone, {}), load \in Loads, OnlyCommand,
           gone \subseteq Globals, Globals' = Globals \ gone
    PROVE  HeapInv'
  <1>1. gone \subseteq Held
    BY WhoHolds
  <1>2. ASSUME NEW x \in gone
        PROVE  /\ x \notin CaseParts
               /\ \A r \in 1 .. Len(argv) : x \notin PartsOf(r)
    <2>1. x[1] \in GlobalKinds
      BY KindsApart
    <2>2. x[1] \notin SuiteKinds \union CaseKinds
      BY <2>1 DEF SuiteKinds, GlobalKinds, CaseKinds
    <2> QED
      BY <2>2, KindsApart DEF PartOf
  <1>3. \A x : x \in Held' <=> x \in Held \ gone
    BY <1>2, WhoHolds, WhoWillHold DEF OnlyCommand
  <1> QED
    BY <1>1, <1>3, HeldReleases

LEMMA TestcaseReleases ==
    ASSUME HeapInv, Going, NEW gone, NEW needed, Release(gone, needed),
           load \in Loads, OnlyTestcase,
           gone \subseteq CaseParts, needed \subseteq Globals,
           CaseParts' = CaseParts \ gone
    PROVE  HeapInv'
  <1>1. gone \subseteq Held /\ needed \subseteq Held
    BY WhoHolds
  <1>2. ASSUME NEW x \in gone
        PROVE  /\ x \notin Globals
               /\ \A r \in 1 .. Len(argv) : x \notin PartsOf(r)
    <2>1. x[1] \in CaseKinds
      BY KindsApart
    <2>2. x[1] \notin SuiteKinds \union GlobalKinds
      BY <2>1 DEF SuiteKinds, GlobalKinds, CaseKinds
    <2> QED
      BY <2>2, KindsApart DEF PartOf
  <1>3. \A x : x \in Held' <=> x \in Held \ gone
    BY <1>2, WhoHolds, WhoWillHold DEF OnlyTestcase
  <1> QED
    BY <1>1, <1>3, HeldReleases

LEMMA TestcaseAcquires ==
    ASSUME HeapInv, Going, NEW got, heap' = heap \union got, misused' = misused,
           OnlyTestcase, CaseParts' \subseteq CaseParts \union got,
           \A x \in CaseParts \union got : x \in CaseParts' \/ Lost(x)'
    PROVE  HeapInv'
  <1>1. Held' \subseteq Held \union got
    BY WhoHolds, WhoWillHold DEF OnlyTestcase
  <1>2. \A x \in Held \union got : x \in Held' \/ Lost(x)'
    BY WhoHolds, WhoWillHold DEF OnlyTestcase
  <1> QED
    BY <1>1, <1>2, HeldAcquires

\* Nothing is acquired or released.
LEMMA HeapSame ==
    ASSUME HeapInv, Going, UNCHANGED <<heap, misused>>, Held' = Held
    PROVE  HeapInv'
  <1>1. heap' = heap \union {} /\ misused' = misused
    OBVIOUS
  <1> QED
    BY <1>1, HeldAcquires

(***************************************************************************)
(* The control                                                              *)
(***************************************************************************)

LEMMA TestsTyped ==
    ASSUME argv \in Seq(Files), NEW s \in 1 .. Len(argv)
    PROVE  /\ Module[argv[s]].kind \in {"unreadable", "no_suite", "bad_magic",
                                        "bad_version", "suite"}
           /\ Tests(s) \in Seq(Seq(BOOLEAN)) /\ Len(Tests(s)) \in Nat
           /\ \A t \in 1 .. Len(Tests(s)) :
                /\ Tests(s)[t] \in Seq(BOOLEAN) /\ Len(Tests(s)[t]) \in Nat
                /\ \A c \in 1 .. Len(Tests(s)[t]) : Tests(s)[t][c] \in BOOLEAN
  <1>1. argv[s] \in Files
    OBVIOUS
  <1>2. /\ Module[argv[s]].tests \in Seq(Seq(BOOLEAN))
        /\ Module[argv[s]].kind \in {"unreadable", "no_suite", "bad_magic",
                                     "bad_version", "suite"}
    BY <1>1, LoaderAssumption
  <1>3. Tests(s) \in Seq(Seq(BOOLEAN))
    BY <1>2 DEF Tests
  <1>4. ASSUME NEW t \in 1 .. Len(Tests(s)) PROVE Tests(s)[t] \in Seq(BOOLEAN)
    BY <1>3
  <1> QED
    BY <1>2, <1>3, <1>4

\* What Fails and Call do to the control.
LEMMA CallMoves ==
    ASSUME NEW at, NEW got, NEW next, NEW parts, Call(at, got, next, parts)
    PROVE  /\ load = at /\ load' \in {next, "failed"}
           /\ UNCHANGED <<suite, test, cases>>
  BY DEF Call, Fails

\* ctest_load_testsuite goes from test to test, and from test case to test case.
LEMMA LoaderMoves ==
    ASSUME LoadInv, LoadStep, argv \in Seq(Files), UNCHANGED <<argv, pc>>,
           pc = "load", suite \in 1 .. Len(argv)
    PROVE  LoadInv' /\ suite' = suite /\ load' \in Loads /\ load # "closing"
  <1> DEFINE ts == Tests(suite)
  <1>1. /\ ts \in Seq(Seq(BOOLEAN)) /\ Len(ts) \in Nat
        /\ \A t \in 1 .. Len(ts) : Len(ts[t]) \in Nat
    BY TestsTyped
  <1>2. test \in Nat /\ cases \in Nat /\ load # "closing"
    BY DEF LoadInv
  <1>3. suite' = suite => Tests(suite)' = ts
    BY DEF Tests
  <1> HIDE DEF ts
  <1>4. ASSUME UNCHANGED <<suite, test, cases>>,
               \/ load' = "failed"
               \/ load = "dlinit" /\ load' = "dladvise_init"
               \/ load = "dladvise_init" /\ load' = "dladvise_local"
               \/ load = "dladvise_local" /\ load' = "dlopen"
               \/ load = "dlopen" /\ load' = "check"
               \/ load = "check" /\ load' = "suite"
               \/ load = "suite" /\ load' = "tests"
               \/ load = "tests" /\ load' = "test"
        PROVE  LoadInv' /\ suite' = suite /\ load' \in Loads
    <2>1. load' = "test" => test = 1 /\ cases = 0 /\ Len(ts) \in Nat
      BY <1>1, <1>4 DEF LoadInv
    <2>2. load' \notin {"failed", "test"} => test = 1 /\ cases = 0
      BY <1>4 DEF LoadInv
    <2>3. test \in 1 .. (Len(ts) + 1) \/ load' # "test"
      BY <2>1
    <2> QED
      BY <1>2, <1>3, <1>4, <2>1, <2>2, <2>3 DEF LoadInv, Loads
  <1>5. CASE DlInit \/ DlAdviseInit \/ DlAdviseLocal \/ DlOpen \/ Check
    BY <1>4, <1>5, CallMoves DEF DlInit, DlAdviseInit, DlAdviseLocal, DlOpen, Check,
       Fails
  <1>6. CASE AllocSuite \/ AllocTests
    BY <1>4, <1>6, CallMoves DEF AllocSuite, AllocTests
  <1>7. CASE CreateTest
    <2>1. /\ test <= Len(ts) /\ load = "test" /\ load' \in {"testcases", "failed"}
          /\ UNCHANGED <<suite, test, cases>>
      BY <1>7, CallMoves DEF CreateTest, ts
    <2>2. test \in 1 .. Len(ts) /\ cases = 0
      BY <1>1, <2>1 DEF LoadInv, ts
    <2> QED
      BY <1>2, <1>3, <2>1, <2>2 DEF LoadInv, Loads
  <1>8. CASE AllocTestcases
    <2>1. /\ load = "testcases" /\ load' \in {"testcase", "failed"}
          /\ UNCHANGED <<suite, test, cases>>
      BY <1>8, CallMoves DEF AllocTestcases
    <2>2. test \in 1 .. Len(ts) /\ cases = 0 /\ 0 \in 0 .. Len(ts[test])
      BY <1>1, <2>1 DEF LoadInv, ts
    <2> QED
      BY <1>2, <1>3, <2>1, <2>2 DEF LoadInv, Loads
  <1>9. CASE CreateTestcase
    <2>1. /\ load = "testcase" /\ load' \in {"name", "failed"}
          /\ cases < Len(ts[test])
          /\ UNCHANGED <<suite, test, cases>>
      BY <1>9, CallMoves DEF CreateTestcase, ts
    <2>2. test \in 1 .. Len(ts) /\ cases \in 0 .. (Len(ts[test]) - 1)
      BY <1>1, <2>1 DEF LoadInv, ts
    <2> QED
      BY <1>2, <1>3, <2>1, <2>2 DEF LoadInv, Loads
  <1>10. CASE NameTestcase
    <2>1. /\ load = "name" /\ UNCHANGED <<suite, test>>
          /\ \/ load' = "failed" /\ cases' = cases
             \/ load' = "testcase" /\ cases' = cases + 1
      BY <1>10 DEF NameTestcase, Fails
    <2>2. test \in 1 .. Len(ts) /\ cases + 1 \in 0 .. Len(ts[test])
      BY <1>1, <2>1 DEF LoadInv, ts
    <2>3. cases' \in Nat
      BY <1>2, <2>1
    <2> QED
      BY <1>2, <1>3, <2>1, <2>2, <2>3 DEF LoadInv, Loads
  <1>11. CASE TestCreated
    <2>1. /\ load = "testcase" /\ load' = "test" /\ suite' = suite
          /\ test' = test + 1 /\ cases' = 0
      BY <1>11 DEF TestCreated
    <2>2. test + 1 \in 1 .. (Len(ts) + 1)
      BY <1>1, <2>1 DEF LoadInv, ts
    <2> QED
      BY <1>2, <1>3, <2>1, <2>2 DEF LoadInv, Loads
  <1>12. CASE Loaded
    <2>1. /\ load = "test" /\ load' = "loaded" /\ UNCHANGED <<suite, cases>>
          /\ test' = 1 /\ cases = 0
      BY <1>12 DEF Loaded, LoadInv
    <2> QED
      BY <1>2, <1>3, <2>1 DEF LoadInv, Loads
  <1> QED
    BY <1>2, <1>5, <1>6, <1>7, <1>8, <1>9, <1>10, <1>11, <1>12 DEF LoadStep

LEMMA ControlStep ==
    ASSUME ControlInv, LoadInv, [Next]_allVars
    PROVE  ControlInv' /\ LoadInv'
  <1>1. /\ argv \in Seq(Files) /\ Len(argv) \in Nat
        /\ suite \in 1 .. (Len(argv) + 1) /\ count \in 0 .. Len(argv)
        /\ (argv = <<>> => Len(argv) = 0)
    BY DEF ControlInv
  <1>2. argv' = argv
    BY DEF Next, Step, Main, AllocCollection, AllocTestsuites, LoadTestsuite,
       InLoader, TestsuiteLoaded, LoadSuiteFailed, AllLoaded, List, CreateReporter,
       CreateRunner, RunTestcase, InTestcase, TestcaseReturns, RunFails,
       DestroyRunner, DestroyReporter, DestroyTestsuite, DestroyCollection,
       cliVars, allVars
  <1>3. CASE \/ Main \/ AllocCollection \/ AllocTestsuites \/ List \/ CreateReporter
             \/ CreateRunner \/ DestroyRunner \/ DestroyReporter
             \/ DestroyCollection
    <2>1. /\ UNCHANGED <<suite, test, cases, load, count>>
          /\ \/ pc = "main" /\ pc' \in {"collection", "exited"}
             \/ pc = "collection" /\ pc' = "testsuites" /\ argv # <<>>
             \/ pc = "collection" /\ pc' \in {"load", "exited"}
             \/ pc = "testsuites" /\ pc' \in {"load", "exited"}
             \/ pc = "list" /\ pc' = "destroy"
             \/ pc = "reporter" /\ pc' \in {"runner", "destroy"}
             \/ pc = "runner" /\ pc' \in {"run", "runner_creation_failed"}
             \/ pc = "run" /\ step = "idle" /\ pc' = "runner_creation_failed"
             \/ pc = "runner_creation_failed" /\ pc' = "destroy"
             \/ pc = "destroy" /\ suite > count /\ pc' = "exited"
      BY <1>3 DEF Main, AllocCollection, AllocTestsuites, List, CreateReporter,
         CreateRunner, DestroyRunner, DestroyReporter, DestroyCollection, loaderVars
    <2>2. step' = step
      BY <1>3 DEF Main, AllocCollection, AllocTestsuites, List, CreateReporter,
         CreateRunner, DestroyRunner, DestroyReporter, DestroyCollection, reportVars
    <2>3. load' = "idle" /\ (pc' # "exited" => suite' = 1) /\ pc # "load"
      BY <1>1, <2>1 DEF ControlInv
    <2>4. ControlInv'
      <3>1. pc' = "destroy" => suite' <= count' + 1
        BY <1>1, <2>1, <2>3
      <3> QED
        BY <1>1, <1>2, <2>1, <2>2, <2>3, <3>1 DEF ControlInv, Prologue, WithReporter,
           Loads
    <2>5. LoadInv'
      BY <2>1, <2>3 DEF LoadInv, ControlInv
    <2> QED
      BY <2>4, <2>5
  <1>4. CASE \/ RunTestcase \/ InTestcase \/ TestcaseReturns \/ RunFails
    <2>1. pc = "run" /\ UNCHANGED <<suite, test, cases, load, count, pc>>
      BY <1>4 DEF RunTestcase, InTestcase, TestcaseReturns, RunFails, loaderVars
    <2>2. ControlInv'
      BY <1>2, <2>1 DEF ControlInv
    <2>3. LoadInv'
      BY <1>2, <2>1 DEF LoadInv, ControlInv
    <2> QED
      BY <2>2, <2>3
  <1>5. CASE InLoader
    <2>1. /\ pc = "load" /\ suite \in 1 .. Len(argv) /\ LoadStep
          /\ UNCHANGED <<pc, count, step>>
      BY <1>1, <1>5 DEF InLoader, reportVars
    <2>2. LoadInv' /\ suite' = suite /\ load' \in Loads
      BY <1>1, <1>2, <2>1, LoaderMoves
    <2> QED
      BY <1>2, <2>1, <2>2 DEF ControlInv
  <1>6. CASE LoadTestsuite \/ TestsuiteLoaded
    <2>1. /\ pc = "load" /\ UNCHANGED <<test, cases, count, pc, step>>
          /\ suite <= Len(argv)
          /\ \/ suite' = suite /\ load = "idle" /\ load' = "dlinit"
             \/ suite' = suite + 1 /\ load = "loaded" /\ load' = "idle"
      BY <1>6 DEF LoadTestsuite, TestsuiteLoaded, reportVars, LoadInv
    <2>2. suite' \in 1 .. (Len(argv) + 1)
      BY <1>1, <2>1
    <2>3. test = 1 /\ cases = 0
      BY <2>1 DEF LoadInv
    <2>4. ControlInv'
      BY <1>2, <2>1, <2>2 DEF ControlInv, Loads
    <2>5. LoadInv'
      BY <1>2, <2>1, <2>3 DEF LoadInv
    <2> QED
      BY <2>4, <2>5
  <1>7. CASE LoadSuiteFailed
    <2>1. /\ pc = "load" /\ pc' = "destroy" /\ count' = suite - 1 /\ suite' = 1
          /\ test' = 1 /\ cases' = 0 /\ load' = "idle" /\ step' = step
          /\ suite <= Len(argv)
      BY <1>7 DEF LoadSuiteFailed, LoadedBefore, reportVars, LoadInv
    <2>2. count' \in 0 .. Len(argv) /\ suite' <= count' + 1
          /\ suite' \in 1 .. (Len(argv) + 1)
      BY <1>1, <2>1
    <2>3. ControlInv'
      BY <1>2, <2>1, <2>2 DEF ControlInv, Loads, Prologue, WithReporter
    <2>4. LoadInv'
      BY <2>1 DEF LoadInv
    <2> QED
      BY <2>3, <2>4
  <1>8. CASE AllLoaded
    <2>1. /\ pc = "load" /\ pc' \in {"reporter", "list"} /\ count' = Len(argv)
          /\ suite' = 1 /\ UNCHANGED <<test, cases, load, step>> /\ suite > Len(argv)
      BY <1>8 DEF AllLoaded, reportVars
    <2>2. /\ count' \in 0 .. Len(argv) /\ suite' \in 1 .. (Len(argv) + 1)
          /\ ~(suite <= Len(argv))
      BY <1>1, <2>1
    <2>3. load = "idle"
      BY <2>1, <2>2 DEF LoadInv
    <2>4. ControlInv'
      BY <1>2, <2>1, <2>2, <2>3 DEF ControlInv, Prologue, WithReporter
    <2>5. LoadInv'
      BY <2>1, <2>3 DEF LoadInv
    <2> QED
      BY <2>4, <2>5
  <1>9. CASE DestroyTestsuite
    <2>1. /\ pc = "destroy" /\ suite <= count
          /\ UNCHANGED <<test, cases, pc, count, step>>
          /\ \/ load = "idle" /\ load' = "closing" /\ suite' = suite
             \/ load = "closing" /\ load' = "idle" /\ suite' = suite + 1
      BY <1>9 DEF DestroyTestsuite, reportVars, ControlInv
    <2>2. /\ suite' \in 1 .. (Len(argv) + 1) /\ suite' <= count' + 1
          /\ (load' = "closing" => suite' <= count')
      BY <1>1, <2>1
    <2>3. ControlInv'
      BY <1>2, <2>1, <2>2 DEF ControlInv, Loads
    <2>4. LoadInv'
      BY <2>1 DEF LoadInv
    <2> QED
      BY <2>3, <2>4
  <1>10. CASE UNCHANGED allVars
    BY <1>2, <1>10 DEF allVars, loaderVars, reportVars, ControlInv, LoadInv, Tests
  <1> QED
    BY <1>3, <1>4, <1>5, <1>6, <1>7, <1>8, <1>9, <1>10 DEF Next, Step

LEMMA ControlInitInv == Init => ControlInv /\ LoadInv
  <1> SUFFICES ASSUME Init PROVE ControlInv /\ LoadInv
    OBVIOUS
  <1>1. /\ argv \in ArgVectors
        /\ suite = 1 /\ test = 1 /\ cases = 0 /\ load = "idle"
        /\ pc = "main" /\ count = 0 /\ step = "idle"
    BY DEF Init, LoaderInit, ReportInit
  <1>2. argv \in Seq(Files)
    BY <1>1, CliAssumption
  <1>3. suite \in 1 .. (Len(argv) + 1) /\ count \in 0 .. Len(argv)
    BY <1>1, <1>2
  <1> QED
    BY <1>1, <1>2, <1>3 DEF ControlInv, LoadInv, Prologue, Loads

(***************************************************************************)
(* What loading a suite acquires and releases                               *)
(***************************************************************************)

\* The parts of the suite that is being loaded.
Parts == LoadingOf(Tests(suite), load, suite, test, cases)

\* Of all the suites and the command, the loader changes these parts only.
LEMMA LoaderFrame ==
    ASSUME ControlInv, LoadInv, HeapInv, InLoader, NEW s, s = suite
    PROVE  /\ s \in 1 .. Len(argv) /\ suite' = suite /\ argv' = argv
           /\ load \in Loads /\ step # "dead" /\ isolated' = isolated
           /\ OnlySuite(s)
           /\ PartsOf(s) = Parts
           /\ PartsOf(s)' = LoadingOf(Tests(suite), load', suite, test', cases')
  <1>1. /\ pc = "load" /\ suite \in 1 .. Len(argv) /\ argv \in Seq(Files)
        /\ LoadStep /\ load \in Loads
    BY DEF InLoader, ControlInv
  <1>2. UNCHANGED <<argv, pc, count, isolated, reportVars>>
    BY DEF InLoader, cliVars
  <1>3. suite' = suite
    BY <1>1, <1>2, LoaderMoves
  <1>4. \A r : Tests(r)' = Tests(r)
    BY <1>2 DEF Tests
  <1>5. Globals' = Globals
    BY <1>2 DEF Globals
  <1>6. CaseParts' = CaseParts
    BY <1>2 DEF reportVars, outputVars, CaseParts, ResultBlock, FailureBlock, Buffer
  <1>7. OnlySuite(s)
    <2>1. ASSUME NEW r \in 1 .. Len(argv), r # s PROVE PartsOf(r)' = PartsOf(r)
      BY <1>1, <1>2, <1>3, <1>4, <2>1 DEF PartsOf
    <2> QED
      BY <1>2, <1>5, <1>6, <2>1 DEF OnlySuite
  <1>8. /\ PartsOf(s) = Parts
        /\ PartsOf(s)' = LoadingOf(Tests(suite), load', suite, test', cases')
    BY <1>1, <1>2, <1>3, <1>4 DEF PartsOf, Parts
  <1>9. step # "dead"
    BY <1>1 DEF ControlInv
  <1> QED
    BY <1>1, <1>2, <1>3, <1>4, <1>7, <1>8, <1>9

\* Only names are compared with what is in the module.
LEMMA NeedsHandle ==
    ASSUME NEW s, NEW parts
    PROVE  \/ NeededFor(s, parts) = {}
           \/ /\ NeededFor(s, parts) = {<<"handle", s>>}
              /\ \E p \in parts : p[1] = "testcase"
  BY DEF NeededFor

\* Everything but the array of the tests is in parts, and that only when a call
\* has failed.
AllBut(parts) ==
    /\ parts \subseteq Parts
    /\ \A x \in Parts \ parts : x[1] = "tests" /\ faults' > 0

\* The function returns NULL and has released everything but the array.
LEMMA FailsHeap ==
    ASSUME ControlInv, LoadInv, HeapInv, InLoader,
           NEW parts, Fails(parts), faults' \in Nat, faults' >= faults,
           AllBut(parts),
           <<"handle", suite>> \in Parts \/ \A p \in parts : p[1] # "testcase"
    PROVE  HeapInv'
  <1>1. Release(parts, NeededFor(suite, parts)) /\ load' = "failed"
    BY DEF Fails
  <1> PICK s \in 1 .. Len(argv) : s = suite
    BY LoaderFrame
  <1>2. PartsOf(s)' = {}
    BY <1>1, LoaderFrame DEF LoadingOf
  <1>3. NeededFor(suite, parts) \subseteq PartsOf(s)
    BY NeedsHandle, LoaderFrame
  <1>4. Going
    BY LoaderFrame DEF Going
  <1>5. parts \subseteq PartsOf(s)
    BY LoaderFrame DEF AllBut
  <1>6. \A x \in PartsOf(s) \ parts : Lost(x)'
    BY LoaderFrame DEF AllBut, Lost
  <1>7. /\ PartsOf(s)' \subseteq PartsOf(s) \ parts
        /\ \A x \in PartsOf(s) \ parts : x \in PartsOf(s)' \/ Lost(x)'
    BY <1>2, <1>6
  <1>8. OnlySuite(s) /\ load \in Loads
    BY LoaderFrame
  <1> QED
    BY <1>1, <1>3, <1>4, <1>5, <1>7, <1>8, SuiteReleases

\* What was acquired is among the parts of the next call.
LEMMA AcquiresHeap ==
    ASSUME ControlInv, LoadInv, HeapInv, InLoader, NEW got, Acquire(got),
           LoadingOf(Tests(suite), load', suite, test', cases') = Parts \union got
    PROVE  HeapInv'
  <1> PICK s \in 1 .. Len(argv) : s = suite
    BY LoaderFrame
  <1>1. Going
    <2>1. faults' = faults /\ faults \in Nat
      BY DEF Acquire, HeapInv
    <2> QED
      BY <2>1, LoaderFrame DEF Going
  <1>2. PartsOf(s)' = PartsOf(s) \union got
    BY LoaderFrame
  <1>3. OnlySuite(s)
    BY LoaderFrame
  <1> QED
    BY <1>1, <1>2, <1>3, SuiteAcquires

LEMMA CallHeap ==
    ASSUME ControlInv, LoadInv, HeapInv, InLoader,
           NEW at, NEW got, NEW next, NEW parts, Call(at, got, next, parts),
           LoadingOf(Tests(suite), next, suite, test, cases) = Parts \union got,
           faults' > 0 => AllBut(parts),
           <<"handle", suite>> \in Parts \/ \A p \in parts : p[1] # "testcase"
    PROVE  HeapInv'
  <1>1. CASE Acquire(got) /\ load' = next /\ UNCHANGED <<suite, test, cases>>
    BY <1>1, AcquiresHeap
  <1>2. CASE Fault /\ Fails(parts)
    <2>1. faults \in Nat /\ faults' = faults + 1
      BY <1>2 DEF HeapInv, Fault
    <2>2. faults' \in Nat /\ faults' >= faults /\ faults' > 0
      BY <2>1
    <2> QED
      BY <1>2, <2>2, FailsHeap
  <1> QED
    BY <1>1, <1>2 DEF Call

\* The tests created so far, as Loader releases them.
LEMMA CreatedParts ==
    ASSUME NEW ts, ts = Tests(suite)
    PROVE  /\ TestCreationFailed \union ArrayOf(ts, suite) = CreatedOf(ts, suite, test)
           /\ TestcaseCreateFailed =
                TestCreationFailed \union TestPartsIn(ts, suite, test, cases)
           /\ TestsAllocFailed = OpenedOf(suite) \union {<<"suite", suite>>}
           /\ AllocFailed = OpenedOf(suite)
           /\ DlOpenFailed = {<<"dlinit", suite>>, <<"advice", suite>>}
           /\ DlAdviseInitFailed = {<<"dlinit", suite>>}
           /\ <<"handle", suite>> \in TestCreationFailed
  <1>1. /\ AllocFailed = OpenedOf(suite)
        /\ TestsAllocFailed = OpenedOf(suite) \union {<<"suite", suite>>}
        /\ DlOpenFailed = {<<"dlinit", suite>>, <<"advice", suite>>}
        /\ DlAdviseInitFailed = {<<"dlinit", suite>>}
    BY DEF TestsAllocFailed, AllocFailed, DlOpenFailed, DlAdviseInitFailed, OpenedOf
  <1>2. TestCreationFailed = TestsAllocFailed \union TestsPartsIn(ts, suite, test - 1)
    BY PartsOfLoader DEF TestCreationFailed
  <1>3. TestcaseCreateFailed =
          TestCreationFailed \union TestPartsIn(ts, suite, test, cases)
    BY PartsOfLoader DEF TestcaseCreateFailed
  <1>4. TestCreationFailed \union ArrayOf(ts, suite) = CreatedOf(ts, suite, test)
    BY <1>1, <1>2 DEF CreatedOf
  <1>5. <<"handle", suite>> \in TestCreationFailed
    BY <1>1, <1>2 DEF OpenedOf
  <1> QED
    BY <1>1, <1>3, <1>4, <1>5

LEMMA LoaderHeap ==
    ASSUME ControlInv, LoadInv, HeapInv, InLoader
    PROVE  HeapInv'
  <1>1. PICK ts, s : /\ ts = Tests(suite) /\ s = suite /\ s \in 1 .. Len(argv)
                     /\ ts \in Seq(Seq(BOOLEAN)) /\ Len(ts) \in Nat
    <2>1. suite \in 1 .. Len(argv) /\ argv \in Seq(Files)
      BY DEF InLoader, ControlInv
    <2> QED
      BY <2>1, TestsTyped
  <1>2. Parts = LoadingOf(ts, load, s, test, cases)
    BY <1>1 DEF Parts
  <1>3. LoadStep /\ faults \in Nat
    BY DEF InLoader, HeapInv
  <1>4. CASE DlInit
    <2>1. Call("dlinit", {<<"dlinit", s>>}, "dladvise_init", {}) /\ load = "dlinit"
      BY <1>1, <1>4, CallMoves DEF DlInit
    <2>2. Parts = {}
      BY <1>2, <2>1 DEF LoadingOf
    <2>3. /\ AllBut({}) /\ \A p \in {} : p[1] # "testcase"
          /\ LoadingOf(Tests(suite), "dladvise_init", suite, test, cases)
               = Parts \union {<<"dlinit", s>>}
      BY <1>1, <2>2 DEF LoadingOf, AllBut
    <2> QED
      BY <2>1, <2>3, CallHeap
  <1>5. CASE DlAdviseInit
    <2>1. /\ load = "dladvise_init"
          /\ Call("dladvise_init", {<<"advice", s>>}, "dladvise_local",
                  DlAdviseInitFailed)
      BY <1>1, <1>5, CallMoves DEF DlAdviseInit
    <2>2. Parts = {<<"dlinit", s>>} /\ DlAdviseInitFailed = {<<"dlinit", s>>}
      BY <1>1, <1>2, <2>1, CreatedParts DEF LoadingOf
    <2>3. /\ AllBut(DlAdviseInitFailed)
          /\ \A p \in DlAdviseInitFailed : p[1] # "testcase"
          /\ LoadingOf(Tests(suite), "dladvise_local", suite, test, cases)
               = Parts \union {<<"advice", s>>}
      BY <1>1, <2>2 DEF LoadingOf, AllBut
    <2> QED
      BY <2>1, <2>3, CallHeap
  <1>6. CASE DlAdviseLocal
    <2>1. /\ load = "dladvise_local"
          /\ Call("dladvise_local", {}, "dlopen", DlOpenFailed)
      BY <1>6, CallMoves DEF DlAdviseLocal
    <2>2. /\ Parts = {<<"dlinit", s>>, <<"advice", s>>}
          /\ DlOpenFailed = {<<"dlinit", s>>, <<"advice", s>>}
      BY <1>1, <1>2, <2>1, CreatedParts DEF LoadingOf
    <2>3. /\ AllBut(DlOpenFailed)
          /\ \A p \in DlOpenFailed : p[1] # "testcase"
          /\ LoadingOf(Tests(suite), "dlopen", suite, test, cases)
               = Parts \union {}
      BY <1>1, <2>2 DEF LoadingOf, AllBut
    <2> QED
      BY <2>1, <2>3, CallHeap
  <1>7. CASE DlOpen
    <2>1. /\ load = "dlopen"
          /\ \/ Call("dlopen", {<<"handle", s>>}, "check", DlOpenFailed)
             \/ Fails(DlOpenFailed) /\ faults' = faults
      BY <1>1, <1>7, CallMoves DEF DlOpen
    <2>2. /\ Parts = {<<"dlinit", s>>, <<"advice", s>>}
          /\ DlOpenFailed = {<<"dlinit", s>>, <<"advice", s>>}
      BY <1>1, <1>2, <2>1, CreatedParts DEF LoadingOf
    <2>3. /\ AllBut(DlOpenFailed)
          /\ \A p \in DlOpenFailed : p[1] # "testcase"
          /\ LoadingOf(Tests(suite), "check", suite, test, cases)
               = Parts \union {<<"handle", s>>}
      BY <1>1, <2>2 DEF LoadingOf, AllBut, OpenedOf
    <2>4. faults' = faults => faults' \in Nat /\ faults' >= faults
      BY <1>3
    <2> QED
      BY <2>1, <2>3, <2>4, CallHeap, FailsHeap
  <1>8. CASE Check
    <2>1. load = "check" /\ faults' = faults /\ faults' \in Nat /\ faults' >= faults
      BY <1>3, <1>8 DEF Check
    <2>2. /\ Parts = OpenedOf(s) /\ AllocFailed = OpenedOf(s)
          /\ <<"handle", suite>> \in Parts
      BY <1>1, <1>2, <2>1, CreatedParts DEF LoadingOf, OpenedOf
    <2>3. CASE load' = "suite" /\ UNCHANGED <<heap, misused, suite, test, cases>>
      <3>1. LoadingOf(Tests(suite), load', suite, test', cases') = Parts \union {}
        BY <1>1, <2>2, <2>3 DEF LoadingOf
      <3>2. Acquire({})
        BY <2>1, <2>3 DEF Acquire
      <3> QED
        BY <3>1, <3>2, AcquiresHeap
    <2>4. CASE Fails(AllocFailed)
      <3>1. AllBut(AllocFailed)
        BY <2>2 DEF AllBut
      <3> QED
        BY <2>1, <2>2, <2>4, <3>1, FailsHeap
    <2> QED
      BY <1>8, <2>3, <2>4 DEF Check
  <1>9. CASE AllocSuite
    <2>1. /\ load = "suite"
          /\ Call("suite", {<<"suite", s>>}, "tests", AllocFailed)
      BY <1>1, <1>9, CallMoves DEF AllocSuite
    <2>2. /\ Parts = OpenedOf(s) /\ AllocFailed = OpenedOf(s)
          /\ <<"handle", suite>> \in Parts
      BY <1>1, <1>2, <2>1, CreatedParts DEF LoadingOf, OpenedOf
    <2>3. /\ AllBut(AllocFailed)
          /\ LoadingOf(Tests(suite), "tests", suite, test, cases)
               = Parts \union {<<"suite", s>>}
      BY <1>1, <2>2 DEF LoadingOf, AllBut
    <2> QED
      BY <2>1, <2>2, <2>3, CallHeap
  <1>10. CASE AllocTests
    <2>1. /\ load = "tests" /\ test = 1
          /\ \/ ts # <<>> /\ Call("tests", {<<"tests", s>>}, "test", TestsAllocFailed)
             \/ /\ ts = <<>> /\ load' = "test"
                /\ UNCHANGED <<heap, misused, faults, suite, test, cases>>
      BY <1>1, <1>10, CallMoves DEF AllocTests, LoadInv, heapVars
    <2>2. /\ Parts = OpenedOf(s) \union {<<"suite", s>>}
          /\ TestsAllocFailed = OpenedOf(s) \union {<<"suite", s>>}
          /\ <<"handle", suite>> \in Parts
      BY <1>1, <1>2, <2>1, CreatedParts DEF LoadingOf, OpenedOf
    <2>3. CreatedOf(ts, s, test) = Parts \union ArrayOf(ts, s)
      <3>1. test - 1 = 0
        BY <2>1
      <3> QED
        BY <2>2, <3>1, NoParts DEF CreatedOf
    <2>4. LoadingOf(Tests(suite), "test", suite, test, cases)
            = Parts \union ArrayOf(ts, s)
      BY <1>1, <2>3 DEF LoadingOf
    <2>5. CASE ts = <<>> /\ load' = "test"
               /\ UNCHANGED <<heap, misused, faults, suite, test, cases>>
      <3>1. LoadingOf(Tests(suite), load', suite, test', cases') = Parts \union {}
        BY <2>4, <2>5 DEF ArrayOf
      <3>2. Acquire({})
        BY <2>5 DEF Acquire
      <3> QED
        BY <3>1, <3>2, AcquiresHeap
    <2>6. CASE ts # <<>> /\ Call("tests", {<<"tests", s>>}, "test", TestsAllocFailed)
      <3>1. /\ AllBut(TestsAllocFailed)
            /\ LoadingOf(Tests(suite), "test", suite, test, cases)
                 = Parts \union {<<"tests", s>>}
        BY <2>2, <2>4, <2>6 DEF AllBut, ArrayOf
      <3> QED
        BY <2>2, <2>6, <3>1, CallHeap
    <2> QED
      BY <2>1, <2>5, <2>6
  <1>11. ASSUME NEW more, Parts = CreatedOf(ts, s, test) \union more
         PROVE  /\ <<"handle", suite>> \in Parts
                /\ faults' > 0 => AllBut(TestCreationFailed \union more)
    <2>1. /\ Parts = TestCreationFailed \union ArrayOf(ts, s) \union more
          /\ <<"handle", suite>> \in TestCreationFailed
      BY <1>1, <1>11, CreatedParts
    <2>2. \A x \in ArrayOf(ts, s) : x[1] = "tests"
      BY DEF ArrayOf
    <2> QED
      BY <2>1, <2>2 DEF AllBut
  <1>12. CASE CreateTest
    <2>1. /\ load = "test"
          /\ Call("test", {<<"test", s, test>>}, "testcases", TestCreationFailed)
      BY <1>1, <1>12, CallMoves DEF CreateTest
    <2>2. Parts = CreatedOf(ts, s, test)
      BY <1>2, <2>1 DEF LoadingOf
    <2>3. LoadingOf(Tests(suite), "testcases", suite, test, cases)
            = Parts \union {<<"test", s, test>>}
      BY <1>1, <2>2 DEF LoadingOf
    <2>4. /\ <<"handle", suite>> \in Parts
          /\ faults' > 0 => AllBut(TestCreationFailed)
      <3>1. /\ Parts = CreatedOf(ts, s, test) \union {}
            /\ TestCreationFailed = TestCreationFailed \union {}
        BY <2>2
      <3>2. faults' > 0 => AllBut(TestCreationFailed \union {})
        BY <1>11, <3>1
      <3> QED
        BY <1>11, <3>1, <3>2
    <2> QED
      BY <2>1, <2>3, <2>4, CallHeap
  <1>13. CASE AllocTestcases
    <2>1. /\ load = "testcases" /\ cases = 0
          /\ Call("testcases", {<<"testcases", s, test>>}, "testcase",
                  TestCreationFailed \union {<<"test", s, test>>})
      BY <1>1, <1>13, CallMoves DEF AllocTestcases, LoadInv
    <2>2. Parts = CreatedOf(ts, s, test) \union {<<"test", s, test>>}
      BY <1>2, <2>1 DEF LoadingOf
    <2>3. LoadingOf(Tests(suite), "testcase", suite, test, cases)
            = Parts \union {<<"testcases", s, test>>}
      <3>1. TestPartsIn(ts, s, test, cases) =
              {<<"test", s, test>>, <<"testcases", s, test>>}
        BY <2>1, NoParts
      <3> QED
        BY <1>1, <2>2, <3>1 DEF LoadingOf
    <2> QED
      BY <1>11, <2>1, <2>2, <2>3, CallHeap
  <1>14. CASE CreateTestcase
    <2>1. /\ load = "testcase"
          /\ Call("testcase", {<<"testcase", s, test, cases + 1>>}, "name",
                  TestcaseCreateFailed)
      BY <1>1, <1>14 DEF CreateTestcase
    <2>2. Parts = CreatedOf(ts, s, test) \union TestPartsIn(ts, s, test, cases)
      BY <1>2, <2>1 DEF LoadingOf
    <2>3. LoadingOf(Tests(suite), "name", suite, test, cases)
            = Parts \union {<<"testcase", s, test, cases + 1>>}
      BY <1>1, <2>2 DEF LoadingOf
    <2>4. TestcaseCreateFailed =
            TestCreationFailed \union TestPartsIn(ts, s, test, cases)
      BY <1>1, CreatedParts
    <2> QED
      BY <1>11, <2>1, <2>2, <2>3, <2>4, CallHeap
  <1>15. CASE NameTestcase
    <2> DEFINE first == {<<"testcase", s, test, cases + 1>>}
    <2>1. PICK own :
            /\ own = CasePartsIn(ts, s, test, cases + 1) \ first
            /\ load = "name"
            /\ \/ /\ Acquire(own) /\ cases' = cases + 1 /\ load' = "testcase"
                  /\ UNCHANGED <<suite, test>>
               \/ Fault /\ Fails(TestcaseCreateFailed \union first)
      BY <1>1, <1>15, PartsOfLoader DEF NameTestcase
    <2>2. cases \in Nat
      BY DEF LoadInv
    <2>3. Parts = CreatedOf(ts, s, test)
                    \union (TestPartsIn(ts, s, test, cases) \union first)
      BY <1>2, <2>1 DEF LoadingOf
    <2>4. CASE /\ Acquire(own) /\ cases' = cases + 1 /\ load' = "testcase"
               /\ UNCHANGED <<suite, test>>
      <3>1. LoadingOf(Tests(suite), load', suite, test', cases')
              = CreatedOf(ts, s, test) \union TestPartsIn(ts, s, test, cases + 1)
        BY <1>1, <2>4 DEF LoadingOf
      <3>2. TestPartsIn(ts, s, test, cases + 1) =
              TestPartsIn(ts, s, test, cases) \union first \union own
        <4>1. first \subseteq CasePartsIn(ts, s, test, cases + 1)
          BY DEF CasePartsIn
        <4>2. TestPartsIn(ts, s, test, cases + 1) =
                TestPartsIn(ts, s, test, cases)
                    \union CasePartsIn(ts, s, test, cases + 1)
          BY <2>2, OneMoreCase
        <4>3. CasePartsIn(ts, s, test, cases + 1) = first \union own
          BY <2>1, <4>1
        <4> QED
          BY <4>2, <4>3
      <3>3. LoadingOf(Tests(suite), load', suite, test', cases') = Parts \union own
        BY <2>3, <3>1, <3>2
      <3> QED
        BY <2>4, <3>3, AcquiresHeap
    <2>5. CASE Fault /\ Fails(TestcaseCreateFailed \union first)
      <3>1. faults' \in Nat /\ faults' >= faults /\ faults' > 0
        BY <1>3, <2>5 DEF Fault
      <3>2. TestcaseCreateFailed \union first =
              TestCreationFailed \union (TestPartsIn(ts, s, test, cases) \union first)
        BY <1>1, CreatedParts
      <3>3. /\ <<"handle", suite>> \in Parts
            /\ AllBut(TestcaseCreateFailed \union first)
        BY <1>11, <2>3, <3>1, <3>2
      <3> QED
        BY <2>5, <3>1, <3>3, FailsHeap
    <2> QED
      BY <2>1, <2>4, <2>5
  <1>16. CASE TestCreated
    <2>1. /\ load = "testcase" /\ cases = Len(ts[test]) /\ test' = test + 1
          /\ load' = "test" /\ UNCHANGED <<heap, misused, faults>>
          /\ test \in 1 .. Len(ts)
      BY <1>1, <1>16 DEF TestCreated, heapVars, LoadInv
    <2>2. Parts = CreatedOf(ts, s, test) \union TestPartsIn(ts, s, test, Len(ts[test]))
      BY <1>2, <2>1 DEF LoadingOf
    <2>3. LoadingOf(Tests(suite), load', suite, test', cases')
            = CreatedOf(ts, s, test + 1)
      BY <1>1, <2>1 DEF LoadingOf
    <2>4. CreatedOf(ts, s, test + 1) =
            CreatedOf(ts, s, test) \union TestPartsIn(ts, s, test, Len(ts[test]))
      <3>1. PICK n \in Nat : n = test - 1 /\ n + 1 = test /\ (test + 1) - 1 = n + 1
        BY <1>1, <2>1
      <3>2. TestsPartsIn(ts, s, n + 1) =
              TestsPartsIn(ts, s, n) \union TestPartsIn(ts, s, n + 1, Len(ts[n + 1]))
        BY OneMoreTest
      <3> QED
        BY <3>1, <3>2 DEF CreatedOf
    <2>5. Acquire({})
      BY <2>1 DEF Acquire
    <2>6. LoadingOf(Tests(suite), load', suite, test', cases') = Parts \union {}
      BY <2>2, <2>3, <2>4
    <2> QED
      BY <2>5, <2>6, AcquiresHeap
  <1>17. CASE Loaded
    <2>1. /\ load = "test" /\ test > Len(ts) /\ load' = "loaded"
          /\ UNCHANGED <<heap, misused, faults>> /\ test \in 1 .. (Len(ts) + 1)
      BY <1>1, <1>17 DEF Loaded, heapVars, LoadInv
    <2>2. Parts = CreatedOf(ts, s, test)
      BY <1>2, <2>1 DEF LoadingOf
    <2>3. LoadingOf(Tests(suite), load', suite, test', cases') = WholeOf(ts, s)
      BY <1>1, <2>1 DEF LoadingOf
    <2>4. CreatedOf(ts, s, test) = WholeOf(ts, s)
      <3>1. test - 1 = Len(ts)
        BY <1>1, <2>1
      <3> QED
        BY <3>1 DEF CreatedOf, WholeOf, RestOf, OpenedOf
    <2>5. Acquire({})
      BY <2>1 DEF Acquire
    <2>6. LoadingOf(Tests(suite), load', suite, test', cases') = Parts \union {}
      BY <2>2, <2>3, <2>4
    <2> QED
      BY <2>5, <2>6, AcquiresHeap
  <1> QED
    BY <1>3, <1>4, <1>5, <1>6, <1>7, <1>8, <1>9, <1>10, <1>12, <1>13, <1>14, <1>15,
       <1>16, <1>17 DEF LoadStep

(***************************************************************************)
(* What the other steps acquire and release                                 *)
(***************************************************************************)

\* A suite that is not yet there, and one that is there as a whole.
PlacedAt(r) ==
    /\ pc \in {"main", "collection", "testsuites"} => PartsOf(r) = {}
    /\ pc \in WithReporter \union {"list", "reporter"} =>
         PartsOf(r) = IF r <= count THEN WholeOf(Tests(r), r) ELSE {}
    /\ pc = "load" =>
         /\ r < suite => PartsOf(r) = WholeOf(Tests(r), r)
         /\ r > suite => PartsOf(r) = {}
         /\ r = suite /\ load \in {"idle", "dlinit", "failed"} => PartsOf(r) = {}
         /\ r = suite /\ load = "loaded" => PartsOf(r) = WholeOf(Tests(r), r)
    /\ pc = "destroy" =>
         /\ r > count => PartsOf(r) = {}
         /\ r <= count /\ r > suite => PartsOf(r) = WholeOf(Tests(r), r)
         /\ r <= count /\ r < suite => PartsOf(r) = {<<"advice", r>>}
         /\ r <= count /\ r = suite /\ load = "idle" =>
              PartsOf(r) = WholeOf(Tests(r), r)
         /\ r <= count /\ r = suite /\ load = "closing" =>
              PartsOf(r) = {<<"advice", r>>} \union RestOf(Tests(r), r)
    /\ pc = "exited" => PartsOf(r) = IF r <= count THEN {<<"advice", r>>} ELSE {}

Placed == \A r \in 1 .. Len(argv) : PlacedAt(r)

LEMMA PartsPlaced == ControlInv => Placed
  <1> SUFFICES ASSUME ControlInv, NEW r \in 1 .. Len(argv) PROVE PlacedAt(r)
    BY DEF Placed
  <1>1. /\ Len(argv) \in Nat /\ suite \in 1 .. (Len(argv) + 1)
        /\ count \in 0 .. Len(argv) /\ (pc \in Prologue => count = 0)
    BY DEF ControlInv
  <1>2. r \in Nat /\ suite \in Nat /\ count \in Nat /\ r >= 1
    BY <1>1
  <1>3. CASE pc \in {"main", "collection", "testsuites"}
    BY <1>1, <1>2, <1>3 DEF PlacedAt, PartsOf, Prologue, WithReporter
  <1>4. CASE pc \in WithReporter \union {"list", "reporter"}
    BY <1>2, <1>4 DEF PlacedAt, PartsOf, WithReporter
  <1>5. CASE pc = "load"
    BY <1>2, <1>5 DEF PlacedAt, PartsOf, LoadingOf, WithReporter
  <1>6. CASE pc = "destroy"
    BY <1>2, <1>6 DEF PlacedAt, PartsOf, WithReporter
  <1>7. CASE pc = "exited"
    BY <1>2, <1>7 DEF PlacedAt, PartsOf, WithReporter
  <1> QED
    BY <1>3, <1>4, <1>5, <1>6, <1>7 DEF ControlInv, Prologue

LEMMA PartsPlacedNext == ControlInv' => Placed'
  BY PartsPlaced, PTL

\* The steps of the command that are no steps of the loader or of a test case
\* leave what the suites hold alone.
CommandStep ==
    \/ Main \/ AllocCollection \/ AllocTestsuites \/ LoadTestsuite
    \/ TestsuiteLoaded \/ LoadSuiteFailed \/ AllLoaded \/ List \/ CreateReporter
    \/ CreateRunner \/ RunFails \/ DestroyRunner \/ DestroyReporter
    \/ DestroyCollection
LEMMA CommandFrame ==
    ASSUME ControlInv, LoadInv, ControlInv', CommandStep
    PROVE  OnlyCommand /\ step = "idle" /\ UNCHANGED <<isolated, argv>> /\ load \in Loads
  <1>1. UNCHANGED <<isolated, argv>> /\ load \in Loads
    BY DEF CommandStep, Main, AllocCollection, AllocTestsuites, LoadTestsuite,
       TestsuiteLoaded, LoadSuiteFailed, AllLoaded, List, CreateReporter,
       CreateRunner, RunFails, DestroyRunner, DestroyReporter, DestroyCollection,
       cliVars, ControlInv
  <1>2. step = "idle" /\ UNCHANGED <<step, failure, testcase, capacity, output>>
    <2>1. pc # "run" \/ step = "idle"
      BY DEF CommandStep, Main, AllocCollection, AllocTestsuites, LoadTestsuite,
         TestsuiteLoaded, LoadSuiteFailed, AllLoaded, List, CreateReporter,
         CreateRunner, RunFails, DestroyRunner, DestroyReporter, DestroyCollection
    <2>2. UNCHANGED <<step, failure, testcase, capacity, output>>
      BY DEF CommandStep, Main, AllocCollection, AllocTestsuites, LoadTestsuite,
         TestsuiteLoaded, LoadSuiteFailed, AllLoaded, List, CreateReporter,
         CreateRunner, RunFails, DestroyRunner, DestroyReporter, DestroyCollection,
         reportVars, outputVars
    <2> QED
      BY <2>1, <2>2 DEF ControlInv
  <1>3. CaseParts' = CaseParts
    BY <1>2 DEF CaseParts, ResultBlock, FailureBlock, Buffer
  <1>4. \A r : Tests(r)' = Tests(r)
    BY <1>1 DEF Tests
  <1>5. ASSUME NEW r \in 1 .. Len(argv) PROVE PartsOf(r)' = PartsOf(r)
    <2>1. PlacedAt(r) /\ PlacedAt(r)'
      <3>1. Placed /\ Placed'
        BY PartsPlaced, PartsPlacedNext
      <3> QED
        BY <1>1, <3>1 DEF Placed
    <2>2. /\ Len(argv) \in Nat /\ suite \in 1 .. (Len(argv) + 1)
          /\ count \in 0 .. Len(argv)
      BY DEF ControlInv
    <2>3. r \in Nat /\ suite \in Nat /\ count \in Nat /\ r >= 1 /\ r <= Len(argv)
      BY <2>2
    <2>4. CASE \/ Main \/ AllocCollection \/ AllocTestsuites
      <3>1. /\ pc \in {"main", "collection", "testsuites"} /\ count = 0
            /\ pc' \in {"collection", "testsuites", "load", "exited"}
            /\ count' = 0 /\ suite = 1 /\ suite' = 1 /\ load' = "idle"
        BY <2>4 DEF Main, AllocCollection, AllocTestsuites, loaderVars, ControlInv,
           Prologue
      <3>2. r # suite' => r > suite'
        BY <2>3, <3>1
      <3> QED
        BY <2>1, <2>3, <3>1, <3>2 DEF PlacedAt
    <2>5. CASE LoadTestsuite
      <3>1. /\ pc = "load" /\ pc' = "load" /\ suite' = suite
            /\ load = "idle" /\ load' = "dlinit"
        BY <2>5 DEF LoadTestsuite
      <3>2. r < suite \/ r = suite \/ r > suite
        BY <2>3
      <3> QED
        BY <1>4, <2>1, <3>1, <3>2 DEF PlacedAt
    <2>6. CASE TestsuiteLoaded
      <3>1. /\ pc = "load" /\ pc' = "load" /\ suite' = suite + 1
            /\ load = "loaded" /\ load' = "idle"
        BY <2>6 DEF TestsuiteLoaded
      <3>2. \/ r < suite /\ r < suite'
            \/ r = suite /\ r < suite'
            \/ r > suite /\ (r > suite' \/ r = suite')
        BY <2>3, <3>1
      <3> QED
        BY <1>4, <2>1, <3>1, <3>2 DEF PlacedAt
    <2>7. CASE LoadSuiteFailed
      <3>1. /\ pc = "load" /\ pc' = "destroy" /\ suite' = 1 /\ count' = suite - 1
            /\ load = "failed" /\ load' = "idle"
        BY <2>7 DEF LoadSuiteFailed, LoadedBefore
      <3>2. \/ r < suite /\ r <= count' /\ (r > suite' \/ r = suite')
            \/ r = suite /\ r > count'
            \/ r > suite /\ r > count'
        BY <2>3, <3>1
      <3> QED
        BY <1>4, <2>1, <3>1, <3>2 DEF PlacedAt
    <2>8. CASE AllLoaded
      <3>1. /\ pc = "load" /\ pc' \in {"reporter", "list"} /\ count' = Len(argv)
            /\ suite > Len(argv)
        BY <2>8 DEF AllLoaded
      <3>2. r < suite /\ r <= count'
        BY <2>2, <2>3, <3>1
      <3> QED
        BY <1>4, <2>1, <3>1, <3>2 DEF PlacedAt
    <2>9. CASE List \/ CreateReporter \/ CreateRunner \/ RunFails \/ DestroyRunner
               \/ DestroyReporter
      <3>1. /\ pc \in WithReporter \union {"list", "reporter"}
            /\ pc' \in WithReporter \union {"destroy"}
            /\ count' = count /\ suite = 1 /\ suite' = 1 /\ load' = "idle"
        BY <2>9 DEF List, CreateReporter, CreateRunner, RunFails, DestroyRunner,
           DestroyReporter, loaderVars, ControlInv, WithReporter
      <3>2. /\ ~(r <= count) => r > count'
            /\ r > suite' \/ r = suite'
        BY <2>3, <3>1
      <3> QED
        BY <1>4, <2>1, <3>1, <3>2 DEF PlacedAt
    <2>10. CASE DestroyCollection
      <3>1. /\ pc = "destroy" /\ pc' = "exited" /\ suite > count /\ count' = count
        BY <2>10 DEF DestroyCollection
      <3>2. \/ r <= count /\ r < suite
            \/ r > count /\ ~(r <= count')
        BY <2>3, <3>1
      <3> QED
        BY <2>1, <3>1, <3>2 DEF PlacedAt
    <2> QED
      BY <2>4, <2>5, <2>6, <2>7, <2>8, <2>9, <2>10 DEF CommandStep
  <1> QED
    BY <1>1, <1>2, <1>3, <1>5 DEF OnlyCommand

LEMMA CommandHeap ==
    ASSUME ControlInv, LoadInv, HeapInv, ControlInv', CommandStep
    PROVE  HeapInv'
  <1>1. /\ OnlyCommand /\ step = "idle" /\ UNCHANGED <<isolated, argv>>
        /\ load \in Loads
    BY CommandFrame
  <1>2. faults \in Nat
    BY DEF HeapInv
  <1>3. ASSUME faults' = faults \/ Fault PROVE Going
    <2>1. faults' \in Nat /\ faults' >= faults
      BY <1>2, <1>3 DEF Fault
    <2> QED
      BY <1>1, <2>1 DEF Going
  <1>4. ASSUME NEW got, Acquire(got), Globals' = Globals \union got PROVE HeapInv'
    <2>1. faults' = faults
      BY <1>4 DEF Acquire
    <2> QED
      BY <1>1, <1>3, <1>4, <2>1, CommandAcquires
  <1>5. ASSUME NEW gone, Release(gone, {}), faults' = faults \/ Fault,
               gone \subseteq Globals, Globals' = Globals \ gone
        PROVE  HeapInv'
    BY <1>1, <1>3, <1>5, CommandReleases
  <1>6. ASSUME UNCHANGED <<heap, misused>>, faults' = faults \/ Fault,
               Globals' = Globals
        PROVE  HeapInv'
    <2>1. \A x : x \in Held' <=> x \in Held
      BY <1>1, <1>6, WhoHolds, WhoWillHold DEF OnlyCommand
    <2>2. Held' = Held
      BY <2>1
    <2> QED
      BY <1>3, <1>6, <2>2, HeapSame
  <1>7. CASE Main
    <2>1. /\ UNCHANGED <<heap, misused, faults>> /\ pc = "main"
          /\ pc' \in {"collection", "exited"}
      BY <1>7 DEF Main, heapVars
    <2>2. Globals' = Globals
      BY <2>1 DEF Globals, WithReporter
    <2> QED
      BY <1>6, <2>1, <2>2
  <1>8. CASE AllocCollection
    <2>1. pc = "collection" /\ Globals = {}
      BY <1>8 DEF AllocCollection, Globals, WithReporter
    <2>2. CASE /\ Acquire({<<"collection">>})
               /\ pc' = IF argv = <<>> THEN "load" ELSE "testsuites"
      <3>1. Globals' = {<<"collection">>}
        BY <1>1, <2>2 DEF Globals, WithReporter
      <3> QED
        BY <1>4, <2>1, <2>2, <3>1
    <2>3. CASE FaultOnly /\ pc' = "exited"
      <3>1. Globals' = {}
        BY <2>3 DEF Globals, WithReporter
      <3> QED
        BY <1>6, <2>1, <2>3, <3>1 DEF FaultOnly
    <2> QED
      BY <1>8, <2>2, <2>3 DEF AllocCollection
  <1>9. CASE AllocTestsuites
    <2>1. pc = "testsuites" /\ argv # <<>> /\ Globals = {<<"collection">>}
      BY <1>9 DEF AllocTestsuites, Globals, WithReporter, ControlInv
    <2>2. CASE Acquire({<<"testsuites">>}) /\ pc' = "load"
      <3>1. Globals' = {<<"collection">>, <<"testsuites">>}
        BY <1>1, <2>1, <2>2 DEF Globals, WithReporter
      <3>2. Globals' = Globals \union {<<"testsuites">>}
        BY <2>1, <3>1
      <3> QED
        BY <1>4, <2>2, <3>2
    <2>3. CASE Fault /\ Release({<<"collection">>}, {}) /\ pc' = "exited"
      <3>1. Globals' = {}
        BY <2>3 DEF Globals, WithReporter
      <3>2. {<<"collection">>} \subseteq Globals /\ Globals' = Globals \ {<<"collection">>}
        BY <2>1, <3>1
      <3> QED
        BY <1>5, <2>3, <3>2
    <2> QED
      BY <1>9, <2>2, <2>3 DEF AllocTestsuites
  <1>10. CASE LoadTestsuite \/ TestsuiteLoaded \/ LoadSuiteFailed \/ AllLoaded
    <2>1. /\ UNCHANGED <<heap, misused, faults>> /\ pc = "load"
          /\ pc' \in {"load", "destroy", "reporter", "list"}
      BY <1>10 DEF LoadTestsuite, TestsuiteLoaded, LoadSuiteFailed, AllLoaded, heapVars
    <2>2. Globals' = Globals
      BY <1>1, <2>1 DEF Globals, WithReporter
    <2> QED
      BY <1>6, <2>1, <2>2
  <1>11. CASE List
    <2> DEFINE names == {<<"handle", s>> : s \in 1 .. count}
    <2>1. /\ Release({}, names) /\ pc = "list" /\ pc' = "destroy" /\ faults' = faults
      BY <1>11 DEF List
    <2>2. Globals' = Globals
      BY <1>1, <2>1 DEF Globals, WithReporter
    <2>3. \A x : x \in Held' <=> x \in Held
      BY <1>1, <2>2, WhoHolds, WhoWillHold DEF OnlyCommand
    <2>4. names \subseteq Held
      <3> SUFFICES ASSUME NEW s \in 1 .. count PROVE <<"handle", s>> \in Held
        OBVIOUS
      <3>1. s \in 1 .. Len(argv) /\ s <= count
        BY DEF ControlInv
      <3>2. PartsOf(s) = WholeOf(Tests(s), s)
        BY <2>1, <3>1, PartsPlaced DEF Placed, PlacedAt
      <3>3. <<"handle", s>> \in PartsOf(s)
        BY <3>2 DEF WholeOf, RestOf
      <3> QED
        BY <3>1, <3>3, WhoHolds
    <2> HIDE DEF names
    <2>5. Held' \subseteq Held \ {} /\ \A x \in Held \ {} : x \in Held' \/ Lost(x)'
      BY <2>3
    <2> QED
      BY <1>3, <2>1, <2>4, <2>5, HeldReleases
  <1>12. CASE CreateReporter
    <2>1. /\ pc = "reporter"
          /\ Globals = {<<"collection">>}
                         \union (IF argv = <<>> THEN {} ELSE {<<"testsuites">>})
      BY <1>12 DEF CreateReporter, Globals, WithReporter
    <2>2. CASE Acquire({<<"reporter">>, <<"console">>}) /\ pc' = "runner"
      <3>1. Globals' = Globals \union {<<"reporter">>, <<"console">>}
        BY <1>1, <2>1, <2>2 DEF Globals, WithReporter
      <3> QED
        BY <1>4, <2>2, <3>1
    <2>3. CASE FaultOnly /\ pc' = "destroy"
      <3>1. Globals' = Globals
        BY <1>1, <2>1, <2>3 DEF Globals, WithReporter
      <3> QED
        BY <1>6, <2>3, <3>1 DEF FaultOnly
    <2> QED
      BY <1>12, <2>2, <2>3 DEF CreateReporter
  <1>13. CASE CreateRunner
    <2>1. pc = "runner"
      BY <1>13 DEF CreateRunner
    <2>2. CASE Acquire({<<"runner">>}) /\ pc' = "run"
      <3>1. Globals' = Globals \union {<<"runner">>}
        BY <1>1, <2>1, <2>2 DEF Globals, WithReporter
      <3> QED
        BY <1>4, <2>2, <3>1
    <2>3. CASE FaultOnly /\ pc' = "runner_creation_failed"
      <3>1. Globals' = Globals
        BY <1>1, <2>1, <2>3 DEF Globals, WithReporter
      <3> QED
        BY <1>6, <2>3, <3>1 DEF FaultOnly
    <2> QED
      BY <1>13, <2>2, <2>3 DEF CreateRunner
  <1>14. CASE RunFails
    <2>1. FaultOnly /\ pc' = pc
      BY <1>14 DEF RunFails
    <2>2. Globals' = Globals
      BY <1>1, <2>1 DEF Globals
    <2> QED
      BY <1>6, <2>1, <2>2 DEF FaultOnly
  <1>15. CASE DestroyRunner
    <2>1. /\ pc = "run" /\ pc' = "runner_creation_failed" /\ faults' = faults
          /\ Release({<<"runner">>}, {})
      BY <1>15 DEF DestroyRunner
    <2>2. {<<"runner">>} \subseteq Globals /\ Globals' = Globals \ {<<"runner">>}
      BY <1>1, <2>1 DEF Globals, WithReporter
    <2> QED
      BY <1>5, <2>1, <2>2
  <1>16. CASE DestroyReporter
    <2>1. /\ pc = "runner_creation_failed" /\ pc' = "destroy" /\ faults' = faults
          /\ Release({<<"reporter">>, <<"console">>}, {})
      BY <1>16 DEF DestroyReporter
    <2>2. /\ {<<"reporter">>, <<"console">>} \subseteq Globals
          /\ Globals' = Globals \ {<<"reporter">>, <<"console">>}
      BY <1>1, <2>1 DEF Globals, WithReporter
    <2> QED
      BY <1>5, <2>1, <2>2
  <1>17. CASE DestroyCollection
    <2> DEFINE both == {<<"collection">>}
                         \union (IF argv = <<>> THEN {} ELSE {<<"testsuites">>})
    <2>1. /\ pc = "destroy" /\ pc' = "exited" /\ faults' = faults
          /\ Release(both, {})
      BY <1>17 DEF DestroyCollection
    <2>2. Globals = both /\ Globals' = {}
      BY <1>1, <2>1 DEF Globals, WithReporter
    <2> HIDE DEF both
    <2>3. both \subseteq Globals /\ Globals' = Globals \ both
      BY <2>2
    <2> QED
      BY <1>5, <2>1, <2>3
  <1> QED
    BY <1>7, <1>8, <1>9, <1>10, <1>11, <1>12, <1>13, <1>14, <1>15, <1>16, <1>17
    DEF CommandStep

\* testsuite_op_destroy__ releases the tests while the module is still there,
\* then the rest of the suite.
LEMMA DestroyHeap ==
    ASSUME ControlInv, LoadInv, HeapInv, ControlInv', DestroyTestsuite
    PROVE  HeapInv'
  <1>1. /\ pc = "destroy" /\ pc' = "destroy" /\ suite <= count /\ count' = count
        /\ UNCHANGED <<argv, isolated, step, reportVars>>
    BY DEF DestroyTestsuite, cliVars, reportVars
  <1>2. /\ Len(argv) \in Nat /\ suite \in 1 .. (Len(argv) + 1)
        /\ count \in 0 .. Len(argv) /\ load \in {"idle", "closing"} /\ step = "idle"
        /\ load \in Loads
    BY <1>1 DEF ControlInv
  <1>3. PICK s \in 1 .. Len(argv) : s = suite /\ s <= count
    BY <1>1, <1>2
  <1>4. PICK ts : ts = Tests(s)
    OBVIOUS
  <1>5. \A r : Tests(r)' = Tests(r)
    BY <1>1 DEF Tests
  <1>6. Placed /\ Placed'
    BY PartsPlaced, PartsPlacedNext
  <1>7. /\ \/ load = "idle" /\ load' = "closing" /\ suite' = suite
           \/ load = "closing" /\ load' = "idle" /\ suite' = suite + 1
        /\ faults' = faults
    BY <1>2 DEF DestroyTestsuite, DestroyTests, CloseSuite
  <1>8. OnlySuite(s)
    <2>1. Globals' = Globals
      BY <1>1 DEF Globals
    <2>2. CaseParts' = CaseParts
      BY <1>1 DEF reportVars, outputVars, CaseParts, ResultBlock, FailureBlock, Buffer
    <2>3. ASSUME NEW r \in 1 .. Len(argv), r # s PROVE PartsOf(r)' = PartsOf(r)
      <3>1. PlacedAt(r) /\ PlacedAt(r)'
        BY <1>1, <1>6 DEF Placed
      <3>2. \/ r > count
            \/ r <= count /\ r < suite /\ r < suite'
            \/ /\ r <= count /\ r > suite
               /\ r > suite' \/ (r = suite' /\ load' = "idle")
        BY <1>2, <1>3, <1>7, <2>3
      <3> QED
        BY <1>1, <1>5, <3>1, <3>2 DEF PlacedAt
    <2> QED
      BY <1>1, <2>1, <2>2, <2>3 DEF OnlySuite
  <1>9. Going
    BY <1>1, <1>2, <1>7 DEF Going, HeapInv
  <1>10. PlacedAt(s) /\ PlacedAt(s)'
    BY <1>1, <1>6 DEF Placed
  <1>11. CASE load = "idle"
    <2>1. /\ Release(SuiteTests(s), NeededFor(s, SuiteTests(s)))
          /\ suite' = s /\ load' = "closing"
      BY <1>3, <1>11 DEF DestroyTestsuite, DestroyTests
    <2>2. /\ PartsOf(s) = WholeOf(ts, s)
          /\ PartsOf(s)' = {<<"advice", s>>} \union RestOf(ts, s)
      BY <1>1, <1>3, <1>4, <1>5, <1>10, <1>11, <2>1 DEF PlacedAt
    <2>3. SuiteTests(s) = TestsPartsIn(ts, s, Len(ts))
      BY <1>4, PartsOfLoader
    <2>4. SuiteTests(s) \subseteq PartsOf(s) /\ <<"handle", s>> \in PartsOf(s)
      BY <2>2, <2>3 DEF WholeOf, RestOf
    <2>5. NeededFor(s, SuiteTests(s)) \subseteq PartsOf(s)
      BY <2>4, NeedsHandle
    <2>6. \A x \in SuiteTests(s) : x \notin {<<"advice", s>>} \union RestOf(ts, s)
      BY <2>3, TestsOnly
    <2>7. PartsOf(s)' = PartsOf(s) \ SuiteTests(s)
      BY <2>2, <2>3, <2>6 DEF WholeOf
    <2> QED
      BY <1>2, <1>8, <1>9, <2>1, <2>4, <2>5, <2>7, SuiteReleases
  <1>12. CASE load = "closing"
    <2>1. Release(SuiteRest(s), {}) /\ suite' = s + 1 /\ load' = "idle"
      BY <1>3, <1>12 DEF DestroyTestsuite, CloseSuite
    <2>2. /\ PartsOf(s) = {<<"advice", s>>} \union RestOf(ts, s)
          /\ PartsOf(s)' = {<<"advice", s>>}
      BY <1>1, <1>3, <1>4, <1>5, <1>10, <1>12, <2>1 DEF PlacedAt
    <2>3. SuiteRest(s) = RestOf(ts, s)
      BY <1>4, PartsOfLoader
    <2>4. <<"advice", s>> \notin RestOf(ts, s)
      BY DEF RestOf, ArrayOf
    <2>5. SuiteRest(s) \subseteq PartsOf(s) /\ PartsOf(s)' = PartsOf(s) \ SuiteRest(s)
      BY <2>2, <2>3, <2>4
    <2> QED
      BY <1>2, <1>8, <1>9, <2>1, <2>5, SuiteReleases
  <1> QED
    BY <1>2, <1>11, <1>12

(***************************************************************************)
(* What a test case acquires and releases                                   *)
(***************************************************************************)

\* The steps of a test case.
TestcaseStep == RunTestcase \/ InTestcase \/ TestcaseReturns
LEMMA TestcaseFrame ==
    ASSUME ControlInv, LoadInv, ControlInv', TestcaseStep
    PROVE  /\ OnlyTestcase /\ load \in Loads /\ isolated' = isolated
           /\ {<<"console">>} \subseteq Globals
  <1>1. pc = "run" /\ UNCHANGED <<suite, test, cases, load, argv, isolated, pc, count>>
    BY DEF TestcaseStep, RunTestcase, InTestcase, TestcaseReturns, cliVars, loaderVars
  <1>2. Globals' = Globals /\ {<<"console">>} \subseteq Globals
    BY <1>1 DEF Globals, WithReporter
  <1>3. \A r : Tests(r)' = Tests(r)
    BY <1>1 DEF Tests
  <1>4. ASSUME NEW r \in 1 .. Len(argv) PROVE PartsOf(r)' = PartsOf(r)
    BY <1>1, <1>3 DEF PartsOf
  <1> QED
    BY <1>1, <1>2, <1>4 DEF OnlyTestcase, ControlInv

LEMMA ResultStep ==
    ASSUME ResultInv, [Next]_allVars
    PROVE  ResultInv'
  <1>1. CASE RunTestcase
    <2>1. step = "idle" /\ failure' = failure /\ failure = <<>>
      BY <1>1 DEF RunTestcase, Start, ResultInv
    <2>2. step' \in InProgress => reporter' = "RUNNING"
      BY <1>1 DEF RunTestcase, Start, InProgress
    <2> QED
      BY <2>1, <2>2 DEF ResultInv
  <1>2. CASE InTestcase
    BY <1>2 DEF InTestcase, ReportStep, CollectOutput, SetFailure, BuildOutput,
       Complete, ResultInv, InProgress
  <1>3. CASE TestcaseReturns
    BY <1>3 DEF TestcaseReturns, Forget, ResultInv, InProgress
  <1>4. CASE CommandStep \/ InLoader \/ DestroyTestsuite \/ UNCHANGED allVars
    <2>1. UNCHANGED <<step, failure, reporter>>
      BY <1>4 DEF CommandStep, Main, AllocCollection, AllocTestsuites, LoadTestsuite,
         TestsuiteLoaded, LoadSuiteFailed, AllLoaded, List, CreateReporter,
         CreateRunner, RunFails, DestroyRunner, DestroyReporter, DestroyCollection,
         InLoader, DestroyTestsuite, allVars, reportVars
    <2> QED
      BY <2>1 DEF ResultInv
  <1> QED
    BY <1>1, <1>2, <1>3, <1>4 DEF Next, Step, CommandStep

\* What a resize acquires: a buffer, unless there was one, or nothing.
LEMMA ResizedHeap ==
    ASSUME NEW to \in Nat, Resize(to)
    PROVE  /\ misused' = misused
           /\ \/ heap' = heap \union Buffer /\ capacity' = to /\ faults' = faults
              \/ heap' = heap /\ capacity' = capacity /\ Fault
  BY DEF Resize, Acquire, FaultOnly

LEMMA TestcaseHeap ==
    ASSUME ControlInv, LoadInv, HeapInv, OutputInv, ResultInv, ControlInv', TestcaseStep
    PROVE  HeapInv'
  <1>1. /\ OnlyTestcase /\ load \in Loads /\ isolated' = isolated
        /\ {<<"console">>} \subseteq Globals
    BY TestcaseFrame
  <1>2. faults \in Nat /\ misused = FALSE
    BY DEF HeapInv
  <1>3. ASSUME step # "dead", faults' = faults \/ Fault PROVE Going
    <2>1. faults' \in Nat /\ faults' >= faults
      BY <1>2, <1>3 DEF Fault
    <2> QED
      BY <1>1, <1>3, <2>1 DEF Going
  <1>4. ASSUME NEW got, step # "dead", faults' = faults \/ Fault,
               heap' = heap \union got, misused' = misused,
               CaseParts' = CaseParts \union got
        PROVE  HeapInv'
    <2>1. /\ CaseParts' \subseteq CaseParts \union got
          /\ \A x \in CaseParts \union got : x \in CaseParts' \/ Lost(x)'
      BY <1>4
    <2> QED
      BY <1>1, <1>3, <1>4, <2>1, TestcaseAcquires
  <1>5. ASSUME step # "dead", faults' = faults \/ Fault,
               heap' = heap, misused' = misused, CaseParts' = CaseParts
        PROVE  HeapInv'
    <2>1. heap' = heap \union {} /\ CaseParts' = CaseParts \union {}
      BY <1>5
    <2> QED
      BY <1>4, <1>5, <2>1
  <1>6. CASE RunTestcase
    <2>1. PICK t : Start(t)
      BY <1>6 DEF RunTestcase
    <2>2. /\ step = "idle" /\ failure = <<>> /\ capacity = 0
          /\ UNCHANGED <<failure, capacity, output>> /\ testcase' = t
          /\ CaseParts = {}
      BY <2>1 DEF Start, ResultInv, OutputInv, Blank, CaseParts, InProgress
    <2>3. CASE /\ Acquire({<<"result", t>>})
               /\ step' = IF isolated THEN "output" ELSE "verdict"
      <3>1. /\ heap' = heap \union {<<"result", t>>} /\ misused' = misused
            /\ faults' = faults
        BY <2>3 DEF Acquire
      <3>2. CaseParts' = CaseParts \union {<<"result", t>>}
        BY <2>2, <2>3 DEF CaseParts, InProgress, ResultBlock
      <3> QED
        BY <1>4, <2>2, <3>1, <3>2
    <2>4. CASE FaultOnly /\ step' = IF isolated THEN "returned" ELSE "dead"
      <3>1. CaseParts' = CaseParts
        BY <2>2, <2>4 DEF CaseParts, InProgress
      <3> QED
        BY <1>5, <2>2, <2>4, <3>1 DEF FaultOnly
    <2>5. CASE /\ ~isolated /\ Fault /\ heap' = heap \union {<<"result", t>>}
               /\ step' = "returned" /\ misused' = misused
      <3>1. CaseParts' = {}
        BY <2>5 DEF CaseParts, InProgress
      <3>2. faults' > 0
        BY <1>2, <2>5 DEF Fault
      <3>3. /\ CaseParts' \subseteq CaseParts \union {<<"result", t>>}
            /\ \A x \in CaseParts \union {<<"result", t>>} : x \in CaseParts' \/ Lost(x)'
        BY <1>1, <2>2, <2>5, <3>1, <3>2 DEF Lost
      <3>4. Going
        BY <1>3, <2>2, <2>5
      <3> QED
        BY <1>1, <2>5, <3>3, <3>4, TestcaseAcquires
    <2> QED
      BY <2>1, <2>3, <2>4, <2>5 DEF Start
  <1>7. CASE InTestcase /\ CollectOutput
    <2>1. /\ step = "output" /\ step' \in {"output", "verdict"}
          /\ UNCHANGED <<failure, testcase>>
      BY <1>7 DEF CollectOutput
    <2>2. /\ capacity \in Nat /\ kept \in Seq(Nat)
          /\ isolated /\ output = "none"
      BY <2>1 DEF OutputInv, OutputTypeOK
    <2>3. CASE OnDataAvailable
      <3>1. Grown \in Nat /\ Grown # 0
        <4>1. Initial \in Nat \ {0} /\ Len(kept) \in Nat
          BY <2>2, OutputAssumption
        <4> QED
          BY <2>2, <4>1 DEF Grown
      <3>2. /\ misused' = misused
            /\ \/ heap' = heap \union Buffer /\ capacity' = Grown /\ faults' = faults
               \/ heap' = heap /\ capacity' = capacity /\ Fault
        BY <2>3, <3>1, ResizedHeap DEF OnDataAvailable
      <3>3. CASE heap' = heap \union Buffer /\ capacity' = Grown /\ faults' = faults
        <4>1. CaseParts' = CaseParts \union Buffer
          BY <2>1, <3>1, <3>3 DEF CaseParts, InProgress, ResultBlock, FailureBlock,
             Buffer
        <4> QED
          BY <1>4, <2>1, <3>2, <3>3, <4>1
      <3>4. CASE heap' = heap /\ capacity' = capacity /\ Fault
        <4>1. CaseParts' = CaseParts
          BY <2>1, <3>4 DEF CaseParts, InProgress, ResultBlock, FailureBlock, Buffer
        <4> QED
          BY <1>5, <2>1, <3>2, <3>4, <4>1
      <3> QED
        BY <3>2, <3>3, <3>4
    <2>4. CASE UNCHANGED <<heapVars, outputVars>>
      <3>1. CaseParts' = CaseParts
        BY <2>1, <2>4 DEF CaseParts, InProgress, ResultBlock, FailureBlock, Buffer,
           outputVars
      <3> QED
        BY <1>5, <2>1, <2>4, <3>1 DEF heapVars
    <2> QED
      BY <1>7, <2>3, <2>4 DEF CollectOutput
  <1>8. CASE InTestcase /\ SetFailure
    <2>1. /\ step = "verdict" /\ step' = "build" /\ failure = <<>>
          /\ UNCHANGED <<testcase, capacity, output>>
      BY <1>8 DEF SetFailure, ResultInv, outputVars
    <2>2. CASE UNCHANGED <<heap, misused, failure>> /\ (faults' = faults \/ Fault)
      <3>1. CaseParts' = CaseParts
        BY <2>1, <2>2 DEF CaseParts, InProgress, ResultBlock, FailureBlock, Buffer
      <3> QED
        BY <1>5, <2>1, <2>2, <3>1
    <2>3. CASE /\ failure' # <<>> /\ heap' = heap \union FailureBlock
               /\ misused' = misused /\ (faults' = faults \/ Fault)
      <3>1. CaseParts' = CaseParts \union FailureBlock
        BY <2>1, <2>3 DEF CaseParts, InProgress, ResultBlock, FailureBlock, Buffer
      <3> QED
        BY <1>4, <2>1, <2>3, <3>1
    <2> QED
      BY <1>8, <2>1, <2>2, <2>3 DEF SetFailure, FaultOnly, heapVars
  <1>9. CASE InTestcase /\ BuildOutput
    <2>1. /\ step = "build" /\ step' = "complete" /\ UNCHANGED <<failure, testcase>>
          /\ IF isolated THEN Build ELSE ReadOutput
      BY <1>9 DEF BuildOutput
    <2>2. capacity \in Nat /\ kept \in Seq(Nat) /\ output = "none"
          /\ (~isolated => capacity = 0)
      BY <2>1 DEF OutputInv, OutputTypeOK, Blank
    <2> DEFINE fixed == ResultBlock \union (IF failure = <<>> THEN {} ELSE FailureBlock)
    <2>3. /\ CaseParts = fixed \union (IF capacity = 0 THEN {} ELSE Buffer)
          /\ CaseParts' = fixed \union (IF output' = "none" THEN {} ELSE Buffer)
      BY <2>1 DEF CaseParts, InProgress, ResultBlock, FailureBlock, Buffer
    <2>4. ASSUME heap' = heap \union Buffer, misused' = misused, output' # "none",
                 faults' = faults \/ Fault
          PROVE  HeapInv'
      <3>1. CaseParts' = CaseParts \union Buffer
        BY <2>3, <2>4
      <3> QED
        BY <1>4, <2>1, <2>4, <3>1
    <2>5. ASSUME heap' = heap, misused' = misused, faults' = faults \/ Fault,
                 output' = "none" <=> capacity = 0
          PROVE  HeapInv'
      <3>1. CaseParts' = CaseParts
        BY <2>3, <2>5
      <3> QED
        BY <1>5, <2>1, <2>5, <3>1
    <2>6. CASE isolated /\ NoCells
      <3>1. /\ Release(heap \intersect Buffer, {}) /\ output' = "none"
            /\ faults' = faults
        BY <2>1, <2>2, <2>6 DEF Build
      <3>2. heap \intersect Buffer \subseteq CaseParts
        <4> SUFFICES ASSUME <<"output">> \in heap PROVE <<"output">> \in CaseParts
          BY DEF Buffer
        <4>1. PICK x : x = <<"output">> /\ x[1] = "output"
          OBVIOUS
        <4>2. x \in Held
          BY <2>1, <4>1 DEF HeapInv, Lost
        <4>3. x[1] \notin SuiteKinds \union GlobalKinds
          BY <4>1 DEF SuiteKinds, GlobalKinds
        <4> QED
          BY <1>1, <4>1, <4>2, <4>3, WhoHolds, KindsApart DEF PartOf
      <3>3. CaseParts \subseteq heap
        BY <2>1, WhoHolds DEF HeapInv
      <3>4. \A x \in fixed : x \notin Buffer
        BY DEF ResultBlock, FailureBlock, Buffer
      <3> HIDE DEF fixed
      <3>5. CaseParts' = CaseParts \ (heap \intersect Buffer)
        BY <2>3, <3>1, <3>3, <3>4
      <3>6. Going /\ {} \subseteq Globals
        BY <1>3, <2>1, <3>1
      <3> QED
        BY <1>1, <3>1, <3>2, <3>5, <3>6, TestcaseReleases
    <2>7. CASE isolated /\ ~NoCells
      <3>1. /\ Resize(CutTo) /\ output' \in {"intact", "overrun"} /\ capacity # 0
            /\ CutTo \in Nat
        BY <2>1, <2>2, <2>7 DEF Build, NoCells, CutTo
      <3>2. /\ misused' = misused
            /\ \/ heap' = heap \union Buffer /\ faults' = faults
               \/ heap' = heap /\ Fault
        BY <3>1, ResizedHeap
      <3> QED
        BY <2>4, <2>5, <3>1, <3>2
    <2>8. CASE ~isolated
      <3>1. \/ Acquire(Buffer) /\ output' = "intact"
            \/ Fault /\ UNCHANGED <<heap, misused, output>>
            \/ Fault /\ heap' = heap \union Buffer /\ output' = "intact"
               /\ misused' = misused
        BY <2>1, <2>8 DEF ReadOutput
      <3> QED
        BY <2>2, <2>4, <2>5, <2>8, <3>1 DEF Acquire
    <2> QED
      BY <2>6, <2>7, <2>8
  <1>10. CASE InTestcase /\ Complete
    <2>1. step = "complete" /\ reporter = "RUNNING" /\ UNCHANGED <<failure, testcase>>
      BY <1>10 DEF Complete, ResultInv, InProgress
    <2>2. CASE step' = "dead" /\ UNCHANGED heapVars
      <3>1. UNCHANGED <<misused, faults>>
        BY <2>2 DEF heapVars
      <3> QED
        BY <1>2, <2>2, <3>1 DEF HeapInv
    <2>3. CASE /\ Release(ResultParts, {<<"console">>}) /\ step' = "returned"
               /\ faults' = faults
      <3>1. CaseParts = ResultParts /\ CaseParts' = {}
        BY <2>1, <2>3 DEF CaseParts, ResultParts, InProgress
      <3>2. ResultParts \subseteq CaseParts /\ CaseParts' = CaseParts \ ResultParts
        BY <3>1
      <3>3. Going
        BY <1>3, <2>1, <2>3
      <3> QED
        BY <1>1, <2>3, <3>2, <3>3, TestcaseReleases
    <2> QED
      BY <1>10, <2>1, <2>2, <2>3 DEF Complete
  <1>11. CASE TestcaseReturns
    <2>1. /\ step = "returned" /\ step' = "idle"
          /\ UNCHANGED <<heap, misused, faults>>
      BY <1>11 DEF TestcaseReturns, Forget, heapVars
    <2>2. CaseParts' = CaseParts
      BY <2>1 DEF CaseParts, InProgress
    <2> QED
      BY <1>5, <2>1, <2>2
  <1> QED
    BY <1>6, <1>7, <1>8, <1>9, <1>10, <1>11 DEF TestcaseStep, InTestcase, ReportStep

(***************************************************************************)
(* The invariant                                                            *)
(***************************************************************************)

CliInv == ControlInv /\ LoadInv /\ OutputInv /\ ResultInv /\ HeapInv

\* The output has not been touched yet.
LEMMA OutputInitInv == Init => OutputInv
  <1> SUFFICES ASSUME Init PROVE OutputInv
    OBVIOUS
  <1>1. /\ unread = <<>> /\ capacity = 0 /\ kept = <<>> /\ output = "none"
        /\ starved = FALSE /\ step = "idle" /\ reporter = "PENDING"
        /\ printed = 0 /\ isolated \in BOOLEAN
    BY DEF Init, ReportInit, OutputInit
  <1>2. OutputTypeOK
    <2>1. Len(<<>>) = 0 /\ <<>> \in Seq(Nat)
      OBVIOUS
    <2>2. /\ unread \in Seq(Nat) /\ kept \in Seq(Nat) /\ capacity \in Nat
          /\ printed \in Nat /\ Len(unread) <= printed
      BY <1>1, <2>1
    <2>3. starved \in BOOLEAN /\ isolated \in BOOLEAN
      BY <1>1, Zenon
    <2> QED
      BY <2>2, <2>3, Zenon DEF OutputTypeOK
  <1>3. Blank
    BY <1>1 DEF Blank
  <1> QED
    BY <1>1, <1>2, <1>3 DEF OutputInv, OutputIntact

LEMMA CliInitInv == Init => CliInv
  <1> SUFFICES ASSUME Init PROVE CliInv
    OBVIOUS
  <1>1. ControlInv /\ LoadInv /\ OutputInv
    BY ControlInitInv, OutputInitInv
  <1>2. /\ step = "idle" /\ failure = <<>> /\ pc = "main" /\ count = 0
        /\ heap = {} /\ misused = FALSE /\ faults = 0
    BY DEF Init, ReportInit, HeapInit
  <1>3. ResultInv
    BY <1>2 DEF ResultInv, InProgress
  <1>4. Globals = {} /\ CaseParts = {}
    BY <1>2 DEF Globals, WithReporter, CaseParts, InProgress
  <1>5. \A r \in 1 .. Len(argv) : PartsOf(r) = {}
    BY <1>1, <1>2, PartsPlaced DEF Placed, PlacedAt
  <1>6. \A x : x \notin Held
    BY <1>4, <1>5, WhoHolds
  <1>7. HeapInv
    BY <1>2, <1>6 DEF HeapInv
  <1> QED
    BY <1>1, <1>3, <1>7 DEF CliInv

LEMMA CliStep ==
    ASSUME CliInv, [Next]_allVars
    PROVE  CliInv'
  <1> USE DEF CliInv
  <1>1. ControlInv' /\ LoadInv'
    BY ControlStep
  <1>2. OutputInv' /\ ResultInv'
    BY OutputStep, ResultStep
  <1>3. HeapInv'
    <2>1. CASE CommandStep
      BY <1>1, <2>1, CommandHeap
    <2>2. CASE InLoader
      BY <2>2, LoaderHeap
    <2>3. CASE DestroyTestsuite
      BY <1>1, <2>3, DestroyHeap
    <2>4. CASE TestcaseStep
      BY <1>1, <2>4, TestcaseHeap
    <2>5. CASE UNCHANGED allVars
      <3>1. /\ UNCHANGED <<heap, misused, faults, isolated, argv, pc, suite, test, cases,
                           load, count>>
            /\ UNCHANGED <<step, failure, testcase, capacity, output>>
        BY <2>5 DEF allVars, heapVars, cliVars, loaderVars, reportVars, outputVars
      <3>2. Globals' = Globals /\ CaseParts' = CaseParts
        BY <3>1 DEF Globals, CaseParts, ResultBlock, FailureBlock, Buffer
      <3>3. \A r : PartsOf(r)' = PartsOf(r)
        BY <3>1 DEF PartsOf, Tests
      <3>4. \A x : x \in Held' <=> x \in Held
        BY <3>1, <3>2, <3>3, WhoHolds, WhoWillHold
      <3> QED
        BY <3>1, <3>4 DEF HeapInv, Lost
    <2> QED
      BY <2>1, <2>2, <2>3, <2>4, <2>5
      DEF Next, Step, CommandStep, TestcaseStep
  <1> QED
    BY <1>1, <1>2, <1>3

\* The control, the output of the test case in progress and what is held fit
\* together at every step of the command.
THEOREM CliInvariance == Spec => []CliInv
  <1>1. Init => CliInv
    BY CliInitInv
  <1>2. CliInv /\ [Next]_allVars => CliInv'
    BY CliStep
  <1> QED
    BY <1>1, <1>2, PTL DEF Spec

\* Whatever calls of the loader, the reporter, the runner or the results fail,
\* and whatever suites are named: everything that was acquired is released once
\* and while what is needed for it is still there, and when the command exits
\* only what is known to be forgotten is left.
THEOREM EverythingReleased == Spec => []Released
  <1>1. CliInv => Released
    <2> SUFFICES ASSUME CliInv PROVE Released
      OBVIOUS
    <2> USE DEF CliInv
    <2>1. ~misused
      BY DEF HeapInv
    <2>2. load \in Loads /\ argv \in Seq(Files) /\ count \in 0 .. Len(argv)
          /\ DOMAIN argv = 1 .. Len(argv)
      BY DEF ControlInv
    <2>3. ASSUME step = "idle", NEW x \in heap
          PROVE  /\ x[1] \notin {"output", "failure"}
                 /\ \/ Lost(x) \/ x \in Globals
                    \/ \E s \in 1 .. Len(argv) : x \in PartsOf(s)
      <3>1. CaseParts = {}
        BY <2>3 DEF CaseParts, InProgress
      <3>2. \/ Lost(x) \/ x \in Globals
            \/ \E s \in 1 .. Len(argv) : x \in PartsOf(s)
        BY <2>3, <3>1, WhoHolds DEF HeapInv
      <3>3. x[1] \in {"tests", "result"} \union GlobalKinds \union SuiteKinds
        BY <2>2, <3>2, KindsApart DEF Lost, PartOf
      <3> QED
        BY <3>2, <3>3 DEF GlobalKinds, SuiteKinds
    <2>4. ASSUME pc = "exited"
          PROVE  /\ \A thing \in heap : Forgotten(thing)
                 /\ \A s \in DOMAIN argv : <<"advice", s>> \in heap <=> s <= count
      <3>1. step = "idle" /\ Globals = {}
        BY <2>4 DEF ControlInv, Globals, WithReporter
      <3>2. \A r \in 1 .. Len(argv) :
              PartsOf(r) = IF r <= count THEN {<<"advice", r>>} ELSE {}
        BY <2>4, PartsPlaced DEF Placed, PlacedAt
      <3>3. ASSUME NEW x \in heap
            PROVE  Lost(x) \/ \E r \in 1 .. Len(argv) : x = <<"advice", r>> /\ r <= count
        BY <2>3, <3>1, <3>2
      <3>4. ASSUME NEW x \in heap PROVE Forgotten(x)
        BY <3>3 DEF Forgotten, Lost
      <3>5. ASSUME NEW s \in 1 .. Len(argv), <<"advice", s>> \in heap PROVE s <= count
        <4>1. PICK x : x = <<"advice", s>>
          OBVIOUS
        <4>2. x[1] = "advice" /\ x[2] = s
          BY <4>1
        <4>3. ~Lost(x)
          BY <4>2 DEF Lost
        <4>4. PICK r \in 1 .. Len(argv) : x = <<"advice", r>> /\ r <= count
          BY <3>3, <3>5, <4>1, <4>3
        <4>5. r = s
          BY <4>2, <4>4
        <4> QED
          BY <4>4, <4>5
      <3>6. ASSUME NEW s \in 1 .. Len(argv), s <= count PROVE <<"advice", s>> \in heap
        BY <3>1, <3>2, <3>6, WhoHolds DEF HeapInv
      <3> QED
        BY <2>2, <3>4, <3>5, <3>6
    <2> QED
      BY <2>1, <2>3, <2>4 DEF Released
  <1> QED
    BY <1>1, CliInvariance, PTL

\* What a test case prints is in its result, whole, in order and terminated
\* within its buffer, for output of any length and buffers that start at any
\* size, when output_reader.c or read_output__ was given the memory it asked
\* for; otherwise what is there is still in order.
THEOREM OutputAlwaysIntact == Spec => []OutputIntact
  <1>1. CliInv => OutputIntact
    BY DEF CliInv, OutputInv
  <1> QED
    BY <1>1, CliInvariance, PTL

(***************************************************************************)
(* Concatenations                                                           *)
(***************************************************************************)

\* Every element comes from one of the sequences, ...
FromOne(seqs, n, w) ==
    \A a \in 1 .. Len(w) :
        \E j \in 1 .. n : \E b \in 1 .. Len(seqs[j]) : w[a] = seqs[j][b]
\* ... and none comes twice.
Once(w) == \A a, b \in 1 .. Len(w) : w[a] = w[b] => a = b
Apart(seqs) ==
    /\ \A j \in 1 .. Len(seqs) : Once(seqs[j])
    /\ \A i, j \in 1 .. Len(seqs) : i # j =>
         \A a \in 1 .. Len(seqs[i]), b \in 1 .. Len(seqs[j]) : seqs[i][a] # seqs[j][b]

\* u is v with w behind it.
Behind(u, v, w) ==
    /\ Len(u) = Len(v) + Len(w) /\ Len(v) \in Nat /\ Len(w) \in Nat
    /\ \A a \in 1 .. Len(v) : u[a] = v[a]
    /\ \A a \in 1 .. (Len(v) + Len(w)) : a > Len(v) =>
         a - Len(v) \in 1 .. Len(w) /\ u[a] = w[a - Len(v)]
LEMMA Concatenated ==
    ASSUME NEW X, NEW v \in Seq(X), NEW w \in Seq(X)
    PROVE  v \o w \in Seq(X) /\ Behind(v \o w, v, w)
  <1>1. /\ v \o w \in Seq(X) /\ Len(v \o w) = Len(v) + Len(w)
        /\ \A i \in 1 .. (Len(v) + Len(w)) :
             (v \o w)[i] = IF i <= Len(v) THEN v[i] ELSE w[i - Len(v)]
    BY ConcatProperties
  <1>2. Len(v) \in Nat /\ Len(w) \in Nat
    OBVIOUS
  <1>3. \A a \in 1 .. Len(v) : a \in 1 .. (Len(v) + Len(w)) /\ a <= Len(v)
    BY <1>2
  <1>4. \A a \in 1 .. (Len(v) + Len(w)) :
          a > Len(v) => ~(a <= Len(v)) /\ a - Len(v) \in 1 .. Len(w)
    BY <1>2
  <1> QED
    BY <1>1, <1>2, <1>3, <1>4 DEF Behind

\* FlattenSeq puts the sequences one behind the other.
LEMMA Flattened ==
    ASSUME NEW X, NEW seqs \in Seq(Seq(X))
    PROVE  /\ FlattenSeq(seqs) \in Seq(X)
           /\ FromOne(seqs, Len(seqs), FlattenSeq(seqs))
           /\ Apart(seqs) => Once(FlattenSeq(seqs))
  <1>1. PICK n \in Nat : n = Len(seqs)
    OBVIOUS
  <1>2. PICK f :
          /\ FlattenSeq(seqs) = IF n = 0 THEN seqs ELSE f[n]
          /\ \A i \in 1 .. n : f[i] = IF i = 1 THEN seqs[i] ELSE f[i - 1] \o seqs[i]
    BY <1>1, FlatProperties
  <1> DEFINE Good(k) == /\ f[k] \in Seq(X) /\ FromOne(seqs, k, f[k])
                        /\ Apart(seqs) => Once(f[k])
             S == {k \in 0 .. n : k = 0 \/ Good(k)}
  <1>3. \A i \in 1 .. n : seqs[i] \in Seq(X)
    BY <1>1
  <1>4. 0 \in S
    OBVIOUS
  <1>5. ASSUME NEW k \in 0 .. (n - 1), k \in S PROVE k + 1 \in S
    <2>1. k + 1 \in 1 .. n /\ k + 1 \in 0 .. n
      OBVIOUS
    <2>2. CASE k = 0
      <3>1. f[1] = seqs[1] /\ k + 1 = 1
        BY <1>2, <2>1, <2>2
      <3>2. f[1] \in Seq(X)
        BY <1>3, <2>1, <3>1
      <3>3. FromOne(seqs, 1, f[1])
        BY <3>1 DEF FromOne
      <3>4. Apart(seqs) => Once(f[1])
        BY <1>1, <2>1, <3>1 DEF Apart
      <3>5. Good(k + 1)
        BY <3>1, <3>2, <3>3, <3>4
      <3> QED
        BY <2>1, <3>5
    <2>3. CASE k # 0
      <3>1. PICK v, w : /\ v = f[k] /\ w = seqs[k + 1] /\ f[k + 1] = v \o w
                        /\ v \in Seq(X) /\ w \in Seq(X)
        <4>1. (k + 1) - 1 = k /\ k + 1 # 1
          BY <2>3
        <4> QED
          BY <1>2, <1>3, <1>5, <2>1, <2>3, <4>1
      <3>2. PICK u : u = v \o w
        OBVIOUS
      <3>3. u \in Seq(X) /\ Behind(u, v, w)
        BY <3>1, <3>2, Concatenated
      <3>4. FromOne(seqs, k, v)
        BY <1>5, <2>3, <3>1
      <3>5. FromOne(seqs, k + 1, u)
        <4> SUFFICES ASSUME NEW a \in 1 .. (Len(v) + Len(w))
                     PROVE  \E j \in 1 .. (k + 1) : \E b \in 1 .. Len(seqs[j]) :
                              u[a] = seqs[j][b]
          BY <3>3 DEF FromOne, Behind
        <4>1. CASE a \in 1 .. Len(v)
          <5>1. PICK j \in 1 .. k : \E b \in 1 .. Len(seqs[j]) : v[a] = seqs[j][b]
            BY <3>4, <4>1 DEF FromOne
          <5>2. j \in 1 .. (k + 1)
            OBVIOUS
          <5> QED
            BY <3>3, <4>1, <5>1, <5>2 DEF Behind
        <4>2. CASE a > Len(v)
          <5>1. k + 1 \in 1 .. (k + 1)
            OBVIOUS
          <5> QED
            BY <3>1, <3>3, <4>2, <5>1 DEF Behind
        <4> QED
          BY <3>3, <4>1, <4>2 DEF Behind
      <3>6. ASSUME Apart(seqs) PROVE Once(u)
        <4>1. Once(v) /\ Once(w)
          BY <1>1, <1>5, <2>1, <2>3, <3>1, <3>6 DEF Apart
        <4>2. ASSUME NEW a \in 1 .. Len(v), NEW b \in 1 .. Len(w), v[a] = w[b]
              PROVE  FALSE
          <5>1. PICK j \in 1 .. k : \E c \in 1 .. Len(seqs[j]) : v[a] = seqs[j][c]
            BY <3>4 DEF FromOne
          <5>2. j \in 1 .. n /\ j # k + 1
            OBVIOUS
          <5> QED
            BY <1>1, <2>1, <3>1, <3>6, <4>2, <5>1, <5>2 DEF Apart
        <4> SUFFICES ASSUME NEW a \in 1 .. (Len(v) + Len(w)),
                            NEW b \in 1 .. (Len(v) + Len(w)), u[a] = u[b]
                     PROVE  a = b
          BY <3>3 DEF Once, Behind
        <4>3. /\ a \in 1 .. Len(v) \/ a > Len(v)
              /\ b \in 1 .. Len(v) \/ b > Len(v)
          BY <3>3 DEF Behind
        <4>4. CASE a \in 1 .. Len(v) /\ b \in 1 .. Len(v)
          BY <3>3, <4>1, <4>4 DEF Once, Behind
        <4>5. CASE a > Len(v) /\ b > Len(v)
          <5>1. /\ a - Len(v) \in 1 .. Len(w) /\ b - Len(v) \in 1 .. Len(w)
                /\ w[a - Len(v)] = w[b - Len(v)]
            BY <3>3, <4>5 DEF Behind
          <5>2. a - Len(v) = b - Len(v)
            BY <4>1, <5>1 DEF Once
          <5> QED
            BY <3>3, <5>2 DEF Behind
        <4>6. CASE a \in 1 .. Len(v) /\ b > Len(v)
          BY <3>3, <4>2, <4>6 DEF Behind
        <4>7. CASE a > Len(v) /\ b \in 1 .. Len(v)
          BY <3>3, <4>2, <4>7 DEF Behind
        <4> QED
          BY <4>3, <4>4, <4>5, <4>6, <4>7
      <3>7. Good(k + 1)
        BY <3>1, <3>2, <3>3, <3>5, <3>6
      <3> QED
        BY <2>1, <3>7
    <2> QED
      BY <2>2, <2>3
  <1>6. n \in S
    <2> HIDE DEF S, Good
    <2>1. \A i \in 0 .. (n - 1) : i \in S => i + 1 \in S
      BY <1>5
    <2>2. \A i \in 0 .. n : i \in S
      BY <1>4, <2>1, Induct
    <2> QED
      BY <2>2
  <1>7. CASE n = 0
    <2>1. FlattenSeq(seqs) = seqs /\ seqs = <<>>
      BY <1>1, <1>2, <1>7, EmptySeq
    <2>2. <<>> \in Seq(X) /\ Len(<<>>) = 0
      OBVIOUS
    <2> QED
      BY <2>1, <2>2 DEF FromOne, Once
  <1>8. CASE n # 0
    <2>1. FlattenSeq(seqs) = f[n] /\ Good(n)
      BY <1>2, <1>6, <1>8
    <2> QED
      BY <1>1, <2>1
  <1> QED
    BY <1>7, <1>8

(***************************************************************************)
(* The test cases of the suites                                             *)
(***************************************************************************)

Cases == Nat \X Nat \X Nat
CasesIn(ts, s) ==
    FlattenSeq([t \in DOMAIN ts |-> [c \in DOMAIN ts[t] |-> <<s, t, c>>]])
AllCasesIn(files) ==
    FlattenSeq([s \in DOMAIN files |-> CasesIn(Module[files[s]].tests, s)])

\* The length of a sequence of what 1, ... n are mapped to.
LEMMA LengthOf ==
    ASSUME NEW X, NEW f \in Seq(X), NEW n \in Nat, DOMAIN f = 1 .. n
    PROVE  Len(f) = n
  <1>1. Len(f) \in Nat /\ DOMAIN f = 1 .. Len(f)
    BY LenProperties
  <1> QED
    BY <1>1

\* The test cases of suite s: every one once, and no other's.
LEMMA CasesInProperties ==
    ASSUME NEW ts \in Seq(Seq(BOOLEAN)), NEW s \in Nat
    PROVE  /\ CasesIn(ts, s) \in Seq(Cases) /\ Once(CasesIn(ts, s))
           /\ \A i \in 1 .. Len(CasesIn(ts, s)) : CasesIn(ts, s)[i][1] = s
  <1> DEFINE inTest(t) == [c \in DOMAIN ts[t] |-> <<s, t, c>>]
             seqs == [t \in DOMAIN ts |-> inTest(t)]
  <1>1. /\ DOMAIN ts = 1 .. Len(ts) /\ Len(ts) \in Nat
        /\ \A t \in 1 .. Len(ts) : ts[t] \in Seq(BOOLEAN)
    OBVIOUS
  <1>2. ASSUME NEW t \in 1 .. Len(ts)
        PROVE  /\ inTest(t) \in Seq(Cases) /\ Len(inTest(t)) = Len(ts[t])
               /\ \A c \in 1 .. Len(inTest(t)) : inTest(t)[c] = <<s, t, c>>
    <2>1. DOMAIN ts[t] = 1 .. Len(ts[t]) /\ Len(ts[t]) \in Nat
      BY <1>1
    <2>2. inTest(t) \in Seq(Cases) /\ DOMAIN inTest(t) = 1 .. Len(ts[t])
      BY <2>1 DEF Cases
    <2>3. inTest(t) \in Seq(Cases) /\ Len(inTest(t)) = Len(ts[t])
      <3>1. PICK f : f = inTest(t)
        OBVIOUS
      <3> HIDE DEF inTest
      <3> QED
        BY <2>1, <2>2, <3>1, LengthOf
    <2> QED
      BY <2>1, <2>3
  <1> HIDE DEF inTest
  <1>3. seqs \in Seq(Seq(Cases)) /\ DOMAIN seqs = 1 .. Len(ts)
    BY <1>1, <1>2
  <1>4. \A t \in 1 .. Len(ts) : seqs[t] = inTest(t)
    BY <1>1
  <1>5. CasesIn(ts, s) = FlattenSeq(seqs)
    BY DEF CasesIn, inTest
  <1> HIDE DEF seqs
  <1>6. seqs \in Seq(Seq(Cases)) /\ Len(seqs) = Len(ts)
    BY <1>1, <1>3, LengthOf
  <1>7. Apart(seqs)
    <2>1. ASSUME NEW j \in 1 .. Len(ts) PROVE Once(seqs[j])
      <3> SUFFICES ASSUME NEW a \in 1 .. Len(seqs[j]), NEW b \in 1 .. Len(seqs[j]),
                          seqs[j][a] = seqs[j][b]
                   PROVE  a = b
        BY DEF Once
      <3>1. seqs[j][a] = <<s, j, a>> /\ seqs[j][b] = <<s, j, b>>
        BY <1>2, <1>4
      <3>2. <<s, j, a>>[3] = a /\ <<s, j, b>>[3] = b
        OBVIOUS
      <3> QED
        BY <3>1, <3>2
    <2>2. ASSUME NEW i \in 1 .. Len(ts), NEW j \in 1 .. Len(ts), i # j,
                 NEW a \in 1 .. Len(seqs[i]), NEW b \in 1 .. Len(seqs[j]),
                 seqs[i][a] = seqs[j][b]
          PROVE  FALSE
      <3>1. seqs[i][a] = <<s, i, a>> /\ seqs[j][b] = <<s, j, b>>
        BY <1>2, <1>4
      <3>2. <<s, i, a>>[2] = i /\ <<s, j, b>>[2] = j
        OBVIOUS
      <3> QED
        BY <2>2, <3>1, <3>2
    <2> QED
      BY <1>6, <2>1, <2>2 DEF Apart
  <1>8. PICK w : w = FlattenSeq(seqs)
    OBVIOUS
  <1>9. w \in Seq(Cases) /\ Once(w) /\ FromOne(seqs, Len(ts), w)
    BY <1>6, <1>7, <1>8, Flattened
  <1>10. ASSUME NEW i \in 1 .. Len(w) PROVE w[i][1] = s
    <2>1. PICK j \in 1 .. Len(ts) : \E b \in 1 .. Len(seqs[j]) : w[i] = seqs[j][b]
      BY <1>9 DEF FromOne
    <2>2. PICK b \in 1 .. Len(seqs[j]) : w[i] = seqs[j][b]
      BY <2>1
    <2>3. w[i] = <<s, j, b>>
      BY <1>2, <1>4, <2>2
    <2> QED
      BY <2>3
  <1> QED
    BY <1>5, <1>8, <1>9, <1>10

\* All test cases, every one once.
LEMMA AllCasesProperties ==
    ASSUME argv \in Seq(Files)
    PROVE  /\ AllCases = AllCasesIn(argv)
           /\ AllCases \in Seq(Cases) /\ Len(AllCases) \in Nat /\ Once(AllCases)
  <1> DEFINE inSuite(s) == CasesIn(Module[argv[s]].tests, s)
             seqs == [s \in DOMAIN argv |-> inSuite(s)]
  <1>1. AllCases = AllCasesIn(argv) /\ AllCases = FlattenSeq(seqs)
    BY DEF AllCases, AllCasesIn, CasesOf, CasesIn, Tests
  <1>2. DOMAIN argv = 1 .. Len(argv) /\ Len(argv) \in Nat
    OBVIOUS
  <1>3. ASSUME NEW s \in 1 .. Len(argv)
        PROVE  /\ inSuite(s) \in Seq(Cases) /\ Once(inSuite(s))
               /\ \A i \in 1 .. Len(inSuite(s)) : inSuite(s)[i][1] = s
    <2>1. Module[argv[s]].tests \in Seq(Seq(BOOLEAN)) /\ s \in Nat
      BY TestsTyped DEF Tests
    <2> QED
      BY <2>1, CasesInProperties
  <1> HIDE DEF inSuite
  <1>4. seqs \in Seq(Seq(Cases)) /\ DOMAIN seqs = 1 .. Len(argv)
    BY <1>2, <1>3
  <1>5. \A s \in 1 .. Len(argv) : seqs[s] = inSuite(s)
    BY <1>2
  <1> HIDE DEF seqs
  <1>6. seqs \in Seq(Seq(Cases)) /\ Len(seqs) = Len(argv)
    BY <1>2, <1>4, LengthOf
  <1>7. Apart(seqs)
    <2>1. ASSUME NEW j \in 1 .. Len(argv) PROVE Once(seqs[j])
      BY <1>3, <1>5
    <2>2. ASSUME NEW i \in 1 .. Len(argv), NEW j \in 1 .. Len(argv), i # j,
                 NEW a \in 1 .. Len(seqs[i]), NEW b \in 1 .. Len(seqs[j]),
                 seqs[i][a] = seqs[j][b]
          PROVE  FALSE
      <3>1. seqs[i][a][1] = i /\ seqs[j][b][1] = j
        BY <1>3, <1>5
      <3> QED
        BY <2>2, <3>1
    <2> QED
      BY <1>6, <2>1, <2>2 DEF Apart
  <1>8. FlattenSeq(seqs) \in Seq(Cases) /\ Once(FlattenSeq(seqs))
    BY <1>6, <1>7, Flattened
  <1> QED
    BY <1>1, <1>8

(***************************************************************************)
(* The test cases that were run                                             *)
(***************************************************************************)

\* Where the control is when no more test cases are run.
Ran == {"runner_creation_failed", "destroy", "exited"}

\* The variables of the test case and of the run have their types.
RunTypeOK ==
    /\ step \in {"idle", "output", "build", "verdict", "complete", "returned", "dead"}
    /\ output \in {"none", "intact", "overrun"}
    /\ type \in {"PASS", "FAIL", "SKIPPED", "ERROR"}
    /\ reporter \in {"PENDING", "RUNNING", "COMPLETED"}
    /\ rc \in -1 .. 1
    /\ exit \in {EX_OK, EX_USAGE, EX_UNAVAILABLE, EX_SOFTWARE, LsFailed}
    /\ faults \in 0 .. MaxFaults /\ argv \in ArgVectors

\* There is room for the cells that are kept, and none comes from nowhere.
RoomInv == Len(kept) <= capacity /\ Len(kept) + Len(unread) <= printed

\* What the callback is going to return, or has returned.
RcInv ==
    /\ step \in {"idle", "output", "verdict"} => rc = 0 /\ type = "PASS"
    /\ rc = -1 => faults > 0
    /\ rc = -1 => step \in {"returned", "dead"}
    /\ rc = 1 => \/ type \in {"FAIL", "ERROR"} \/ (type = "SKIPPED" /\ ~isolated)
                 \/ faults > 0
    /\ isolated /\ type = "FAIL" => rc = 1

\* The failures that were counted.
CountInv ==
    /\ failureCount \in Int /\ failureCount >= -1
    /\ pc \notin Ran \union {"run"} => failureCount = 0 /\ ~failed
    /\ failureCount = -1 => faults > 0 /\ rest = <<>> /\ step = "idle"
    /\ failureCount > 0 => faults > 0 \/ unsuccessful
    /\ failed /\ isolated => failureCount # 0

\* r are the last of all, c some of the first n of them, each once.
Follows(all, r) ==
    /\ r \in Seq(Cases) /\ Len(r) <= Len(all)
    /\ \A i \in 1 .. Len(r) : r[i] = all[(Len(all) - Len(r)) + i]
OutOf(all, c, n) ==
    /\ c \in Seq(Cases) /\ Once(c)
    /\ \A i \in 1 .. Len(c) : \E j \in 1 .. n : c[i] = all[j]
\* c are the first of all.
FirstOf(all, c) ==
    Len(c) <= Len(all) /\ \A i \in 1 .. Len(c) : c[i] = all[i]

\* The test case that is being run is the one behind those that were, and those
\* that are left follow.
Current == IF step \in InProgress THEN 1 ELSE 0
Taken == Len(AllCases) - Len(rest)
OrderInv ==
    /\ Follows(AllCases, rest) /\ buffered = <<>>
    /\ pc \notin Ran \union {"run"} => console = <<>> /\ rest = <<>>
    /\ pc \in Ran => rest = <<>>
    /\ step \in InProgress => Taken >= 1 /\ testcase = AllCases[Taken]
    /\ OutOf(AllCases, console, Taken - Current)
    /\ failureCount + Len(rest) + (IF step = "idle" THEN 0 ELSE 1) <= Len(AllCases)

\* Unless a result was forgotten, they are shown in this order.
ShownInv ==
    isolated \/ faults = 0 =>
        /\ FirstOf(AllCases, console)
        /\ pc = "run" /\ failureCount >= 0 /\ step # "dead" /\ rc # -1 =>
             Len(console) + Current = Taken

\* The calls of ctest_load_testsuite that come once the module is known to have a
\* suite in it.
Checked == {"suite", "tests", "test", "testcases", "testcase", "name", "loaded"}

\* The exit status says what it should.
Justified ==
    /\ exit = EX_OK /\ option = "none" =>
         /\ command # "unknown" /\ ~Unloadable
         /\ Runs /\ isolated => console = AllCases /\ ~failed
    /\ exit # EX_OK =>
         \/ command = "unknown" \/ option \in {"-?", "cmd -?"}
         \/ Unloadable \/ faults > 0 \/ unsuccessful

\* What the exit status is going to be, and why.
ExitInv ==
    /\ command \in {"run", "ls", "unknown", "none"}
    /\ option \in {"none", "-h", "-?", "cmd -h", "cmd -?"}
    /\ pc \notin {"main", "exited"} => option = "none" /\ command # "unknown"
    /\ pc \in WithReporter \union {"reporter"} => Runs
    /\ pc \in {"reporter", "runner", "run"} => exit = EX_UNAVAILABLE
    /\ pc = "list" => ~Runs
    /\ pc = "load" =>
         \A s \in 1 .. Len(argv) :
           s < suite \/ (s = suite /\ load \in Checked) =>
             Module[argv[s]].kind = "suite"
    /\ load = "failed" => Unloadable \/ faults > 0
    /\ pc \in WithReporter \union {"list", "reporter"} => ~Unloadable
    /\ pc \in Ran => Justified

\* The steps that leave the test case and the run alone, and where they lead.
QuietStep ==
    \/ Main \/ AllocCollection \/ AllocTestsuites \/ LoadTestsuite \/ InLoader
    \/ TestsuiteLoaded \/ LoadSuiteFailed \/ AllLoaded \/ List \/ CreateReporter
    \/ DestroyRunner \/ DestroyTestsuite \/ DestroyCollection \/ UNCHANGED allVars
LEMMA QuietFrame ==
    ASSUME QuietStep
    PROVE  /\ UNCHANGED <<step, testcase, reporter, type, rc, buffered, console, unread,
                          capacity, kept, output, printed, told, failure, shown>>
           /\ UNCHANGED <<rest, failureCount, failed, unsuccessful>>
           /\ pc' = "run" => pc = "run"
           /\ pc' \in Ran /\ pc = "run" => rest = <<>> /\ step = "idle"
           /\ pc' \notin Ran \union {"run"} => pc \notin Ran \union {"run"}
  <1>1. UNCHANGED <<reportVars, runVars>>
    BY DEF QuietStep, Main, AllocCollection, AllocTestsuites, LoadTestsuite, InLoader,
       TestsuiteLoaded, LoadSuiteFailed, AllLoaded, List, CreateReporter,
       DestroyRunner, DestroyTestsuite, DestroyCollection, allVars
  <1>2. /\ pc' = "run" => pc = "run"
        /\ pc' \in Ran /\ pc = "run" => rest = <<>> /\ step = "idle"
        /\ pc' \notin Ran \union {"run"} => pc \notin Ran \union {"run"}
    BY DEF QuietStep, Main, AllocCollection, AllocTestsuites, LoadTestsuite, InLoader,
       TestsuiteLoaded, LoadSuiteFailed, AllLoaded, List, CreateReporter,
       DestroyRunner, DestroyTestsuite, DestroyCollection, allVars, Ran
  <1> QED
    BY <1>1, <1>2 DEF reportVars, outputVars, runVars

\* The command line stays; of the calls that fail there are no more than the
\* bound.
LEMMA CommandLineSame ==
    ASSUME [Next]_allVars
    PROVE  UNCHANGED <<command, option, isolated, argv>>
  BY DEF Next, Step, Main, AllocCollection, AllocTestsuites, LoadTestsuite,
     InLoader, TestsuiteLoaded, LoadSuiteFailed, AllLoaded, List, CreateReporter,
     CreateRunner, RunTestcase, InTestcase, TestcaseReturns, RunFails,
     DestroyRunner, DestroyReporter, DestroyTestsuite, DestroyCollection,
     cliVars, allVars

Counted == faults' = faults \/ (faults < MaxFaults /\ faults' = faults + 1)
LEMMA FaultsCounted ==
    ASSUME [Next]_allVars
    PROVE  Counted
  <1> USE DEF Counted, Acquire, FaultOnly, Fault, heapVars
  <1>1. CASE \/ Main \/ AllocCollection \/ AllocTestsuites \/ LoadTestsuite
             \/ TestsuiteLoaded \/ LoadSuiteFailed \/ AllLoaded \/ List
             \/ CreateReporter \/ CreateRunner \/ RunFails \/ UNCHANGED allVars
    BY <1>1 DEF Main, AllocCollection, AllocTestsuites, LoadTestsuite,
       TestsuiteLoaded, LoadSuiteFailed, AllLoaded, List, CreateReporter,
       CreateRunner, RunFails, allVars
  <1>2. CASE DestroyRunner \/ DestroyReporter \/ DestroyTestsuite \/ DestroyCollection
    BY <1>2 DEF DestroyRunner, DestroyReporter, DestroyTestsuite, DestroyCollection,
       DestroyTests, CloseSuite
  <1>3. CASE InLoader
    <2>1. LoadStep
      BY <1>3 DEF InLoader
    <2>2. CASE \/ DlInit \/ DlAdviseInit \/ DlAdviseLocal \/ DlOpen \/ Check
               \/ AllocSuite \/ AllocTests
      BY <2>2 DEF DlInit, DlAdviseInit, DlAdviseLocal, DlOpen, Check, AllocSuite,
         AllocTests, Call
    <2>3. CASE \/ CreateTest \/ AllocTestcases \/ CreateTestcase \/ NameTestcase
               \/ TestCreated \/ Loaded
      BY <2>3 DEF CreateTest, AllocTestcases, CreateTestcase, NameTestcase,
         TestCreated, Loaded, Call
    <2> QED
      BY <2>1, <2>2, <2>3 DEF LoadStep
  <1>4. CASE RunTestcase
    BY <1>4 DEF RunTestcase, Start
  <1>5. CASE InTestcase
    <2>1. CASE CollectOutput
      BY <2>1 DEF CollectOutput, OnDataAvailable, Resize
    <2>2. CASE SetFailure
      BY <2>2 DEF SetFailure
    <2>3. CASE BuildOutput
      BY <2>3 DEF BuildOutput, Build, ReadOutput, Resize
    <2>4. CASE Complete
      BY <2>4 DEF Complete
    <2> QED
      BY <1>5, <2>1, <2>2, <2>3, <2>4 DEF InTestcase, ReportStep
  <1>6. CASE TestcaseReturns
    BY <1>6 DEF TestcaseReturns, Forget
  <1> QED
    BY <1>1, <1>2, <1>3, <1>4, <1>5, <1>6 DEF Next, Step

ExitCodes == {EX_OK, EX_USAGE, EX_UNAVAILABLE, EX_SOFTWARE, LsFailed}
LEMMA ExitTyped ==
    ASSUME exit \in ExitCodes, [Next]_allVars
    PROVE  exit' \in ExitCodes
  <1>1. CASE UNCHANGED exit
    BY <1>1
  <1>2. CASE exit' \in {Usage, Unavailable, EX_UNAVAILABLE, EX_OK, Status}
    BY <1>2 DEF ExitCodes, Usage, Unavailable, Status
  <1> QED
    BY <1>1, <1>2 DEF Next, Step, Main, AllocCollection, AllocTestsuites,
       LoadTestsuite, InLoader, TestsuiteLoaded, LoadSuiteFailed, AllLoaded, List,
       CreateReporter, CreateRunner, RunTestcase, InTestcase, TestcaseReturns,
       RunFails, DestroyRunner, DestroyReporter, DestroyTestsuite,
       DestroyCollection, allVars

LEMMA RunTyped ==
    ASSUME RunTypeOK, [Next]_allVars
    PROVE  RunTypeOK'
  <1> DEFINE Typed == /\ step \in {"idle", "output", "build", "verdict", "complete",
                                   "returned", "dead"}
                      /\ output \in {"none", "intact", "overrun"}
                      /\ type \in {"PASS", "FAIL", "SKIPPED", "ERROR"}
                      /\ reporter \in {"PENDING", "RUNNING", "COMPLETED"}
                      /\ rc \in -1 .. 1
  <1>1. faults' \in 0 .. MaxFaults
    BY FaultsCounted, HeapAssumption DEF RunTypeOK, Counted
  <1>2. exit' \in ExitCodes /\ argv' \in ArgVectors
    BY ExitTyped, CommandLineSame DEF RunTypeOK, ExitCodes
  <1>3. Typed
    BY DEF RunTypeOK
  <1>4. Typed'
    <2>1. CASE \/ QuietStep \/ CreateRunner \/ RunFails \/ DestroyReporter
      <3>1. UNCHANGED <<step, output, type, reporter, rc>>
        BY <2>1, QuietFrame DEF CreateRunner, RunFails, DestroyReporter, reportVars,
           outputVars
      <3> QED
        BY <1>3, <3>1
    <2>2. CASE RunTestcase
      BY <1>3, <2>2 DEF RunTestcase, Start
    <2>3. CASE TestcaseReturns
      BY <2>3 DEF TestcaseReturns, Forget
    <2>4. CASE InTestcase
      <3>1. CASE CollectOutput
        BY <1>3, <3>1 DEF CollectOutput, OnDataAvailable, outputVars
      <3>2. CASE SetFailure
        <4>1. /\ type' \in {"PASS", "FAIL", "SKIPPED", "ERROR"} /\ rc' \in Returns
              /\ step' = "build" /\ UNCHANGED <<output, reporter>>
          BY <3>2 DEF SetFailure, outputVars
        <4>2. rc' \in {0, 1}
          BY <4>1 DEF Returns
        <4> QED
          BY <1>3, <4>1, <4>2
      <3>3. CASE BuildOutput
        BY <1>3, <3>3 DEF BuildOutput, Build, ReadOutput
      <3>4. CASE Complete
        BY <1>3, <3>4 DEF Complete, outputVars
      <3> QED
        BY <2>4, <3>1, <3>2, <3>3, <3>4 DEF InTestcase, ReportStep
    <2> QED
      BY <2>1, <2>2, <2>3, <2>4 DEF Next, Step, QuietStep
  <1> QED
    BY <1>1, <1>2, <1>4 DEF RunTypeOK, ExitCodes

(***************************************************************************)
(* Room for the output                                                      *)
(***************************************************************************)

\* A read() never takes more than there is room for.
LEMMA RoomForData ==
    ASSUME OutputTypeOK, RoomInv, OnDataAvailable, UNCHANGED printed
    PROVE  RoomInv'
  <1>1. /\ unread \in Seq(Nat) /\ kept \in Seq(Nat) /\ capacity \in Nat
        /\ printed \in Nat /\ Len(kept) \in Nat /\ Len(unread) \in Nat
        /\ Len(kept) <= capacity /\ Len(kept) + Len(unread) <= printed
    BY DEF OutputTypeOK, RoomInv
  <1>2. Initial \in Nat /\ DrainCap \in Nat
    BY OutputAssumption
  <1>3. Grown \in Nat /\ Len(kept) <= Grown
    BY <1>1, <1>2 DEF Grown
  <1>4. capacity' \in Nat /\ Len(kept) <= capacity'
    BY <1>1, <1>3 DEF OnDataAvailable, Resize
  <1> DEFINE full == Len(kept) >= capacity'
             room == IF full THEN DrainCap ELSE capacity' - Len(kept)
  <1>5. PICK n \in 0 .. room :
          /\ n <= Len(unread)
          /\ unread' = SubSeq(unread, n + 1, Len(unread))
          /\ kept' = IF full THEN kept ELSE kept \o SubSeq(unread, 1, n)
    BY DEF OnDataAvailable
  <1>6. n \in 0 .. Len(unread) /\ (~full => n <= capacity' - Len(kept))
    BY <1>1, <1>2, <1>4, <1>5
  <1>7. Len(unread') = Len(unread) - n
    BY <1>1, <1>5, <1>6, Cut
  <1>8. CASE full
    BY <1>1, <1>4, <1>5, <1>6, <1>7, <1>8 DEF RoomInv
  <1>9. CASE ~full
    <2>1. Len(kept') = Len(kept) + n
      BY <1>1, <1>5, <1>6, <1>9, Joined
    <2>2. Len(kept) + n <= capacity' /\ Len(kept) + n + (Len(unread) - n) <= printed
      BY <1>1, <1>4, <1>6, <1>9
    <2> QED
      BY <1>7, <2>1, <2>2 DEF RoomInv
  <1> QED
    BY <1>8, <1>9

LEMMA RoomStep ==
    ASSUME OutputInv, RoomInv, [Next]_allVars
    PROVE  RoomInv'
  <1>1. /\ unread \in Seq(Nat) /\ kept \in Seq(Nat) /\ capacity \in Nat
        /\ printed \in Nat /\ Len(kept) \in Nat /\ Len(unread) \in Nat
        /\ Len(kept) <= capacity /\ Len(kept) + Len(unread) <= printed
        /\ OutputTypeOK
    BY DEF OutputInv, OutputTypeOK, RoomInv
  <1>2. CASE UNCHANGED <<unread, kept, capacity, printed>>
    BY <1>2 DEF RoomInv
  <1>3. CASE RunTestcase
    <2>1. /\ UNCHANGED <<capacity, kept>> /\ step = "idle"
          /\ \/ UNCHANGED <<unread, printed>>
             \/ printed' \in 0 .. MaxOutput /\ unread' = [c \in 1 .. printed' |-> c]
      BY <1>3 DEF RunTestcase, Start
    <2>2. CASE printed' \in 0 .. MaxOutput /\ unread' = [c \in 1 .. printed' |-> c]
      <3>1. printed' \in Nat /\ Len(kept) = 0
        BY <2>1, <2>2, OutputAssumption DEF OutputInv, Blank
      <3>2. Len(unread') = printed'
        BY <2>2, <3>1, Numbers
      <3>3. Len(kept') = 0 /\ 0 <= capacity'
        BY <1>1, <2>1, <3>1
      <3>4. \A n \in Nat : 0 + n <= n
        OBVIOUS
      <3> QED
        BY <3>1, <3>2, <3>3, <3>4 DEF RoomInv
    <2> QED
      BY <1>2, <2>1, <2>2
  <1>4. CASE TestcaseReturns
    <2>1. unread' = <<>> /\ kept' = <<>> /\ capacity' = 0 /\ printed' = 0
      BY <1>4 DEF TestcaseReturns, Forget
    <2> QED
      BY <2>1 DEF RoomInv
  <1>5. CASE CollectOutput
    <2>1. printed' = printed /\ (OnDataAvailable \/ UNCHANGED <<unread, kept, capacity>>)
      BY <1>5 DEF CollectOutput, outputVars
    <2> QED
      BY <1>1, <1>2, <2>1, RoomForData
  <1>6. CASE BuildOutput
    <2>1. /\ step = "build" /\ printed' = printed
          /\ IF isolated THEN Build ELSE ReadOutput
      BY <1>6 DEF BuildOutput
    <2>2. CASE isolated
      <3>1. Build /\ UNCHANGED <<unread, kept>>
        BY <2>1, <2>2 DEF Build
      <3>2. capacity' \in Nat /\ Len(kept) <= capacity'
        <4>1. CASE NoCells
          <5>1. capacity' = 0
            BY <3>1, <4>1 DEF Build
          <5>2. Len(kept) <= 0
            BY <1>1, <4>1 DEF NoCells
          <5> QED
            BY <5>1, <5>2
        <4>2. CASE ~NoCells
          BY <1>1, <3>1, <4>2 DEF Build, Resize, CutTo
        <4> QED
          BY <4>1, <4>2
      <3> QED
        BY <1>1, <2>1, <3>1, <3>2 DEF RoomInv
    <2>3. CASE ~isolated
      <3>1. kept = <<>> /\ Len(unread) = printed /\ ReadOutput
        BY <2>1, <2>3 DEF OutputInv, Blank
      <3>2. /\ unread' = <<>>
            /\ \/ kept' = unread /\ capacity' = Len(unread) + 1
               \/ kept' = kept /\ capacity' \in {capacity, Len(unread) + 1}
        BY <3>1 DEF ReadOutput
      <3>3. Len(unread') = 0 /\ Len(<<>>) = 0
        BY <3>2
      <3>4. Len(kept') <= capacity' /\ Len(kept') <= printed /\ Len(kept') \in Nat
        BY <1>1, <3>1, <3>2, <3>3
      <3> QED
        BY <2>1, <3>3, <3>4 DEF RoomInv
    <2> QED
      BY <2>2, <2>3
  <1>7. CASE \/ QuietStep \/ CreateRunner \/ RunFails \/ DestroyReporter
             \/ SetFailure \/ Complete
    <2>1. UNCHANGED <<unread, kept, capacity, printed>>
      BY <1>7, QuietFrame DEF CreateRunner, RunFails, DestroyReporter, SetFailure,
         Complete, reportVars, outputVars
    <2> QED
      BY <1>2, <2>1
  <1> QED
    BY <1>3, <1>4, <1>5, <1>6, <1>7 DEF Next, Step, QuietStep, InTestcase, ReportStep

(***************************************************************************)
(* What test cases return, and what is counted                              *)
(***************************************************************************)

LEMMA RcStep ==
    ASSUME RunTypeOK, RcInv, [Next]_allVars
    PROVE  RcInv'
  <1>1. isolated' = isolated /\ faults \in Nat /\ faults' >= faults /\ faults' \in Nat
    BY CommandLineSame, FaultsCounted, HeapAssumption DEF RunTypeOK, Counted
  <1>2. CASE \/ QuietStep \/ CreateRunner \/ RunFails \/ DestroyReporter
    <2>1. UNCHANGED <<step, type, rc>>
      BY <1>2, QuietFrame DEF CreateRunner, RunFails, DestroyReporter, reportVars
    <2> QED
      BY <1>1, <2>1 DEF RcInv
  <1>3. CASE RunTestcase
    <2>1. /\ step = "idle" /\ type' = type
          /\ \/ rc' = rc /\ step' \in {"output", "verdict"}
             \/ rc' \in {-1, 1} /\ faults' = faults + 1 /\ step' \in {"returned", "dead"}
      BY <1>3 DEF RunTestcase, Start, FaultOnly, Fault
    <2> QED
      BY <1>1, <2>1 DEF RcInv
  <1>4. CASE TestcaseReturns
    <2>1. rc' = 0 /\ type' = "PASS" /\ step' = "idle"
      BY <1>4 DEF TestcaseReturns, Forget
    <2> QED
      BY <1>1, <2>1 DEF RcInv
  <1>5. CASE CollectOutput \/ BuildOutput \/ Complete
    <2>1. /\ UNCHANGED <<type, rc>>
          /\ \/ step = "output" /\ step' \in {"output", "verdict"}
             \/ step \in {"build", "complete"} /\ step' \in {"complete", "returned", "dead"}
      BY <1>5 DEF CollectOutput, BuildOutput, Complete
    <2> QED
      BY <1>1, <2>1 DEF RcInv
  <1>6. CASE SetFailure
    <2>1. /\ type' \in {"PASS", "FAIL", "SKIPPED", "ERROR"} /\ rc' \in Returns
          /\ step' = "build"
      BY <1>6 DEF SetFailure
    <2>2. /\ rc' \in {0, 1}
          /\ rc' = 1 => \/ type' \in {"FAIL", "ERROR"}
                        \/ (type' = "SKIPPED" /\ ~isolated)
          /\ isolated /\ type' = "FAIL" => rc' = 1
      BY <2>1 DEF Returns
    <2> QED
      BY <1>1, <2>1, <2>2 DEF RcInv
  <1> QED
    BY <1>2, <1>3, <1>4, <1>5, <1>6 DEF Next, Step, QuietStep, InTestcase, ReportStep

LEMMA CountStep ==
    ASSUME ControlInv, RunTypeOK, RcInv, CountInv, [Next]_allVars
    PROVE  CountInv'
  <1>1. isolated' = isolated /\ faults \in Nat /\ faults' >= faults /\ faults' \in Nat
    BY CommandLineSame, FaultsCounted, HeapAssumption DEF RunTypeOK, Counted
  <1>2. CASE QuietStep
    <2>1. /\ UNCHANGED <<step, rest, failureCount, failed, unsuccessful>>
          /\ pc' \notin Ran \union {"run"} => pc \notin Ran \union {"run"}
      BY <1>2, QuietFrame
    <2> QED
      BY <1>1, <2>1 DEF CountInv, Ran
  <1>3. CASE CreateRunner
    <2>1. /\ pc = "runner" /\ pc' \in {"run", "runner_creation_failed"}
          /\ UNCHANGED <<failureCount, failed, unsuccessful, step>>
      BY <1>3 DEF CreateRunner, reportVars
    <2>2. failureCount = 0 /\ ~failed
      BY <2>1 DEF CountInv, Ran
    <2> QED
      BY <1>1, <2>1, <2>2 DEF CountInv, Ran
  <1>4. CASE DestroyReporter
    <2>1. /\ pc = "runner_creation_failed" /\ pc' = "destroy"
          /\ UNCHANGED <<failureCount, failed, unsuccessful, step, rest>>
      BY <1>4 DEF DestroyReporter, runVars
    <2> QED
      BY <1>1, <2>1 DEF CountInv, Ran
  <1>5. CASE RunTestcase
    <2>1. /\ pc = "run" /\ pc' = pc /\ rest # <<>>
          /\ UNCHANGED <<failureCount, failed, unsuccessful>>
      BY <1>5 DEF RunTestcase
    <2> QED
      BY <1>1, <2>1 DEF CountInv, Ran
  <1>6. CASE InTestcase
    <2>1. /\ pc = "run" /\ pc' = pc /\ step # "idle"
          /\ UNCHANGED <<failureCount, failed, unsuccessful>>
      BY <1>6 DEF InTestcase, runVars, ReportStep, CollectOutput, SetFailure,
         BuildOutput, Complete
    <2> QED
      BY <1>1, <2>1 DEF CountInv, Ran
  <1>7. CASE TestcaseReturns
    <2>1. /\ pc = "run" /\ pc' = pc /\ step = "returned" /\ step' = "idle"
          /\ IF rc < 0
             THEN failureCount' = -1 /\ rest' = <<>>
             ELSE failureCount' = failureCount + rc /\ UNCHANGED rest
          /\ failed' = (failed \/ type = "FAIL")
          /\ unsuccessful' = (unsuccessful \/ type \in {"FAIL", "ERROR"}
                                \/ (type = "SKIPPED" /\ ~isolated))
      BY <1>7 DEF TestcaseReturns, Forget
    <2>2. failureCount \in Int /\ failureCount >= 0 /\ rc \in -1 .. 1
      BY <2>1 DEF CountInv, RunTypeOK
    <2>3. CASE rc < 0
      <3>1. rc = -1 /\ faults > 0
        BY <2>2, <2>3 DEF RcInv
      <3> QED
        BY <1>1, <2>1, <2>3, <3>1 DEF CountInv, Ran
    <2>4. CASE ~(rc < 0)
      <3>1. /\ rc \in {0, 1} /\ failureCount' = failureCount + rc
            /\ failureCount' \in Int /\ failureCount' >= 0
        BY <2>1, <2>2, <2>4
      <3>2. failureCount' > 0 => faults' > 0 \/ unsuccessful'
        <4>1. CASE rc = 1
          <5>1. \/ type \in {"FAIL", "ERROR"} \/ (type = "SKIPPED" /\ ~isolated)
                \/ faults > 0
            BY <4>1 DEF RcInv
          <5>2. CASE faults > 0
            BY <1>1, <5>2
          <5> QED
            BY <2>1, <5>1, <5>2, Zenon
        <4>2. CASE rc = 0 /\ failureCount > 0
          <5>1. faults > 0 \/ unsuccessful
            BY <4>2 DEF CountInv, Ran
          <5>2. CASE faults > 0
            BY <1>1, <5>2
          <5> QED
            BY <2>1, <5>1, <5>2, Zenon
        <4> QED
          BY <2>2, <3>1, <4>1, <4>2
      <3>3. failed' /\ isolated => failureCount' # 0
        <4>1. CASE failed /\ isolated
          <5>1. failureCount # 0
            BY <4>1 DEF CountInv, Ran
          <5> QED
            BY <2>2, <3>1, <5>1
        <4>2. CASE type = "FAIL" /\ isolated
          <5>1. rc = 1
            BY <4>2 DEF RcInv
          <5> QED
            BY <2>2, <3>1, <5>1
        <4> QED
          BY <2>1, <4>1, <4>2, Zenon
      <3> QED
        BY <1>1, <2>1, <3>1, <3>2, <3>3 DEF CountInv, Ran
    <2> QED
      BY <2>3, <2>4
  <1>8. CASE RunFails
    <2>1. /\ pc = "run" /\ pc' = pc /\ step = "idle" /\ step' = step
          /\ failureCount' = -1 /\ rest' = <<>> /\ faults' = faults + 1
      BY <1>8 DEF RunFails, FaultOnly, Fault, reportVars
    <2> QED
      BY <1>1, <2>1 DEF CountInv, Ran
  <1> QED
    BY <1>2, <1>3, <1>4, <1>5, <1>6, <1>7, <1>8 DEF Next, Step, QuietStep

(***************************************************************************)
(* The order of the test cases                                              *)
(***************************************************************************)

LEMMA FollowsEnds ==
    ASSUME NEW all \in Seq(Cases)
    PROVE  Follows(all, all) /\ Follows(all, <<>>) /\ OutOf(all, <<>>, 0)
  <1>1. Len(all) \in Nat /\ Len(<<>>) = 0 /\ <<>> \in Seq(Cases)
    OBVIOUS
  <1>2. Follows(all, all)
    BY <1>1 DEF Follows
  <1>3. Follows(all, <<>>) /\ OutOf(all, <<>>, 0)
    BY <1>1 DEF Follows, OutOf, Once
  <1> QED
    BY <1>2, <1>3

LEMMA FollowsNext ==
    ASSUME NEW all \in Seq(Cases), NEW r, Follows(all, r), r # <<>>
    PROVE  /\ Follows(all, Tail(r)) /\ Len(Tail(r)) = Len(r) - 1 /\ Len(r) >= 1
           /\ Head(r) = all[(Len(all) - Len(r)) + 1]
  <1>1. /\ Len(all) \in Nat /\ r \in Seq(Cases) /\ Len(r) \in Nat /\ Len(r) <= Len(all)
        /\ \A i \in 1 .. Len(r) : r[i] = all[(Len(all) - Len(r)) + i]
    BY DEF Follows
  <1>2. Len(r) >= 1 /\ Head(r) = r[1]
    BY <1>1
  <1>3. /\ Tail(r) \in Seq(Cases) /\ Len(Tail(r)) = Len(r) - 1
        /\ \A i \in 1 .. (Len(r) - 1) : Tail(r)[i] = r[i + 1]
    BY <1>1, HeadTailProperties
  <1>4. PICK u : u = Tail(r)
    OBVIOUS
  <1>5. PICK m \in Nat, n \in Nat : m = Len(r) /\ n = Len(all)
    BY <1>1
  <1>6. \A i \in 1 .. (m - 1) : u[i] = all[(n - (m - 1)) + i]
    <2> SUFFICES ASSUME NEW i \in 1 .. (m - 1) PROVE u[i] = all[(n - (m - 1)) + i]
      OBVIOUS
    <2>1. i + 1 \in 1 .. m /\ (n - m) + (i + 1) = (n - (m - 1)) + i
      OBVIOUS
    <2> QED
      BY <1>1, <1>3, <1>4, <1>5, <2>1
  <1>7. Follows(all, u)
    BY <1>1, <1>3, <1>4, <1>5, <1>6 DEF Follows
  <1> QED
    BY <1>1, <1>2, <1>3, <1>4, <1>7

LEMMA OutOfMore ==
    ASSUME NEW all, NEW c, NEW m \in Int, NEW n \in Int, m <= n, OutOf(all, c, m)
    PROVE  OutOf(all, c, n)
  <1>1. ASSUME NEW i \in 1 .. Len(c) PROVE \E j \in 1 .. n : c[i] = all[j]
    <2>1. PICK j \in 1 .. m : c[i] = all[j]
      BY DEF OutOf
    <2>2. j \in 1 .. n
      OBVIOUS
    <2> QED
      BY <2>1, <2>2
  <1> QED
    BY <1>1 DEF OutOf

\* What one more report makes the console.
LEMMA Reported ==
    ASSUME NEW c \in Seq(Cases), NEW t \in Cases, NEW b, b = <<>>,
           NEW w, w = c \o Append(b, t)
    PROVE  /\ w \in Seq(Cases) /\ Len(w) = Len(c) + 1 /\ w[Len(c) + 1] = t
           /\ \A i \in 1 .. Len(c) : w[i] = c[i]
  <1>1. PICK o : o = Append(b, t)
    OBVIOUS
  <1>2. o \in Seq(Cases) /\ Len(o) = 1 /\ o[1] = t
    BY <1>1
  <1>3. w = c \o o /\ Len(c) \in Nat
    BY <1>1
  <1> QED
    BY <1>2, <1>3

LEMMA OutOfNext ==
    ASSUME NEW all \in Seq(Cases), Once(all), NEW c, NEW n \in 1 .. Len(all),
           OutOf(all, c, n - 1), NEW b, b = <<>>
    PROVE  OutOf(all, c \o Append(b, all[n]), n)
  <1>1. PICK w : w = c \o Append(b, all[n])
    OBVIOUS
  <1>2. c \in Seq(Cases) /\ Len(c) \in Nat /\ all[n] \in Cases /\ Len(all) \in Nat
    BY DEF OutOf
  <1>3. /\ w \in Seq(Cases) /\ Len(w) = Len(c) + 1 /\ w[Len(c) + 1] = all[n]
        /\ \A i \in 1 .. Len(c) : w[i] = c[i]
    BY <1>1, <1>2, Reported
  <1>4. \A i \in 1 .. Len(w) : i = Len(c) + 1 \/ i \in 1 .. Len(c)
    BY <1>2, <1>3
  <1>5. ASSUME NEW i \in 1 .. Len(c)
        PROVE  \E j \in 1 .. n : w[i] = all[j] /\ j # n
    <2>1. PICK j \in 1 .. (n - 1) : c[i] = all[j]
      BY DEF OutOf
    <2>2. j \in 1 .. n /\ j # n
      OBVIOUS
    <2> QED
      BY <1>3, <2>1, <2>2
  <1>6. ASSUME NEW i \in 1 .. Len(c) PROVE w[i] # all[n]
    <2>1. PICK j \in 1 .. n : w[i] = all[j] /\ j # n
      BY <1>5
    <2>2. j \in 1 .. Len(all)
      BY <1>2
    <2> QED
      BY <2>1, <2>2 DEF Once
  <1>7. Once(w)
    <2> SUFFICES ASSUME NEW i \in 1 .. Len(w), NEW k \in 1 .. Len(w), w[i] = w[k]
                 PROVE  i = k
      BY DEF Once
    <2>1. CASE i \in 1 .. Len(c) /\ k \in 1 .. Len(c)
      <3>1. c[i] = c[k]
        BY <1>3, <2>1
      <3> QED
        BY <2>1, <3>1 DEF OutOf, Once
    <2> QED
      BY <1>3, <1>4, <1>6, <2>1
  <1>8. n \in 1 .. n
    OBVIOUS
  <1>9. \A i \in 1 .. Len(w) : \E j \in 1 .. n : w[i] = all[j]
    BY <1>3, <1>4, <1>5, <1>8
  <1>10. OutOf(all, w, n)
    BY <1>3, <1>7, <1>9 DEF OutOf
  <1> QED
    BY <1>1, <1>10

\* w is what the n-th report makes of c, which the first n - 1 have made.
NextOf(all, c, n, b, w) ==
    FirstOf(all, c) /\ Len(c) + 1 = n /\ b = <<>> /\ w = c \o Append(b, all[n])
LEMMA FirstOfNext ==
    ASSUME NEW all \in Seq(Cases), NEW c \in Seq(Cases), NEW n \in 1 .. Len(all),
           NEW b, NEW w, NextOf(all, c, n, b, w)
    PROVE  FirstOf(all, w) /\ Len(w) = n
  <1>1. /\ all[n] \in Cases /\ Len(all) \in Nat /\ Len(c) \in Nat /\ Len(c) + 1 = n
        /\ \A i \in 1 .. Len(c) : c[i] = all[i]
    <2>1. Len(c) + 1 = n /\ \A i \in 1 .. Len(c) : c[i] = all[i]
      BY Zenon DEF NextOf, FirstOf
    <2>2. all[n] \in Cases /\ Len(all) \in Nat /\ Len(c) \in Nat
      OBVIOUS
    <2> QED
      BY <2>1, <2>2
  <1>2. /\ Len(w) = Len(c) + 1 /\ w[Len(c) + 1] = all[n]
        /\ \A i \in 1 .. Len(c) : w[i] = c[i]
    BY <1>1, Reported DEF NextOf
  <1>3. ASSUME NEW i \in 1 .. n PROVE w[i] = all[i]
    <2>1. CASE i = n
      BY <1>1, <1>2, <2>1
    <2>2. CASE i # n
      <3>1. i \in 1 .. Len(c)
        BY <1>1, <2>2
      <3> QED
        BY <1>1, <1>2, <3>1
    <2> QED
      BY <2>1, <2>2
  <1>4. Len(w) = n /\ n <= Len(all)
    BY <1>1, <1>2
  <1> QED
    BY <1>3, <1>4 DEF FirstOf

LEMMA AllCasesSame ==
    ASSUME ControlInv, [Next]_allVars
    PROVE  /\ AllCases' = AllCases /\ AllCases \in Seq(Cases)
           /\ Len(AllCases) \in Nat /\ Once(AllCases)
  <1>1. argv' = argv
    BY CommandLineSame
  <1>2. AllCases' = AllCases
    BY <1>1 DEF AllCases, CasesOf, Tests
  <1> QED
    BY <1>2, AllCasesProperties DEF ControlInv

\* A step of a test case moves on, or puts its report on the console.
LEMMA TestcaseMoves ==
    ASSUME InTestcase, ResultInv, RcInv
    PROVE  /\ pc = "run" /\ pc' = pc /\ step \in InProgress
           /\ UNCHANGED <<rest, failureCount, testcase>>
           /\ \/ /\ UNCHANGED <<console, buffered>>
                 /\ (rc' = -1 <=> rc = -1)
                 /\ step' \in InProgress \union {"dead"}
              \/ /\ step' = "returned" /\ rc' = rc /\ rc # -1
                 /\ console' = console \o Append(buffered, testcase)
                 /\ buffered' = <<>>
  <1>1. pc = "run" /\ UNCHANGED <<pc, rest, failureCount>> /\ ReportStep
    BY DEF InTestcase, runVars
  <1>2. CASE CollectOutput \/ BuildOutput
    BY <1>1, <1>2 DEF CollectOutput, BuildOutput, InProgress
  <1>3. CASE SetFailure
    <2>1. /\ UNCHANGED <<testcase, console, buffered>> /\ step = "verdict"
          /\ step' = "build" /\ rc' \in Returns
          /\ type' \in {"PASS", "FAIL", "SKIPPED", "ERROR"}
      BY <1>3 DEF SetFailure
    <2>2. rc' # -1
      BY <2>1 DEF Returns
    <2>3. rc # -1
      BY <2>1 DEF RcInv
    <2> QED
      BY <1>1, <2>1, <2>2, <2>3 DEF InProgress
  <1>4. CASE Complete
    <2>1. reporter = "RUNNING" /\ step = "complete" /\ rc # -1
      BY <1>4 DEF Complete, ResultInv, RcInv, InProgress
    <2>2. /\ UNCHANGED <<testcase, rc>>
          /\ \/ step' = "dead" /\ UNCHANGED <<console, buffered>>
             \/ /\ step' = "returned"
                /\ console' = console \o Append(buffered, testcase)
                /\ buffered' = <<>>
      BY <1>4, <2>1 DEF Complete, Flush
    <2> QED
      BY <1>1, <2>1, <2>2 DEF InProgress
  <1> QED
    BY <1>1, <1>2, <1>3, <1>4 DEF ReportStep

\* A sequence with nothing behind it is what it was.
LEMMA NothingBehind ==
    ASSUME NEW c \in Seq(Cases), NEW b, b = <<>>
    PROVE  c \o b = c
  OBVIOUS

LEMMA OrderStep ==
    ASSUME ControlInv, ResultInv, RunTypeOK, RcInv, CountInv, OrderInv, [Next]_allVars
    PROVE  OrderInv'
  <1>1. PICK all \in Seq(Cases) : all = AllCases /\ AllCases' = all /\ Once(all)
    BY AllCasesSame
  <1>2. PICK n \in Nat : n = Len(all)
    BY <1>1
  <1>3. /\ Follows(all, rest) /\ buffered = <<>> /\ OutOf(all, console, Taken - Current)
        /\ rest \in Seq(Cases) /\ Len(rest) \in Nat /\ Len(rest) <= n
        /\ console \in Seq(Cases) /\ Taken = n - Len(rest) /\ Current \in {0, 1}
        /\ failureCount \in Int
    BY <1>1, <1>2 DEF OrderInv, Follows, OutOf, Taken, Current, CountInv
  <1>4. CASE QuietStep
    <2>1. /\ UNCHANGED <<step, testcase, buffered, console, rest, failureCount>>
          /\ pc' \in Ran => rest = <<>>
          /\ pc' \notin Ran \union {"run"} => pc \notin Ran \union {"run"}
      BY <1>4, QuietFrame DEF OrderInv
    <2>2. Taken' = Taken /\ Current' = Current
      BY <1>1, <2>1 DEF Taken, Current
    <2> QED
      BY <1>1, <2>1, <2>2 DEF OrderInv
  <1>5. CASE CreateRunner
    <2>1. /\ pc = "runner" /\ UNCHANGED <<step, testcase, buffered, console, failureCount>>
          /\ \/ pc' = "run" /\ rest' = all
             \/ pc' = "runner_creation_failed" /\ rest' = rest
      BY <1>1, <1>5 DEF CreateRunner, reportVars
    <2>2. step = "idle" /\ console = <<>> /\ rest = <<>> /\ failureCount = 0
      BY <2>1 DEF ControlInv, OrderInv, CountInv, Ran
    <2>3. Follows(all, rest') /\ OutOf(all, console', 0) /\ Len(rest') \in {0, n}
      BY <1>2, <2>1, <2>2, FollowsEnds
    <2>4. Taken' = n - Len(rest') /\ Current' = 0
      BY <1>1, <1>2, <2>1, <2>2 DEF Taken, Current, InProgress
    <2>5. OutOf(all, console', n - Len(rest')) /\ 0 + Len(rest') + 0 <= n
      BY <2>3, OutOfMore
    <2>6. step' = "idle" /\ step' \notin InProgress
      BY <2>1, <2>2 DEF InProgress
    <2> QED
      BY <1>1, <1>2, <1>3, <2>1, <2>2, <2>3, <2>4, <2>5, <2>6 DEF OrderInv, Ran
  <1>6. CASE DestroyReporter
    <2>1. /\ pc = "runner_creation_failed" /\ pc' = "destroy"
          /\ UNCHANGED <<step, testcase, rest, failureCount>>
          /\ console' = console \o buffered /\ buffered' = <<>>
      BY <1>6 DEF DestroyReporter, runVars, Flush
    <2>2. console' = console
      BY <1>3, <2>1, NothingBehind
    <2>3. Taken' = Taken /\ Current' = Current
      BY <1>1, <2>1 DEF Taken, Current
    <2> QED
      BY <1>1, <2>1, <2>2, <2>3 DEF OrderInv, Ran
  <1>7. CASE RunTestcase
    <2>1. /\ pc = "run" /\ pc' = pc /\ rest # <<>> /\ rest' = Tail(rest)
          /\ step = "idle" /\ step' # "idle" /\ testcase' = Head(rest)
          /\ UNCHANGED <<buffered, failureCount>>
          /\ console' \in {console, console \o buffered}
      BY <1>7 DEF RunTestcase, Start
    <2>2. console' = console
      BY <1>3, <2>1, NothingBehind
    <2>3. /\ Follows(all, rest') /\ Len(rest') = Len(rest) - 1 /\ Len(rest) >= 1
          /\ testcase' = all[(Len(all) - Len(rest)) + 1]
      BY <1>3, <2>1, FollowsNext
    <2>4. Taken' = Taken + 1 /\ Taken \in Nat /\ Current = 0 /\ Current' \in {0, 1}
      BY <1>1, <1>2, <1>3, <2>1, <2>3 DEF Taken, Current, InProgress
    <2>5. OutOf(all, console', Taken' - Current')
      <3>1. PICK t \in Nat, c \in {0, 1} : t = Taken /\ c = Current'
        BY <2>4
      <3>2. t - 0 <= (t + 1) - c /\ t - 0 \in Int /\ (t + 1) - c \in Int
        OBVIOUS
      <3>3. OutOf(all, console, t - 0)
        BY <1>3, <2>4, <3>1
      <3>4. OutOf(all, console, (t + 1) - c)
        BY <3>2, <3>3, OutOfMore
      <3> QED
        BY <2>2, <2>4, <3>1, <3>4
    <2>6. Taken' >= 1 /\ testcase' = all[Taken']
      BY <1>2, <1>3, <2>3, <2>4
    <2>7. failureCount' + Len(rest') + (IF step' = "idle" THEN 0 ELSE 1) <= n
      <3>1. failureCount + Len(rest) + 0 <= n
        BY <1>1, <1>2, <2>1 DEF OrderInv
      <3> QED
        BY <1>3, <2>1, <2>3, <3>1
    <2> QED
      BY <1>1, <1>2, <1>3, <2>1, <2>3, <2>5, <2>6, <2>7 DEF OrderInv, Ran
  <1>8. CASE InTestcase
    <2>1. /\ pc = "run" /\ pc' = pc /\ step \in InProgress
          /\ UNCHANGED <<rest, failureCount, testcase>>
          /\ \/ /\ UNCHANGED <<console, buffered>>
                /\ step' \in InProgress \union {"dead"}
             \/ /\ step' = "returned"
                /\ console' = console \o Append(buffered, testcase)
                /\ buffered' = <<>>
      BY <1>8, TestcaseMoves
    <2>2. /\ Taken' = Taken /\ Current = 1 /\ Current' \in {0, 1} /\ Taken \in 1 .. n
          /\ testcase = all[Taken]
      BY <1>1, <1>2, <1>3, <2>1 DEF Taken, Current, OrderInv
    <2>3. OutOf(all, console', Taken' - Current') /\ buffered' = <<>>
      <3>1. CASE UNCHANGED <<console, buffered>>
        <4>1. PICK t \in 1 .. n, c \in {0, 1} : t = Taken /\ c = Current'
          BY <2>2
        <4>2. t - 1 <= t - c /\ t - 1 \in Int /\ t - c \in Int
          OBVIOUS
        <4>3. OutOf(all, console, t - 1)
          BY <1>3, <2>2, <4>1
        <4>4. OutOf(all, console, t - c)
          BY <4>2, <4>3, OutOfMore
        <4> QED
          BY <1>3, <2>2, <3>1, <4>1, <4>4
      <3>2. CASE /\ step' = "returned"
                 /\ console' = console \o Append(buffered, testcase)
                 /\ buffered' = <<>>
        <4>1. Current' = 0 /\ Taken' - Current' = Taken /\ Taken - Current = Taken - 1
          BY <2>2, <3>2 DEF Current, InProgress
        <4>2. OutOf(all, console, Taken - 1)
          BY <1>3, <4>1
        <4>3. OutOf(all, console \o Append(buffered, all[Taken]), Taken)
          BY <1>1, <1>2, <1>3, <2>2, <4>2, OutOfNext
        <4> QED
          BY <2>2, <3>2, <4>1, <4>3
      <3> QED
        BY <2>1, <3>1, <3>2
    <2>4. step # "idle" /\ step' # "idle"
      BY <2>1 DEF InProgress
    <2>5. failureCount' + Len(rest') + (IF step' = "idle" THEN 0 ELSE 1) <= n
      BY <1>1, <1>2, <2>1, <2>4 DEF OrderInv
    <2>6. Taken' >= 1 /\ testcase' = all[Taken']
      BY <2>1, <2>2
    <2> QED
      BY <1>1, <1>2, <1>3, <2>1, <2>3, <2>5, <2>6 DEF OrderInv, Ran
  <1>9. CASE TestcaseReturns \/ RunFails
    <2>1. /\ pc = "run" /\ pc' = pc /\ step \in {"idle", "returned"} /\ step' = "idle"
          /\ UNCHANGED <<console, buffered>>
          /\ \/ failureCount' = -1 /\ rest' = <<>>
             \/ failureCount' = failureCount + rc /\ rest' = rest /\ step = "returned"
      BY <1>9 DEF TestcaseReturns, Forget, RunFails, reportVars
    <2>2. Follows(all, rest') /\ Len(rest') \in Nat /\ Len(rest') <= Len(rest)
      BY <1>3, <2>1, FollowsEnds
    <2>3. Current = 0 /\ Current' = 0 /\ step' \notin InProgress
      BY <2>1 DEF Current, InProgress
    <2>4. Taken' = n - Len(rest')
      BY <1>1, <1>2 DEF Taken
    <2>5. OutOf(all, console', Taken' - Current')
      <3>1. Taken - Current <= Taken' - Current' /\ Taken - Current \in Int
            /\ Taken' - Current' \in Int
        BY <1>3, <2>2, <2>3, <2>4
      <3> QED
        BY <1>3, <2>1, <3>1, OutOfMore
    <2>6. failureCount' + Len(rest') + 0 <= n
      <3>1. CASE failureCount' = -1 /\ rest' = <<>>
        BY <3>1
      <3>2. CASE failureCount' = failureCount + rc /\ rest' = rest /\ step = "returned"
        <4>1. failureCount + Len(rest) + 1 <= n
          BY <1>1, <1>2, <3>2 DEF OrderInv
        <4>2. rc \in -1 .. 1
          BY DEF RunTypeOK
        <4> QED
          BY <1>3, <3>2, <4>1, <4>2
      <3> QED
        BY <2>1, <3>1, <3>2
    <2> QED
      BY <1>1, <1>2, <1>3, <2>1, <2>2, <2>3, <2>5, <2>6 DEF OrderInv, Ran
  <1> QED
    BY <1>4, <1>5, <1>6, <1>7, <1>8, <1>9 DEF Next, Step, QuietStep

LEMMA ShownStep ==
    ASSUME ControlInv, ResultInv, RunTypeOK, RcInv, CountInv, OrderInv, ShownInv,
           [Next]_allVars
    PROVE  ShownInv'
  <1> SUFFICES ASSUME isolated' \/ faults' = 0
               PROVE  /\ FirstOf(AllCases, console)'
                      /\ (pc = "run" /\ failureCount >= 0 /\ step # "dead" /\ rc # -1 =>
                            Len(console) + Current = Taken)'
    BY DEF ShownInv
  <1>1. PICK all \in Seq(Cases) : all = AllCases /\ AllCases' = all /\ Once(all)
    BY AllCasesSame
  <1>2. PICK n \in Nat : n = Len(all)
    BY <1>1
  <1>3. isolated' = isolated /\ faults \in Nat /\ faults' >= faults /\ faults' \in Nat
    BY CommandLineSame, FaultsCounted, HeapAssumption DEF RunTypeOK, Counted
  <1>4. isolated \/ faults = 0
    BY <1>3
  <1>5. /\ FirstOf(all, console)
        /\ pc = "run" /\ failureCount >= 0 /\ step # "dead" /\ rc # -1 =>
             Len(console) + Current = Taken
    BY <1>1, <1>4 DEF ShownInv
  <1>6. /\ rest \in Seq(Cases) /\ Len(rest) \in Nat /\ Len(rest) <= n
        /\ console \in Seq(Cases) /\ Len(console) \in Nat /\ Taken = n - Len(rest)
        /\ Follows(all, rest) /\ buffered = <<>>
    BY <1>1, <1>2 DEF OrderInv, Follows, OutOf, Taken
  <1>7. CASE QuietStep
    <2>1. /\ UNCHANGED <<step, console, rest, failureCount, rc>>
          /\ pc' = "run" => pc = "run"
      BY <1>7, QuietFrame
    <2>2. Taken' = Taken /\ Current' = Current
      BY <1>1, <2>1 DEF Taken, Current
    <2> QED
      BY <1>1, <1>5, <2>1, <2>2
  <1>8. CASE CreateRunner
    <2>1. /\ pc = "runner" /\ UNCHANGED <<step, console>>
          /\ (pc' = "run" => rest' = all)
      BY <1>1, <1>8 DEF CreateRunner, reportVars
    <2>2. step = "idle" /\ console = <<>>
      BY <2>1 DEF ControlInv, OrderInv, Ran
    <2>3. Current' = 0 /\ Len(console') = 0
      BY <2>1, <2>2 DEF Current, InProgress
    <2>4. pc' = "run" => Taken' = 0
      BY <1>1, <1>2, <2>1 DEF Taken
    <2> QED
      BY <1>1, <1>5, <2>1, <2>3, <2>4
  <1>9. CASE DestroyReporter
    <2>1. pc' = "destroy" /\ console' = console \o buffered
      BY <1>9 DEF DestroyReporter, Flush
    <2>2. console' = console
      BY <1>6, <2>1, NothingBehind
    <2> QED
      BY <1>1, <1>5, <2>1, <2>2
  <1>10. CASE RunTestcase
    <2>1. /\ pc = "run" /\ rest # <<>> /\ rest' = Tail(rest) /\ step = "idle"
          /\ failureCount' = failureCount
          /\ console' \in {console, console \o buffered}
          /\ \/ step' \in {"output", "verdict"}
             \/ rc' = -1
             \/ ~isolated /\ Fault
      BY <1>10 DEF RunTestcase, Start
    <2>2. console' = console
      BY <1>6, <2>1, NothingBehind
    <2>3. Len(rest') = Len(rest) - 1
      BY <1>6, <2>1, FollowsNext
    <2>4. step' \in {"output", "verdict"} \/ rc' = -1
      BY <1>3, <2>1 DEF Fault
    <2>5. Taken' = Taken + 1 /\ Current = 0 /\ Taken \in Nat
      BY <1>1, <1>2, <1>6, <2>1, <2>3 DEF Taken, Current, InProgress
    <2>6. failureCount >= 0 => Len(console) = Taken
      <3>1. rc = 0
        BY <2>1 DEF RcInv
      <3> QED
        BY <1>5, <1>6, <2>1, <2>5, <3>1
    <2>7. rc' # -1 => Current' = 1
      BY <2>4 DEF Current, InProgress
    <2> QED
      BY <1>1, <1>5, <1>6, <2>1, <2>2, <2>5, <2>6, <2>7
  <1>11. CASE InTestcase
    <2>1. /\ pc = "run" /\ pc' = pc /\ step \in InProgress
          /\ UNCHANGED <<rest, failureCount, testcase>>
          /\ \/ /\ UNCHANGED <<console, buffered>>
                /\ (rc' = -1 <=> rc = -1)
                /\ step' \in InProgress \union {"dead"}
             \/ /\ step' = "returned" /\ rc # -1
                /\ console' = console \o Append(buffered, testcase)
      BY <1>11, TestcaseMoves
    <2>2. /\ Taken' = Taken /\ Current = 1 /\ Taken \in 1 .. n
          /\ testcase = all[Taken] /\ step \notin {"dead", "idle"}
      BY <1>1, <1>2, <1>6, <2>1 DEF Taken, Current, OrderInv, InProgress
    <2>3. CASE /\ UNCHANGED <<console, buffered>> /\ (rc' = -1 <=> rc = -1)
               /\ step' \in InProgress \union {"dead"}
      <3>1. step' # "dead" => Current' = 1
        BY <2>3 DEF Current
      <3> QED
        BY <1>1, <1>5, <2>1, <2>2, <2>3, <3>1
    <2>4. CASE /\ step' = "returned" /\ rc # -1
               /\ console' = console \o Append(buffered, testcase)
      <3>1. failureCount >= 0
        BY <2>2 DEF CountInv
      <3>2. Len(console) + 1 = Taken
        BY <1>5, <2>1, <2>2, <2>4, <3>1
      <3>3. FirstOf(all, console') /\ Len(console') = Taken
        <4>1. PICK t \in 1 .. Len(all), c \in Seq(Cases), b \in {<<>>}, w \in {console'} :
                t = Taken /\ c = console /\ b = buffered
          BY <1>2, <1>6, <2>2
        <4>2. NextOf(all, c, t, b, w)
          BY <1>5, <2>2, <2>4, <3>2, <4>1 DEF NextOf
        <4>3. FirstOf(all, w) /\ Len(w) = t
          BY <4>2, FirstOfNext
        <4> QED
          BY <4>1, <4>3, Zenon
      <3>4. Current' = 0
        BY <2>4 DEF Current, InProgress
      <3> QED
        BY <1>1, <2>2, <2>4, <3>3, <3>4
    <2> QED
      BY <2>1, <2>3, <2>4
  <1>12. CASE TestcaseReturns
    <2>1. /\ pc = "run" /\ step = "returned" /\ step' = "idle" /\ console' = console
          /\ \/ failureCount' = -1
             \/ failureCount' = failureCount + rc /\ rest' = rest /\ ~(rc < 0)
      BY <1>12 DEF TestcaseReturns, Forget
    <2>2. failureCount >= 0 /\ Current = 0 /\ Current' = 0 /\ rc \in -1 .. 1
      BY <2>1 DEF CountInv, Current, InProgress, RunTypeOK
    <2>3. CASE failureCount' = -1
      BY <1>1, <1>5, <2>1, <2>3
    <2>4. CASE failureCount' = failureCount + rc /\ rest' = rest /\ ~(rc < 0)
      <3>1. Taken' = Taken /\ rc # -1
        BY <1>1, <2>2, <2>4 DEF Taken
      <3> QED
        BY <1>1, <1>5, <2>1, <2>2, <3>1
    <2> QED
      BY <2>1, <2>3, <2>4
  <1>13. CASE RunFails
    <2>1. failureCount' = -1 /\ console' = console
      BY <1>13 DEF RunFails, reportVars
    <2> QED
      BY <1>1, <1>5, <2>1
  <1> QED
    BY <1>7, <1>8, <1>9, <1>10, <1>11, <1>12, <1>13 DEF Next, Step, QuietStep

(***************************************************************************)
(* The exit status                                                          *)
(***************************************************************************)

\* What the loader has found out when it goes on, or fails.
LEMMA LoaderKnows ==
    ASSUME LoadStep, Counted, faults \in Nat,
           load \in Checked => Module[argv[suite]].kind = "suite"
    PROVE  /\ suite' = suite
           /\ load' \in Checked => Module[argv[suite]].kind = "suite"
           /\ load' = "failed" => Module[argv[suite]].kind # "suite" \/ faults' > 0
  <1> DEFINE kind == Module[argv[suite]].kind
  <1> HIDE DEF kind
  <1> USE DEF Counted
  <1>1. ASSUME NEW at, NEW got, NEW next, NEW parts, Call(at, got, next, parts)
        PROVE  /\ load = at /\ suite' = suite
               /\ load' = next \/ (load' = "failed" /\ faults' > 0)
    BY <1>1 DEF Call, Fails, Fault
  <1>2. load \in Checked => kind = "suite"
    BY DEF kind
  <1>3. /\ suite' = suite
        /\ load' \in Checked => kind = "suite"
        /\ load' = "failed" => kind # "suite" \/ faults' > 0
    <2>1. CASE DlInit \/ DlAdviseInit \/ DlAdviseLocal
      <3>1. suite' = suite /\ (load' \in {"dladvise_init", "dladvise_local", "dlopen"}
                                \/ (load' = "failed" /\ faults' > 0))
        BY <1>1, <2>1 DEF DlInit, DlAdviseInit, DlAdviseLocal
      <3> QED
        BY <3>1 DEF Checked
    <2>2. CASE DlOpen
      <3>1. suite' = suite /\ (load' = "check" \/ (load' = "failed" /\ faults' > 0)
                                \/ (load' = "failed" /\ kind # "suite"))
        BY <1>1, <2>2 DEF DlOpen, Fails, kind
      <3> QED
        BY <3>1 DEF Checked
    <2>3. CASE Check
      <3>1. suite' = suite /\ (kind = "suite" => load' = "suite")
                           /\ (kind # "suite" => load' = "failed")
        BY <2>3 DEF Check, Fails, kind
      <3> QED
        BY <3>1 DEF Checked
    <2>4. CASE AllocSuite \/ AllocTests \/ CreateTest \/ AllocTestcases \/ CreateTestcase
      <3>1. suite' = suite /\ load \in Checked
            /\ (load' # "failed" \/ (load' = "failed" /\ faults' > 0))
        BY <1>1, <2>4 DEF AllocSuite, AllocTests, CreateTest, AllocTestcases,
           CreateTestcase, Checked
      <3> QED
        BY <1>2, <3>1
    <2>5. CASE NameTestcase \/ TestCreated \/ Loaded
      <3>1. suite' = suite /\ load \in Checked
            /\ (load' # "failed" \/ (load' = "failed" /\ faults' > 0))
        BY <2>5 DEF NameTestcase, TestCreated, Loaded, Fails, Fault, Checked
      <3> QED
        BY <1>2, <3>1
    <2> QED
      BY <2>1, <2>2, <2>3, <2>4, <2>5 DEF LoadStep
  <1> QED
    BY <1>3 DEF kind

\* What an exit status says stays true.
LEMMA JustifiedStill ==
    ASSUME Justified, UNCHANGED <<exit, option, command, isolated, console, failed,
                                  unsuccessful>>,
           Unloadable' = Unloadable, AllCases' = AllCases, Runs' = Runs,
           faults \in Nat, faults' \in Nat, faults' >= faults
    PROVE  Justified'
  <1>1. faults > 0 => faults' > 0
    OBVIOUS
  <1> QED
    BY <1>1 DEF Justified

\* All test cases were run, and nothing went wrong.
LEMMA AllShown ==
    ASSUME ControlInv, RcInv, CountInv, OrderInv, ShownInv, DestroyRunner
    PROVE  /\ failureCount = 0 /\ isolated => console = AllCases /\ ~failed
           /\ failureCount # 0 => faults > 0 \/ unsuccessful
  <1>1. pc = "run" /\ step = "idle" /\ rest = <<>>
    BY DEF DestroyRunner
  <1>2. failureCount # 0 => faults > 0 \/ unsuccessful
    <2>1. failureCount \in Int /\ failureCount >= -1
      BY DEF CountInv
    <2>2. failureCount # 0 => failureCount = -1 \/ failureCount > 0
      BY <2>1
    <2> QED
      BY <2>2 DEF CountInv
  <1>3. ASSUME failureCount = 0, isolated PROVE console = AllCases /\ ~failed
    <2>1. ~failed
      BY <1>3 DEF CountInv
    <2>2. PICK all \in Seq(Cases) : all = AllCases /\ Len(all) \in Nat
      BY AllCasesProperties DEF ControlInv
    <2>3. PICK c \in Seq(Cases) : c = console
      BY DEF OrderInv, OutOf
    <2>4. rc = 0 /\ Current = 0 /\ Taken = Len(all)
      BY <1>1, <2>2 DEF RcInv, Current, InProgress, Taken
    <2>5. Len(c) = Len(all) /\ \A i \in 1 .. Len(c) : c[i] = all[i]
      <3>1. Len(c) + 0 = Len(all) /\ Len(c) \in Nat
        BY <1>1, <1>3, <2>2, <2>3, <2>4 DEF ShownInv
      <3>2. FirstOf(all, c)
        BY <1>3, <2>2, <2>3 DEF ShownInv
      <3> QED
        BY <3>1, <3>2 DEF FirstOf
    <2>6. c = all
      BY <2>5, SeqEqual
    <2> QED
      BY <2>1, <2>2, <2>3, <2>6
  <1> QED
    BY <1>2, <1>3

LEMMA ExitStep ==
    ASSUME ControlInv, LoadInv, RunTypeOK, RcInv, CountInv, OrderInv, ShownInv,
           ExitInv, [Next]_allVars
    PROVE  ExitInv'
  <1>1. /\ UNCHANGED <<command, option, isolated, argv>>
        /\ command \in {"run", "ls", "unknown", "none"}
        /\ option \in {"none", "-h", "-?", "cmd -h", "cmd -?"}
    BY CommandLineSame DEF ExitInv
  <1>2. Runs' = Runs /\ Unloadable' = Unloadable /\ AllCases' = AllCases
    BY <1>1 DEF Runs, Unloadable, AllCases, CasesOf, Tests
  <1>3. /\ faults \in Nat /\ faults' >= faults /\ faults' \in Nat
        /\ (faults > 0 => faults' > 0) /\ Counted
    BY FaultsCounted, HeapAssumption DEF RunTypeOK, Counted
  <1>4. DOMAIN argv = 1 .. Len(argv) /\ Len(argv) \in Nat
        /\ suite \in 1 .. (Len(argv) + 1)
    BY DEF ControlInv
  <1>5. CASE Main
    <2>1. /\ pc = "main" /\ UNCHANGED <<load, suite, faults>>
          /\ \/ /\ option # "none" \/ command = "unknown"
                /\ pc' = "exited" /\ exit' = Usage
             \/ option = "none" /\ command # "unknown" /\ pc' = "collection"
      BY <1>5 DEF Main, loaderVars, heapVars
    <2>2. load = "idle"
      BY <2>1 DEF ControlInv
    <2>3. pc' = "exited" => Justified'
      <3>1. Usage = EX_OK <=> option \in {"-h", "cmd -h"}
        <4>1. EX_OK \notin {EX_USAGE, EX_SOFTWARE, LsFailed}
          BY DEF EX_OK, EX_USAGE, EX_SOFTWARE, LsFailed
        <4>2. CASE option \in {"-h", "cmd -h"}
          BY <4>2, Zenon DEF Usage
        <4>3. CASE option = "none"
          BY <4>1, <4>3, Zenon DEF Usage
        <4>4. CASE option = "-?"
          BY <4>1, <4>4, Zenon DEF Usage
        <4>5. CASE option = "cmd -?"
          BY <4>1, <4>5, Zenon DEF Usage
        <4> QED
          BY <1>1, <4>2, <4>3, <4>4, <4>5
      <3>2. pc' = "exited" /\ exit' = EX_OK => option' # "none"
        BY <1>1, <2>1, <3>1
      <3>3. pc' = "exited" /\ exit' # EX_OK =>
              command' = "unknown" \/ option' \in {"-?", "cmd -?"}
        BY <1>1, <2>1, <3>1
      <3> QED
        BY <3>2, <3>3 DEF Justified
    <2> QED
      BY <1>1, <2>1, <2>2, <2>3 DEF ExitInv, WithReporter, Ran
  <1>6. CASE AllocCollection \/ AllocTestsuites
    <2>1. /\ pc \in {"collection", "testsuites"} /\ UNCHANGED <<load, suite>>
          /\ \/ pc' \in {"load", "testsuites"}
             \/ pc' = "exited" /\ exit' = Unavailable /\ faults' = faults + 1
      BY <1>6 DEF AllocCollection, AllocTestsuites, loaderVars, FaultOnly, Fault
    <2>2. load = "idle" /\ suite = 1 /\ option = "none" /\ command # "unknown"
      BY <2>1 DEF ControlInv, ExitInv
    <2>3. pc' = "exited" => Justified'
      <3>1. pc' = "exited" => faults' > 0 /\ exit' # EX_OK
        BY <1>3, <2>1 DEF Unavailable, EX_OK, EX_UNAVAILABLE, LsFailed
      <3> QED
        BY <3>1 DEF Justified
    <2>4. \A s \in 1 .. Len(argv) : ~(s < suite)
      BY <1>4, <2>2
    <2> QED
      BY <1>1, <2>1, <2>2, <2>3, <2>4 DEF ExitInv, WithReporter, Ran, Checked
  <1>7. CASE LoadTestsuite \/ TestsuiteLoaded
    <2>1. /\ pc = "load" /\ pc' = pc
          /\ \/ suite' = suite /\ load = "idle" /\ load' = "dlinit"
             \/ suite' = suite + 1 /\ load = "loaded" /\ load' = "idle"
      BY <1>7 DEF LoadTestsuite, TestsuiteLoaded
    <2>2. \A s \in 1 .. Len(argv) :
            s < suite' => s < suite \/ (s = suite /\ load \in Checked)
      BY <1>4, <2>1 DEF Checked
    <2>3. \A s \in 1 .. Len(argv) : s < suite' => Module[argv[s]].kind = "suite"
      BY <2>1, <2>2 DEF ExitInv
    <2>4. load' \notin Checked /\ load' # "failed"
      BY <2>1 DEF Checked
    <2>5. option = "none" /\ command # "unknown"
      BY <2>1 DEF ExitInv
    <2> QED
      BY <1>1, <2>1, <2>3, <2>4, <2>5 DEF ExitInv, WithReporter, Ran
  <1>8. CASE InLoader
    <2>1. pc = "load" /\ pc' = pc /\ suite <= Len(argv) /\ LoadStep
      BY <1>8 DEF InLoader
    <2>2. suite \in 1 .. Len(argv) /\ suite \in DOMAIN argv
      BY <1>4, <2>1
    <2>3. load \in Checked => Module[argv[suite]].kind = "suite"
      BY <2>1, <2>2 DEF ExitInv
    <2>4. /\ suite' = suite
          /\ load' \in Checked => Module[argv[suite]].kind = "suite"
          /\ load' = "failed" => Module[argv[suite]].kind # "suite" \/ faults' > 0
      BY <1>3, <2>1, <2>3, LoaderKnows
    <2>5. load' = "failed" => Unloadable \/ faults' > 0
      BY <2>2, <2>4 DEF Unloadable
    <2>6. \A s \in 1 .. Len(argv) :
            s < suite \/ (s = suite /\ load' \in Checked) =>
              Module[argv[s]].kind = "suite"
      BY <2>1, <2>4 DEF ExitInv
    <2>7. option = "none" /\ command # "unknown"
      BY <2>1 DEF ExitInv
    <2> QED
      BY <1>1, <1>2, <2>1, <2>4, <2>5, <2>6, <2>7 DEF ExitInv, WithReporter, Ran
  <1>9. CASE LoadSuiteFailed
    <2>1. /\ pc = "load" /\ load = "failed" /\ pc' = "destroy" /\ load' = "idle"
          /\ exit' = Unavailable
      BY <1>9 DEF LoadSuiteFailed
    <2>2. option = "none" /\ command # "unknown" /\ (Unloadable \/ faults > 0)
      BY <2>1 DEF ExitInv
    <2>3. exit' # EX_OK
      BY <2>1 DEF Unavailable, EX_OK, EX_UNAVAILABLE, LsFailed
    <2>4. Justified'
      BY <1>2, <1>3, <2>2, <2>3 DEF Justified
    <2> QED
      BY <1>1, <2>1, <2>2, <2>4 DEF ExitInv, WithReporter
  <1>10. CASE AllLoaded
    <2>1. /\ pc = "load" /\ suite > Len(argv) /\ load' = load
          /\ pc' = IF Runs THEN "reporter" ELSE "list"
          /\ exit' = IF Runs THEN EX_UNAVAILABLE ELSE exit
      BY <1>10 DEF AllLoaded
    <2>2. load = "idle"
      <3>1. ~(suite <= Len(argv))
        BY <1>4, <2>1
      <3> QED
        BY <2>1, <3>1 DEF LoadInv
    <2>3. ~Unloadable
      <3>1. \A s \in 1 .. Len(argv) : s < suite
        BY <1>4, <2>1
      <3> QED
        BY <1>4, <2>1, <3>1 DEF Unloadable, ExitInv
    <2>4. option = "none" /\ command # "unknown"
      BY <2>1 DEF ExitInv
    <2> QED
      BY <1>1, <1>2, <2>1, <2>2, <2>3, <2>4 DEF ExitInv, WithReporter, Ran
  <1>11. CASE List
    <2>1. pc = "list" /\ pc' = "destroy" /\ exit' = EX_OK /\ load' = load
      BY <1>11 DEF List, loaderVars
    <2>2. ~Runs /\ ~Unloadable /\ load = "idle" /\ option = "none" /\ command # "unknown"
      BY <2>1 DEF ExitInv, ControlInv
    <2>3. Justified'
      BY <1>1, <1>2, <2>1, <2>2 DEF Justified
    <2> QED
      BY <1>1, <2>1, <2>2, <2>3 DEF ExitInv, WithReporter
  <1>12. CASE CreateReporter \/ CreateRunner
    <2>1. /\ pc \in {"reporter", "runner"} /\ UNCHANGED <<load, exit>>
          /\ \/ pc' \in {"runner", "run"}
             \/ /\ pc' = IF pc = "reporter" THEN "destroy" ELSE "runner_creation_failed"
                /\ faults' = faults + 1
      BY <1>12 DEF CreateReporter, CreateRunner, loaderVars, FaultOnly, Fault
    <2>2. /\ Runs /\ ~Unloadable /\ load = "idle" /\ option = "none"
          /\ command # "unknown" /\ exit = EX_UNAVAILABLE
      BY <2>1 DEF ExitInv, ControlInv, WithReporter
    <2>3. pc' \in Ran => Justified'
      <3>1. pc' \in Ran => faults' > 0 /\ exit' # EX_OK
        BY <1>3, <2>1, <2>2 DEF EX_OK, EX_UNAVAILABLE, Ran
      <3> QED
        BY <3>1 DEF Justified
    <2> QED
      BY <1>1, <1>2, <2>1, <2>2, <2>3 DEF ExitInv, WithReporter
  <1>13. CASE RunTestcase \/ InTestcase \/ TestcaseReturns \/ RunFails
    <2>1. pc = "run" /\ pc' = pc /\ UNCHANGED <<load, exit>>
      BY <1>13 DEF RunTestcase, InTestcase, TestcaseReturns, RunFails, loaderVars
    <2>2. load = "idle"
      BY <2>1 DEF ControlInv
    <2> QED
      BY <1>1, <1>2, <2>1, <2>2 DEF ExitInv, WithReporter, Ran
  <1>14. CASE DestroyRunner
    <2>1. /\ pc = "run" /\ pc' = "runner_creation_failed" /\ load' = load
          /\ exit' = Status /\ UNCHANGED <<console, failed, unsuccessful, faults>>
      BY <1>14 DEF DestroyRunner, loaderVars, reportVars, runVars
    <2>2. /\ Runs /\ ~Unloadable /\ load = "idle" /\ option = "none"
          /\ command # "unknown"
      BY <2>1 DEF ExitInv, ControlInv, WithReporter
    <2>3. exit' = EX_OK <=> failureCount = 0
      BY <2>1 DEF Status, EX_OK, EX_UNAVAILABLE
    <2>4. Justified'
      <3>1. exit' = EX_OK /\ isolated => console' = AllCases' /\ ~failed'
        BY <1>2, <1>14, <2>1, <2>3, AllShown
      <3>2. exit' # EX_OK => faults' > 0 \/ unsuccessful'
        BY <1>14, <2>1, <2>3, AllShown
      <3> QED
        BY <1>1, <1>2, <2>2, <3>1, <3>2 DEF Justified
    <2> QED
      BY <1>1, <1>2, <2>1, <2>2, <2>4 DEF ExitInv, WithReporter
  <1>15. CASE DestroyReporter \/ DestroyTestsuite \/ DestroyCollection
    <2>1. /\ pc \in Ran /\ pc # "exited" /\ pc' \in Ran /\ pc' # "runner_creation_failed"
          /\ UNCHANGED <<exit, failed, unsuccessful>>
          /\ load' \in {load, "idle", "closing"}
          /\ console' \in {console, console \o buffered}
      BY <1>15 DEF DestroyReporter, DestroyTestsuite, DestroyCollection, loaderVars,
         reportVars, runVars, Flush, Ran
    <2>2. console' = console
      <3>1. console \in Seq(Cases) /\ buffered = <<>>
        BY DEF OrderInv, OutOf
      <3> QED
        BY <2>1, <3>1, NothingBehind
    <2>3. Justified'
      <3>1. Justified
        BY <2>1 DEF ExitInv
      <3> QED
        BY <1>1, <1>2, <1>3, <2>1, <2>2, <3>1, JustifiedStill
    <2>4. load' # "failed" /\ option = "none" /\ command # "unknown"
      BY <2>1 DEF ExitInv, ControlInv, Ran
    <2> QED
      BY <1>1, <2>1, <2>3, <2>4 DEF ExitInv, WithReporter, Ran
  <1>16. CASE UNCHANGED allVars
    <2>1. UNCHANGED <<pc, suite, load, exit, console, failed, unsuccessful, faults>>
      BY <1>16 DEF allVars, heapVars, loaderVars, reportVars, runVars
    <2>2. Justified => Justified'
      BY <1>1, <1>2, <1>3, <2>1, JustifiedStill
    <2> QED
      BY <1>1, <1>2, <2>1, <2>2 DEF ExitInv
  <1> QED
    BY <1>5, <1>6, <1>7, <1>8, <1>9, <1>10, <1>11, <1>12, <1>13, <1>14, <1>15, <1>16
    DEF Next, Step

(***************************************************************************)
(* The run                                                                  *)
(***************************************************************************)

RunInv ==
    /\ CliInv /\ RunTypeOK /\ RoomInv /\ RcInv /\ CountInv
    /\ OrderInv /\ ShownInv /\ ExitInv

LEMMA RunInitInv == Init => RunInv
  <1> SUFFICES ASSUME Init PROVE RunInv
    OBVIOUS
  <1>1. CliInv /\ ControlInv
    BY CliInitInv DEF CliInv
  <1>2. /\ faults = 0 /\ unread = <<>> /\ capacity = 0 /\ kept = <<>>
        /\ output = "none" /\ step = "idle" /\ reporter = "PENDING" /\ type = "PASS"
        /\ rc = 0 /\ printed = 0 /\ buffered = <<>> /\ console = <<>>
    BY DEF Init, HeapInit, ReportInit, OutputInit
  <1>3. /\ pc = "main" /\ exit = EX_SOFTWARE /\ rest = <<>> /\ failureCount = 0
        /\ ~failed /\ load = "idle" /\ argv \in ArgVectors
    BY DEF Init, LoaderInit
  <1>4. AllCases \in Seq(Cases) /\ Len(AllCases) \in Nat
    BY <1>1, AllCasesProperties DEF ControlInv
  <1>5. RunTypeOK
    <2>1. faults \in 0 .. MaxFaults /\ rc \in -1 .. 1
      BY <1>2, HeapAssumption
    <2> QED
      BY <1>2, <1>3, <2>1 DEF RunTypeOK
  <1>6. RoomInv
    BY <1>2 DEF RoomInv
  <1>7. RcInv
    BY <1>2 DEF RcInv
  <1>8. CountInv
    <2>1. ~failed /\ 0 \in Int /\ 0 >= -1 /\ 0 # -1 /\ ~(0 > 0)
      BY <1>3
    <2> QED
      BY <1>3, <2>1 DEF CountInv
  <1>9. OrderInv
    <2>1. Follows(AllCases, rest) /\ OutOf(AllCases, console, 0) /\ Len(rest) = 0
      BY <1>2, <1>3, <1>4, FollowsEnds
    <2>2. Taken = Len(AllCases) /\ Current = 0
      BY <1>2, <1>4, <2>1 DEF Taken, Current, InProgress
    <2>3. OutOf(AllCases, console, Taken - Current)
      <3>1. PICK all, c : all = AllCases /\ c = console
        OBVIOUS
      <3>2. PICK n \in Nat : n = Taken
        BY <1>4, <2>2
      <3>3. 0 <= n /\ 0 \in Int /\ n \in Int /\ n - 0 = n
        OBVIOUS
      <3>4. OutOf(all, c, n)
        BY <2>1, <3>1, <3>3, OutOfMore
      <3> QED
        BY <2>2, <3>1, <3>2, <3>3, <3>4
    <2>4. 0 + 0 + 0 <= Len(AllCases)
      BY <1>4
    <2>5. failureCount + Len(rest) + (IF step = "idle" THEN 0 ELSE 1) <= Len(AllCases)
      BY <1>2, <1>3, <2>1, <2>4
    <2> QED
      BY <1>2, <1>3, <2>1, <2>3, <2>5 DEF OrderInv, InProgress, Ran
  <1>10. ShownInv
    <2>1. Len(console) = 0 /\ 0 <= Len(AllCases) /\ 1 .. 0 = {} /\ pc # "run"
      BY <1>2, <1>3, <1>4
    <2> QED
      BY <2>1 DEF ShownInv, FirstOf
  <1>11. ExitInv
    BY <1>3 DEF ExitInv, Init, WithReporter, Ran
  <1> QED
    BY <1>1, <1>5, <1>6, <1>7, <1>8, <1>9, <1>10, <1>11 DEF RunInv

\* The test cases are run, reported and counted in order, and the exit status
\* follows from that: at every step of the command.
THEOREM RunInvariance == Spec => []RunInv
  <1>1. Init => RunInv
    BY RunInitInv
  <1>2. RunInv /\ [Next]_allVars => RunInv'
    <2> SUFFICES ASSUME RunInv, [Next]_allVars PROVE RunInv'
      OBVIOUS
    <2> USE DEF RunInv
    <2>1. /\ CliInv' /\ ControlInv /\ LoadInv /\ OutputInv /\ ResultInv
      BY CliStep DEF CliInv
    <2>2. RunTypeOK' /\ RoomInv' /\ RcInv'
      BY <2>1, RunTyped, RoomStep, RcStep
    <2>3. CountInv' /\ OrderInv'
      BY <2>1, CountStep, OrderStep
    <2>4. ShownInv' /\ ExitInv'
      BY <2>1, ShownStep, ExitStep
    <2> QED
      BY <2>1, <2>2, <2>3, <2>4
  <1> QED
    BY <1>1, <1>2, PTL DEF Spec

\* The state of the command, of the suites, of the test case in progress and of
\* the run have their types; in particular the output of a test case never
\* exceeds its buffer, and no more failures are counted than there are test cases.
THEOREM TypeCorrect == Spec => []TypeOK
  <1>1. RunInv => TypeOK
    <2> SUFFICES ASSUME RunInv PROVE TypeOK
      OBVIOUS
    <2> USE DEF RunInv, CliInv
    <2>1. argv \in ArgVectors /\ faults \in 0 .. MaxFaults
      BY DEF RunTypeOK
    <2>2. isolated \in BOOLEAN
      BY DEF OutputInv, OutputTypeOK
    <2>3. misused \in BOOLEAN
      BY Zenon DEF HeapInv
    <2>4. /\ pc \in {"main", "collection", "testsuites", "load", "list", "reporter",
                     "runner", "run", "runner_creation_failed", "destroy", "exited"}
          /\ load \in {"idle", "dlinit", "dladvise_init", "dladvise_local", "dlopen",
                       "check", "suite", "tests", "test", "testcases", "testcase",
                       "name", "loaded", "failed", "closing"}
          /\ suite \in 1 .. Len(argv) + 1 /\ count \in 0 .. Len(argv)
          /\ test \in Nat /\ cases \in Nat
      BY DEF ControlInv, LoadInv, Prologue, WithReporter, Loads
    <2>5. Len(kept) <= capacity /\ Len(kept) + Len(unread) <= printed
      BY DEF RoomInv
    <2>6. failureCount \in -1 .. Len(AllCases)
      <3>1. Len(AllCases) \in Nat /\ Len(rest) \in Nat
        BY AllCasesProperties DEF ControlInv, OrderInv, Follows
      <3>2. failureCount \in Int /\ failureCount >= -1
        BY DEF CountInv
      <3>3. failureCount + Len(rest) + (IF step = "idle" THEN 0 ELSE 1) <= Len(AllCases)
        BY DEF OrderInv
      <3> QED
        BY <3>1, <3>2, <3>3
    <2> QED
      BY <2>1, <2>2, <2>3, <2>4, <2>5, <2>6 DEF TypeOK, RunTypeOK
  <1> QED
    BY <1>1, RunInvariance, PTL

\* For any suites and whatever calls fail: the command exits with success only if
\* it has listed all suites or has run and reported all their test cases in
\* order and none failed (but for the direct runner), and otherwise only if there
\* was something wrong.
THEOREM ExitAlwaysFaithful == Spec => []ExitFaithful
  <1>1. RunInv => ExitFaithful
    BY DEF RunInv, ExitInv, Ran, Justified, ExitFaithful
  <1> QED
    BY <1>1, RunInvariance, PTL

(***************************************************************************)
(* What is reported of a test case                                          *)
(***************************************************************************)

\* The result holds the failure the test told of, if there is one.
ToldInv ==
    /\ told = <<>> => failure = <<>>
    /\ told # <<>> =>
         \E f \in Failures : told = <<f>> /\ Contents(ParentBuf, f, failure)

\* What the reporter has printed about it.
SaidInv ==
    shown # NotShown =>
        /\ step = "returned" /\ console # <<>> /\ testcase = Last(console)
        /\ type \in {"FAIL", "ERROR"} => shown.failure = told
        /\ type = "FAIL" /\ told # <<>> =>
             (shown.label = "FAILED" <=> told[1].stage = "EXECUTION")

\* By which way ever the failure comes to the result.
LEMMA PassedOn ==
    ASSUME NEW f \in Failures, NEW child
    PROVE  IsFailure(f) /\ Contents(ParentBuf, f, Passed(f, child))
  <1>1. /\ ChildBuf \in Nat \ {0} /\ ParentBuf \in Nat \ {0} /\ IsFailure(f)
    BY ReportAssumption DEF Null
  <1>2. CASE ~child
    <2>1. Passed(f, child) = failure_storage_format(ParentBuf, f)
      BY <1>2 DEF Passed
    <2> QED
      BY <1>1, <2>1, Formatted
  <1>3. CASE child
    <2>1. PICK mem, size : mem = failure_storage_format(ChildBuf, f)
                           /\ size = failure_storage_size(f)
      OBVIOUS
    <2>2. Contents(ChildBuf, f, mem)
      BY <1>1, <2>1, Formatted
    <2>3. FormatResult(ChildBuf, mem, size) = size
      BY <1>1, <2>1, <2>2, FormatSound
    <2>4. Passed(f, child) = failure_storage_deserialize(ParentBuf,
              Copied(failure_storage_serialize(ChildBuf, mem), ChildBuf, ParentBuf))
      BY <1>3, <2>1, <2>3 DEF Passed
    <2> QED
      BY <1>1, <2>2, <2>4, Relocated
  <1> QED
    BY <1>1, <1>2, <1>3

\* What the result holds is what the test told of.
LEMMA AsTold ==
    ASSUME ToldInv
    PROVE  /\ failure = <<>> <=> told = <<>>
           /\ failure # <<>> => told = <<Read(ParentBuf, failure)>>
           /\ failure # <<>> => told[1].stage \in {"SETUP", "EXECUTION", "TEARDOWN"}
           /\ failure # <<>> => Sound(ParentBuf, failure, failure_storage_size(told[1]))
  <1>1. CASE told = <<>>
    BY <1>1 DEF ToldInv
  <1>2. CASE told # <<>>
    <2>1. PICK f \in Failures, mem \in {failure} : told = <<f>> /\ Contents(ParentBuf, f, mem)
      BY <1>2 DEF ToldInv
    <2>2. /\ ParentBuf \in Nat \ {0} /\ IsFailure(f) /\ ParentBuf % Word = 0
      BY ReportAssumption DEF Null
    <2>3. mem # <<>>
      <3>1. ParentBuf \in DOMAIN mem
        BY <2>1 DEF Contents
      <3>2. DOMAIN <<>> = {}
        OBVIOUS
      <3> QED
        BY <3>1, <3>2
    <2>4. Read(ParentBuf, mem) = f
      BY <2>1, <2>2, ReadBack
    <2>5. f.stage \in {"SETUP", "EXECUTION", "TEARDOWN"}
      BY <2>2 DEF IsFailure
    <2>6. Sound(ParentBuf, mem, failure_storage_size(f))
      BY <2>1, <2>2, FormatSound, Aligned DEF Sound
    <2>7. told[1] = f
      BY <2>1
    <2> QED
      BY <1>2, <2>1, <2>3, <2>4, <2>5, <2>6, <2>7
  <1> QED
    BY <1>1, <1>2

LEMMA ToldStep ==
    ASSUME ToldInv, ControlInv, [Next]_allVars
    PROVE  ToldInv'
  <1>1. CASE UNCHANGED <<told, failure>>
    BY <1>1 DEF ToldInv
  <1>2. CASE QuietStep
    BY <1>1, <1>2, QuietFrame
  <1>3. CASE CreateRunner \/ RunTestcase \/ DestroyReporter \/ RunFails
    <2>1. UNCHANGED <<told, failure>>
      BY <1>3 DEF CreateRunner, RunTestcase, Start, DestroyReporter, RunFails, reportVars
    <2> QED
      BY <1>1, <2>1
  <1>4. CASE TestcaseReturns
    <2>1. told' = <<>> /\ failure' = <<>>
      BY <1>4 DEF TestcaseReturns, Forget
    <2> QED
      BY <2>1 DEF ToldInv
  <1>5. CASE InTestcase /\ ~SetFailure
    <2>1. UNCHANGED <<told, failure>>
      BY <1>5 DEF InTestcase, ReportStep, CollectOutput, BuildOutput, Complete
    <2> QED
      BY <1>1, <2>1
  <1>6. CASE SetFailure
    <2>1. \/ UNCHANGED <<told, failure>>
          \/ \E f \in Failures : \E child : told' = <<f>> /\ failure' = Passed(f, child)
      BY <1>6 DEF SetFailure
    <2>2. CASE \E f \in Failures : \E child : told' = <<f>> /\ failure' = Passed(f, child)
      <3>1. PICK f \in Failures : \E child : told' = <<f>> /\ failure' = Passed(f, child)
        BY <2>2
      <3>2. PICK child : told' = <<f>> /\ failure' = Passed(f, child)
        BY <3>1
      <3>3. Contents(ParentBuf, f, Passed(f, child))
        BY PassedOn
      <3>4. told' # <<>> /\ Contents(ParentBuf, f, failure')
        BY <3>2, <3>3
      <3> QED
        BY <3>2, <3>4 DEF ToldInv
    <2> QED
      BY <1>1, <2>1, <2>2
  <1> QED
    BY <1>2, <1>3, <1>4, <1>5, <1>6 DEF Next, Step, QuietStep

\* What a complete report says.
LEMMA Said ==
    ASSUME Complete, ToldInv, reporter = "RUNNING", step' # "dead"
    PROVE  /\ UNCHANGED <<type, told>>
           /\ type \in {"FAIL", "ERROR"} => shown'.failure = told
           /\ type = "FAIL" /\ told # <<>> =>
                (shown'.label = "FAILED" <=> told[1].stage = "EXECUTION")
  <1>1. PICK seen : seen = IF failure = <<>> THEN <<>> ELSE <<Read(ParentBuf, failure)>>
    OBVIOUS
  <1>2. seen = told
    BY <1>1, AsTold
  <1>3. /\ UNCHANGED <<type, told>>
        /\ shown' = [label |-> Label(seen),
                     failure |-> IF type \in {"FAIL", "ERROR"} THEN seen ELSE <<>>,
                     output |-> IF type \in {"FAIL", "ERROR"} THEN kept ELSE <<>>]
    BY <1>1 DEF Complete
  <1>4. ASSUME type = "FAIL", told # <<>>
        PROVE  Label(seen) = "FAILED" <=> told[1].stage = "EXECUTION"
    <2>1. told[1].stage \in {"SETUP", "EXECUTION", "TEARDOWN"}
      BY <1>4, AsTold
    <2>2. Label(seen) = CASE told[1].stage = "SETUP" -> "SETUP FAILED"
                          [] told[1].stage = "TEARDOWN" -> "TEARDOWN FAILED"
                          [] OTHER -> "FAILED"
      BY <1>2, <1>4 DEF Label
    <2> QED
      BY <2>1, <2>2
  <1> QED
    BY <1>2, <1>3, <1>4

LEMMA SaidStep ==
    ASSUME SaidInv, ToldInv, ControlInv, ResultInv, OrderInv, RcInv, [Next]_allVars
    PROVE  SaidInv'
  <1>1. CASE shown' = NotShown
    BY <1>1 DEF SaidInv, NotShown
  <1>2. CASE UNCHANGED <<shown, step, console, testcase, type, told>>
    BY <1>2 DEF SaidInv, NotShown
  <1>3. CASE QuietStep
    BY <1>2, <1>3, QuietFrame
  <1>4. CASE CreateRunner \/ RunFails
    <2>1. UNCHANGED <<shown, step, console, testcase, type, told>>
      BY <1>4 DEF CreateRunner, RunFails, reportVars
    <2> QED
      BY <1>2, <2>1
  <1>5. CASE DestroyReporter
    <2>1. UNCHANGED <<shown, step, testcase, type, told>> /\ console' = console \o buffered
      BY <1>5 DEF DestroyReporter, Flush
    <2>2. console \in Seq(Cases) /\ buffered = <<>>
      BY DEF OrderInv, OutOf
    <2>3. console' = console
      BY <2>1, <2>2, NothingBehind
    <2> QED
      BY <1>2, <2>1, <2>3
  <1>6. CASE RunTestcase
    <2>1. step = "idle" /\ shown' = shown
      BY <1>6 DEF RunTestcase, Start
    <2>2. shown' = NotShown
      BY <2>1 DEF SaidInv
    <2> QED
      BY <1>1, <2>2
  <1>7. CASE TestcaseReturns
    <2>1. shown' = NotShown
      BY <1>7 DEF TestcaseReturns, Forget, NotShown
    <2> QED
      BY <1>1, <2>1
  <1>8. CASE InTestcase /\ ~Complete
    <2>1. shown' = shown /\ step \in InProgress
      BY <1>8 DEF InTestcase, ReportStep, CollectOutput, SetFailure, BuildOutput, InProgress
    <2>2. shown' = NotShown
      BY <2>1 DEF SaidInv, InProgress
    <2> QED
      BY <1>1, <2>2
  <1>9. CASE InTestcase /\ Complete
    <2>1. step = "complete" /\ reporter = "RUNNING" /\ shown = NotShown
      BY <1>9 DEF Complete, ResultInv, InProgress, SaidInv
    <2>2. CASE step' = "dead"
      <3>1. shown' = shown
        BY <1>9, <2>1, <2>2 DEF Complete
      <3> QED
        BY <1>1, <2>1, <3>1
    <2>3. CASE step' # "dead"
      <3>1. /\ step' = "returned" /\ testcase' = testcase
            /\ console' = console \o Append(buffered, testcase)
        BY <1>9, <2>1, <2>3 DEF Complete, Flush
      <3>2. testcase \in Cases /\ console \in Seq(Cases) /\ buffered = <<>>
        <4>1. PICK all \in Seq(Cases), t \in Int :
                all = AllCases /\ t = Taken /\ t >= 1 /\ t <= Len(all) /\ Len(all) \in Nat
          <5>1. AllCases \in Seq(Cases) /\ Len(AllCases) \in Nat
            BY AllCasesSame
          <5>2. Len(rest) \in Nat /\ Taken = Len(AllCases) - Len(rest) /\ Taken >= 1
            BY <2>1 DEF OrderInv, Follows, Taken, InProgress
          <5>3. PICK n \in Nat, r \in Nat : n = Len(AllCases) /\ r = Len(rest)
            BY <5>1, <5>2
          <5>4. n - r \in Int /\ n - r <= n /\ Taken = n - r
            BY <5>2, <5>3
          <5> QED
            BY <5>1, <5>2, <5>3, <5>4
        <4>2. testcase = all[t] /\ t \in 1 .. Len(all)
          BY <2>1, <4>1 DEF OrderInv, InProgress
        <4>3. all[t] \in Cases
          BY <4>2
        <4> QED
          BY <4>2, <4>3 DEF OrderInv, OutOf
      <3>3. console' # <<>> /\ testcase' = Last(console')
        <4>1. PICK c \in Seq(Cases), x \in Cases, b \in {buffered}, w \in {console'} :
                c = console /\ x = testcase
          BY <3>2
        <4>2. w \in Seq(Cases) /\ Len(w) = Len(c) + 1 /\ w[Len(c) + 1] = x
          BY <3>1, <3>2, <4>1, Reported
        <4>3. w # <<>> /\ w[Len(w)] = x
          BY <4>2
        <4> QED
          BY <3>1, <4>1, <4>3 DEF Last
      <3>4. /\ UNCHANGED <<type, told>>
            /\ type \in {"FAIL", "ERROR"} => shown'.failure = told
            /\ type = "FAIL" /\ told # <<>> =>
                 (shown'.label = "FAILED" <=> told[1].stage = "EXECUTION")
        BY <1>9, <2>1, <2>3, Said
      <3> QED
        BY <3>1, <3>3, <3>4 DEF SaidInv
    <2> QED
      BY <2>2, <2>3
  <1> QED
    BY <1>3, <1>4, <1>5, <1>6, <1>7, <1>8, <1>9 DEF Next, Step, QuietStep

\* With RunInv, what was told and what was shown agree at every step.
THEOREM ReportInvariance == Spec => [](ToldInv /\ SaidInv)
  <1>1. Init => ToldInv /\ SaidInv
    BY DEF Init, ReportInit, ToldInv, SaidInv, NotShown
  <1>2. RunInv /\ ToldInv /\ SaidInv /\ [Next]_allVars => ToldInv' /\ SaidInv'
    <2> SUFFICES ASSUME RunInv, ToldInv, SaidInv, [Next]_allVars
                 PROVE  ToldInv' /\ SaidInv'
      OBVIOUS
    <2>1. ControlInv /\ ResultInv /\ OrderInv /\ RcInv
      BY DEF RunInv, CliInv
    <2> QED
      BY <2>1, ToldStep, SaidStep
  <1> QED
    BY <1>1, <1>2, RunInvariance, PTL DEF Spec

\* What c has in common with the first of all.
LEMMA PrefixOf ==
    ASSUME NEW all \in Seq(Cases), NEW c \in Seq(Cases), FirstOf(all, c)
    PROVE  IsPrefix(c, all)
  BY PrefixAgrees DEF FirstOf

\* For any suites, any failures and whatever calls fail: the console shows every
\* test case once and in order, but for those the direct runner had no
\* descriptors for, and of one that failed what it told its runner.
THEOREM ReportAlwaysFaithful == Spec => []ReportFaithful
  <1>1. RunInv /\ ToldInv /\ SaidInv => ReportFaithful
    <2> SUFFICES ASSUME RunInv, ToldInv, SaidInv PROVE ReportFaithful
      OBVIOUS
    <2>1. ControlInv /\ OrderInv /\ ShownInv /\ RunTypeOK /\ OutputTypeOK
      BY DEF RunInv, CliInv, OutputInv
    <2>2. PICK all \in Seq(Cases), c \in Seq(Cases) :
            all = AllCases /\ c = console /\ OutOf(all, c, Taken - Current)
      BY <2>1, AllCasesProperties DEF ControlInv, OrderInv, OutOf
    <2>3. IsPrefix(console, AllCases) \/ (~isolated /\ faults > 0 /\ IsInjective(console))
      <3>1. CASE isolated \/ faults = 0
        <4>1. FirstOf(all, c)
          BY <2>1, <2>2, <3>1 DEF ShownInv
        <4> QED
          BY <2>2, <4>1, PrefixOf
      <3>2. CASE ~(isolated \/ faults = 0)
        <4>1. faults > 0
          BY <2>1, <3>2, HeapAssumption DEF RunTypeOK
        <4>2. IsInjective(c)
          <5>1. DOMAIN c = 1 .. Len(c)
            OBVIOUS
          <5> QED
            BY <2>2, <5>1 DEF IsInjective, OutOf, Once
        <4> QED
          BY <2>2, <3>2, <4>1, <4>2
      <3> QED
        BY <3>1, <3>2
    <2>4. failure # <<>> => Sound(ParentBuf, failure, failure_storage_size(told[1]))
      BY AsTold
    <2> QED
      BY <2>3, <2>4 DEF ReportFaithful, SaidInv
  <1> QED
    BY <1>1, RunInvariance, ReportInvariance, PTL
===============================================================================
