------------------------- MODULE FailureStorageProofs -------------------------
(***************************************************************************)
(* Proofs about FailureStorage, for any failure, any size of a word and any *)
(* address: what failure_storage_format puts into memory is what a reader   *)
(* finds there, in parts that are apart, aligned and as large as foreseen,  *)
(* and the pipe takes it to another address.                                *)
(***************************************************************************)
EXTENDS FailureStorage, SequenceLemmas

(***************************************************************************)
(* Alignment                                                                *)
(***************************************************************************)

LEMMA Division ==
    ASSUME NEW a \in Nat, NEW w \in Nat \ {0}
    PROVE  /\ (a \div w) \in Nat /\ a = (a \div w) * w + (a % w)
           /\ (a % w) \in 0 .. (w - 1)
  OBVIOUS

LEMMA Multiple ==
    ASSUME NEW q \in Nat, NEW w \in Nat \ {0}
    PROVE  (q * w) % w = 0
  OBVIOUS

\* serialize_pad_size rounds up, by less than the alignment, and what is aligned
\* stays so.
LEMMA Padded ==
    ASSUME NEW size \in Nat, NEW w \in Nat \ {0}, NEW buf \in Nat, buf % w = 0
    PROVE  Pad(size, w) \in Nat /\ Pad(size, w) >= size /\ (buf + Pad(size, w)) % w = 0
  <1>1. PICK q \in Nat, r \in 0 .. (w - 1) :
          q = (size + w - 1) \div w /\ size + w - 1 = q * w + r
    BY Division
  <1>2. q * w \in Nat /\ q * w >= size
    BY <1>1
  <1>3. PICK k \in Nat : buf = k * w + 0
    BY Division
  <1>4. buf + q * w = (k + q) * w /\ k + q \in Nat
    BY <1>3
  <1>5. (buf + q * w) % w = 0
    BY <1>4, Multiple
  <1> QED
    BY <1>1, <1>2, <1>5 DEF Pad

(***************************************************************************)
(* The names of the files                                                   *)
(***************************************************************************)

\* g is ofs for the first n names.
IsOfs(frames, g, n) ==
    g = [i \in 0 .. n |-> IF i = 0 THEN StacktraceSize + FrameSize * Len(frames)
                          ELSE g[i - 1] + StringSize(frames[i][1])]

LEMMA OfsExists ==
    ASSUME NEW frames, NEW n \in Nat
    PROVE  \E g : IsOfs(frames, g, n)
  <1> DEFINE base == StacktraceSize + FrameSize * Len(frames)
             size(i) == StringSize(frames[i][1])
             S == {k \in 0 .. n : \E g : IsOfs(frames, g, k)}
  <1> HIDE DEF base, size
  <1>0. ASSUME NEW g, NEW k
        PROVE  IsOfs(frames, g, k) <=>
                 g = [i \in 0 .. k |-> IF i = 0 THEN base ELSE g[i - 1] + size(i)]
    BY DEF IsOfs, base, size
  <1>1. 0 \in S
    <2> DEFINE g == [i \in 0 .. 0 |-> base]
    <2>1. g = [i \in 0 .. 0 |-> IF i = 0 THEN base ELSE g[i - 1] + size(i)]
      OBVIOUS
    <2> HIDE DEF g
    <2>2. IsOfs(frames, g, 0)
      BY <1>0, <2>1
    <2> QED
      BY <2>2
  <1>2. ASSUME NEW k \in 0 .. (n - 1), k \in S PROVE k + 1 \in S
    <2>1. PICK f : f = [i \in 0 .. k |-> IF i = 0 THEN base ELSE f[i - 1] + size(i)]
      BY <1>0, <1>2
    <2> DEFINE g == [i \in 0 .. (k + 1) |->
                       IF i = k + 1 THEN f[k] + size(k + 1) ELSE f[i]]
    <2>2. ASSUME NEW i \in 0 .. (k + 1)
          PROVE  g[i] = IF i = 0 THEN base ELSE g[i - 1] + size(i)
      <3>1. CASE i = k + 1
        <4>1. i # 0 /\ g[i - 1] = f[k]
          BY <3>1
        <4> QED
          BY <3>1, <4>1
      <3>2. CASE i # k + 1
        <4>1. i \in 0 .. k /\ (i # 0 => i - 1 \in 0 .. k /\ i - 1 # k + 1)
          BY <3>2
        <4>2. f[i] = IF i = 0 THEN base ELSE f[i - 1] + size(i)
          BY <2>1, <4>1
        <4>3. g[i] = f[i] /\ (i # 0 => g[i - 1] = f[i - 1])
          BY <3>2, <4>1
        <4> QED
          BY <4>2, <4>3
      <3> QED
        BY <3>1, <3>2
    <2>3. g = [i \in 0 .. (k + 1) |-> g[i]]
      OBVIOUS
    <2> HIDE DEF g
    <2>4. g = [i \in 0 .. (k + 1) |-> IF i = 0 THEN base ELSE g[i - 1] + size(i)]
      BY <2>2, <2>3
    <2>5. k + 1 \in 0 .. n
      OBVIOUS
    <2> QED
      BY <1>0, <2>4, <2>5
  <1>3. n \in S
    <2> HIDE DEF S
    <2> QED
      BY <1>1, <1>2, Induct
  <1> QED
    BY <1>3

\* o are the offsets behind the array of frames and 0, 1, ... of the n names.
OffsetsOf(frames, o, n) ==
    /\ o[0] = StacktraceSize + FrameSize * n
    /\ \A i \in 1 .. n : /\ StringSize(frames[i][1]) \in Nat
                         /\ o[i] = o[i - 1] + StringSize(frames[i][1])
    /\ \A i \in 0 .. n : o[i] \in Nat /\ o[i] >= Word
    /\ \A i, j \in 0 .. n : i <= j => o[i] <= o[j]
\* The last of them is that of a name, or of the array.
LastNamed(frames, o, n) ==
    o[n] = o[0] \/ \E i \in 1 .. n : frames[i][1] # <<>> /\ o[i] = o[n]

LEMMA StringSized ==
    ASSUME NEW str, IsString(str)
    PROVE  /\ StringSize(str) \in Nat
           /\ str = <<>> <=> StringSize(str) = 0
  <1>1. CASE str = <<>>
    BY <1>1 DEF StringSize
  <1>2. CASE str # <<>>
    <2>1. str[2] \in Nat
      BY <1>2 DEF IsString
    <2> QED
      BY <1>2, <2>1 DEF StringSize
  <1> QED
    BY <1>1, <1>2

LEMMA OfsProperties ==
    ASSUME NEW frames, IsTrace(frames)
    PROVE  /\ Len(frames) \in Nat /\ DOMAIN frames = 1 .. Len(frames)
           /\ OffsetsOf(frames, Ofs(frames), Len(frames))
           /\ LastNamed(frames, Ofs(frames), Len(frames))
  <1>1. Len(frames) \in Nat /\ DOMAIN frames = 1 .. Len(frames)
    BY LenProperties DEF IsTrace
  <1>2. PICK n \in Nat : n = Len(frames)
    BY <1>1
  <1>3. PICK o : o = Ofs(frames) /\ IsOfs(frames, o, n)
    <2>1. Ofs(frames) = CHOOSE g : IsOfs(frames, g, Len(frames))
      BY DEF Ofs, IsOfs
    <2> QED
      BY <1>1, <1>2, <2>1, OfsExists
  <1> DEFINE size(i) == StringSize(frames[i][1])
  <1>4. ASSUME NEW i \in 1 .. n
        PROVE  size(i) \in Nat /\ (frames[i][1] = <<>> <=> size(i) = 0)
    BY <1>1, <1>2, StringSized DEF IsTrace, IsPlace
  <1>5. /\ o[0] = StacktraceSize + FrameSize * n
        /\ \A i \in 1 .. n : o[i] = o[i - 1] + size(i)
    BY <1>2, <1>3 DEF IsOfs
  <1>6. o[0] \in Nat /\ o[0] >= Word
    <2>1. Word \in Nat \ {0} /\ 3 * Word \in Nat
      BY StorageAssumption
    <2>2. 3 * Word * n \in Nat
      BY <2>1
    <2> QED
      BY <1>5, <2>1, <2>2 DEF StacktraceSize, FrameSize
  <1> HIDE DEF size
  <1>7. \A i \in 0 .. n : o[i] \in Nat /\ o[i] >= Word
    <2> DEFINE S == {i \in 0 .. n : o[i] \in Nat /\ o[i] >= Word}
    <2>1. 0 \in S
      BY <1>6
    <2>2. ASSUME NEW i \in 0 .. (n - 1), i \in S PROVE i + 1 \in S
      <3>1. i + 1 \in 1 .. n /\ i + 1 \in 0 .. n /\ (i + 1) - 1 = i
        OBVIOUS
      <3>2. o[i + 1] = o[i] + size(i + 1) /\ size(i + 1) \in Nat
        BY <1>4, <1>5, <3>1
      <3> QED
        BY <2>2, <3>1, <3>2, StorageAssumption
    <2> HIDE DEF S
    <2>3. \A i \in 0 .. n : i \in S
      BY <2>1, <2>2, Induct
    <2> QED
      BY <2>3 DEF S
  <1>8. ASSUME NEW i \in 0 .. n, NEW j \in 0 .. n, i <= j PROVE o[i] <= o[j]
    <2> DEFINE S == {k \in 0 .. n : i <= k => o[i] <= o[k]}
    <2>1. 0 \in S
      BY <1>7
    <2>2. ASSUME NEW k \in 0 .. (n - 1), k \in S PROVE k + 1 \in S
      <3>1. k + 1 \in 1 .. n /\ k + 1 \in 0 .. n /\ (k + 1) - 1 = k /\ k \in 0 .. n
        OBVIOUS
      <3>2. o[k + 1] = o[k] + size(k + 1) /\ size(k + 1) \in Nat
        BY <1>4, <1>5, <3>1
      <3>3. o[k] \in Nat /\ o[i] \in Nat
        BY <1>7, <3>1
      <3>4. CASE i <= k
        BY <2>2, <3>1, <3>2, <3>3, <3>4
      <3>5. CASE i = k + 1
        BY <3>1, <3>2, <3>3, <3>5
      <3>6. CASE ~(i <= k + 1)
        BY <3>1, <3>6
      <3> QED
        BY <3>4, <3>5, <3>6
    <2> HIDE DEF S
    <2>3. \A k \in 0 .. n : k \in S
      BY <2>1, <2>2, Induct
    <2> QED
      BY <1>8, <2>3 DEF S
  <1>9. LastNamed(frames, o, n)
    <2> DEFINE S == {k \in 0 .. n : LastNamed(frames, o, k)}
    <2>1. 0 \in S
      BY DEF LastNamed
    <2>2. ASSUME NEW k \in 0 .. (n - 1), k \in S PROVE k + 1 \in S
      <3>1. k + 1 \in 1 .. n /\ k + 1 \in 0 .. n /\ (k + 1) - 1 = k /\ k \in 0 .. n
            /\ k + 1 \in 1 .. (k + 1)
        OBVIOUS
      <3>2. o[k + 1] = o[k] + size(k + 1) /\ o[k] \in Nat
        BY <1>5, <1>7, <3>1
      <3>3. CASE frames[k + 1][1] # <<>>
        BY <3>1, <3>3 DEF LastNamed
      <3>4. CASE frames[k + 1][1] = <<>>
        <4>1. o[k + 1] = o[k]
          BY <1>4, <3>1, <3>2, <3>4
        <4>2. \A i \in 1 .. k : i \in 1 .. (k + 1)
          OBVIOUS
        <4>3. LastNamed(frames, o, k)
          BY <2>2
        <4> QED
          BY <3>1, <4>1, <4>2, <4>3 DEF LastNamed
      <3> QED
        BY <3>3, <3>4
    <2> HIDE DEF S
    <2>3. \A k \in 0 .. n : k \in S
      BY <2>1, <2>2, Induct
    <2> QED
      BY <2>3 DEF S
  <1>10. OffsetsOf(frames, o, n)
    BY <1>4, <1>5, <1>7, <1>8 DEF OffsetsOf, size
  <1> QED
    BY <1>1, <1>2, <1>3, <1>9, <1>10

(***************************************************************************)
(* Where the parts are                                                      *)
(***************************************************************************)

DescriptionAt(buf) == buf + FailureSize
LocationAt(buf, f) == buf + Pad(FailureSize + StringSize(f.description), Word)
NameAt(buf, f) == LocationAt(buf, f) + LocationSize
TraceAt(buf, f) == buf + Pad(LocationEnd(f), Word)
FileAt(at, frames, n) == at + Ofs(frames)[n - 1]
Named(frames) == {n \in DOMAIN frames : frames[n][1] # <<>>}

\* They follow each other.
Spaced(buf, f) ==
    /\ buf \in Nat /\ buf > 0 /\ FailureSize \in Nat /\ FailureSize > 0
    /\ StringSize(f.description) \in Nat /\ LocationSize \in Nat /\ LocationSize > 0
    /\ DescriptionAt(buf) \in Nat /\ LocationAt(buf, f) \in Nat
    /\ TraceAt(buf, f) \in Nat
    /\ DescriptionAt(buf) + StringSize(f.description) <= LocationAt(buf, f)
    /\ DescriptionAt(buf) + StringSize(f.description) <= TraceAt(buf, f)
    /\ f.location # <<>> =>
         /\ StringSize(f.location[1]) \in Nat /\ NameAt(buf, f) \in Nat
         /\ NameAt(buf, f) + StringSize(f.location[1]) <= TraceAt(buf, f)

LEMMA SizesTyped ==
    /\ Word \in Nat /\ Word > 0 /\ FailureSize \in Nat /\ FailureSize > 0
    /\ LocationSize \in Nat /\ LocationSize > 0
    /\ FrameSize \in Nat /\ StacktraceSize \in Nat
  BY StorageAssumption DEF FailureSize, LocationSize, FrameSize, StacktraceSize

LEMMA PaddedUp ==
    ASSUME NEW size \in Nat
    PROVE  Pad(size, Word) \in Nat /\ Pad(size, Word) >= size
  <1>1. 0 \in Nat /\ Word \in Nat \ {0} /\ 0 % Word = 0
    BY StorageAssumption
  <1> QED
    BY <1>1, Padded

LEMMA PartsSpaced ==
    ASSUME NEW buf \in Nat \ {0}, NEW f, IsFailure(f)
    PROVE  Spaced(buf, f)
  <1>1. PICK F \in Nat, L \in Nat, d \in Nat :
          /\ F = FailureSize /\ L = LocationSize /\ d = StringSize(f.description)
          /\ F > 0 /\ L > 0
    BY SizesTyped, StringSized DEF IsFailure
  <1>2. PICK p \in Nat : p = Pad(F + d, Word) /\ p >= F + d
    BY PaddedUp
  <1>3. DescriptionAt(buf) = buf + F /\ LocationAt(buf, f) = buf + p
    BY <1>1, <1>2 DEF DescriptionAt, LocationAt
  <1>4. CASE f.location = <<>>
    <2>1. LocationEnd(f) = F + d
      BY <1>1, <1>4 DEF LocationEnd
    <2>2. TraceAt(buf, f) = buf + p
      BY <1>2, <2>1 DEF TraceAt
    <2> QED
      BY <1>1, <1>2, <1>3, <1>4, <2>2 DEF Spaced
  <1>5. CASE f.location # <<>>
    <2>1. PICK s \in Nat : s = StringSize(f.location[1])
      BY <1>5, StringSized DEF IsFailure, IsPlace
    <2>2. LocationEnd(f) = p + (L + s)
      BY <1>1, <1>2, <1>5, <2>1 DEF LocationEnd, location_storage_size
    <2>3. PICK q \in Nat : q = Pad(p + (L + s), Word) /\ q >= p + (L + s)
      BY PaddedUp
    <2>4. TraceAt(buf, f) = buf + q /\ NameAt(buf, f) = buf + p + L
      BY <1>1, <1>3, <2>2, <2>3 DEF TraceAt, NameAt
    <2>5. /\ buf > 0 /\ buf + F \in Nat /\ buf + p \in Nat /\ buf + q \in Nat
          /\ buf + p + L \in Nat /\ buf + F + d <= buf + p /\ buf + F + d <= buf + q
          /\ buf + p + L + s <= buf + q
      BY <1>2, <2>3
    <2> QED
      BY <1>1, <1>3, <2>1, <2>4, <2>5 DEF Spaced
  <1> QED
    BY <1>4, <1>5

(***************************************************************************)
(* What is put there                                                        *)
(***************************************************************************)

LEMMA WithProperties ==
    ASSUME NEW mem, NEW more, NEW w, w = With(mem, more)
    PROVE  /\ DOMAIN w = DOMAIN mem \union DOMAIN more
           /\ \A a \in DOMAIN mem : w[a] = mem[a]
           /\ \A a \in DOMAIN more : a \notin DOMAIN mem => w[a] = more[a]
  BY DEF With

LEMMA StringAtProperties ==
    ASSUME NEW at, NEW str
    PROVE  /\ \A a : a \in DOMAIN StringAt(at, str) <=> a = at /\ str # <<>>
           /\ str # <<>> => StringAt(at, str)[at] = str
  <1>1. DOMAIN <<>> = {}
    OBVIOUS
  <1> QED
    BY <1>1 DEF StringAt, At

LEMMA AtProperties ==
    ASSUME NEW at, NEW thing
    PROVE  DOMAIN At(at, thing) = {at} /\ At(at, thing)[at] = thing
  BY DEF At

\* A string behind a structure.
LEMMA Beside ==
    ASSUME NEW at, NEW thing, NEW behind, NEW str, behind # at,
           NEW w, w = With(At(at, thing), StringAt(behind, str))
    PROVE  /\ \A a : a \in DOMAIN w <=> a = at \/ (a = behind /\ str # <<>>)
           /\ w[at] = thing
           /\ str # <<>> => w[behind] = str
  <1>1. PICK m, n : m = At(at, thing) /\ n = StringAt(behind, str)
    OBVIOUS
  <1>2. DOMAIN m = {at} /\ m[at] = thing
    BY <1>1, AtProperties
  <1>3. /\ \A a : a \in DOMAIN n <=> a = behind /\ str # <<>>
        /\ str # <<>> => n[behind] = str
    BY <1>1, StringAtProperties
  <1>4. /\ DOMAIN w = DOMAIN m \union DOMAIN n
        /\ \A a \in DOMAIN m : w[a] = m[a]
        /\ \A a \in DOMAIN n : a \notin DOMAIN m => w[a] = n[a]
    <2>1. w = With(m, n)
      BY <1>1
    <2> QED
      BY <2>1 DEF With
  <1> QED
    BY <1>2, <1>3, <1>4

PlaceAt(at, place) ==
    [filename |-> PtrTo(at + LocationSize, place[1]), line |-> place[2]]
LEMMA LocationFormatted ==
    ASSUME NEW at \in Nat, NEW place, NEW m, m = location_storage_format(at, place)
    PROVE  /\ \A a : a \in DOMAIN m <=> a = at \/ (a = at + LocationSize /\ place[1] # <<>>)
           /\ m[at] = PlaceAt(at, place)
           /\ place[1] # <<>> => m[at + LocationSize] = place[1]
  <1>1. PICK file, name, thing :
          file = at + LocationSize /\ name = place[1] /\ thing = PlaceAt(at, place)
    OBVIOUS
  <1>2. file # at
    BY <1>1, SizesTyped
  <1>3. m = With(At(at, thing), StringAt(file, name))
    BY <1>1 DEF location_storage_format, PlaceAt
  <1>4. /\ \A a : a \in DOMAIN m <=> a = at \/ (a = file /\ name # <<>>)
        /\ m[at] = thing
        /\ name # <<>> => m[file] = name
    BY <1>2, <1>3, Beside
  <1> QED
    BY <1>1, <1>4

FramesAt(at, frames) ==
    [n \in DOMAIN frames |->
        [filename |-> PtrTo(FileAt(at, frames, n), frames[n][1]), line |-> frames[n][2]]]

\* The names are at different addresses.
LEMMA FilesApart ==
    ASSUME NEW at \in Nat, NEW frames, IsTrace(frames)
    PROVE  /\ \A n \in Named(frames) :
                /\ FileAt(at, frames, n) \in Nat
                /\ at + Ofs(frames)[0] <= FileAt(at, frames, n)
                /\ at < FileAt(at, frames, n)
                /\ FileAt(at, frames, n) + StringSize(frames[n][1]) = at + Ofs(frames)[n]
                /\ FileAt(at, frames, n) < at + Ofs(frames)[n]
                /\ n \in 1 .. Len(frames)
           /\ \A m, n \in Named(frames) :
                m < n => at + Ofs(frames)[m] <= FileAt(at, frames, n)
  <1>o. PICK o : o = Ofs(frames)
    OBVIOUS
  <1>1. PICK k \in Nat : o = Ofs(frames) /\ k = Len(frames) /\ OffsetsOf(frames, o, k)
                       /\ DOMAIN frames = 1 .. k
    BY <1>o, OfsProperties
  <1>2. ASSUME NEW n \in Named(frames)
        PROVE  /\ n \in 1 .. k /\ n \in 0 .. k /\ n - 1 \in 0 .. k /\ 0 \in 0 .. k
               /\ o[n - 1] \in Nat /\ o[n - 1] >= Word /\ o[n] \in Nat /\ o[0] \in Nat
               /\ o[0] <= o[n - 1]
               /\ o[n] = o[n - 1] + StringSize(frames[n][1])
               /\ StringSize(frames[n][1]) \in Nat /\ StringSize(frames[n][1]) > 0
    <2>1. n \in 1 .. k /\ frames[n][1] # <<>> /\ IsString(frames[n][1])
      BY <1>1, <1>2 DEF Named, IsTrace, IsPlace
    <2>2. n \in 0 .. k /\ n - 1 \in 0 .. k /\ 0 \in 0 .. k /\ 0 <= n - 1
      BY <2>1
    <2>3. StringSize(frames[n][1]) \in Nat /\ StringSize(frames[n][1]) > 0
      BY <2>1, StringSized
    <2> QED
      BY <1>1, <2>1, <2>2, <2>3 DEF OffsetsOf
  <1>3. ASSUME NEW n \in Named(frames)
        PROVE  /\ FileAt(at, frames, n) \in Nat
               /\ at + o[0] <= FileAt(at, frames, n)
               /\ at < FileAt(at, frames, n)
               /\ FileAt(at, frames, n) + StringSize(frames[n][1]) = at + o[n]
               /\ FileAt(at, frames, n) < at + o[n]
    <2>1. FileAt(at, frames, n) = at + o[n - 1]
      BY <1>1 DEF FileAt
    <2> QED
      BY <1>2, <2>1, SizesTyped
  <1>4. ASSUME NEW m \in Named(frames), NEW n \in Named(frames), m < n
        PROVE  at + o[m] <= FileAt(at, frames, n)
    <2>1. m <= n - 1
      BY <1>2, <1>4
    <2>2. o[m] <= o[n - 1]
      BY <1>1, <1>2, <2>1 DEF OffsetsOf
    <2> QED
      BY <1>1, <1>2, <2>2 DEF FileAt
  <1> QED
    BY <1>1, <1>2, <1>3, <1>4

LEMMA StacktraceFormatted ==
    ASSUME NEW at \in Nat, NEW frames, IsTrace(frames),
           NEW m, m = stacktrace_storage_format(at, frames)
    PROVE  /\ \A a : a \in DOMAIN m <=>
                a = at \/ \E n \in Named(frames) : a = FileAt(at, frames, n)
           /\ m[at] = FramesAt(at, frames)
           /\ \A n \in Named(frames) : m[FileAt(at, frames, n)] = frames[n][1]
  <1> DEFINE file(n) == FileAt(at, frames, n)
             named == Named(frames)
  <1>1. PICK array, names :
          /\ array = At(at, FramesAt(at, frames))
          /\ names = [a \in {file(n) : n \in named} |->
                         frames[CHOOSE n \in named : file(n) = a][1]]
    OBVIOUS
  <1>2. m = With(array, names)
    BY <1>1 DEF stacktrace_storage_format, FramesAt, FileAt, Named
  <1>3. DOMAIN array = {at} /\ array[at] = FramesAt(at, frames)
    BY <1>1, AtProperties
  <1>4. DOMAIN names = {file(n) : n \in named}
    BY <1>1
  <1>5. ASSUME NEW n \in named PROVE names[file(n)] = frames[n][1] /\ file(n) # at
    <2>1. PICK c : c = CHOOSE k \in named : file(k) = file(n)
      OBVIOUS
    <2>2. c \in named /\ file(c) = file(n)
      BY <2>1
    <2>3. ~(c < n) /\ ~(n < c)
      <3>1. /\ file(c) < at + Ofs(frames)[c] /\ file(n) < at + Ofs(frames)[n]
            /\ c < n => at + Ofs(frames)[c] <= file(n)
            /\ n < c => at + Ofs(frames)[n] <= file(c)
            /\ file(c) \in Nat /\ file(n) \in Nat
            /\ file(c) + StringSize(frames[c][1]) = at + Ofs(frames)[c]
            /\ file(n) + StringSize(frames[n][1]) = at + Ofs(frames)[n]
        BY <2>2, FilesApart
      <3>2. StringSize(frames[c][1]) \in Nat /\ StringSize(frames[n][1]) \in Nat
        BY <2>2, StringSized DEF Named, IsTrace, IsPlace
      <3> HIDE DEF file
      <3> QED
        BY <2>2, <3>1, <3>2
    <2>4. c \in Nat /\ n \in Nat
      <3>1. c \in 1 .. Len(frames) /\ n \in 1 .. Len(frames)
        BY <2>2, FilesApart
      <3>2. PICK k \in Nat : k = Len(frames)
        BY OfsProperties
      <3> QED
        BY <3>1, <3>2
    <2>5. c = n
      BY <2>3, <2>4
    <2>6. file(n) # at
      BY FilesApart
    <2> QED
      BY <1>1, <2>1, <2>5, <2>6
  <1>6. /\ DOMAIN m = DOMAIN array \union DOMAIN names
        /\ \A a \in DOMAIN array : m[a] = array[a]
        /\ \A a \in DOMAIN names : a \notin DOMAIN array => m[a] = names[a]
    BY <1>2 DEF With
  <1> HIDE DEF file, named
  <1>7. \A n \in named : m[file(n)] = frames[n][1]
    BY <1>3, <1>4, <1>5, <1>6
  <1>8. \A a : a \in DOMAIN m <=> a = at \/ \E n \in named : a = file(n)
    BY <1>3, <1>4, <1>6
  <1>9. m[at] = FramesAt(at, frames)
    BY <1>3, <1>6
  <1> QED
    BY <1>7, <1>8, <1>9 DEF file, named

HeadAt(buf, f) ==
    [stage |-> f.stage,
     description |-> PtrTo(DescriptionAt(buf), f.description),
     location |-> PtrTo(LocationAt(buf, f), f.location),
     stacktrace |-> PtrTo(TraceAt(buf, f), f.stacktrace)]

\* At a is the string str, the description or the name of a file.
DescriptionIs(buf, f, a, str) ==
    f.description # <<>> /\ str = f.description /\ a = DescriptionAt(buf)
NameIs(buf, f, a, str) ==
    /\ f.location # <<>> /\ f.location[1] # <<>>
    /\ str = f.location[1] /\ a = NameAt(buf, f)
FileIs(buf, f, a, str) ==
    /\ f.stacktrace # <<>>
    /\ \E n \in Named(f.stacktrace[1]) :
          str = f.stacktrace[1][n][1] /\ a = FileAt(TraceAt(buf, f), f.stacktrace[1], n)
Text(buf, f, a, str) ==
    DescriptionIs(buf, f, a, str) \/ NameIs(buf, f, a, str) \/ FileIs(buf, f, a, str)

\* mem holds f, from buf on.
Contents(buf, f, mem) ==
    /\ \A a : a \in DOMAIN mem <=>
          \/ a = buf
          \/ f.location # <<>> /\ a = LocationAt(buf, f)
          \/ f.stacktrace # <<>> /\ a = TraceAt(buf, f)
          \/ \E str : Text(buf, f, a, str)
    /\ mem[buf] = HeadAt(buf, f)
    /\ f.location # <<>> => mem[LocationAt(buf, f)] = PlaceAt(LocationAt(buf, f), f.location)
    /\ f.stacktrace # <<>> =>
          mem[TraceAt(buf, f)] = FramesAt(TraceAt(buf, f), f.stacktrace[1])
    /\ \A a, str : Text(buf, f, a, str) => mem[a] = str

\* A string is behind the failure and is neither at the location nor at the stack
\* trace.
LEMMA TextApart ==
    ASSUME NEW buf \in Nat \ {0}, NEW f, IsFailure(f),
           NEW a, NEW str, Text(buf, f, a, str)
    PROVE  /\ a \in Nat /\ a > buf
           /\ f.location # <<>> => a # LocationAt(buf, f)
           /\ f.stacktrace # <<>> => a # TraceAt(buf, f)
           /\ str # <<>> /\ IsString(str)
           /\ StringSize(str) \in Nat /\ StringSize(str) > 0
  <1>1. Spaced(buf, f)
    BY PartsSpaced
  <1>2. str # <<>> /\ IsString(str)
    <2>1. CASE DescriptionIs(buf, f, a, str)
      BY <2>1 DEF DescriptionIs, IsFailure
    <2>2. CASE NameIs(buf, f, a, str)
      BY <2>2 DEF NameIs, IsFailure, IsPlace
    <2>3. CASE FileIs(buf, f, a, str)
      BY <2>3 DEF FileIs, IsFailure, IsTrace, IsPlace, Named
    <2> QED
      BY <2>1, <2>2, <2>3 DEF Text
  <1>3. StringSize(str) \in Nat /\ StringSize(str) > 0
    BY <1>2, StringSized
  <1>4. LocationSize \in Nat /\ LocationSize > 0
    BY SizesTyped
  <1>5. f.location # <<>> => NameAt(buf, f) = LocationAt(buf, f) + LocationSize
    BY DEF NameAt
  <1>6. DescriptionAt(buf) = buf + FailureSize
    BY DEF DescriptionAt
  <1>7. CASE DescriptionIs(buf, f, a, str)
    BY <1>1, <1>2, <1>3, <1>6, <1>7 DEF Spaced, DescriptionIs
  <1>8. CASE NameIs(buf, f, a, str)
    BY <1>1, <1>2, <1>3, <1>4, <1>5, <1>6, <1>8 DEF Spaced, NameIs
  <1>9. CASE FileIs(buf, f, a, str)
    <2>1. f.stacktrace # <<>> /\ IsTrace(f.stacktrace[1]) /\ TraceAt(buf, f) \in Nat
      BY <1>1, <1>9 DEF FileIs, IsFailure, Spaced
    <2>2. a \in Nat /\ a > TraceAt(buf, f)
      BY <1>9, <2>1, FilesApart DEF FileIs
    <2> QED
      BY <1>1, <1>2, <1>3, <1>4, <1>5, <1>6, <2>2 DEF Spaced
  <1> QED
    BY <1>7, <1>8, <1>9 DEF Text

\* failure_storage_format
LEMMA Formatted ==
    ASSUME NEW buf \in Nat \ {0}, NEW f, IsFailure(f)
    PROVE  Contents(buf, f, failure_storage_format(buf, f))
  <1>1. Spaced(buf, f)
    BY PartsSpaced
  <1> DEFINE descAt == DescriptionAt(buf)
             locAt == LocationAt(buf, f)
             nameAt == NameAt(buf, f)
             traceAt == TraceAt(buf, f)
             hasLoc == f.location # <<>>
             hasTrace == f.stacktrace # <<>>
  <1>2. PICK head : head = With(At(buf, HeadAt(buf, f)), StringAt(descAt, f.description))
    OBVIOUS
  <1>3. PICK place : place = location_storage_format(locAt, f.location)
    OBVIOUS
  <1>4. PICK trace : trace = stacktrace_storage_format(traceAt, f.stacktrace[1])
    OBVIOUS
  <1>5. PICK located : located = IF f.location = <<>> THEN head ELSE With(head, place)
    OBVIOUS
  <1>6. PICK mem : mem = IF f.stacktrace = <<>> THEN located ELSE With(located, trace)
    OBVIOUS
  <1>7. failure_storage_format(buf, f) = mem
    BY <1>2, <1>3, <1>4, <1>5, <1>6
       DEF failure_storage_format, HeadAt, DescriptionAt, LocationAt, TraceAt
  <1>8. /\ descAt > buf /\ locAt > buf /\ traceAt > buf
        /\ buf \in Nat /\ descAt \in Nat /\ locAt \in Nat /\ traceAt \in Nat
        /\ nameAt = locAt + LocationSize
        /\ hasLoc => nameAt \in Nat /\ nameAt > locAt /\ traceAt > locAt
    <2>1. /\ descAt = buf + FailureSize /\ nameAt = locAt + LocationSize
      BY DEF DescriptionAt, NameAt
    <2> HIDE DEF descAt, locAt, nameAt, traceAt
    <2>2. /\ buf \in Nat /\ FailureSize \in Nat /\ FailureSize > 0 /\ LocationSize \in Nat
          /\ LocationSize > 0 /\ descAt \in Nat /\ locAt \in Nat /\ traceAt \in Nat
          /\ StringSize(f.description) \in Nat
          /\ descAt + StringSize(f.description) <= locAt
          /\ descAt + StringSize(f.description) <= traceAt
          /\ hasLoc => /\ StringSize(f.location[1]) \in Nat /\ nameAt \in Nat
                       /\ nameAt + StringSize(f.location[1]) <= traceAt
      BY <1>1 DEF Spaced, descAt, locAt, nameAt, traceAt
    <2> QED
      BY <2>1, <2>2
  <1>9. /\ \A a : a \in DOMAIN head <=> a = buf \/ \E str : DescriptionIs(buf, f, a, str)
        /\ head[buf] = HeadAt(buf, f)
        /\ \A a, str : DescriptionIs(buf, f, a, str) => head[a] = str
    <2>0. PICK d, s, h : d = descAt /\ s = f.description /\ h = HeadAt(buf, f)
      OBVIOUS
    <2>n. d # buf /\ head = With(At(buf, h), StringAt(d, s))
      BY <1>2, <1>8, <2>0
    <2>1. /\ \A a : a \in DOMAIN head <=> a = buf \/ (a = d /\ s # <<>>)
          /\ head[buf] = h
          /\ s # <<>> => head[d] = s
      BY <2>n, Beside
    <2> QED
      BY <2>0, <2>1 DEF DescriptionIs
  <1>10. ASSUME hasLoc
         PROVE  /\ \A a : a \in DOMAIN place <=> a = locAt \/ \E str : NameIs(buf, f, a, str)
                /\ place[locAt] = PlaceAt(locAt, f.location)
                /\ \A a, str : NameIs(buf, f, a, str) => place[a] = str
    <2>0. PICK l \in Nat, p \in {f.location} : l = locAt
      BY <1>8
    <2>n. place = location_storage_format(l, p)
      BY <1>3, <2>0
    <2>1. /\ \A a : a \in DOMAIN place <=> a = l \/ (a = l + LocationSize /\ p[1] # <<>>)
          /\ place[l] = PlaceAt(l, p)
          /\ p[1] # <<>> => place[l + LocationSize] = p[1]
      BY <2>n, LocationFormatted
    <2> QED
      BY <1>8, <1>10, <2>0, <2>1 DEF NameIs
  <1>11. ASSUME hasTrace
         PROVE  /\ \A a : a \in DOMAIN trace <=> a = traceAt \/ \E str : FileIs(buf, f, a, str)
                /\ trace[traceAt] = FramesAt(traceAt, f.stacktrace[1])
                /\ \A a, str : FileIs(buf, f, a, str) => trace[a] = str
    <2>0. PICK t \in Nat, frames \in {f.stacktrace[1]} : t = traceAt
      BY <1>8
    <2>n. IsTrace(frames) /\ trace = stacktrace_storage_format(t, frames)
      BY <1>4, <1>11, <2>0 DEF IsFailure
    <2>1. /\ \A a : a \in DOMAIN trace <=>
                a = t \/ \E n \in Named(frames) : a = FileAt(t, frames, n)
          /\ trace[t] = FramesAt(t, frames)
          /\ \A n \in Named(frames) : trace[FileAt(t, frames, n)] = frames[n][1]
      BY <2>n, StacktraceFormatted
    <2> QED
      BY <1>11, <2>0, <2>1 DEF FileIs
  <1>12. \A a, str : Text(buf, f, a, str) =>
           a \in Nat /\ a > buf /\ (hasLoc => a # locAt) /\ (hasTrace => a # traceAt)
    BY TextApart
  <1>13. \A a, str : DescriptionIs(buf, f, a, str) \/ NameIs(buf, f, a, str)
                        \/ FileIs(buf, f, a, str) <=> Text(buf, f, a, str)
    BY DEF Text
  <1>14. /\ \A a, str, o : DescriptionIs(buf, f, a, str) => ~NameIs(buf, f, a, o)
         /\ \A a, str, o : DescriptionIs(buf, f, a, str) => ~FileIs(buf, f, a, o)
         /\ \A a, str, o : NameIs(buf, f, a, str) => ~FileIs(buf, f, a, o)
    <2>1. \A a, str : FileIs(buf, f, a, str) => a \in Nat /\ a > traceAt
      <3>1. ASSUME hasTrace PROVE IsTrace(f.stacktrace[1])
        BY <3>1 DEF IsFailure
      <3> QED
        BY <1>8, <3>1, FilesApart DEF FileIs
    <2>2. \A a, str : DescriptionIs(buf, f, a, str) =>
            a = descAt /\ descAt < locAt /\ descAt < traceAt
      <3>1. ASSUME f.description # <<>>
            PROVE  StringSize(f.description) \in Nat /\ StringSize(f.description) > 0
        BY <3>1, StringSized DEF IsFailure
      <3> QED
        BY <1>1, <3>1 DEF DescriptionIs, Spaced
    <2>3. \A a, str : NameIs(buf, f, a, str) => hasLoc /\ a = nameAt /\ nameAt < traceAt
      <3>1. ASSUME hasLoc, f.location[1] # <<>>
            PROVE  StringSize(f.location[1]) \in Nat /\ StringSize(f.location[1]) > 0
        BY <3>1, StringSized DEF IsFailure, IsPlace
      <3> QED
        BY <1>1, <3>1 DEF NameIs, Spaced
    <2> HIDE DEF descAt, locAt, nameAt, traceAt, hasLoc
    <2> QED
      BY <1>8, <2>1, <2>2, <2>3
  <1> HIDE DEF descAt, locAt, nameAt, traceAt, hasLoc, hasTrace
  <1>15. /\ \A a : a \in DOMAIN located <=>
              \/ a \in DOMAIN head \/ (hasLoc /\ a \in DOMAIN place)
         /\ \A a \in DOMAIN head : located[a] = head[a]
         /\ hasLoc => \A a \in DOMAIN place : a \notin DOMAIN head => located[a] = place[a]
    <2>1. CASE f.location = <<>>
      BY <1>5, <2>1 DEF hasLoc
    <2>2. CASE f.location # <<>>
      BY <1>5, <2>2 DEF hasLoc, With
    <2> QED
      BY <2>1, <2>2
  <1>16. /\ \A a : a \in DOMAIN mem <=>
              \/ a \in DOMAIN located \/ (hasTrace /\ a \in DOMAIN trace)
         /\ \A a \in DOMAIN located : mem[a] = located[a]
         /\ hasTrace => \A a \in DOMAIN trace : a \notin DOMAIN located => mem[a] = trace[a]
    <2>1. CASE f.stacktrace = <<>>
      BY <1>6, <2>1 DEF hasTrace
    <2>2. CASE f.stacktrace # <<>>
      BY <1>6, <2>2 DEF hasTrace, With
    <2> QED
      BY <2>1, <2>2
  <1>17. /\ \A a, str : NameIs(buf, f, a, str) => hasLoc
         /\ \A a, str : FileIs(buf, f, a, str) => hasTrace
    BY DEF NameIs, FileIs, hasLoc, hasTrace
  <1>18. \A a : a \in DOMAIN mem <=> \/ a = buf \/ (hasLoc /\ a = locAt)
                                     \/ (hasTrace /\ a = traceAt)
                                     \/ \E str : Text(buf, f, a, str)
    BY <1>9, <1>10, <1>11, <1>13, <1>15, <1>16, <1>17
  <1>19. mem[buf] = HeadAt(buf, f)
    BY <1>9, <1>15, <1>16
  <1>20. ASSUME hasLoc PROVE mem[locAt] = PlaceAt(locAt, f.location)
    <2>1. locAt \notin DOMAIN head
      BY <1>8, <1>9, <1>12, <1>13, <1>20
    <2> QED
      BY <1>10, <1>15, <1>16, <1>20, <2>1
  <1>21. ASSUME hasTrace PROVE mem[traceAt] = FramesAt(traceAt, f.stacktrace[1])
    <2>1. traceAt \notin DOMAIN located
      BY <1>8, <1>9, <1>10, <1>12, <1>13, <1>15, <1>21
    <2> QED
      BY <1>11, <1>16, <1>21, <2>1
  <1>22. ASSUME NEW a, NEW str, Text(buf, f, a, str) PROVE mem[a] = str
    <2>0. a # buf /\ (hasLoc => a # locAt) /\ (hasTrace => a # traceAt)
      BY <1>8, <1>12, <1>22
    <2>1. CASE DescriptionIs(buf, f, a, str)
      BY <1>9, <1>15, <1>16, <2>1
    <2>2. CASE NameIs(buf, f, a, str)
      <3>1. hasLoc /\ a \in DOMAIN place /\ place[a] = str
        BY <1>10, <1>17, <2>2
      <3>2. a \notin DOMAIN head
        BY <1>9, <1>14, <2>0, <2>2
      <3> QED
        BY <1>15, <1>16, <3>1, <3>2
    <2>3. CASE FileIs(buf, f, a, str)
      <3>1. hasTrace /\ a \in DOMAIN trace /\ trace[a] = str
        BY <1>11, <1>17, <2>3
      <3>2. a \notin DOMAIN located
        BY <1>9, <1>10, <1>14, <1>15, <2>0, <2>3
      <3> QED
        BY <1>16, <3>1, <3>2
    <2> QED
      BY <1>13, <1>22, <2>1, <2>2, <2>3
  <1>23. Contents(buf, f, mem)
    BY <1>18, <1>19, <1>20, <1>21, <1>22 DEF Contents, locAt, traceAt, hasLoc, hasTrace
  <1> QED
    BY <1>7, <1>23

(***************************************************************************)
(* Reading it                                                               *)
(***************************************************************************)

\* Who follows the pointers finds the failure.
LEMMA ReadBack ==
    ASSUME NEW buf \in Nat \ {0}, NEW f, IsFailure(f), NEW mem, Contents(buf, f, mem)
    PROVE  Read(buf, mem) = f
  <1>0. Spaced(buf, f)
    BY PartsSpaced
  <1>1. mem[buf] = HeadAt(buf, f)
    BY DEF Contents
  <1>n. Null \notin DOMAIN mem
    <2>1. LocationAt(buf, f) \in Nat /\ LocationAt(buf, f) > 0
          /\ TraceAt(buf, f) \in Nat /\ TraceAt(buf, f) > 0
      <3>1. DescriptionAt(buf) = buf + FailureSize
        BY DEF DescriptionAt
      <3> QED
        BY <1>0, <3>1 DEF Spaced
    <2>2. \A str : ~Text(buf, f, 0, str)
      BY TextApart
    <2> QED
      BY <2>1, <2>2 DEF Contents, Null
  <1>2. ASSUME NEW a, NEW str, str # <<>> => Text(buf, f, a, str), a # Null
        PROVE  Deref(mem, PtrTo(a, str)) = str
    <2>1. CASE str = <<>>
      <3>1. PtrTo(a, str) = Null
        BY <2>1 DEF PtrTo
      <3> QED
        BY <1>n, <2>1, <3>1 DEF Deref
    <2>2. CASE str # <<>>
      <3>1. a \in DOMAIN mem /\ mem[a] = str
        BY <1>2, <2>2 DEF Contents
      <3> QED
        BY <1>2, <2>2, <3>1 DEF Deref, PtrTo
    <2> QED
      BY <2>1, <2>2
  <1>3. Deref(mem, PtrTo(DescriptionAt(buf), f.description)) = f.description
    <2>1. DescriptionAt(buf) # Null
      BY SizesTyped DEF DescriptionAt, Null
    <2>2. f.description # <<>> => Text(buf, f, DescriptionAt(buf), f.description)
      BY DEF Text, DescriptionIs
    <2> QED
      BY <1>2, <2>1, <2>2
  <1>4. ASSUME f.location # <<>>
        PROVE  /\ LocationAt(buf, f) # Null
               /\ Line(mem, mem[LocationAt(buf, f)]) = f.location
    <2>1. mem[LocationAt(buf, f)] = PlaceAt(LocationAt(buf, f), f.location)
      BY <1>4 DEF Contents
    <2>2. LocationAt(buf, f) \in Nat /\ LocationAt(buf, f) > 0 /\ NameAt(buf, f) # Null
          /\ NameAt(buf, f) = LocationAt(buf, f) + LocationSize
      <3>1. NameAt(buf, f) = LocationAt(buf, f) + LocationSize
        BY DEF NameAt
      <3>2. DescriptionAt(buf) = buf + FailureSize
        BY DEF DescriptionAt
      <3> QED
        BY <1>0, <3>1, <3>2 DEF Spaced, Null
    <2>3. f.location[1] # <<>> => Text(buf, f, NameAt(buf, f), f.location[1])
      BY <1>4 DEF Text, NameIs
    <2>4. Deref(mem, PtrTo(NameAt(buf, f), f.location[1])) = f.location[1]
      BY <1>2, <2>2, <2>3
    <2>5. Line(mem, mem[LocationAt(buf, f)]) = <<f.location[1], f.location[2]>>
      BY <2>1, <2>2, <2>4 DEF Line, PlaceAt
    <2> QED
      BY <1>4, <2>2, <2>5 DEF IsFailure, IsPlace, Null
  <1>5. ASSUME f.stacktrace # <<>>
        PROVE  /\ TraceAt(buf, f) # Null
               /\ [n \in DOMAIN mem[TraceAt(buf, f)] |-> Line(mem, mem[TraceAt(buf, f)][n])]
                    = f.stacktrace[1]
    <2>0. PICK t \in Nat, frames \in {f.stacktrace[1]} : t = TraceAt(buf, f) /\ t > 0
      <3>2. DescriptionAt(buf) = buf + FailureSize
        BY DEF DescriptionAt
      <3> QED
        BY <1>0, <3>2 DEF Spaced
    <2>1. mem[t] = FramesAt(t, frames) /\ IsTrace(frames)
      BY <1>5, <2>0 DEF Contents, IsFailure
    <2>2. DOMAIN mem[t] = DOMAIN frames
      BY <2>1 DEF FramesAt
    <2>3. ASSUME NEW n \in DOMAIN frames PROVE Line(mem, mem[t][n]) = frames[n]
      <3>0. PICK a, str : a = FileAt(t, frames, n) /\ str = frames[n][1]
        OBVIOUS
      <3>1. mem[t][n] = [filename |-> PtrTo(a, str), line |-> frames[n][2]]
        BY <2>1, <3>0 DEF FramesAt
      <3>2. frames[n] = <<str, frames[n][2]>>
        BY <2>1, <3>0 DEF IsTrace, IsPlace
      <3>3. str # <<>> => n \in Named(frames)
        BY <3>0 DEF Named
      <3>4. Deref(mem, PtrTo(a, str)) = str
        <4>1. CASE str = <<>>
          <5>1. PtrTo(a, str) = Null
            BY <4>1 DEF PtrTo
          <5> QED
            BY <1>n, <4>1, <5>1 DEF Deref
        <4>2. CASE str # <<>>
          <5>1. a # Null
            BY <2>0, <2>1, <3>0, <3>3, <4>2, FilesApart DEF Null
          <5>2. Text(buf, f, a, str)
            BY <1>5, <2>0, <3>0, <3>3, <4>2 DEF Text, FileIs
          <5> QED
            BY <1>2, <5>1, <5>2
        <4> QED
          BY <4>1, <4>2
      <3> QED
        BY <3>1, <3>2, <3>4 DEF Line
    <2>4. frames = [n \in DOMAIN frames |-> frames[n]]
      BY <2>1 DEF IsTrace
    <2>5. [n \in DOMAIN mem[t] |-> Line(mem, mem[t][n])] = frames
      BY <2>2, <2>3, <2>4
    <2> QED
      BY <2>0, <2>5 DEF Null
  <1>6. PICK failure : failure = mem[buf]
    OBVIOUS
  <1>7. /\ failure.stage = f.stage
        /\ failure.description = PtrTo(DescriptionAt(buf), f.description)
        /\ failure.location = PtrTo(LocationAt(buf, f), f.location)
        /\ failure.stacktrace = PtrTo(TraceAt(buf, f), f.stacktrace)
    BY <1>1, <1>6 DEF HeadAt
  <1> DEFINE loc == IF failure.location = Null THEN <<>> ELSE Line(mem, mem[failure.location])
             trace == IF failure.stacktrace = Null THEN <<>>
                      ELSE <<[n \in DOMAIN mem[failure.stacktrace] |->
                                Line(mem, mem[failure.stacktrace][n])]>>
  <1>8. loc = f.location
    BY <1>4, <1>7 DEF PtrTo
  <1>9. trace = f.stacktrace
    <2>1. CASE f.stacktrace = <<>>
      BY <1>7, <2>1 DEF PtrTo
    <2>2. CASE f.stacktrace # <<>>
      <3>1. failure.stacktrace = TraceAt(buf, f) /\ failure.stacktrace # Null
        BY <1>5, <1>7, <2>2 DEF PtrTo
      <3>2. trace = <<f.stacktrace[1]>>
        BY <1>5, <2>2, <3>1
      <3> QED
        BY <2>2, <3>2 DEF IsFailure
    <2> QED
      BY <2>1, <2>2
  <1> HIDE DEF loc, trace
  <1>10. Read(buf, mem) = [stage |-> f.stage, description |-> f.description,
                           location |-> loc, stacktrace |-> trace]
    BY <1>3, <1>6, <1>7 DEF Read, loc, trace
  <1> QED
    BY <1>8, <1>9, <1>10 DEF IsFailure

(***************************************************************************)
(* How large the parts are                                                  *)
(***************************************************************************)

\* A part of the failure is at a and ends at e.
PartIs(buf, f, a, e) ==
    \/ a = buf /\ e = DescriptionAt(buf)
    \/ f.location # <<>> /\ a = LocationAt(buf, f) /\ e = NameAt(buf, f)
    \/ f.stacktrace # <<>> /\ a = TraceAt(buf, f)
         /\ e = TraceAt(buf, f) + Ofs(f.stacktrace[1])[0]
    \/ \E str : Text(buf, f, a, str) /\ e = a + StringSize(str)

LEMMA PartsEnd ==
    ASSUME NEW buf \in Nat \ {0}, NEW f, IsFailure(f), NEW mem, Contents(buf, f, mem)
    PROVE  /\ \A a \in DOMAIN mem : PartIs(buf, f, a, EndOf(buf, mem, a))
           /\ \A a, e : PartIs(buf, f, a, e) => a \in DOMAIN mem /\ EndOf(buf, mem, a) = e
  <1>0. Spaced(buf, f)
    BY PartsSpaced
  <1>1. mem[buf] = HeadAt(buf, f)
    BY DEF Contents
  <1>2. PICK l \in Nat, t \in Nat : l = LocationAt(buf, f) /\ t = TraceAt(buf, f)
                                    /\ l > buf /\ t > buf /\ (f.location # <<>> => l < t)
    <2>1. DescriptionAt(buf) = buf + FailureSize
      BY DEF DescriptionAt
    <2>2. NameAt(buf, f) = LocationAt(buf, f) + LocationSize
      BY DEF NameAt
    <2> QED
      BY <1>0, <2>1, <2>2 DEF Spaced
  <1>3. /\ mem[buf].location = IF f.location = <<>> THEN 0 ELSE l
        /\ mem[buf].stacktrace = IF f.stacktrace = <<>> THEN 0 ELSE t
    BY <1>1, <1>2 DEF HeadAt, PtrTo, Null
  <1>4. buf \in DOMAIN mem /\ EndOf(buf, mem, buf) = DescriptionAt(buf)
    <2>1. buf # mem[buf].location /\ buf # mem[buf].stacktrace
      BY <1>2, <1>3
    <2>2. EndOf(buf, mem, buf) = buf + FailureSize
      BY <2>1 DEF EndOf
    <2> QED
      BY <2>2 DEF Contents, DescriptionAt
  <1>5. ASSUME f.location # <<>> PROVE l \in DOMAIN mem /\ EndOf(buf, mem, l) = NameAt(buf, f)
    <2>1. l = mem[buf].location /\ l # buf /\ l # mem[buf].stacktrace
      BY <1>2, <1>3, <1>5
    <2>2. EndOf(buf, mem, l) = l + LocationSize
      BY <2>1 DEF EndOf
    <2> QED
      BY <1>2, <1>5, <2>2 DEF Contents, NameAt
  <1>6. ASSUME f.stacktrace # <<>>
        PROVE  t \in DOMAIN mem /\ EndOf(buf, mem, t) = t + Ofs(f.stacktrace[1])[0]
    <2>0. PICK frames : frames = f.stacktrace[1] /\ IsTrace(frames)
      BY <1>6 DEF IsFailure
    <2>1. t = mem[buf].stacktrace /\ t # buf /\ t # mem[buf].location
      BY <1>2, <1>3, <1>6
    <2>2. EndOf(buf, mem, t) = t + (StacktraceSize + FrameSize * Len(mem[t]))
      BY <2>1 DEF EndOf
    <2>3. mem[t] = FramesAt(t, frames)
      BY <1>2, <1>6, <2>0 DEF Contents
    <2>4. Len(mem[t]) = Len(frames)
      <3>1. PICK k \in Nat : k = Len(frames) /\ DOMAIN frames = 1 .. k
        BY <2>0, OfsProperties
      <3> DEFINE frame(n) == [filename |-> PtrTo(FileAt(t, frames, n), frames[n][1]),
                              line |-> frames[n][2]]
      <3>2. mem[t] = [n \in 1 .. k |-> frame(n)]
        BY <2>3, <3>1 DEF FramesAt
      <3> HIDE DEF frame
      <3>3. Len([n \in 1 .. k |-> frame(n)]) = k
        OBVIOUS
      <3> QED
        BY <3>1, <3>2, <3>3
    <2>5. Ofs(frames)[0] = StacktraceSize + FrameSize * Len(frames)
      BY <2>0, OfsProperties DEF OffsetsOf
    <2> QED
      BY <1>2, <1>6, <2>0, <2>2, <2>4, <2>5 DEF Contents
  <1>7. ASSUME NEW a, NEW str, Text(buf, f, a, str)
        PROVE  a \in DOMAIN mem /\ EndOf(buf, mem, a) = a + StringSize(str)
    <2>1. a \in DOMAIN mem /\ mem[a] = str
      BY <1>7 DEF Contents
    <2>2. a \in Nat /\ a > buf /\ (f.location # <<>> => a # l) /\ (f.stacktrace # <<>> => a # t)
      BY <1>2, <1>7, TextApart
    <2>3. a # buf /\ a # mem[buf].location /\ a # mem[buf].stacktrace
      BY <1>3, <2>2
    <2> QED
      BY <2>1, <2>3 DEF EndOf
  <1>8. ASSUME NEW a, NEW e, PartIs(buf, f, a, e)
        PROVE  a \in DOMAIN mem /\ EndOf(buf, mem, a) = e
    BY <1>2, <1>4, <1>5, <1>6, <1>7, <1>8 DEF PartIs
  <1>9. ASSUME NEW a \in DOMAIN mem PROVE \E e : PartIs(buf, f, a, e)
    BY <1>9 DEF PartIs, Contents
  <1> QED
    BY <1>8, <1>9

\* The parts are apart.
LEMMA PartsApart ==
    ASSUME NEW buf \in Nat \ {0}, NEW f, IsFailure(f),
           NEW a, NEW d, PartIs(buf, f, a, d), NEW b, NEW e, PartIs(buf, f, b, e), a < b
    PROVE  d <= b
  <1>1. Spaced(buf, f)
    BY PartsSpaced
  <1>2. PICK D \in Nat, L \in Nat, T \in Nat, s \in Nat, k \in Nat :
          /\ D = DescriptionAt(buf) /\ L = LocationAt(buf, f) /\ T = TraceAt(buf, f)
          /\ s = StringSize(f.description) /\ k = LocationSize
          /\ buf < D /\ D + s <= L /\ D + s <= T /\ NameAt(buf, f) = L + k /\ k > 0
    <2>1. DescriptionAt(buf) = buf + FailureSize
      BY DEF DescriptionAt
    <2>2. NameAt(buf, f) = LocationAt(buf, f) + LocationSize
      BY DEF NameAt
    <2> QED
      BY <1>1, <2>1, <2>2 DEF Spaced
  <1> DEFINE name == StringSize(f.location[1])
             ofs == Ofs(f.stacktrace[1])
             file(n) == FileAt(T, f.stacktrace[1], n)
             named == Named(f.stacktrace[1])
  <1>3. f.location # <<>> => name \in Nat /\ L + k + name <= T
    BY <1>1, <1>2 DEF Spaced
  <1>4. ASSUME f.stacktrace # <<>>
        PROVE  /\ \A n \in named : /\ file(n) \in Nat /\ T + ofs[0] <= file(n)
                                   /\ file(n) < T + ofs[n] /\ T < file(n)
                                   /\ T + ofs[n] = file(n) + StringSize(f.stacktrace[1][n][1])
                                   /\ StringSize(f.stacktrace[1][n][1]) \in Nat
                                   /\ n \in Nat
               /\ \A m, n \in named : m < n => T + ofs[m] <= file(n)
               /\ ofs[0] \in Nat
    <2>0. PICK frames : frames = f.stacktrace[1] /\ IsTrace(frames)
      BY <1>4 DEF IsFailure
    <2>1. PICK z \in Nat : z = Len(frames)
      BY <2>0, OfsProperties
    <2>2. \A n \in Named(frames) : StringSize(frames[n][1]) \in Nat
      BY <2>0, StringSized DEF Named, IsTrace, IsPlace
    <2>3. Ofs(frames)[0] \in Nat
      BY <2>0, <2>1, OfsProperties DEF OffsetsOf
    <2>4. \A n \in Named(frames) : n \in Nat
      BY <2>0, <2>1, FilesApart
    <2>5. /\ \A n \in Named(frames) :
                /\ FileAt(T, frames, n) \in Nat
                /\ T + Ofs(frames)[0] <= FileAt(T, frames, n)
                /\ FileAt(T, frames, n) < T + Ofs(frames)[n]
                /\ T < FileAt(T, frames, n)
                /\ T + Ofs(frames)[n] = FileAt(T, frames, n) + StringSize(frames[n][1])
          /\ \A m, n \in Named(frames) :
                m < n => T + Ofs(frames)[m] <= FileAt(T, frames, n)
      BY <2>0, FilesApart
    <2> QED
      BY <2>0, <2>2, <2>3, <2>4, <2>5
  <1>5. ASSUME NEW x, NEW y, PartIs(buf, f, x, y)
        PROVE  \/ x = buf /\ y = D
               \/ x = D /\ y = D + s /\ s > 0
               \/ f.location # <<>> /\ x = L /\ y = L + k
               \/ f.location # <<>> /\ x = L + k /\ y = L + k + name /\ name > 0
               \/ f.stacktrace # <<>> /\ x = T /\ y = T + ofs[0]
               \/ f.stacktrace # <<>> /\ \E n \in named : x = file(n) /\ y = T + ofs[n]
    <2>1. CASE ~\E str : Text(buf, f, x, str) /\ y = x + StringSize(str)
      BY <1>2, <1>5, <2>1 DEF PartIs
    <2>2. CASE \E str : Text(buf, f, x, str) /\ y = x + StringSize(str)
      <3>1. PICK str : Text(buf, f, x, str) /\ y = x + StringSize(str)
        BY <2>2
      <3>2. StringSize(str) > 0
        BY <3>1, TextApart
      <3>3. CASE DescriptionIs(buf, f, x, str)
        BY <1>2, <3>1, <3>2, <3>3 DEF DescriptionIs
      <3>4. CASE NameIs(buf, f, x, str)
        BY <1>2, <3>1, <3>2, <3>4 DEF NameIs
      <3>5. CASE FileIs(buf, f, x, str)
        <4>1. PICK n \in named : str = f.stacktrace[1][n][1] /\ x = file(n)
          BY <1>2, <3>5 DEF FileIs
        <4>2. y = T + ofs[n] /\ f.stacktrace # <<>>
          BY <1>4, <3>1, <3>5, <4>1 DEF FileIs
        <4> QED
          BY <4>1, <4>2
      <3> QED
        BY <3>1, <3>3, <3>4, <3>5 DEF Text
    <2> QED
      BY <2>1, <2>2
  <1> HIDE DEF name, ofs, file, named
  <1>6. CASE f.stacktrace # <<>> /\ \E n \in named : a = file(n) /\ d = T + ofs[n]
    <2>1. PICK m \in named : a = file(m) /\ d = T + ofs[m]
      BY <1>6
    <2>2. /\ a \in Nat /\ T < a /\ a < d /\ m \in Nat
      BY <1>4, <1>6, <2>1
    <2>3. CASE f.stacktrace # <<>> /\ \E n \in named : b = file(n) /\ e = T + ofs[n]
      <3>1. PICK n \in named : b = file(n) /\ e = T + ofs[n]
        BY <2>3
      <3>2. b \in Nat /\ b < e /\ n \in Nat
        BY <1>4, <1>6, <3>1
      <3>3. CASE m < n
        BY <1>4, <1>6, <2>1, <3>1, <3>3
      <3>4. CASE m = n
        BY <2>1, <2>2, <3>1, <3>4
      <3>5. CASE n < m
        <4>1. e <= a
          BY <1>4, <1>6, <2>1, <3>1, <3>5
        <4>2. e = b + StringSize(f.stacktrace[1][n][1]) /\ StringSize(f.stacktrace[1][n][1]) \in Nat
          BY <1>4, <1>6, <3>1
        <4> QED
          BY <2>2, <3>2, <4>1, <4>2
      <3> QED
        BY <2>2, <3>2, <3>3, <3>4, <3>5
    <2>4. CASE ~(f.stacktrace # <<>> /\ \E n \in named : b = file(n) /\ e = T + ofs[n])
      <3>1. b <= T
        BY <1>2, <1>3, <1>5, <2>4
      <3>2. b \in Nat
        BY <1>2, <1>3, <1>5, <2>4
      <3> QED
        BY <2>2, <3>1, <3>2
    <2> QED
      BY <2>3, <2>4
  <1>7. CASE ~(f.stacktrace # <<>> /\ \E n \in named : a = file(n) /\ d = T + ofs[n])
    <2>1. CASE f.stacktrace # <<>> /\ \E n \in named : b = file(n) /\ e = T + ofs[n]
      <3>1. PICK n \in named : b = file(n)
        BY <2>1
      <3>2. b \in Nat /\ T < b /\ T + ofs[0] <= b
        BY <1>4, <2>1, <3>1
      <3>3. (d \in Nat /\ d <= T) \/ d = T + ofs[0]
        BY <1>2, <1>3, <1>5, <1>7
      <3> QED
        BY <3>2, <3>3
    <2>2. CASE ~(f.stacktrace # <<>> /\ \E n \in named : b = file(n) /\ e = T + ofs[n])
      BY <1>2, <1>3, <1>4, <1>5, <1>7, <2>2
    <2> QED
      BY <2>1, <2>2
  <1> QED
    BY <1>6, <1>7

\* No part ends behind what failure_storage_size returned, and one ends there.
LEMMA PartsWithin ==
    ASSUME NEW buf \in Nat \ {0}, NEW f, IsFailure(f)
    PROVE  /\ failure_storage_size(f) \in Nat
           /\ \A a, e : PartIs(buf, f, a, e) =>
                e \in Nat /\ e <= buf + failure_storage_size(f)
           /\ \E a : PartIs(buf, f, a, buf + failure_storage_size(f))
  <1>1. Spaced(buf, f)
    BY PartsSpaced
  <1>2. PICK F \in Nat, d \in Nat, D \in Nat, p \in Nat, L \in Nat, k \in Nat :
          /\ F = FailureSize /\ d = StringSize(f.description) /\ D = DescriptionAt(buf)
          /\ D = buf + F /\ p = Pad(F + d, Word) /\ p >= F + d
          /\ L = LocationAt(buf, f) /\ L = buf + p
          /\ k = LocationSize /\ NameAt(buf, f) = L + k
    <2>1. PICK F \in Nat, d \in Nat, k \in Nat :
            F = FailureSize /\ d = StringSize(f.description) /\ k = LocationSize
      BY <1>1 DEF Spaced
    <2>2. PICK p \in Nat : p = Pad(F + d, Word) /\ p >= F + d
      BY PaddedUp
    <2>3. DescriptionAt(buf) = buf + F /\ LocationAt(buf, f) = buf + p
      BY <2>1, <2>2 DEF DescriptionAt, LocationAt
    <2>4. NameAt(buf, f) = LocationAt(buf, f) + k
      BY <2>1 DEF NameAt
    <2>5. buf + F \in Nat /\ buf + p \in Nat
      OBVIOUS
    <2> QED
      BY <2>1, <2>2, <2>3, <2>4, <2>5
  <1> DEFINE name == StringSize(f.location[1])
  <1>3. f.location # <<>> => name \in Nat
    BY <1>1 DEF Spaced
  \* Up to the location.
  <1>4. PICK end \in Nat :
          /\ end = LocationEnd(f) /\ D + d <= buf + end
          /\ f.location # <<>> => buf + end = L + k + name
          /\ \E a : PartIs(buf, f, a, buf + end)
    <2>1. CASE f.location = <<>>
      <3>1. LocationEnd(f) = F + d /\ buf + (F + d) = D + d
        BY <1>2, <2>1 DEF LocationEnd
      <3>2. CASE f.description = <<>>
        <4>1. d = 0
          BY <1>2, <3>2 DEF StringSize
        <4>2. PartIs(buf, f, buf, D)
          BY <1>2 DEF PartIs
        <4>3. D = buf + (F + d)
          BY <1>2, <4>1
        <4> QED
          BY <2>1, <3>1, <4>2, <4>3
      <3>3. CASE f.description # <<>>
        <4>1. Text(buf, f, D, f.description)
          BY <1>2, <3>3 DEF Text, DescriptionIs
        <4>2. PartIs(buf, f, D, D + d)
          BY <1>2, <4>1 DEF PartIs
        <4> QED
          BY <2>1, <3>1, <4>2
      <3> QED
        BY <3>2, <3>3
    <2>2. CASE f.location # <<>>
      <3>1. LocationEnd(f) = p + (k + name)
        BY <1>2, <2>2 DEF LocationEnd, location_storage_size
      <3>2. p + (k + name) \in Nat /\ buf + (p + (k + name)) = L + k + name
            /\ D + d <= buf + (p + (k + name))
        <4>1. PICK z \in Nat : z = name
          BY <1>3, <2>2
        <4>2. D = buf + F /\ p >= F + d /\ L = buf + p
          BY <1>2
        <4>3. p + (k + z) \in Nat /\ buf + (p + (k + z)) = L + k + z
              /\ D + d <= buf + (p + (k + z))
          BY <4>2
        <4> QED
          BY <4>1, <4>3
      <3>3. CASE f.location[1] = <<>>
        <4>1. name = 0
          BY <3>3 DEF StringSize
        <4>2. PartIs(buf, f, L, L + k)
          BY <1>2, <2>2 DEF PartIs
        <4>3. L + k = buf + (p + (k + name))
          BY <1>2, <4>1
        <4> QED
          BY <3>1, <3>2, <4>2, <4>3
      <3>4. CASE f.location[1] # <<>>
        <4>1. Text(buf, f, L + k, f.location[1])
          BY <1>2, <2>2, <3>4 DEF Text, NameIs
        <4>2. PartIs(buf, f, L + k, L + k + name)
          BY <4>1 DEF PartIs
        <4> QED
          BY <3>1, <3>2, <4>2
      <3> QED
        BY <3>3, <3>4
    <2> QED
      BY <2>1, <2>2
  <1> HIDE DEF name
  <1>5. PICK q \in Nat, T \in Nat : /\ q = Pad(end, Word) /\ q >= end
                                    /\ T = TraceAt(buf, f) /\ T = buf + q
    <2>1. PICK q \in Nat : q = Pad(end, Word) /\ q >= end
      BY PaddedUp
    <2>2. TraceAt(buf, f) = buf + q /\ buf + q \in Nat
      BY <1>4, <2>1 DEF TraceAt
    <2> QED
      BY <2>1, <2>2
  \* Those that are not of the stack trace.
  <1>6. ASSUME NEW a, NEW e, PartIs(buf, f, a, e)
        PROVE  \/ e \in Nat /\ e <= buf + end
               \/ f.stacktrace # <<>> /\ e = T + Ofs(f.stacktrace[1])[0]
               \/ \E str : FileIs(buf, f, a, str) /\ e = a + StringSize(str)
    <2>0. D + d <= buf + end /\ D <= buf + end /\ D + d \in Nat
      BY <1>4
    <2>n. ASSUME f.location # <<>>
          PROVE  L + k <= buf + end /\ L + k \in Nat /\ L + k + name <= buf + end
                 /\ L + k + name \in Nat
      <3>1. name \in Nat /\ buf + end = L + k + name
        BY <1>3, <1>4, <2>n
      <3> QED
        BY <3>1
    <2>1. CASE a = buf /\ e = DescriptionAt(buf)
      BY <1>2, <2>0, <2>1
    <2>2. CASE f.location # <<>> /\ a = LocationAt(buf, f) /\ e = NameAt(buf, f)
      BY <1>2, <2>n, <2>2
    <2>3. CASE f.stacktrace # <<>> /\ a = TraceAt(buf, f)
                 /\ e = TraceAt(buf, f) + Ofs(f.stacktrace[1])[0]
      BY <1>5, <2>3
    <2>4. CASE \E str : Text(buf, f, a, str) /\ e = a + StringSize(str)
      <3>1. PICK str : Text(buf, f, a, str) /\ e = a + StringSize(str)
        BY <2>4
      <3>2. CASE DescriptionIs(buf, f, a, str)
        BY <1>2, <2>0, <3>1, <3>2 DEF DescriptionIs
      <3>3. CASE NameIs(buf, f, a, str)
        <4>1. f.location # <<>> /\ a = L + k /\ StringSize(str) = name
          BY <1>2, <3>3 DEF NameIs, name
        <4> QED
          BY <2>n, <3>1, <4>1
      <3>4. CASE FileIs(buf, f, a, str)
        BY <3>1, <3>4
      <3> QED
        BY <3>1, <3>2, <3>3, <3>4 DEF Text
    <2> QED
      BY <1>6, <2>1, <2>2, <2>3, <2>4 DEF PartIs
  <1>7. CASE f.stacktrace = <<>>
    <2>1. failure_storage_size(f) = end
      BY <1>4, <1>7 DEF failure_storage_size
    <2>2. \A a, str : ~FileIs(buf, f, a, str)
      BY <1>7 DEF FileIs
    <2> QED
      BY <1>4, <1>6, <1>7, <2>1, <2>2
  <1>8. CASE f.stacktrace # <<>>
    <2>0. PICK frames, o : frames = f.stacktrace[1] /\ IsTrace(frames) /\ o = Ofs(frames)
      BY <1>8 DEF IsFailure
    <2>1. PICK n \in Nat : n = Len(frames) /\ OffsetsOf(frames, o, n) /\ LastNamed(frames, o, n)
                           /\ DOMAIN frames = 1 .. n
      BY <2>0, OfsProperties
    <2>2. /\ \A i \in 0 .. n : o[i] \in Nat /\ o[i] <= o[n]
          /\ o[0] \in Nat /\ o[n] \in Nat /\ o[0] <= o[n]
      <3>1. 0 \in 0 .. n /\ n \in 0 .. n /\ \A i \in 0 .. n : i <= n
        OBVIOUS
      <3> QED
        BY <2>1, <3>1 DEF OffsetsOf
    <2>3. failure_storage_size(f) = q + o[n]
      BY <1>4, <1>5, <1>8, <2>0, <2>1 DEF failure_storage_size, stacktrace_storage_size
    <2>4. q + o[n] \in Nat /\ buf + (q + o[n]) = T + o[n]
      BY <1>5, <2>2
    <2>5. ASSUME NEW a, NEW e, PartIs(buf, f, a, e) PROVE e \in Nat /\ e <= T + o[n]
      <3>1. CASE e \in Nat /\ e <= buf + end
        BY <1>5, <2>2, <3>1
      <3>2. CASE e = T + Ofs(f.stacktrace[1])[0]
        BY <2>0, <2>2, <3>2
      <3>3. CASE \E str : FileIs(buf, f, a, str) /\ e = a + StringSize(str)
        <4>1. PICK i \in Named(frames) :
                 a = FileAt(T, frames, i) /\ e = a + StringSize(frames[i][1])
          BY <1>5, <2>0, <3>3 DEF FileIs
        <4>2. e = T + o[i] /\ i \in 1 .. n
          BY <2>0, <2>1, <4>1, FilesApart
        <4>3. i \in 0 .. n
          BY <4>2
        <4> QED
          BY <2>2, <4>2, <4>3
      <3> QED
        BY <1>6, <2>5, <3>1, <3>2, <3>3
    <2>6. \E a : PartIs(buf, f, a, T + o[n])
      <3>1. CASE o[n] = o[0]
        <4>1. PartIs(buf, f, T, T + o[0])
          BY <1>5, <1>8, <2>0 DEF PartIs
        <4> QED
          BY <3>1, <4>1
      <3>2. CASE \E i \in 1 .. n : frames[i][1] # <<>> /\ o[i] = o[n]
        <4>1. PICK i \in 1 .. n : frames[i][1] # <<>> /\ o[i] = o[n]
          BY <3>2
        <4>2. i \in Named(frames)
          BY <2>1, <4>1 DEF Named
        <4>3. PICK a : a = FileAt(T, frames, i)
          OBVIOUS
        <4>4. a + StringSize(frames[i][1]) = T + o[n]
          BY <2>0, <4>1, <4>2, <4>3, FilesApart
        <4>5. Text(buf, f, a, frames[i][1])
          BY <1>5, <1>8, <2>0, <4>2, <4>3 DEF Text, FileIs
        <4>6. PartIs(buf, f, a, T + o[n])
          BY <4>4, <4>5 DEF PartIs
        <4> QED
          BY <4>6
      <3> QED
        BY <2>1, <3>1, <3>2 DEF LastNamed
    <2> QED
      BY <2>3, <2>4, <2>5, <2>6
  <1> QED
    BY <1>7, <1>8

\* What failure_storage_format returns is what failure_storage_size did, and
\* no part is on another one.
LEMMA FormatSound ==
    ASSUME NEW buf \in Nat \ {0}, NEW f, IsFailure(f), NEW mem, Contents(buf, f, mem)
    PROVE  /\ FormatResult(buf, mem, failure_storage_size(f)) = failure_storage_size(f)
           /\ \A a, b \in DOMAIN mem : a < b => EndOf(buf, mem, a) <= b
  <1>1. PICK size \in Nat :
          /\ size = failure_storage_size(f)
          /\ \A a, e : PartIs(buf, f, a, e) => e \in Nat /\ e <= buf + size
          /\ \E a : PartIs(buf, f, a, buf + size)
    BY PartsWithin
  <1>2. /\ \A a \in DOMAIN mem : PartIs(buf, f, a, EndOf(buf, mem, a))
        /\ \A a, e : PartIs(buf, f, a, e) => a \in DOMAIN mem /\ EndOf(buf, mem, a) = e
    BY PartsEnd
  <1>3. PICK ends : ends = {EndOf(buf, mem, a) : a \in DOMAIN mem}
    OBVIOUS
  <1>4. buf + size \in ends /\ \A e \in ends : e \in Nat /\ e <= buf + size
    BY <1>1, <1>2, <1>3
  <1>5. Max(ends) = buf + size
    <2>1. PICK top : top = Max(ends)
      OBVIOUS
    <2>2. \A y \in ends : buf + size >= y
      BY <1>4
    <2>3. top \in ends /\ \A y \in ends : top >= y
      BY <1>4, <2>1, <2>2 DEF Max
    <2>4. top \in Nat /\ top <= buf + size /\ top >= buf + size
      BY <1>4, <2>3
    <2> QED
      BY <2>1, <2>4
  <1>6. FormatResult(buf, mem, size) = size
    <2>1. ~(buf + size > buf + size) /\ (buf + size) - buf = size
      OBVIOUS
    <2> QED
      BY <1>3, <1>5, <2>1 DEF FormatResult
  <1>7. ASSUME NEW a \in DOMAIN mem, NEW b \in DOMAIN mem, a < b
        PROVE  EndOf(buf, mem, a) <= b
    BY <1>2, <1>7, PartsApart
  <1> QED
    BY <1>1, <1>6, <1>7

\* In memory that is aligned, the location and the stack trace are.
LEMMA Aligned ==
    ASSUME NEW buf \in Nat \ {0}, buf % Word = 0, NEW f, IsFailure(f),
           NEW mem, Contents(buf, f, mem)
    PROVE  mem[buf].location % Word = 0 /\ mem[buf].stacktrace % Word = 0
  <1>1. FailureSize \in Nat /\ StringSize(f.description) \in Nat
        /\ FailureSize + StringSize(f.description) \in Nat
    BY SizesTyped, StringSized DEF IsFailure
  <1>2. LocationAt(buf, f) % Word = 0
    BY <1>1, Padded, StorageAssumption DEF LocationAt
  <1>3. LocationEnd(f) \in Nat
    <2>1. CASE f.location = <<>>
      BY <1>1, <2>1 DEF LocationEnd
    <2>2. CASE f.location # <<>>
      <3>1. StringSize(f.location[1]) \in Nat /\ LocationSize \in Nat
        BY <2>2, SizesTyped, StringSized DEF IsFailure, IsPlace
      <3>2. Pad(FailureSize + StringSize(f.description), Word) \in Nat
        BY <1>1, PaddedUp
      <3> QED
        BY <2>2, <3>1, <3>2 DEF LocationEnd, location_storage_size
    <2> QED
      BY <2>1, <2>2
  <1>4. TraceAt(buf, f) % Word = 0
    BY <1>3, Padded, StorageAssumption DEF TraceAt
  <1>5. 0 % Word = 0
    BY StorageAssumption
  <1>6. mem[buf] = HeadAt(buf, f)
    BY DEF Contents
  <1> QED
    BY <1>2, <1>4, <1>5, <1>6 DEF HeadAt, PtrTo, Null

(***************************************************************************)
(* Through the pipe                                                         *)
(***************************************************************************)

LEMMA PtrMoves ==
    ASSUME NEW base \in Nat \ {0}, NEW k \in Nat \ {0}, NEW part
    PROVE  /\ RelPtr(PtrTo(base + k, part), base) = PtrTo(k, part)
           /\ AbsPtr(PtrTo(k, part), base) = PtrTo(base + k, part)
  BY DEF RelPtr, AbsPtr, PtrTo, Null

\* Where the parts are, as offsets.
LEMMA Offsets ==
    ASSUME NEW buf \in Nat, NEW f, IsFailure(f)
    PROVE  /\ DescriptionAt(0) \in Nat \ {0} /\ DescriptionAt(buf) = buf + DescriptionAt(0)
           /\ LocationAt(0, f) \in Nat \ {0} /\ LocationAt(buf, f) = buf + LocationAt(0, f)
           /\ TraceAt(0, f) \in Nat \ {0} /\ TraceAt(buf, f) = buf + TraceAt(0, f)
           /\ NameAt(buf, f) = buf + LocationAt(0, f) + LocationSize
  <1>1. PICK F \in Nat, d \in Nat : F = FailureSize /\ d = StringSize(f.description) /\ F > 0
    BY SizesTyped, StringSized DEF IsFailure
  <1>2. PICK p \in Nat : p = Pad(F + d, Word) /\ p >= F + d
    BY PaddedUp
  <1>3. PICK end \in Nat : end = LocationEnd(f) /\ end >= F + d
    <2>1. CASE f.location = <<>>
      BY <1>1, <2>1 DEF LocationEnd
    <2>2. CASE f.location # <<>>
      <3>1. PICK k \in Nat, s \in Nat : k = LocationSize /\ s = StringSize(f.location[1])
        BY <2>2, SizesTyped, StringSized DEF IsFailure, IsPlace
      <3>2. LocationEnd(f) = p + (k + s)
        BY <1>1, <1>2, <2>2, <3>1 DEF LocationEnd, location_storage_size
      <3>3. p + (k + s) \in Nat /\ p + (k + s) >= F + d
        BY <1>2
      <3> QED
        BY <3>2, <3>3
    <2> QED
      BY <2>1, <2>2
  <1>4. PICK q \in Nat : q = Pad(end, Word) /\ q >= end
    BY <1>3, PaddedUp
  <1>5. /\ DescriptionAt(0) = F /\ DescriptionAt(buf) = buf + F
        /\ LocationAt(0, f) = p /\ LocationAt(buf, f) = buf + p
        /\ TraceAt(0, f) = q /\ TraceAt(buf, f) = buf + q
    BY <1>1, <1>2, <1>3, <1>4 DEF DescriptionAt, LocationAt, TraceAt
  <1>6. F # 0 /\ p # 0 /\ q # 0
    BY <1>1, <1>2, <1>3, <1>4
  <1>7. NameAt(buf, f) = buf + p + LocationSize
    BY <1>5 DEF NameAt
  <1> QED
    BY <1>5, <1>6, <1>7

LEMMA HeadMoves ==
    ASSUME NEW buf \in Nat \ {0}, NEW f, IsFailure(f)
    PROVE  /\ RelPtrs(HeadAt(buf, f), buf) = HeadAt(0, f)
           /\ AbsPtrs(HeadAt(0, f), buf) = HeadAt(buf, f)
  <1>1. PICK d \in Nat \ {0}, l \in Nat \ {0}, t \in Nat \ {0} :
          /\ d = DescriptionAt(0) /\ DescriptionAt(buf) = buf + d
          /\ l = LocationAt(0, f) /\ LocationAt(buf, f) = buf + l
          /\ t = TraceAt(0, f) /\ TraceAt(buf, f) = buf + t
    BY Offsets
  <1>2. \A k \in Nat \ {0} : \A part :
          /\ RelPtr(PtrTo(buf + k, part), buf) = PtrTo(k, part)
          /\ AbsPtr(PtrTo(k, part), buf) = PtrTo(buf + k, part)
    BY PtrMoves
  <1>3. HeadAt(buf, f) = [stage |-> f.stage, description |-> PtrTo(buf + d, f.description),
                          location |-> PtrTo(buf + l, f.location),
                          stacktrace |-> PtrTo(buf + t, f.stacktrace)]
    BY <1>1 DEF HeadAt
  <1>4. HeadAt(0, f) = [stage |-> f.stage, description |-> PtrTo(d, f.description),
                        location |-> PtrTo(l, f.location),
                        stacktrace |-> PtrTo(t, f.stacktrace)]
    BY <1>1 DEF HeadAt
  <1>5. /\ RelPtr(PtrTo(buf + d, f.description), buf) = PtrTo(d, f.description)
        /\ RelPtr(PtrTo(buf + l, f.location), buf) = PtrTo(l, f.location)
        /\ RelPtr(PtrTo(buf + t, f.stacktrace), buf) = PtrTo(t, f.stacktrace)
        /\ AbsPtr(PtrTo(d, f.description), buf) = PtrTo(buf + d, f.description)
        /\ AbsPtr(PtrTo(l, f.location), buf) = PtrTo(buf + l, f.location)
        /\ AbsPtr(PtrTo(t, f.stacktrace), buf) = PtrTo(buf + t, f.stacktrace)
    BY <1>2
  <1>6. RelPtrs(HeadAt(buf, f), buf) = HeadAt(0, f)
    BY <1>3, <1>4, <1>5 DEF RelPtrs
  <1>7. AbsPtrs(HeadAt(0, f), buf) = HeadAt(buf, f)
    BY <1>3, <1>4, <1>5 DEF AbsPtrs
  <1> QED
    BY <1>6, <1>7

LEMMA PlaceMoves ==
    ASSUME NEW at \in Nat \ {0}, NEW place
    PROVE  /\ location_storage_serialize(at, PlaceAt(at, place)) = PlaceAt(0, place)
           /\ location_storage_deserialize(at, PlaceAt(0, place)) = PlaceAt(at, place)
  <1>1. PICK k \in Nat \ {0} : k = LocationSize
    BY SizesTyped
  <1>2. PICK name, line : name = place[1] /\ line = place[2]
    OBVIOUS
  <1>3. /\ PlaceAt(at, place) = [filename |-> PtrTo(at + k, name), line |-> line]
        /\ PlaceAt(0, place) = [filename |-> PtrTo(k, name), line |-> line]
    BY <1>1, <1>2 DEF PlaceAt
  <1>4. /\ RelPtr(PtrTo(at + k, name), at) = PtrTo(k, name)
        /\ AbsPtr(PtrTo(k, name), at) = PtrTo(at + k, name)
    BY PtrMoves
  <1> QED
    BY <1>3, <1>4 DEF location_storage_serialize, location_storage_deserialize

LEMMA FramesMove ==
    ASSUME NEW at \in Nat \ {0}, NEW frames, IsTrace(frames)
    PROVE  /\ stacktrace_storage_serialize(at, FramesAt(at, frames)) = FramesAt(0, frames)
           /\ stacktrace_storage_deserialize(at, FramesAt(0, frames)) = FramesAt(at, frames)
  <1>1. PICK far, near : far = FramesAt(at, frames) /\ near = FramesAt(0, frames)
    OBVIOUS
  <1>2. /\ DOMAIN far = DOMAIN frames /\ DOMAIN near = DOMAIN frames
        /\ far = [n \in DOMAIN frames |-> far[n]] /\ near = [n \in DOMAIN frames |-> near[n]]
    BY <1>1 DEF FramesAt
  <1>3. ASSUME NEW n \in DOMAIN frames
        PROVE  /\ [far[n] EXCEPT !.filename = RelPtr(@, at)] = near[n]
               /\ [near[n] EXCEPT !.filename = AbsPtr(@, at)] = far[n]
    <2>1. PICK k \in Nat \ {0} : k = Ofs(frames)[n - 1]
      <3>1. PICK z \in Nat : z = Len(frames) /\ DOMAIN frames = 1 .. z
                             /\ OffsetsOf(frames, Ofs(frames), z)
        BY OfsProperties
      <3>2. n - 1 \in 0 .. z
        BY <3>1
      <3>3. Ofs(frames)[n - 1] \in Nat /\ Ofs(frames)[n - 1] >= Word
        BY <3>1, <3>2 DEF OffsetsOf
      <3> QED
        BY <3>3, SizesTyped
    <2>2. PICK name, line : name = frames[n][1] /\ line = frames[n][2]
      OBVIOUS
    <2>3. /\ far[n] = [filename |-> PtrTo(at + k, name), line |-> line]
          /\ near[n] = [filename |-> PtrTo(k, name), line |-> line]
      BY <1>1, <2>1, <2>2 DEF FramesAt, FileAt
    <2>4. /\ RelPtr(PtrTo(at + k, name), at) = PtrTo(k, name)
          /\ AbsPtr(PtrTo(k, name), at) = PtrTo(at + k, name)
      BY PtrMoves
    <2> QED
      BY <2>3, <2>4
  <1>4. stacktrace_storage_serialize(at, far) = near
    BY <1>2, <1>3 DEF stacktrace_storage_serialize
  <1>5. stacktrace_storage_deserialize(at, near) = far
    BY <1>2, <1>3 DEF stacktrace_storage_deserialize
  <1> QED
    BY <1>1, <1>4, <1>5

\* A string moves with the block.
LEMMA TextMoves ==
    ASSUME NEW from \in Nat \ {0}, NEW to \in Nat \ {0}, NEW f, IsFailure(f),
           NEW a, NEW str, Text(from, f, a, str)
    PROVE  Text(to, f, a + to - from, str)
  <1>1. PICK d \in Nat \ {0}, l \in Nat \ {0}, t \in Nat \ {0}, k \in Nat :
          /\ DescriptionAt(from) = from + d /\ DescriptionAt(to) = to + d
          /\ NameAt(from, f) = from + l + k /\ NameAt(to, f) = to + l + k
          /\ TraceAt(from, f) = from + t /\ TraceAt(to, f) = to + t
    <2>1. PICK d \in Nat \ {0}, l \in Nat \ {0}, t \in Nat \ {0} :
            d = DescriptionAt(0) /\ l = LocationAt(0, f) /\ t = TraceAt(0, f)
      BY Offsets
    <2>2. PICK k \in Nat : k = LocationSize
      BY SizesTyped
    <2>3. \A buf \in Nat : /\ DescriptionAt(buf) = buf + d /\ NameAt(buf, f) = buf + l + k
                          /\ TraceAt(buf, f) = buf + t
      BY <2>1, <2>2, Offsets
    <2> QED
      BY <2>3
  <1>2. CASE DescriptionIs(from, f, a, str)
    BY <1>1, <1>2 DEF DescriptionIs, Text
  <1>3. CASE NameIs(from, f, a, str)
    BY <1>1, <1>3 DEF NameIs, Text
  <1>4. CASE FileIs(from, f, a, str)
    <2>0. PICK frames : frames = f.stacktrace[1] /\ IsTrace(frames)
      BY <1>4 DEF FileIs, IsFailure
    <2>1. PICK n \in Named(frames) : str = frames[n][1] /\ a = FileAt(from + t, frames, n)
      BY <1>1, <1>4, <2>0 DEF FileIs
    <2>2. PICK k2 \in Nat : k2 = Ofs(frames)[n - 1]
      <3>1. PICK z \in Nat : z = Len(frames) /\ DOMAIN frames = 1 .. z
                             /\ OffsetsOf(frames, Ofs(frames), z)
        BY <2>0, OfsProperties
      <3>2. n - 1 \in 0 .. z
        BY <2>1, <3>1 DEF Named
      <3> QED
        BY <3>1, <3>2 DEF OffsetsOf
    <2>3. a = from + t + k2 /\ FileAt(to + t, frames, n) = to + t + k2
      BY <2>1, <2>2 DEF FileAt
    <2>4. a + to - from = FileAt(to + t, frames, n)
      BY <2>3
    <2>5. FileIs(to, f, a + to - from, str)
      BY <1>1, <1>4, <2>0, <2>1, <2>4 DEF FileIs
    <2> QED
      BY <2>5 DEF Text
  <1> QED
    BY <1>2, <1>3, <1>4 DEF Text

\* Position-independent: pointers are offsets.
LEMMA Serialized ==
    ASSUME NEW buf \in Nat \ {0}, NEW f, IsFailure(f), NEW mem, Contents(buf, f, mem),
           NEW ser, ser = failure_storage_serialize(buf, mem)
    PROVE  /\ DOMAIN ser = DOMAIN mem
           /\ ser[buf] = HeadAt(0, f)
           /\ f.location # <<>> => ser[LocationAt(buf, f)] = PlaceAt(0, f.location)
           /\ f.stacktrace # <<>> => ser[TraceAt(buf, f)] = FramesAt(0, f.stacktrace[1])
           /\ \A a, str : Text(buf, f, a, str) => ser[a] = str
  <1>1. PICK l \in Nat \ {0}, t \in Nat \ {0} :
          /\ l = LocationAt(buf, f) /\ t = TraceAt(buf, f) /\ l # buf /\ t # buf
          /\ f.location # <<>> => l # t
    <2>1. DescriptionAt(buf) = buf + FailureSize
      BY DEF DescriptionAt
    <2>2. NameAt(buf, f) = LocationAt(buf, f) + LocationSize
      BY DEF NameAt
    <2>3. Spaced(buf, f)
      BY PartsSpaced
    <2>4. /\ LocationAt(buf, f) \in Nat /\ LocationAt(buf, f) > buf
          /\ TraceAt(buf, f) \in Nat /\ TraceAt(buf, f) > buf
      BY <2>1, <2>3 DEF Spaced
    <2>5. ASSUME f.location # <<>> PROVE LocationAt(buf, f) < TraceAt(buf, f)
      BY <2>2, <2>3, <2>5 DEF Spaced
    <2> QED
      BY <2>4, <2>5
  <1>2. PICK head : head = mem[buf] /\ head = HeadAt(buf, f)
    BY DEF Contents
  <1>3. /\ head.location = IF f.location = <<>> THEN 0 ELSE l
        /\ head.stacktrace = IF f.stacktrace = <<>> THEN 0 ELSE t
    BY <1>1, <1>2 DEF HeadAt, PtrTo, Null
  <1>4. /\ DOMAIN ser = DOMAIN mem
        /\ \A at \in DOMAIN mem : ser[at] =
             CASE at = buf -> RelPtrs(mem[at], buf)
               [] at = head.location -> location_storage_serialize(at, mem[at])
               [] at = head.stacktrace -> stacktrace_storage_serialize(at, mem[at])
               [] OTHER -> mem[at]
    BY <1>2 DEF failure_storage_serialize
  <1>5. ser[buf] = HeadAt(0, f)
    <2>1. buf \in DOMAIN mem /\ buf # head.location /\ buf # head.stacktrace
      BY <1>1, <1>3 DEF Contents
    <2>2. ser[buf] = RelPtrs(mem[buf], buf)
      BY <1>4, <2>1
    <2> QED
      BY <1>2, <2>2, HeadMoves
  <1>6. ASSUME f.location # <<>> PROVE ser[l] = PlaceAt(0, f.location)
    <2>1. l \in DOMAIN mem /\ l = head.location /\ l # buf /\ l # head.stacktrace
      BY <1>1, <1>3, <1>6 DEF Contents
    <2>2. ser[l] = location_storage_serialize(l, mem[l])
      BY <1>4, <2>1
    <2>3. mem[l] = PlaceAt(l, f.location)
      BY <1>1, <1>6 DEF Contents
    <2> QED
      BY <2>2, <2>3, PlaceMoves
  <1>7. ASSUME f.stacktrace # <<>> PROVE ser[t] = FramesAt(0, f.stacktrace[1])
    <2>1. t \in DOMAIN mem /\ t # head.location /\ t # buf /\ t = head.stacktrace
      BY <1>1, <1>3, <1>7 DEF Contents
    <2>2. ser[t] = stacktrace_storage_serialize(t, mem[t])
      BY <1>4, <2>1
    <2>3. mem[t] = FramesAt(t, f.stacktrace[1]) /\ IsTrace(f.stacktrace[1])
      BY <1>1, <1>7 DEF Contents, IsFailure
    <2> QED
      BY <2>2, <2>3, FramesMove
  <1>8. ASSUME NEW a, NEW str, Text(buf, f, a, str) PROVE ser[a] = str
    <2>1. a \in DOMAIN mem /\ mem[a] = str
      BY <1>8 DEF Contents
    <2>2. a \in Nat /\ a > buf /\ (f.location # <<>> => a # l) /\ (f.stacktrace # <<>> => a # t)
      BY <1>1, <1>8, TextApart
    <2>3. a # buf /\ a # head.location /\ a # head.stacktrace
      BY <1>3, <2>2
    <2> QED
      BY <1>4, <2>1, <2>3
  <1> QED
    BY <1>1, <1>4, <1>5, <1>6, <1>7, <1>8

\* What was serialized at one address and copied to another is, deserialized
\* there, what would have been formatted there.
LEMMA Relocated ==
    ASSUME NEW from \in Nat \ {0}, NEW to \in Nat \ {0}, NEW f, IsFailure(f),
           NEW mem, Contents(from, f, mem), NEW out,
           out = failure_storage_deserialize(to,
                     Copied(failure_storage_serialize(from, mem), from, to))
    PROVE  Contents(to, f, out)
  <1>1. PICK ser, cop : ser = failure_storage_serialize(from, mem) /\ cop = Copied(ser, from, to)
    OBVIOUS
  <1>2. /\ DOMAIN ser = DOMAIN mem
        /\ ser[from] = HeadAt(0, f)
        /\ f.location # <<>> => ser[LocationAt(from, f)] = PlaceAt(0, f.location)
        /\ f.stacktrace # <<>> => ser[TraceAt(from, f)] = FramesAt(0, f.stacktrace[1])
        /\ \A a, str : Text(from, f, a, str) => ser[a] = str
    BY <1>1, Serialized
  <1>3. PICK lo \in Nat \ {0}, tr \in Nat \ {0} :
          /\ LocationAt(from, f) = from + lo /\ LocationAt(to, f) = to + lo
          /\ TraceAt(from, f) = from + tr /\ TraceAt(to, f) = to + tr
    <2>1. PICK lo \in Nat \ {0}, tr \in Nat \ {0} : lo = LocationAt(0, f) /\ tr = TraceAt(0, f)
      BY Offsets
    <2>2. \A buf \in Nat : LocationAt(buf, f) = buf + lo /\ TraceAt(buf, f) = buf + tr
      BY <2>1, Offsets
    <2> QED
      BY <2>2
  <1>4. f.location # <<>> => to + lo # to + tr
    <2>1. NameAt(to, f) = LocationAt(to, f) + LocationSize
      BY DEF NameAt
    <2>2. Spaced(to, f)
      BY PartsSpaced
    <2>3. ASSUME f.location # <<>> PROVE LocationAt(to, f) < TraceAt(to, f)
      BY <2>1, <2>2, <2>3 DEF Spaced
    <2> QED
      BY <1>3, <2>3
  <1>5. \A a \in DOMAIN mem : a \in Nat
    <2>1. \A a, str : Text(from, f, a, str) => a \in Nat
      BY TextApart
    <2> QED
      BY <1>3, <2>1 DEF Contents
  \* What is where after the copy.
  <1>6. /\ DOMAIN cop = {a + to - from : a \in DOMAIN mem}
        /\ \A a \in DOMAIN mem : cop[a + to - from] = ser[a]
    <2>1. cop = [at \in {a + to - from : a \in DOMAIN mem} |-> ser[at - to + from]]
      BY <1>1, <1>2 DEF Copied
    <2>2. \A a \in DOMAIN mem : (a + to - from) - to + from = a
      BY <1>5
    <2> QED
      BY <2>1, <2>2
  <1>7. to \in DOMAIN cop /\ cop[to] = HeadAt(0, f)
    <2>1. from \in DOMAIN mem /\ from + to - from = to
      BY DEF Contents
    <2> QED
      BY <1>2, <1>6, <2>1
  <1>8. ASSUME f.location # <<>>
        PROVE  to + lo \in DOMAIN cop /\ cop[to + lo] = PlaceAt(0, f.location)
    <2>1. from + lo \in DOMAIN mem
      BY <1>3, <1>8 DEF Contents
    <2>2. (from + lo) + to - from = to + lo
      OBVIOUS
    <2>3. cop[(from + lo) + to - from] = ser[from + lo]
      BY <1>6, <2>1
    <2>4. (from + lo) + to - from \in DOMAIN cop
      BY <1>6, <2>1
    <2> QED
      BY <1>2, <1>3, <1>8, <2>2, <2>3, <2>4
  <1>9. ASSUME f.stacktrace # <<>>
        PROVE  to + tr \in DOMAIN cop /\ cop[to + tr] = FramesAt(0, f.stacktrace[1])
    <2>1. from + tr \in DOMAIN mem
      BY <1>3, <1>9 DEF Contents
    <2>2. (from + tr) + to - from = to + tr
      OBVIOUS
    <2>3. cop[(from + tr) + to - from] = ser[from + tr]
      BY <1>6, <2>1
    <2>4. (from + tr) + to - from \in DOMAIN cop
      BY <1>6, <2>1
    <2> QED
      BY <1>2, <1>3, <1>9, <2>2, <2>3, <2>4
  <1>10. ASSUME NEW a, NEW str, Text(to, f, a, str)
         PROVE  a \in DOMAIN cop /\ cop[a] = str
    <2>1. PICK b : b = a + from - to
      OBVIOUS
    <2>2. Text(from, f, b, str)
      BY <1>10, <2>1, TextMoves
    <2>3. b \in DOMAIN mem
      BY <2>2 DEF Contents
    <2>4. a \in Nat
      BY <1>10, TextApart
    <2>5. b + to - from = a
      BY <2>1, <2>4
    <2>6. b + to - from \in DOMAIN cop /\ cop[b + to - from] = ser[b]
      BY <1>6, <2>3
    <2> QED
      BY <1>2, <2>2, <2>5, <2>6
  <1>11. ASSUME NEW a \in DOMAIN cop
         PROVE  \/ a = to
                \/ f.location # <<>> /\ a = to + lo
                \/ f.stacktrace # <<>> /\ a = to + tr
                \/ \E str : Text(to, f, a, str)
    <2>1. PICK b \in DOMAIN mem : a = b + to - from
      BY <1>6
    <2>2. CASE b = from
      BY <2>1, <2>2
    <2>3. CASE f.location # <<>> /\ b = from + lo
      <3>1. a = to + lo
        BY <2>1, <2>3
      <3> QED
        BY <2>3, <3>1
    <2>4. CASE f.stacktrace # <<>> /\ b = from + tr
      <3>1. a = to + tr
        BY <2>1, <2>4
      <3> QED
        BY <2>4, <3>1
    <2>5. CASE \E str : Text(from, f, b, str)
      BY <2>1, <2>5, TextMoves
    <2> QED
      BY <1>3, <2>1, <2>2, <2>3, <2>4, <2>5 DEF Contents
  \* And after its pointers are pointers again.
  <1>12. PICK head : head = AbsPtrs(cop[to], to) /\ head = HeadAt(to, f)
    BY <1>7, HeadMoves
  <1>13. /\ head.location = IF f.location = <<>> THEN 0 ELSE to + lo
         /\ head.stacktrace = IF f.stacktrace = <<>> THEN 0 ELSE to + tr
    BY <1>3, <1>12 DEF HeadAt, PtrTo, Null
  <1>14. /\ DOMAIN out = DOMAIN cop
         /\ \A at \in DOMAIN cop : out[at] =
              CASE at = to -> head
                [] at = head.location -> location_storage_deserialize(at, cop[at])
                [] at = head.stacktrace -> stacktrace_storage_deserialize(at, cop[at])
                [] OTHER -> cop[at]
    BY <1>1, <1>12 DEF failure_storage_deserialize
  <1>15. out[to] = HeadAt(to, f)
    <2>1. to # head.location /\ to # head.stacktrace
      BY <1>13
    <2> QED
      BY <1>7, <1>12, <1>14, <2>1
  <1>16. ASSUME f.location # <<>> PROVE out[to + lo] = PlaceAt(to + lo, f.location)
    <2>1. to + lo = head.location /\ to + lo # to /\ to + lo # head.stacktrace
      BY <1>4, <1>13, <1>16
    <2>2. out[to + lo] = location_storage_deserialize(to + lo, cop[to + lo])
      BY <1>8, <1>14, <1>16, <2>1
    <2>3. to + lo \in Nat \ {0}
      OBVIOUS
    <2> QED
      BY <1>8, <1>16, <2>2, <2>3, PlaceMoves
  <1>17. ASSUME f.stacktrace # <<>> PROVE out[to + tr] = FramesAt(to + tr, f.stacktrace[1])
    <2>1. to + tr = head.stacktrace /\ to + tr # to /\ to + tr # head.location
      BY <1>4, <1>13, <1>17
    <2>2. out[to + tr] = stacktrace_storage_deserialize(to + tr, cop[to + tr])
      BY <1>9, <1>14, <1>17, <2>1
    <2>3. to + tr \in Nat \ {0} /\ IsTrace(f.stacktrace[1])
      BY <1>17 DEF IsFailure
    <2> QED
      BY <1>9, <1>17, <2>2, <2>3, FramesMove
  <1>18. ASSUME NEW a, NEW str, Text(to, f, a, str) PROVE out[a] = str
    <2>1. a \in DOMAIN cop /\ cop[a] = str
      BY <1>10, <1>18
    <2>2. a \in Nat /\ a > to /\ (f.location # <<>> => a # to + lo)
          /\ (f.stacktrace # <<>> => a # to + tr)
      BY <1>3, <1>18, TextApart
    <2>3. a # to /\ a # head.location /\ a # head.stacktrace
      BY <1>13, <2>2
    <2> QED
      BY <1>14, <2>1, <2>3
  <1>19. \A a : a \in DOMAIN out <=>
           \/ a = to
           \/ f.location # <<>> /\ a = to + lo
           \/ f.stacktrace # <<>> /\ a = to + tr
           \/ \E str : Text(to, f, a, str)
    BY <1>7, <1>8, <1>9, <1>10, <1>11, <1>14
  <1> QED
    BY <1>3, <1>15, <1>16, <1>17, <1>18, <1>19 DEF Contents

\* For every failure, wherever it is: formatting it takes exactly what was
\* foreseen, and a reader finds it again (failure_storage_size,
\* failure_storage_format).
THEOREM FormatFaithful ==
    ASSUME NEW buf \in Nat \ {0}, NEW f, IsFailure(f)
    PROVE  LET mem == failure_storage_format(buf, f)
               size == failure_storage_size(f)
           IN  FormatResult(buf, mem, size) = size /\ Read(buf, mem) = f
  BY Formatted, FormatSound, ReadBack

\* A failure that is made position-independent, copied to another address and
\* deserialized is what it was (failure_storage_serialize and
\* failure_storage_deserialize, with the pipe between them).
THEOREM PipeFaithful ==
    ASSUME NEW from \in Nat \ {0}, NEW to \in Nat \ {0}, NEW f, IsFailure(f)
    PROVE  Read(to, failure_storage_deserialize(to,
                        Copied(failure_storage_serialize(from,
                                   failure_storage_format(from, f)), from, to))) = f
  <1>1. PICK mem : mem = failure_storage_format(from, f) /\ Contents(from, f, mem)
    BY Formatted
  <1>2. PICK out : out = failure_storage_deserialize(to,
                             Copied(failure_storage_serialize(from, mem), from, to))
    OBVIOUS
  <1>3. Contents(to, f, out)
    BY <1>1, <1>2, Relocated
  <1> QED
    BY <1>1, <1>2, <1>3, ReadBack
===============================================================================
