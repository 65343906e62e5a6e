---------------------------- MODULE SequenceLemmas ----------------------------
(***************************************************************************)
(* Facts about numbers and sequences that several proofs need: induction    *)
(* over an interval, in a form the provers can use, the least of a set of   *)
(* numbers, and what FlattenSeq computes.                                   *)
(***************************************************************************)
EXTENDS Integers, SequencesExt, SequenceTheorems, WellFoundedInduction, TLAPS

\* A set that holds 0, and with a number the next one, holds them all.
LEMMA Induct ==
    ASSUME NEW n \in Nat, NEW S, 0 \in S,
           \A i \in 0 .. (n - 1) : i \in S => i + 1 \in S
    PROVE  \A i \in 0 .. n : i \in S
  <1> DEFINE R == {ss \in Nat \X Nat : ss[1] < ss[2]}
             others == {i \in 0 .. n : i \notin S}
  <1>1. IsWellFoundedOn(R, Nat)
    BY NatLessThanWellFounded, Zenon DEF OpToRel
  <1>2. others \in SUBSET Nat
    OBVIOUS
  <1>3. ASSUME others # {} PROVE FALSE
    <2>1. PICK x \in others : \A y \in others : ~(<<y, x>> \in R)
      BY <1>1, <1>2, <1>3, WFMin
    <2>2. x \in 0 .. n /\ x \notin S
      OBVIOUS
    <2>3. x # 0 /\ x - 1 \in 0 .. (n - 1) /\ (x - 1) + 1 = x
      BY <2>2
    <2>4. x - 1 \notin S
      BY <2>2, <2>3
    <2>5. x - 1 \in others
      BY <2>3, <2>4
    <2>6. <<x - 1, x>> \in R
      BY <2>2, <2>3
    <2> QED
      BY <2>1, <2>5, <2>6
  <1> QED
    BY <1>3

\* A set of numbers that is not empty has a least element.
LEMMA LeastNumber ==
    ASSUME NEW S \in SUBSET Nat, S # {}
    PROVE  Min(S) \in S /\ \A x \in S : Min(S) <= x
  <1> DEFINE R == {ss \in Nat \X Nat : ss[1] < ss[2]}
  <1>1. IsWellFoundedOn(R, Nat)
    BY NatLessThanWellFounded, Zenon DEF OpToRel
  <1>2. PICK x \in S : \A y \in S : ~(<<y, x>> \in R)
    BY <1>1, WFMin
  <1>3. ASSUME NEW y \in S PROVE x <= y
    <2>1. ~(<<y, x>> \in R) /\ <<y, x>> \in Nat \X Nat
      BY <1>2
    <2>2. ~(y < x)
      BY <2>1
    <2> QED
      BY <2>2
  <1> QED
    BY <1>3 DEF Min

(***************************************************************************)
(* Concatenations                                                           *)
(***************************************************************************)

\* f are the concatenations of the first 1, 2, ... n sequences.
IsFlat(seqs, f, n) ==
    f = [i \in 1 .. n |-> IF i = 1 THEN seqs[i] ELSE f[i - 1] \o seqs[i]]
Flat(seqs) == CHOOSE f : IsFlat(seqs, f, Len(seqs))

LEMMA FlatExists ==
    ASSUME NEW seqs, NEW n \in Nat
    PROVE  \E f : IsFlat(seqs, f, n)
  <1> DEFINE S == {k \in 0 .. n : \E f : IsFlat(seqs, f, k)}
  <1>1. 0 \in S
    <2> DEFINE f == [i \in 1 .. 0 |-> 0]
    <2>1. IsFlat(seqs, f, 0)
      BY DEF IsFlat
    <2> QED
      BY <2>1
  <1>2. ASSUME NEW k \in 0 .. (n - 1), k \in S PROVE k + 1 \in S
    <2>1. PICK f : IsFlat(seqs, f, k)
      BY <1>2
    <2> DEFINE last == IF k + 1 = 1 THEN seqs[k + 1] ELSE f[k] \o seqs[k + 1]
               g == [i \in 1 .. (k + 1) |-> IF i = k + 1 THEN last ELSE f[i]]
    <2>2. DOMAIN f = 1 .. k
      BY <2>1 DEF IsFlat
    <2>3. ASSUME NEW i \in 1 .. (k + 1)
          PROVE  g[i] = IF i = 1 THEN seqs[i] ELSE g[i - 1] \o seqs[i]
      <3>1. CASE i = k + 1
        <4>1. i # 1 => g[i - 1] = f[k]
          BY <3>1
        <4> QED
          BY <3>1, <4>1
      <3>2. CASE i # k + 1
        <4>1. i \in 1 .. k /\ (i # 1 => i - 1 \in 1 .. k /\ i - 1 # k + 1)
          BY <3>2
        <4>2. f[i] = IF i = 1 THEN seqs[i] ELSE f[i - 1] \o seqs[i]
          BY <2>1, <4>1 DEF IsFlat
        <4>3. g[i] = f[i] /\ (i # 1 => g[i - 1] = f[i - 1])
          BY <3>2, <4>1
        <4> QED
          BY <4>2, <4>3
      <3> QED
        BY <3>1, <3>2
    <2>4. DOMAIN g = 1 .. (k + 1)
      OBVIOUS
    <2>5. g = [i \in 1 .. (k + 1) |-> g[i]]
      OBVIOUS
    <2> HIDE DEF g
    <2>6. IsFlat(seqs, g, k + 1)
      BY <2>3, <2>5 DEF IsFlat
    <2>7. k + 1 \in 0 .. n
      OBVIOUS
    <2> QED
      BY <2>6, <2>7
  <1>3. n \in S
    <2> HIDE DEF S
    <2> QED
      BY <1>1, <1>2, Induct
  <1> QED
    BY <1>3

LEMMA FlatProperties ==
    ASSUME NEW seqs, Len(seqs) \in Nat
    PROVE  /\ FlattenSeq(seqs) =
                IF Len(seqs) = 0 THEN seqs ELSE Flat(seqs)[Len(seqs)]
           /\ \A i \in 1 .. Len(seqs) :
                Flat(seqs)[i] =
                  IF i = 1 THEN seqs[i] ELSE Flat(seqs)[i - 1] \o seqs[i]
  <1>1. FlattenSeq(seqs) = IF Len(seqs) = 0 THEN seqs ELSE Flat(seqs)[Len(seqs)]
    BY DEF FlattenSeq, Flat, IsFlat
  <1>2. IsFlat(seqs, Flat(seqs), Len(seqs))
    BY FlatExists DEF Flat
  <1>3. PICK f : f = Flat(seqs)
    OBVIOUS
  <1> QED
    BY <1>1, <1>2, <1>3 DEF IsFlat

\* The concatenations are sequences of what the sequences are sequences of.
LEMMA FlatType ==
    ASSUME NEW X, NEW seqs \in Seq(Seq(X))
    PROVE  /\ \A i \in 1 .. Len(seqs) : Flat(seqs)[i] \in Seq(X)
           /\ FlattenSeq(seqs) \in Seq(X)
  <1>1. PICK n \in Nat : n = Len(seqs)
    OBVIOUS
  <1>2. \A i \in 1 .. n : seqs[i] \in Seq(X)
    BY <1>1
  <1>3. /\ FlattenSeq(seqs) = IF n = 0 THEN seqs ELSE Flat(seqs)[n]
        /\ \A i \in 1 .. n : Flat(seqs)[i] =
             IF i = 1 THEN seqs[i] ELSE Flat(seqs)[i - 1] \o seqs[i]
    BY <1>1, FlatProperties
  <1> DEFINE S == {k \in 0 .. n : k = 0 \/ Flat(seqs)[k] \in Seq(X)}
  <1>4. 0 \in S
    BY <1>1
  <1>5. ASSUME NEW k \in 0 .. (n - 1), k \in S PROVE k + 1 \in S
    <2>1. k + 1 \in 1 .. n /\ (k + 1) - 1 = k
      BY <1>1
    <2>2. Flat(seqs)[k + 1] = IF k + 1 = 1 THEN seqs[k + 1]
                              ELSE Flat(seqs)[k] \o seqs[k + 1]
      BY <1>3, <2>1
    <2>3. k # 0 => Flat(seqs)[k] \in Seq(X)
      BY <1>5
    <2>4. seqs[k + 1] \in Seq(X) /\ (k # 0 => k + 1 # 1)
      BY <1>2, <2>1
    <2>5. k # 0 => Flat(seqs)[k] \o seqs[k + 1] \in Seq(X)
      BY <2>3, <2>4, ConcatProperties
    <2>6. Flat(seqs)[k + 1] \in Seq(X)
      BY <2>2, <2>4, <2>5
    <2> QED
      BY <2>1, <2>6
  <1>6. \A i \in 0 .. n : i \in S
    <2> HIDE DEF S
    <2> QED
      BY <1>1, <1>4, <1>5, Induct
  <1>7. \A i \in 1 .. n : Flat(seqs)[i] \in Seq(X)
    BY <1>6
  <1>8. n = 0 => seqs \in Seq(X)
    <2>1. n = 0 => seqs = <<>>
      BY <1>1, EmptySeq
    <2>2. <<>> \in Seq(X)
      OBVIOUS
    <2> QED
      BY <2>1, <2>2
  <1> QED
    BY <1>1, <1>3, <1>7, <1>8

\* A sequence of sequences that begins as a and goes on as b.
IsJoined(c, a, b) ==
    /\ Len(c) = Len(a) + Len(b)
    /\ \A i \in 1 .. Len(a) : c[i] = a[i]
    /\ \A i \in 1 .. Len(b) : c[Len(a) + i] = b[i]

\* It is flattened part by part.
LEMMA FlattenJoined ==
    ASSUME NEW X, NEW a \in Seq(Seq(X)), NEW b \in Seq(Seq(X)),
           NEW c \in Seq(Seq(X)), IsJoined(c, a, b)
    PROVE  FlattenSeq(c) = FlattenSeq(a) \o FlattenSeq(b)
  <1>1. PICK m \in Nat, n \in Nat : m = Len(a) /\ n = Len(b)
    OBVIOUS
  <1>2. /\ Len(c) = m + n
        /\ \A i \in 1 .. m : c[i] = a[i]
        /\ \A i \in 1 .. n : c[m + i] = b[i]
    BY <1>1 DEF IsJoined
  <1>3. /\ FlattenSeq(a) = IF m = 0 THEN a ELSE Flat(a)[m]
        /\ \A i \in 1 .. m :
             Flat(a)[i] = IF i = 1 THEN a[i] ELSE Flat(a)[i - 1] \o a[i]
    BY <1>1, FlatProperties
  <1>4. /\ FlattenSeq(b) = IF n = 0 THEN b ELSE Flat(b)[n]
        /\ \A i \in 1 .. n :
             Flat(b)[i] = IF i = 1 THEN b[i] ELSE Flat(b)[i - 1] \o b[i]
    BY <1>1, FlatProperties
  <1>5. /\ FlattenSeq(c) = IF m + n = 0 THEN c ELSE Flat(c)[m + n]
        /\ \A i \in 1 .. (m + n) :
             Flat(c)[i] = IF i = 1 THEN c[i] ELSE Flat(c)[i - 1] \o c[i]
    <2>1. PICK l \in Nat : l = Len(c)
      OBVIOUS
    <2>2. /\ FlattenSeq(c) = IF l = 0 THEN c ELSE Flat(c)[l]
          /\ \A i \in 1 .. l :
               Flat(c)[i] = IF i = 1 THEN c[i] ELSE Flat(c)[i - 1] \o c[i]
      BY <2>1, FlatProperties
    <2>3. l = m + n
      BY <1>2, <2>1
    <2> QED
      BY <2>2, <2>3
  <1>6. /\ \A i \in 1 .. n : Flat(b)[i] \in Seq(X) /\ b[i] \in Seq(X)
        /\ FlattenSeq(a) \in Seq(X) /\ FlattenSeq(b) \in Seq(X)
    BY <1>1, FlatType
  <1>7. \A i \in 1 .. m : Flat(c)[i] = Flat(a)[i]
    <2> DEFINE S == {k \in 0 .. m : k = 0 \/ Flat(c)[k] = Flat(a)[k]}
    <2>1. 0 \in S
      BY <1>1
    <2>2. ASSUME NEW k \in 0 .. (m - 1), k \in S PROVE k + 1 \in S
      <3>1. k + 1 \in 1 .. m /\ k + 1 \in 1 .. (m + n) /\ (k + 1) - 1 = k
            /\ (k = 0 <=> k + 1 = 1)
        BY <1>1
      <3>2. /\ Flat(c)[k + 1] = IF k + 1 = 1 THEN c[k + 1]
                                ELSE Flat(c)[k] \o c[k + 1]
            /\ Flat(a)[k + 1] = IF k + 1 = 1 THEN a[k + 1]
                                ELSE Flat(a)[k] \o a[k + 1]
            /\ c[k + 1] = a[k + 1]
        BY <1>2, <1>3, <1>5, <3>1
      <3>3. k # 0 => Flat(c)[k] = Flat(a)[k]
        BY <2>2
      <3>4. Flat(c)[k + 1] = Flat(a)[k + 1]
        BY <3>1, <3>2, <3>3
      <3> QED
        BY <3>1, <3>4
    <2>3. \A i \in 0 .. m : i \in S
      <3> HIDE DEF S
      <3> QED
        BY <1>1, <2>1, <2>2, Induct
    <2> QED
      BY <2>3
  <1>8. CASE m = 0
    <2>1. a = <<>> /\ FlattenSeq(a) = <<>>
      BY <1>1, <1>3, <1>8, EmptySeq
    <2>2. Len(c) = Len(b) /\ \A i \in 1 .. Len(c) : c[i] = b[i]
      BY <1>1, <1>2, <1>8
    <2>3. c = b
      BY <2>2, SeqEqual
    <2> QED
      BY <1>6, <2>1, <2>3, ConcatEmptySeq
  <1>9. CASE m # 0
    <2> DEFINE S == {k \in 0 .. n :
                        Flat(c)[m + k] = IF k = 0 THEN FlattenSeq(a)
                                         ELSE FlattenSeq(a) \o Flat(b)[k]}
    <2>1. 0 \in S
      <3>1. m \in 1 .. m /\ m + 0 = m
        BY <1>1, <1>9
      <3> QED
        BY <1>1, <1>3, <1>7, <1>9, <3>1
    <2>2. ASSUME NEW k \in 0 .. (n - 1), k \in S PROVE k + 1 \in S
      <3>1. /\ k + 1 \in 1 .. n /\ m + (k + 1) \in 1 .. (m + n)
            /\ (k + 1) - 1 = k /\ (m + (k + 1)) - 1 = m + k
            /\ (k = 0 <=> k + 1 = 1) /\ m + (k + 1) # 1
            /\ k # 0 => k \in 1 .. n
        BY <1>1, <1>9
      <3>2. /\ Flat(c)[m + (k + 1)] = Flat(c)[m + k] \o b[k + 1]
            /\ Flat(b)[k + 1] = IF k = 0 THEN b[k + 1] ELSE Flat(b)[k] \o b[k + 1]
        BY <1>2, <1>4, <1>5, <3>1
      <3>3. Flat(c)[m + k] = IF k = 0 THEN FlattenSeq(a)
                             ELSE FlattenSeq(a) \o Flat(b)[k]
        BY <2>2
      <3>4. k # 0 => (FlattenSeq(a) \o Flat(b)[k]) \o b[k + 1]
                       = FlattenSeq(a) \o (Flat(b)[k] \o b[k + 1])
        <4> SUFFICES ASSUME k # 0
                     PROVE  (FlattenSeq(a) \o Flat(b)[k]) \o b[k + 1]
                              = FlattenSeq(a) \o (Flat(b)[k] \o b[k + 1])
          OBVIOUS
        <4>1. PICK r \in Seq(X), t \in Seq(X), u \in Seq(X) :
                r = FlattenSeq(a) /\ t = Flat(b)[k] /\ u = b[k + 1]
          BY <1>6, <3>1
        <4>2. (r \o t) \o u = r \o (t \o u)
          BY ConcatAssociative
        <4> QED
          BY <4>1, <4>2
      <3>5. Flat(c)[m + (k + 1)] = FlattenSeq(a) \o Flat(b)[k + 1]
        BY <3>2, <3>3, <3>4
      <3>6. k + 1 \in 0 .. n /\ k + 1 # 0
        BY <3>1
      <3> QED
        BY <3>5, <3>6
    <2>3. n \in S
      <3>1. \A i \in 0 .. n : i \in S
        <4> HIDE DEF S
        <4> QED
          BY <1>1, <2>1, <2>2, Induct
      <3> QED
        BY <1>1, <3>1
    <2>4. m + n # 0
      BY <1>1, <1>9
    <2>5. CASE n = 0
      <3>1. FlattenSeq(b) = <<>>
        BY <1>1, <1>4, <2>5, EmptySeq
      <3>2. FlattenSeq(c) = FlattenSeq(a)
        BY <1>5, <2>3, <2>4, <2>5
      <3> QED
        BY <1>6, <3>1, <3>2, ConcatEmptySeq
    <2>6. CASE n # 0
      BY <1>4, <1>5, <2>3, <2>4, <2>6
    <2> QED
      BY <2>5, <2>6
  <1> QED
    BY <1>8, <1>9

LEMMA FlattenOne ==
    ASSUME NEW seqs, Len(seqs) = 1
    PROVE  FlattenSeq(seqs) = seqs[1]
  <1>1. /\ FlattenSeq(seqs) = IF Len(seqs) = 0 THEN seqs ELSE Flat(seqs)[Len(seqs)]
        /\ Flat(seqs)[1] = seqs[1]
    BY FlatProperties
  <1> QED
    BY <1>1

\* A sequence that agrees with another as far as it goes is a prefix of it.
LEMMA PrefixAgrees ==
    ASSUME NEW X, NEW all \in Seq(X), NEW s \in Seq(X), Len(s) <= Len(all),
           \A i \in 1 .. Len(s) : s[i] = all[i]
    PROVE  IsPrefix(s, all) /\ (Len(s) = Len(all) => s = all)
  <1>1. PICK m \in Nat, n \in Nat : m = Len(s) /\ n = Len(all) /\ m <= n
    OBVIOUS
  <1>2. /\ SubSeq(s, 1, m) \in Seq(X) /\ SubSeq(all, 1, m) \in Seq(X)
        /\ Len(SubSeq(s, 1, m)) = m /\ Len(SubSeq(all, 1, m)) = m
        /\ \A i \in 1 .. m : SubSeq(s, 1, m)[i] = s[i] /\ SubSeq(all, 1, m)[i] = all[i]
    BY <1>1
  <1>3. \A i \in 1 .. m : SubSeq(s, 1, m)[i] = SubSeq(all, 1, m)[i]
    BY <1>1, <1>2
  <1>4. SubSeq(s, 1, m) = SubSeq(all, 1, m)
    BY <1>2, <1>3, SeqEqual
  <1>5. IsPrefix(s, all)
    BY <1>1, <1>4 DEF IsPrefix
  <1>6. Len(s) = Len(all) => s = all
    BY SeqEqual
  <1> QED
    BY <1>5, <1>6

\* Where s is followed by t, it is a prefix.
LEMMA PrefixOfJoin ==
    ASSUME NEW X, NEW s \in Seq(X), NEW t \in Seq(X)
    PROVE  IsPrefix(s, s \o t)
  <1>1. PICK m \in Nat, n \in Nat : m = Len(s) /\ n = Len(t)
    OBVIOUS
  <1>2. /\ s \o t \in Seq(X) /\ Len(s \o t) = m + n
        /\ \A i \in 1 .. m : (s \o t)[i] = s[i]
    BY <1>1, ConcatProperties
  <1>3. PICK u \in Seq(X) : u = s \o t /\ Len(u) = m + n
    BY <1>2
  <1>4. Len(s) <= Len(u) /\ \A i \in 1 .. Len(s) : s[i] = u[i]
    BY <1>1, <1>2, <1>3
  <1> QED
    BY <1>3, <1>4, PrefixAgrees
===============================================================================
