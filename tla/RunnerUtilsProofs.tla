--------------------------- MODULE RunnerUtilsProofs ---------------------------
(***************************************************************************)
(* Proofs about Repartition and RunnerUtils, for any suites, tests and test *)
(* cases, and selections of any length.  First the sorts by themselves,     *)
(* then the functions around them: the invariant of the sorts holds there   *)
(* while one of them runs and ever after.  Both sorts are treated at once:  *)
(* n is the length of the array, suite and group give the suite and the     *)
(* group of each of its elements, s is the copy, and its first m elements   *)
(* are in place.                                                            *)
(***************************************************************************)
EXTENDS RunnerUtils, SequenceLemmas, FiniteSetTheorems

(***************************************************************************)
(* The inductive invariant, of the values the variables have                *)
(***************************************************************************)

\* Every element of the array is in the copy.
Rearranged(n, s) ==
    /\ s \in [1 .. n -> 1 .. n]
    /\ \A p \in 1 .. n : \E i \in 1 .. n : s[i] = p

\* What is not in place yet is in the order it was given in.
Ascending(n, s, m) ==
    \A i, j \in 1 .. n : m < i /\ i < j => s[i] < s[j]

\* What is in place precedes everything after it.
PlacedFirst(n, suite, group, s, m) ==
    \A i, j \in 1 .. n :
        i <= m /\ i < j => Precedes(suite, group, s[i], s[j])

\* Between two suites: those in place are complete.
SuitesApart(n, suite, s, m) ==
    \A i, j \in 1 .. n : i <= m /\ m < j => suite[s[i]] # suite[s[j]]

\* While group a of suite b is collected, only that suite and that group are
\* incomplete, and both come first in what is left.
Collecting(n, suite, group, s, m, a, b) ==
    /\ \A i, j \in 1 .. n :
         i <= m /\ m < j =>
           /\ suite[s[i]] = suite[s[j]] => suite[s[j]] = b
           /\ group[s[i]] = group[s[j]] => group[s[j]] = a
    /\ \A j \in 1 .. n :
         m < j =>
           /\ suite[s[j]] # b => Before(suite, b, suite[s[j]])
           /\ suite[s[j]] = b /\ group[s[j]] # a =>
                Before(group, a, group[s[j]])

\* What was read before position r and left is of other groups.
OthersRead(n, group, s, m, a, r) ==
    \A k \in 1 .. n : m < k /\ k < r => group[s[k]] # a

\* x is the group of the first element of suite b that was read and left.
NextMet(n, suite, group, s, m, b, r, x) ==
    \E k \in 1 .. n :
        /\ m < k /\ k < r
        /\ suite[s[k]] = b /\ group[s[k]] = x
        /\ \A j \in 1 .. n : m < j /\ j < k => suite[s[j]] # b
NoneMet(n, suite, s, m, b, r) ==
    \A k \in 1 .. n : m < k /\ k < r => suite[s[k]] # b

\* Elements of a group are of the same suite.
Nested(n, suite, group) ==
    /\ DOMAIN suite = 1 .. n /\ DOMAIN group = 1 .. n
    /\ \A p, q \in 1 .. n : group[p] = group[q] => suite[p] = suite[q]

-------------------------------------------------------------------------------
(***************************************************************************)
(* The steps, on values                                                     *)
(***************************************************************************)

\* The first element that is not in place yet precedes all others there.
LEMMA PlaceFirst ==
    ASSUME NEW n \in Nat, NEW suite, NEW group, NEW s, NEW m \in Nat,
           Nested(n, suite, group), Rearranged(n, s), Ascending(n, s, m),
           PlacedFirst(n, suite, group, s, m), SuitesApart(n, suite, s, m),
           m < n
    PROVE  /\ Ascending(n, s, m + 1)
           /\ PlacedFirst(n, suite, group, s, m + 1)
           /\ Collecting(n, suite, group, s, m + 1, group[s[m + 1]],
                         suite[s[m + 1]])
  <1> DEFINE x == s[m + 1]
  <1>1. x \in 1 .. n /\ m + 1 \in 1 .. n
    BY DEF Rearranged
  <1>2. ASSUME NEW j \in 1 .. n, m + 1 < j
        PROVE  x < s[j] /\ s[j] \in 1 .. n
    <2>1. s[j] \in 1 .. n
      BY DEF Rearranged
    <2>2. m < m + 1 /\ m + 1 \in 1 .. n
      BY <1>1
    <2>3. x < s[j]
      BY <1>2, <2>2 DEF Ascending
    <2> QED
      BY <2>1, <2>3
  <1>3. ASSUME NEW j \in 1 .. n, m + 1 < j, suite[s[j]] # suite[x]
        PROVE  Before(suite, suite[x], suite[s[j]])
    <2>1. ASSUME NEW p \in 1 .. n, suite[p] = suite[s[j]]
          PROVE  x < p
      <3>1. PICK k \in 1 .. n : s[k] = p
        BY DEF Rearranged
      <3>2. k > m
        BY <3>1, <1>3, <2>1 DEF SuitesApart
      <3>3. k # m + 1
        BY <3>1, <1>3, <2>1
      <3> QED
        BY <3>1, <3>2, <3>3, <1>2
    <2> QED
      BY <2>1, <1>1 DEF Before, Nested
  <1>4. ASSUME NEW j \in 1 .. n, m + 1 < j, group[s[j]] # group[x],
               suite[s[j]] = suite[x]
        PROVE  Before(group, group[x], group[s[j]])
    <2>1. ASSUME NEW p \in 1 .. n, group[p] = group[s[j]]
          PROVE  x < p
      <3>1. PICK k \in 1 .. n : s[k] = p
        BY DEF Rearranged
      <3>2. suite[p] = suite[s[j]]
        BY <2>1, <1>2, <1>4 DEF Nested
      <3>3. k > m
        BY <3>1, <3>2, <1>4 DEF SuitesApart
      <3>4. k # m + 1
        BY <3>1, <1>4, <2>1
      <3> QED
        BY <3>1, <3>3, <3>4, <1>2
    <2> QED
      BY <2>1, <1>1 DEF Before, Nested
  <1>5. Ascending(n, s, m + 1)
    BY DEF Ascending
  <1>6. ASSUME NEW j \in 1 .. n, m + 1 < j
        PROVE  Precedes(suite, group, x, s[j])
    BY <1>2, <1>3, <1>4, <1>6 DEF Precedes
  <1>7. PlacedFirst(n, suite, group, s, m + 1)
    BY <1>1, <1>6 DEF PlacedFirst
  <1>8. ASSUME NEW i \in 1 .. n, NEW j \in 1 .. n, i <= m + 1, m + 1 < j
        PROVE  /\ suite[s[i]] = suite[s[j]] => suite[s[j]] = suite[x]
               /\ group[s[i]] = group[s[j]] => group[s[j]] = group[x]
    <2>1. i = m + 1 \/ i <= m
      BY <1>8
    <2>2. CASE i = m + 1
      BY <2>2
    <2>3. CASE i <= m
      <3>1. suite[s[i]] # suite[s[j]]
        BY <2>3, <1>8 DEF SuitesApart
      <3>2. group[s[i]] # group[s[j]]
        BY <3>1, <1>8 DEF Nested, Rearranged
      <3> QED
        BY <3>1, <3>2
    <2> QED
      BY <2>1, <2>2, <2>3
  <1>9. Collecting(n, suite, group, s, m + 1, group[x], suite[x])
    BY <1>3, <1>4, <1>8 DEF Collecting
  <1> QED
    BY <1>5, <1>7, <1>9

\* The memmove brings the element at position r to the first position that
\* is not in place; what it passes moves up by one.
LEMMA MoveToProperties ==
    ASSUME NEW n \in Nat, NEW s, NEW m \in Nat, NEW r \in 1 .. n,
           Rearranged(n, s), m < r
    PROVE  /\ Rearranged(n, MoveTo(s, m + 1, r))
           /\ MoveTo(s, m + 1, r)[m + 1] = s[r]
           /\ \A i \in 1 .. n : i <= m => MoveTo(s, m + 1, r)[i] = s[i]
           /\ \A i \in 1 .. n :
                m + 1 < i /\ i <= r => MoveTo(s, m + 1, r)[i] = s[i - 1]
           /\ \A i \in 1 .. n : r < i => MoveTo(s, m + 1, r)[i] = s[i]
  <1> DEFINE t == MoveTo(s, m + 1, r)
  <1>1. DOMAIN s = 1 .. n /\ m + 1 \in 1 .. n
    BY DEF Rearranged
  <1>2. t = [i \in 1 .. n |-> IF i = m + 1 THEN s[r]
                             ELSE IF m + 1 < i /\ i <= r THEN s[i - 1]
                             ELSE s[i]]
    BY <1>1 DEF MoveTo
  <1> HIDE DEF t
  <1>3. t[m + 1] = s[r]
    BY <1>1, <1>2
  <1>4. \A i \in 1 .. n : i <= m => t[i] = s[i]
    BY <1>2
  <1>5. \A i \in 1 .. n : m + 1 < i /\ i <= r => t[i] = s[i - 1]
    BY <1>2
  <1>6. \A i \in 1 .. n : r < i => t[i] = s[i]
    BY <1>2
  <1>7. ASSUME NEW i \in 1 .. n
        PROVE  t[i] \in 1 .. n
    <2>1. i = m + 1 \/ i <= m \/ (m + 1 < i /\ i <= r) \/ r < i
      OBVIOUS
    <2>2. m + 1 < i => i - 1 \in 1 .. n
      OBVIOUS
    <2> QED
      BY <2>1, <2>2, <1>3, <1>4, <1>5, <1>6 DEF Rearranged
  <1>8. t \in [1 .. n -> 1 .. n]
    BY <1>2, <1>7
  <1>9. ASSUME NEW p \in 1 .. n
        PROVE  \E i \in 1 .. n : t[i] = p
    <2>1. PICK k \in 1 .. n : s[k] = p
      BY DEF Rearranged
    <2>2. CASE k = r
      BY <2>1, <2>2, <1>1, <1>3
    <2>3. CASE k <= m
      BY <2>1, <2>3, <1>4
    <2>4. CASE m < k /\ k < r
      <3>1. k + 1 \in 1 .. n /\ m + 1 < k + 1 /\ k + 1 <= r /\ (k + 1) - 1 = k
        BY <2>4
      <3> QED
        BY <3>1, <2>1, <1>5
    <2>5. CASE r < k
      BY <2>1, <2>5, <1>6
    <2> QED
      BY <2>2, <2>3, <2>4, <2>5
  <1>10. Rearranged(n, t)
    BY <1>8, <1>9 DEF Rearranged
  <1> QED
    BY <1>3, <1>4, <1>5, <1>6, <1>10 DEF t

\* Where the element at position i > m + 1 came from.
LEMMA Origin ==
    ASSUME NEW n \in Nat, NEW s, NEW m \in Nat, NEW r \in 1 .. n,
           Rearranged(n, s), m < r, NEW i \in 1 .. n, m + 1 < i
    PROVE  \E j \in 1 .. n :
             /\ m < j /\ j # r /\ MoveTo(s, m + 1, r)[i] = s[j]
             /\ i <= r => j = i - 1
             /\ r < i => j = i
  <1>1. CASE i <= r
    <2>1. i - 1 \in 1 .. n /\ m < i - 1 /\ i - 1 # r /\ ~(r < i)
      BY <1>1
    <2>2. MoveTo(s, m + 1, r)[i] = s[i - 1]
      BY <1>1, MoveToProperties
    <2> QED
      BY <2>1, <2>2
  <1>2. CASE r < i
    BY <1>2, MoveToProperties
  <1> QED
    BY <1>1, <1>2

\* Collecting the element at position r, the first one left of group a, keeps
\* everything in order.
LEMMA Collect ==
    ASSUME NEW n \in Nat, NEW suite, NEW group, NEW s, NEW m \in Nat,
           NEW a, NEW b, NEW r \in 1 .. n, m < r,
           Rearranged(n, s), Ascending(n, s, m),
           PlacedFirst(n, suite, group, s, m),
           Collecting(n, suite, group, s, m, a, b),
           OthersRead(n, group, s, m, a, r),
           group[s[r]] = a, suite[s[r]] = b,
           NEW t, t = MoveTo(s, m + 1, r)
    PROVE  /\ Rearranged(n, t)
           /\ Ascending(n, t, m + 1)
           /\ PlacedFirst(n, suite, group, t, m + 1)
           /\ Collecting(n, suite, group, t, m + 1, a, b)
           /\ OthersRead(n, group, t, m + 1, a, r + 1)
  <1>1. /\ Rearranged(n, t)
        /\ t[m + 1] = s[r]
        /\ \A i \in 1 .. n : i <= m => t[i] = s[i]
    BY MoveToProperties
  <1>2. \A i \in 1 .. n : m + 1 < i =>
           \E j \in 1 .. n : /\ m < j /\ j # r /\ t[i] = s[j]
                             /\ i <= r => j = i - 1
                             /\ r < i => j = i
    <2> SUFFICES ASSUME NEW i \in 1 .. n, m + 1 < i
                 PROVE  \E j \in 1 .. n :
                          /\ m < j /\ j # r /\ t[i] = s[j]
                          /\ i <= r => j = i - 1
                          /\ r < i => j = i
      OBVIOUS
    <2> QED
      BY Origin
  <1>3. m + 1 \in 1 .. n
    OBVIOUS
  <1>4. Ascending(n, t, m + 1)
    <2> SUFFICES ASSUME NEW i \in 1 .. n, NEW j \in 1 .. n, m + 1 < i, i < j
                 PROVE  t[i] < t[j]
      BY DEF Ascending
    <2>1. PICK k \in 1 .. n : /\ m < k /\ k # r /\ t[i] = s[k]
                              /\ i <= r => k = i - 1
                              /\ r < i => k = i
      BY <1>2
    <2>2. PICK l \in 1 .. n : /\ m < l /\ l # r /\ t[j] = s[l]
                              /\ j <= r => l = j - 1
                              /\ r < j => l = j
      BY <1>2
    <2>3. k < l
      BY <2>1, <2>2
    <2> QED
      BY <2>1, <2>2, <2>3 DEF Ascending
  <1>5. PlacedFirst(n, suite, group, t, m + 1)
    <2> SUFFICES ASSUME NEW i \in 1 .. n, NEW j \in 1 .. n, i <= m + 1, i < j
                 PROVE  Precedes(suite, group, t[i], t[j])
      BY DEF PlacedFirst
    <2>1. CASE i <= m
      <3>1. \E k \in 1 .. n : i < k /\ t[j] = s[k]
        <4>1. CASE j <= m
          BY <4>1, <1>1
        <4>2. CASE j = m + 1
          BY <4>2, <2>1, <1>1
        <4>3. CASE m + 1 < j
          BY <4>3, <2>1, <1>2
        <4> QED
          BY <4>1, <4>2, <4>3
      <3> QED
        BY <3>1, <2>1, <1>1 DEF PlacedFirst
    <2>2. CASE i = m + 1
      <3>1. PICK k \in 1 .. n : m < k /\ k # r /\ t[j] = s[k]
        BY <2>2, <1>2
      <3>2. t[i] = s[r]
        BY <2>2, <1>1
      <3>3. CASE suite[s[k]] # b
        BY <3>1, <3>2, <3>3 DEF Collecting, Precedes
      <3>4. CASE suite[s[k]] = b /\ group[s[k]] # a
        BY <3>1, <3>2, <3>4 DEF Collecting, Precedes
      <3>5. CASE suite[s[k]] = b /\ group[s[k]] = a
        <4>1. r < k
          BY <3>1, <3>5 DEF OthersRead
        <4>2. s[r] < s[k]
          BY <4>1 DEF Ascending
        <4> QED
          BY <3>1, <3>2, <3>5, <4>2 DEF Precedes
      <3> QED
        BY <3>3, <3>4, <3>5
    <2>3. i <= m \/ i = m + 1
      OBVIOUS
    <2> QED
      BY <2>1, <2>2, <2>3
  <1>6. ASSUME NEW i \in 1 .. n, NEW j \in 1 .. n, i <= m + 1, m + 1 < j
        PROVE  /\ suite[t[i]] = suite[t[j]] => suite[t[j]] = b
               /\ group[t[i]] = group[t[j]] => group[t[j]] = a
    <2>1. PICK k \in 1 .. n : m < k /\ t[j] = s[k]
      BY <1>2, <1>6
    <2>2. CASE i <= m
      BY <2>1, <2>2, <1>1 DEF Collecting
    <2>3. CASE i = m + 1
      BY <2>3, <1>1
    <2>4. i <= m \/ i = m + 1
      BY <1>6
    <2> QED
      BY <2>2, <2>3, <2>4
  <1>7. ASSUME NEW j \in 1 .. n, m + 1 < j
        PROVE  /\ suite[t[j]] # b => Before(suite, b, suite[t[j]])
               /\ suite[t[j]] = b /\ group[t[j]] # a =>
                    Before(group, a, group[t[j]])
    <2>1. PICK k \in 1 .. n : m < k /\ t[j] = s[k]
      BY <1>2, <1>7
    <2> QED
      BY <2>1 DEF Collecting
  <1>8. Collecting(n, suite, group, t, m + 1, a, b)
    BY <1>6, <1>7 DEF Collecting
  <1>9. OthersRead(n, group, t, m + 1, a, r + 1)
    <2> SUFFICES ASSUME NEW k \in 1 .. n, m + 1 < k, k < r + 1
                 PROVE  group[t[k]] # a
      BY DEF OthersRead
    <2>1. k - 1 \in 1 .. n /\ m < k - 1 /\ k - 1 < r /\ k <= r
      OBVIOUS
    <2>2. t[k] = s[k - 1]
      BY <2>1, <1>2
    <2> QED
      BY <2>1, <2>2 DEF OthersRead
  <1> QED
    BY <1>1, <1>4, <1>5, <1>8, <1>9

\* ... and it keeps what is known of the suite's next group: what was left
\* moves up by one.
LEMMA CollectNext ==
    ASSUME NEW n \in Nat, NEW suite, NEW group, NEW s, NEW m \in Nat,
           NEW b, NEW x, NEW r \in 1 .. n, m < r, Rearranged(n, s),
           NEW t, t = MoveTo(s, m + 1, r)
    PROVE  /\ NoneMet(n, suite, s, m, b, r) =>
                NoneMet(n, suite, t, m + 1, b, r + 1)
           /\ NextMet(n, suite, group, s, m, b, r, x) =>
                NextMet(n, suite, group, t, m + 1, b, r + 1, x)
  <1>1. ASSUME NEW k \in 1 .. n, m + 1 < k, k < r + 1
        PROVE  k - 1 \in 1 .. n /\ m < k - 1 /\ k - 1 < r /\ t[k] = s[k - 1]
    <2>1. k - 1 \in 1 .. n /\ m < k - 1 /\ k - 1 < r /\ k <= r
      BY <1>1
    <2>2. t[k] = s[k - 1]
      BY <1>1, <2>1, MoveToProperties
    <2> QED
      BY <2>1, <2>2
  <1>2. NoneMet(n, suite, s, m, b, r) => NoneMet(n, suite, t, m + 1, b, r + 1)
    BY <1>1 DEF NoneMet
  <1>3. ASSUME NextMet(n, suite, group, s, m, b, r, x)
        PROVE  NextMet(n, suite, group, t, m + 1, b, r + 1, x)
    <2>1. PICK k \in 1 .. n :
            /\ m < k /\ k < r
            /\ suite[s[k]] = b /\ group[s[k]] = x
            /\ \A j \in 1 .. n : m < j /\ j < k => suite[s[j]] # b
      BY <1>3 DEF NextMet
    <2>2. k + 1 \in 1 .. n /\ m + 1 < k + 1 /\ k + 1 < r + 1 /\ (k + 1) - 1 = k
      BY <2>1
    <2>3. t[k + 1] = s[k]
      BY <2>2, <1>1
    <2>4. ASSUME NEW j \in 1 .. n, m + 1 < j, j < k + 1
          PROVE  suite[t[j]] # b
      <3>1. j < r + 1 /\ j - 1 < k
        BY <2>1, <2>4
      <3>2. j - 1 \in 1 .. n /\ m < j - 1 /\ t[j] = s[j - 1]
        BY <3>1, <2>4, <1>1
      <3> QED
        BY <3>1, <3>2, <2>1
    <2> QED
      BY <2>1, <2>2, <2>3, <2>4 DEF NextMet
  <1> QED
    BY <1>2, <1>3

\* Leaving the element at position r where it is.
LEMMA Leave ==
    ASSUME NEW n \in Nat, NEW suite, NEW group, NEW s, NEW m \in Nat,
           NEW a, NEW b, NEW x, NEW r \in 1 .. n, m < r,
           OthersRead(n, group, s, m, a, r), group[s[r]] # a
    PROVE  /\ OthersRead(n, group, s, m, a, r + 1)
           /\ NoneMet(n, suite, s, m, b, r) /\ suite[s[r]] # b =>
                NoneMet(n, suite, s, m, b, r + 1)
           /\ NoneMet(n, suite, s, m, b, r) /\ suite[s[r]] = b =>
                NextMet(n, suite, group, s, m, b, r + 1, group[s[r]])
           /\ NextMet(n, suite, group, s, m, b, r, x) =>
                NextMet(n, suite, group, s, m, b, r + 1, x)
  <1>1. \A k \in 1 .. n : k < r + 1 => k < r \/ k = r
    OBVIOUS
  <1>2. OthersRead(n, group, s, m, a, r + 1)
    BY <1>1 DEF OthersRead
  <1>3. NoneMet(n, suite, s, m, b, r) /\ suite[s[r]] # b =>
          NoneMet(n, suite, s, m, b, r + 1)
    BY <1>1 DEF NoneMet
  <1>4. NoneMet(n, suite, s, m, b, r) /\ suite[s[r]] = b =>
          NextMet(n, suite, group, s, m, b, r + 1, group[s[r]])
    BY DEF NoneMet, NextMet
  <1>5. NextMet(n, suite, group, s, m, b, r, x) =>
          NextMet(n, suite, group, s, m, b, r + 1, x)
    <2>1. \A k \in 1 .. n : k < r => k < r + 1
      OBVIOUS
    <2> QED
      BY <2>1 DEF NextMet
  <1> QED
    BY <1>2, <1>3, <1>4, <1>5

\* A group is complete and the next one of its suite takes its place: it comes
\* first in what is left of the suite.
LEMMA NextGroup ==
    ASSUME NEW n \in Nat, NEW suite, NEW group, NEW s, NEW m \in Nat,
           NEW a, NEW b, NEW x, NEW r \in Nat, n < r,
           Nested(n, suite, group), Rearranged(n, s), Ascending(n, s, m),
           Collecting(n, suite, group, s, m, a, b),
           OthersRead(n, group, s, m, a, r),
           NextMet(n, suite, group, s, m, b, r, x)
    PROVE  Collecting(n, suite, group, s, m, x, b)
  <1>1. PICK k \in 1 .. n :
          /\ m < k /\ suite[s[k]] = b /\ group[s[k]] = x
          /\ \A j \in 1 .. n : m < j /\ j < k => suite[s[j]] # b
    BY DEF NextMet
  <1>2. \A j \in 1 .. n : m < j => group[s[j]] # a
    BY DEF OthersRead
  <1>3. ASSUME NEW i \in 1 .. n, NEW j \in 1 .. n, i <= m, m < j
        PROVE  /\ suite[s[i]] = suite[s[j]] => suite[s[j]] = b
               /\ group[s[i]] = group[s[j]] => group[s[j]] = x
    BY <1>2, <1>3 DEF Collecting
  <1>4. ASSUME NEW j \in 1 .. n, m < j, suite[s[j]] = b, group[s[j]] # x
        PROVE  Before(group, x, group[s[j]])
    <2>1. s[k] \in 1 .. n /\ s[j] \in 1 .. n
      BY DEF Rearranged
    <2>2. ASSUME NEW p \in 1 .. n, group[p] = group[s[j]]
          PROVE  s[k] < p
      <3>1. PICK l \in 1 .. n : s[l] = p
        BY DEF Rearranged
      <3>2. m < l
        BY <3>1, <2>2, <1>2, <1>4 DEF Collecting
      <3>3. suite[p] = b
        BY <2>1, <2>2, <1>4 DEF Nested
      <3>4. ~(l < k) /\ l # k
        BY <3>1, <3>2, <3>3, <2>2, <1>1, <1>4
      <3>5. k < l
        BY <3>4
      <3> QED
        BY <3>1, <3>5, <1>1 DEF Ascending
    <2> QED
      BY <2>1, <2>2, <1>1 DEF Before, Nested
  <1>5. ASSUME NEW j \in 1 .. n, m < j, suite[s[j]] # b
        PROVE  Before(suite, b, suite[s[j]])
    BY <1>5 DEF Collecting
  <1> QED
    BY <1>3, <1>4, <1>5 DEF Collecting

\* A suite is complete when none of its elements was left.
LEMMA SuiteDone ==
    ASSUME NEW n \in Nat, NEW suite, NEW group, NEW s, NEW m \in Nat,
           NEW a, NEW b, NEW r \in Nat, n < r,
           Collecting(n, suite, group, s, m, a, b),
           NoneMet(n, suite, s, m, b, r)
    PROVE  SuitesApart(n, suite, s, m)
  <1>1. \A j \in 1 .. n : m < j => suite[s[j]] # b
    BY DEF NoneMet
  <1> QED
    BY <1>1 DEF Collecting, SuitesApart

-------------------------------------------------------------------------------
(***************************************************************************)
(* The inductive invariant                                                  *)
(***************************************************************************)

\* The number of elements in place, and the suite that is being collected.
Placed == IF mode = "tests" /\ loop = "inner" THEN write ELSE write - 1
ActiveSuite == IF mode = "tests" THEN active ELSE SuiteOf[active]

SortTypeOK ==
    /\ mode \in {"tests", "testcases"}
    /\ input \in Seq(IF mode = "tests" THEN Tests ELSE Testcases)
    /\ loop \in {"outer", "inner"}
    /\ write \in Nat \ {0} /\ read \in Nat
    /\ mode = "tests" => next = NoTest

\* At the head of the outer loop.
OuterInv ==
    loop = "outer" => SuitesApart(Len(input), SuiteAt, sorted, Placed)

\* At the head of the inner loop.
InnerInv ==
    loop = "inner" =>
        /\ Placed < read
        /\ Collecting(Len(input), SuiteAt, GroupAt, sorted, Placed, active,
                      ActiveSuite)
        /\ OthersRead(Len(input), GroupAt, sorted, Placed, active, read)
        /\ next = NoTest =>
             NoneMet(Len(input), SuiteAt, sorted, Placed, ActiveSuite, read)
        /\ next # NoTest =>
             NextMet(Len(input), SuiteAt, GroupAt, sorted, Placed, ActiveSuite,
                     read, next)

SortInv ==
    /\ SortTypeOK
    /\ Rearranged(Len(input), sorted)
    /\ Ascending(Len(input), sorted, Placed)
    /\ PlacedFirst(Len(input), SuiteAt, GroupAt, sorted, Placed)
    /\ OuterInv
    /\ InnerInv

\* The length of the copy is that of the array.
LEMMA Lengths ==
    ASSUME SortTypeOK, Rearranged(Len(input), sorted)
    PROVE  /\ Len(input) \in Nat /\ DOMAIN input = 1 .. Len(input)
           /\ Len(sorted) = Len(input)
           /\ \A i \in 1 .. Len(input) :
                sorted[i] \in DOMAIN input
  <1>1. Len(input) \in Nat /\ DOMAIN input = 1 .. Len(input)
    BY LenProperties DEF SortTypeOK
  <1>2. sorted \in [1 .. Len(input) -> 1 .. Len(input)]
    BY DEF Rearranged
  <1>3. sorted \in Seq(1 .. Len(input)) /\ Len(sorted) = Len(input)
    BY <1>1, <1>2
  <1> QED
    BY <1>1, <1>2, <1>3

\* The keys of the elements: those of a group are of one suite, and what the
\* code compares are the keys.
LEMMA Keys ==
    ASSUME SortTypeOK
    PROVE  /\ Nested(Len(input), SuiteAt, GroupAt)
           /\ \A p \in DOMAIN input :
                /\ mode = "tests" =>
                     SuiteAt[p] = SuiteOf[input[p]] /\ GroupAt[p] = SuiteAt[p]
                /\ mode = "testcases" =>
                     /\ GroupAt[p] = TestOf[input[p]]
                     /\ GroupAt[p] \in Tests
                     /\ SuiteAt[p] = SuiteOf[GroupAt[p]]
  <1>1. Len(input) \in Nat /\ DOMAIN input = 1 .. Len(input)
    BY LenProperties DEF SortTypeOK
  <1>2. CASE mode = "tests"
    BY <1>1, <1>2 DEF Nested, SuiteAt, GroupAt
  <1>3. CASE mode = "testcases"
    <2>1. \A p \in DOMAIN input : input[p] \in Testcases
      BY <1>3, <1>1, ElementOfSeq DEF SortTypeOK
    <2>2. \A p \in DOMAIN input :
            /\ GroupAt[p] = TestOf[input[p]] /\ GroupAt[p] \in Tests
            /\ SuiteAt[p] = SuiteOf[GroupAt[p]]
      BY <1>3, <2>1, RepartitionAssumption DEF GroupAt, SuiteAt
    <2>3. DOMAIN SuiteAt = DOMAIN input /\ DOMAIN GroupAt = DOMAIN input
      BY <1>3 DEF GroupAt, SuiteAt
    <2> QED
      BY <1>1, <1>3, <2>2, <2>3 DEF Nested
  <1> QED
    BY <1>2, <1>3 DEF SortTypeOK

\* A test is never taken for NULL.
LEMMA NoTestIsNone == \A test \in Tests : test # NoTest
  BY RepartitionAssumption

\* Nothing is in place yet, and the copy is as the array.
LEMMA CalledInv == Called => SortInv
  <1> SUFFICES ASSUME Called PROVE SortInv
    OBVIOUS
  <1>1. PICK n \in 0 .. MaxInput :
          \/ mode = "tests" /\ input \in [1 .. n -> Tests]
          \/ mode = "testcases" /\ input \in [1 .. n -> Testcases]
    BY DEF Called, Inputs
  <1>2. n \in Nat
    BY RepartitionAssumption
  <1>3. /\ mode \in {"tests", "testcases"} /\ Len(input) = n
        /\ DOMAIN input = 1 .. n
        /\ input \in Seq(IF mode = "tests" THEN Tests ELSE Testcases)
    BY <1>1, <1>2
  <1>4. /\ SortTypeOK /\ Placed = 0 /\ loop = "outer"
        /\ sorted = [i \in 1 .. n |-> i]
    BY <1>3 DEF Called, SortInit, SortTypeOK, Placed
  <1>5. Rearranged(n, sorted)
    BY <1>2, <1>4 DEF Rearranged
  <1>6. Ascending(n, sorted, 0)
    BY <1>2, <1>4 DEF Ascending
  <1>7. PlacedFirst(n, SuiteAt, GroupAt, sorted, 0)
    BY <1>2 DEF PlacedFirst
  <1>8. SuitesApart(n, SuiteAt, sorted, 0)
    BY <1>2 DEF SuitesApart
  <1> QED
    BY <1>3, <1>4, <1>5, <1>6, <1>7, <1>8 DEF SortInv, OuterInv, InnerInv

-------------------------------------------------------------------------------
(***************************************************************************)
(* The steps                                                                *)
(***************************************************************************)

\* The keys are of the array, which no step changes.
LEMMA KeysKept ==
    ASSUME UNCHANGED <<mode, input>>
    PROVE  SuiteAt' = SuiteAt /\ GroupAt' = GroupAt
  BY DEF SuiteAt, GroupAt

\* The first element that is left starts a suite.
LEMMA PlaceTestInv ==
    ASSUME SortInv, PlaceTest, UNCHANGED <<mode, input>>
    PROVE  SortInv'
  <1> DEFINE n == Len(input)
             m == Placed
  <1>1. /\ SortTypeOK /\ Rearranged(n, sorted) /\ Ascending(n, sorted, m)
        /\ PlacedFirst(n, SuiteAt, GroupAt, sorted, m)
        /\ SuitesApart(n, SuiteAt, sorted, m)
    BY DEF SortInv, OuterInv, PlaceTest
  <1>2. /\ n \in Nat /\ m \in Nat /\ m + 1 = write /\ m < n
        /\ Placed' = m + 1 /\ read' = m + 2
        /\ sorted[write] \in DOMAIN input
    BY <1>1, Lengths DEF SortTypeOK, PlaceTest, Placed, Size
  <1>3. /\ active' = GroupAt[sorted[m + 1]]
        /\ ActiveSuite' = SuiteAt[sorted[m + 1]]
    BY <1>1, <1>2, Keys DEF PlaceTest, Item, ActiveSuite
  <1>4. /\ Ascending(n, sorted, m + 1)
        /\ PlacedFirst(n, SuiteAt, GroupAt, sorted, m + 1)
        /\ Collecting(n, SuiteAt, GroupAt, sorted, m + 1, active',
                      ActiveSuite')
    BY <1>1, <1>2, <1>3, Keys, PlaceFirst
  <1>5. /\ OthersRead(n, GroupAt, sorted, m + 1, active', m + 2)
        /\ NoneMet(n, SuiteAt, sorted, m + 1, ActiveSuite', m + 2)
    BY <1>2 DEF OthersRead, NoneMet
  <1>6. sorted' = sorted /\ loop' = "inner" /\ next' = NoTest
    BY <1>1 DEF PlaceTest, SortTypeOK
  <1>7. SortTypeOK'
    BY <1>1, <1>2, <1>6 DEF SortTypeOK, PlaceTest
  <1>8. InnerInv' /\ OuterInv'
    BY <1>2, <1>4, <1>5, <1>6, KeysKept DEF InnerInv, OuterInv
  <1> QED
    BY <1>1, <1>2, <1>4, <1>6, <1>7, <1>8, KeysKept DEF SortInv

LEMMA PlaceTestcaseInv ==
    ASSUME SortInv, PlaceTestcase, UNCHANGED <<mode, input>>
    PROVE  SortInv'
  <1> DEFINE n == Len(input)
             m == Placed
  <1>1. /\ SortTypeOK /\ Rearranged(n, sorted) /\ Ascending(n, sorted, m)
        /\ PlacedFirst(n, SuiteAt, GroupAt, sorted, m)
        /\ SuitesApart(n, SuiteAt, sorted, m)
    BY DEF SortInv, OuterInv, PlaceTestcase
  <1>2. /\ n \in Nat /\ m \in Nat /\ m + 1 = write /\ m < n
        /\ Placed' = m + 1 /\ read' = m + 2
        /\ sorted[write] \in DOMAIN input
    BY <1>1, Lengths DEF SortTypeOK, PlaceTestcase, Placed, Size
  <1>3. /\ active' = GroupAt[sorted[m + 1]]
        /\ ActiveSuite' = SuiteAt[sorted[m + 1]]
    BY <1>1, <1>2, Keys DEF PlaceTestcase, Item, ActiveSuite
  <1>4. /\ Ascending(n, sorted, m + 1)
        /\ PlacedFirst(n, SuiteAt, GroupAt, sorted, m + 1)
        /\ Collecting(n, SuiteAt, GroupAt, sorted, m + 1, active',
                      ActiveSuite')
    BY <1>1, <1>2, <1>3, Keys, PlaceFirst
  <1>5. /\ OthersRead(n, GroupAt, sorted, m + 1, active', m + 2)
        /\ NoneMet(n, SuiteAt, sorted, m + 1, ActiveSuite', m + 2)
    BY <1>2 DEF OthersRead, NoneMet
  <1>6. sorted' = sorted /\ loop' = "inner" /\ next' = NoTest
    BY DEF PlaceTestcase
  <1>7. SortTypeOK'
    BY <1>1, <1>2, <1>6 DEF SortTypeOK, PlaceTestcase
  <1>8. InnerInv' /\ OuterInv'
    BY <1>2, <1>4, <1>5, <1>6, KeysKept DEF InnerInv, OuterInv
  <1> QED
    BY <1>1, <1>2, <1>4, <1>6, <1>7, <1>8, KeysKept DEF SortInv

\* What the invariant says when an element is read.
LEMMA Reading ==
    ASSUME SortInv, loop = "inner", read <= Size
    PROVE  /\ SortTypeOK /\ Rearranged(Len(input), sorted)
           /\ Len(input) \in Nat /\ Placed \in Nat
           /\ read \in 1 .. Len(input) /\ Placed < read
           /\ sorted[read] \in DOMAIN input
  <1>1. SortTypeOK /\ Rearranged(Len(input), sorted) /\ Placed < read
    BY DEF SortInv, InnerInv
  <1> QED
    BY <1>1, Lengths DEF SortTypeOK, Placed, Size

\* The element that is read is of the group that is collected: it is moved to
\* the elements in place.
LEMMA MovedInv ==
    ASSUME SortInv, loop = "inner", read <= Size,
           GroupAt[sorted[read]] = active, SuiteAt[sorted[read]] = ActiveSuite,
           sorted' = MoveTo(sorted, Placed + 1, read),
           write' = write + 1, read' = read + 1,
           UNCHANGED <<mode, input, active, next, loop>>
    PROVE  SortInv'
  <1> DEFINE n == Len(input)
             m == Placed
  <1>1. /\ SortTypeOK /\ Rearranged(n, sorted) /\ n \in Nat /\ m \in Nat
        /\ read \in 1 .. n /\ m < read
    BY Reading
  <1>2. /\ Ascending(n, sorted, m)
        /\ PlacedFirst(n, SuiteAt, GroupAt, sorted, m)
        /\ Collecting(n, SuiteAt, GroupAt, sorted, m, active, ActiveSuite)
        /\ OthersRead(n, GroupAt, sorted, m, active, read)
        /\ next = NoTest => NoneMet(n, SuiteAt, sorted, m, ActiveSuite, read)
        /\ next # NoTest =>
             NextMet(n, SuiteAt, GroupAt, sorted, m, ActiveSuite, read, next)
    BY DEF SortInv, InnerInv
  <1>3. Placed' = m + 1 /\ ActiveSuite' = ActiveSuite
    BY <1>1 DEF SortTypeOK, Placed, ActiveSuite
  <1>4. /\ Rearranged(n, sorted') /\ Ascending(n, sorted', m + 1)
        /\ PlacedFirst(n, SuiteAt, GroupAt, sorted', m + 1)
        /\ Collecting(n, SuiteAt, GroupAt, sorted', m + 1, active, ActiveSuite)
        /\ OthersRead(n, GroupAt, sorted', m + 1, active, read + 1)
    BY <1>1, <1>2, Collect
  <1>5. /\ NoneMet(n, SuiteAt, sorted, m, ActiveSuite, read) =>
             NoneMet(n, SuiteAt, sorted', m + 1, ActiveSuite, read + 1)
        /\ NextMet(n, SuiteAt, GroupAt, sorted, m, ActiveSuite, read, next) =>
             NextMet(n, SuiteAt, GroupAt, sorted', m + 1, ActiveSuite,
                     read + 1, next)
    BY <1>1, CollectNext
  <1>6. SortTypeOK'
    BY <1>1 DEF SortTypeOK
  <1>7. m + 1 < read + 1
    BY <1>1
  <1>8. InnerInv' /\ OuterInv'
    BY <1>2, <1>3, <1>4, <1>5, <1>7, KeysKept DEF InnerInv, OuterInv
  <1> QED
    BY <1>3, <1>4, <1>6, <1>8, KeysKept DEF SortInv

\* The element that is read is of another group: it is left where it is, and
\* the first one of the same suite gives the next group.
LEMMA LeftInv ==
    ASSUME SortInv, loop = "inner", read <= Size,
           GroupAt[sorted[read]] # active,
           next' = IF next = NoTest /\ SuiteAt[sorted[read]] = ActiveSuite
                   THEN GroupAt[sorted[read]] ELSE next,
           GroupAt[sorted[read]] # NoTest,
           mode = "tests" => next' = NoTest,
           read' = read + 1,
           UNCHANGED <<mode, input, sorted, write, active, loop>>
    PROVE  SortInv'
  <1> DEFINE n == Len(input)
             m == Placed
             x == GroupAt[sorted[read]]
  <1>1. /\ SortTypeOK /\ Rearranged(n, sorted) /\ n \in Nat /\ m \in Nat
        /\ read \in 1 .. n /\ m < read
    BY Reading
  <1>2. /\ Ascending(n, sorted, m)
        /\ PlacedFirst(n, SuiteAt, GroupAt, sorted, m)
        /\ Collecting(n, SuiteAt, GroupAt, sorted, m, active, ActiveSuite)
        /\ OthersRead(n, GroupAt, sorted, m, active, read)
        /\ next = NoTest => NoneMet(n, SuiteAt, sorted, m, ActiveSuite, read)
        /\ next # NoTest =>
             NextMet(n, SuiteAt, GroupAt, sorted, m, ActiveSuite, read, next)
    BY DEF SortInv, InnerInv
  <1>3. Placed' = m /\ ActiveSuite' = ActiveSuite
    BY <1>1 DEF SortTypeOK, Placed, ActiveSuite
  <1>4. /\ OthersRead(n, GroupAt, sorted, m, active, read + 1)
        /\ NoneMet(n, SuiteAt, sorted, m, ActiveSuite, read)
             /\ SuiteAt[sorted[read]] # ActiveSuite =>
               NoneMet(n, SuiteAt, sorted, m, ActiveSuite, read + 1)
        /\ NoneMet(n, SuiteAt, sorted, m, ActiveSuite, read)
             /\ SuiteAt[sorted[read]] = ActiveSuite =>
               NextMet(n, SuiteAt, GroupAt, sorted, m, ActiveSuite, read + 1, x)
        /\ NextMet(n, SuiteAt, GroupAt, sorted, m, ActiveSuite, read, next) =>
             NextMet(n, SuiteAt, GroupAt, sorted, m, ActiveSuite, read + 1, next)
    BY <1>1, <1>2, Leave
  <1>5. /\ next' = NoTest =>
             NoneMet(n, SuiteAt, sorted, m, ActiveSuite, read + 1)
        /\ next' # NoTest =>
             NextMet(n, SuiteAt, GroupAt, sorted, m, ActiveSuite, read + 1, next')
    BY <1>2, <1>4
  <1>6. SortTypeOK'
    BY <1>1 DEF SortTypeOK
  <1>7. m < read + 1
    BY <1>1
  <1>8. InnerInv' /\ OuterInv'
    BY <1>2, <1>3, <1>4, <1>5, <1>7, KeysKept DEF InnerInv, OuterInv
  <1> QED
    BY <1>1, <1>2, <1>3, <1>6, <1>8, KeysKept DEF SortInv

LEMMA ReadTestInv ==
    ASSUME SortInv, ReadTest, UNCHANGED <<mode, input>>
    PROVE  SortInv'
  <1>1. /\ mode = "tests" /\ loop = "inner" /\ read <= Size
        /\ Placed = write /\ ActiveSuite = active
        /\ read' = read + 1 /\ UNCHANGED <<active, next, loop>>
    BY DEF ReadTest, Placed, ActiveSuite
  <1>2. SortTypeOK /\ sorted[read] \in DOMAIN input /\ next = NoTest
    BY <1>1, Reading DEF SortTypeOK
  <1>3. /\ SuiteAt[sorted[read]] = SuiteOf[Item(read)]
        /\ GroupAt[sorted[read]] = SuiteOf[Item(read)]
    BY <1>1, <1>2, Keys DEF Item
  <1>4. CASE SuiteOf[Item(read)] = active
    <2>1. write' = write + 1 /\ sorted' = MoveTo(sorted, write + 1, read)
      BY <1>4 DEF ReadTest
    <2> QED
      BY <1>1, <1>3, <1>4, <2>1, MovedInv
  <1>5. CASE SuiteOf[Item(read)] # active
    <2>1. UNCHANGED <<sorted, write>>
      BY <1>5 DEF ReadTest
    <2>2. SuiteOf[Item(read)] # NoTest
      <3>1. input[sorted[read]] \in Tests
        BY <1>1, <1>2, LenProperties, ElementOfSeq DEF SortTypeOK
      <3> QED
        BY <3>1, RepartitionAssumption DEF Item
    <2> QED
      BY <1>1, <1>2, <1>3, <1>5, <2>1, <2>2, LeftInv
  <1> QED
    BY <1>4, <1>5

LEMMA ReadTestcaseInv ==
    ASSUME SortInv, ReadTestcase, UNCHANGED <<mode, input>>
    PROVE  SortInv'
  <1>1. /\ mode = "testcases" /\ loop = "inner" /\ read <= Size
        /\ Placed = write - 1 /\ ActiveSuite = SuiteOf[active]
        /\ read' = read + 1 /\ UNCHANGED <<active, loop>>
    BY DEF ReadTestcase, Placed, ActiveSuite
  <1>2. /\ SortTypeOK /\ sorted[read] \in DOMAIN input
        /\ write \in Nat \ {0}
    BY <1>1, Reading DEF SortTypeOK
  <1>3. /\ GroupAt[sorted[read]] = TestOf[Item(read)]
        /\ SuiteAt[sorted[read]] = SuiteOf[TestOf[Item(read)]]
        /\ GroupAt[sorted[read]] # NoTest
    BY <1>1, <1>2, Keys, NoTestIsNone DEF Item
  <1>4. CASE TestOf[Item(read)] = active
    <2>1. /\ write' = write + 1 /\ sorted' = MoveTo(sorted, write, read)
          /\ UNCHANGED next
      BY <1>4 DEF ReadTestcase
    <2>2. Placed + 1 = write
      BY <1>1, <1>2
    <2> QED
      BY <1>1, <1>3, <1>4, <2>1, <2>2, MovedInv
  <1>5. CASE TestOf[Item(read)] # active
    <2>1. /\ UNCHANGED <<sorted, write>>
          /\ next' = IF next = NoTest /\ SuiteAt[sorted[read]] = ActiveSuite
                     THEN GroupAt[sorted[read]] ELSE next
      BY <1>1, <1>3, <1>5 DEF ReadTestcase, NextTest
    <2> QED
      BY <1>1, <1>3, <1>5, <2>1, LeftInv
  <1> QED
    BY <1>4, <1>5

\* What the invariant says when everything was read.
LEMMA AllRead ==
    ASSUME SortInv, loop = "inner", read > Size
    PROVE  /\ SortTypeOK /\ Rearranged(Len(input), sorted)
           /\ Len(input) \in Nat /\ Placed \in Nat
           /\ read \in Nat /\ Len(input) < read
  <1>1. SortTypeOK /\ Rearranged(Len(input), sorted)
    BY DEF SortInv
  <1> QED
    BY <1>1, Lengths DEF SortTypeOK, Placed, Size

\* No element of the suite was left: control is back at the outer loop.
LEMMA SuiteDoneInv ==
    ASSUME SortInv, loop = "inner", read > Size, next = NoTest,
           loop' = "outer", write' \in Nat \ {0}, Placed' = Placed,
           UNCHANGED <<mode, input, sorted, read, next>>
    PROVE  SortInv'
  <1> DEFINE n == Len(input)
             m == Placed
  <1>1. /\ SortTypeOK /\ Rearranged(n, sorted) /\ n \in Nat /\ m \in Nat
        /\ read \in Nat /\ n < read
    BY AllRead
  <1>2. /\ Ascending(n, sorted, m)
        /\ PlacedFirst(n, SuiteAt, GroupAt, sorted, m)
        /\ Collecting(n, SuiteAt, GroupAt, sorted, m, active, ActiveSuite)
        /\ NoneMet(n, SuiteAt, sorted, m, ActiveSuite, read)
    BY DEF SortInv, InnerInv
  <1>3. SuitesApart(n, SuiteAt, sorted, m)
    BY <1>1, <1>2, SuiteDone
  <1>4. SortTypeOK'
    BY <1>1 DEF SortTypeOK
  <1>5. InnerInv' /\ OuterInv'
    BY <1>3, KeysKept DEF InnerInv, OuterInv
  <1> QED
    BY <1>1, <1>2, <1>4, <1>5, KeysKept DEF SortInv

LEMMA SuiteCollectedInv ==
    ASSUME SortInv, SuiteCollected, UNCHANGED <<mode, input>>
    PROVE  SortInv'
  <1>1. SortTypeOK
    BY DEF SortInv
  <1>2. /\ loop = "inner" /\ read > Size /\ next = NoTest /\ loop' = "outer"
        /\ write' \in Nat \ {0} /\ Placed' = Placed
        /\ UNCHANGED <<sorted, read, next>>
    BY <1>1 DEF SuiteCollected, SortTypeOK, Placed
  <1> QED
    BY <1>2, SuiteDoneInv

LEMMA TestCollectedInv ==
    ASSUME SortInv, TestCollected, UNCHANGED <<mode, input>>
    PROVE  SortInv'
  <1> DEFINE n == Len(input)
             m == Placed
  <1>1. /\ SortTypeOK /\ Rearranged(n, sorted) /\ n \in Nat /\ m \in Nat
        /\ read \in Nat /\ n < read
    BY AllRead DEF TestCollected
  <1>2. /\ loop = "inner" /\ read > Size /\ mode = "testcases"
        /\ UNCHANGED <<sorted, write>>
    BY DEF TestCollected
  <1>3. write = m + 1 /\ Placed' = m
    BY <1>1, <1>2 DEF TestCollected, Placed, SortTypeOK
  <1>4. CASE next = NoTest
    <2>1. loop' = "outer" /\ UNCHANGED <<read, next>> /\ write' \in Nat \ {0}
      BY <1>1, <1>2, <1>4 DEF TestCollected, SortTypeOK
    <2> QED
      BY <1>2, <1>3, <1>4, <2>1, SuiteDoneInv
  <1>5. CASE next # NoTest
    <2>1. /\ active' = next /\ read' = m + 1 /\ next' = NoTest
          /\ loop' = "inner"
      BY <1>2, <1>3, <1>5 DEF TestCollected
    <2>2. /\ Ascending(n, sorted, m)
          /\ PlacedFirst(n, SuiteAt, GroupAt, sorted, m)
          /\ Collecting(n, SuiteAt, GroupAt, sorted, m, active, ActiveSuite)
          /\ OthersRead(n, GroupAt, sorted, m, active, read)
          /\ NextMet(n, SuiteAt, GroupAt, sorted, m, ActiveSuite, read, next)
      BY <1>2, <1>5 DEF SortInv, InnerInv
    <2>3. Collecting(n, SuiteAt, GroupAt, sorted, m, next, ActiveSuite)
      BY <1>1, <2>2, Keys, NextGroup
    <2>4. ActiveSuite' = ActiveSuite
      <3>1. PICK k \in 1 .. n : /\ SuiteAt[sorted[k]] = ActiveSuite
                                /\ GroupAt[sorted[k]] = next
        BY <2>2 DEF NextMet
      <3>2. sorted[k] \in DOMAIN input
        BY <1>1, Lengths
      <3>3. SuiteOf[next] = ActiveSuite
        BY <1>1, <1>2, <3>1, <3>2, Keys
      <3> QED
        BY <1>2, <2>1, <3>3 DEF ActiveSuite
    <2>5. /\ OthersRead(n, GroupAt, sorted, m, next, m + 1)
          /\ NoneMet(n, SuiteAt, sorted, m, ActiveSuite, m + 1)
      BY <1>1 DEF OthersRead, NoneMet
    <2>6. SortTypeOK'
      BY <1>1, <1>2, <2>1 DEF SortTypeOK
    <2>7. m < m + 1
      BY <1>1
    <2>8. InnerInv' /\ OuterInv'
      BY <1>2, <1>3, <2>1, <2>3, <2>4, <2>5, <2>7, KeysKept
         DEF InnerInv, OuterInv
    <2> QED
      BY <1>1, <1>2, <1>3, <2>2, <2>6, <2>8, KeysKept DEF SortInv
  <1> QED
    BY <1>4, <1>5

-------------------------------------------------------------------------------
(***************************************************************************)
(* The theorems                                                             *)
(***************************************************************************)

\* Every step of the two sorts keeps the invariant.
LEMMA SortInvStep ==
    SortInv /\ [SortNext]_<<mode, input, sortVars>> => SortInv'
  <1> SUFFICES ASSUME SortInv, [SortNext]_<<mode, input, sortVars>>
               PROVE  SortInv'
    OBVIOUS
  <1>1. CASE UNCHANGED <<mode, input, sortVars>>
    <2>1. /\ UNCHANGED <<mode, input, sorted, write, read>>
          /\ UNCHANGED <<active, next, loop>>
      BY <1>1 DEF sortVars
    <2>2. Placed' = Placed /\ ActiveSuite' = ActiveSuite
      BY <2>1 DEF Placed, ActiveSuite
    <2>3. SortTypeOK' /\ InnerInv' /\ OuterInv'
      BY <2>1, <2>2, KeysKept DEF SortInv, SortTypeOK, InnerInv, OuterInv
    <2> QED
      BY <2>1, <2>2, <2>3, KeysKept DEF SortInv
  <1>2. CASE Sorting
    BY <1>2, PlaceTestInv, ReadTestInv, SuiteCollectedInv, PlaceTestcaseInv,
       ReadTestcaseInv, TestCollectedInv DEF Sorting, SortStep
  <1> QED
    BY <1>1, <1>2 DEF SortNext, Sorted

\* The invariant of the nested loops of repartition_tests__ and
\* repartition_testcases__: what was placed is in the promised order and
\* precedes the rest, which is as given; only the suite and the test that are
\* being collected are incomplete.
THEOREM SortInvariance == SortSpec => []SortInv
  BY CalledInv, SortInvStep, PTL DEF SortSpec

\* The copy is a permutation throughout, and in order in the end.
LEMMA SortInvPermutation == SortInv => Permutation
  <1> SUFFICES ASSUME SortInv PROVE Permutation
    OBVIOUS
  <1>1. SortTypeOK /\ Rearranged(Len(input), sorted)
    BY DEF SortInv
  <1> QED
    BY <1>1, Lengths DEF Permutation, Rearranged

LEMMA SortInvPartitioned == SortInv => Partitioned
  <1> SUFFICES ASSUME SortInv, SortDone,
                      NEW i \in DOMAIN sorted, NEW j \in DOMAIN sorted, i < j
               PROVE  Precedes(SuiteAt, GroupAt, sorted[i], sorted[j])
    BY DEF Partitioned
  <1>1. /\ SortTypeOK /\ Rearranged(Len(input), sorted)
        /\ PlacedFirst(Len(input), SuiteAt, GroupAt, sorted, Placed)
    BY DEF SortInv
  <1>2. /\ Len(input) \in Nat /\ DOMAIN sorted = 1 .. Len(input)
        /\ Len(sorted) = Len(input)
    BY <1>1, Lengths DEF Rearranged
  <1>3. i \in 1 .. Len(input) /\ j \in 1 .. Len(input) /\ i <= Placed
    BY <1>1, <1>2 DEF SortDone, Size, Placed, SortTypeOK
  <1> QED
    BY <1>1, <1>3 DEF PlacedFirst

\* The memmoves lose no element of the array and duplicate none, in any
\* prefix of the sorts.
THEOREM PermutationKept == SortSpec => []Permutation
  BY SortInvPermutation, SortInvariance, PTL

\* When a sort returns, suites, and tests within a suite, are in the order of
\* their first occurrence, and their elements in the order they were given in,
\* as runner_utils.h promises.
THEOREM PartitionedWhenDone == SortSpec => []Partitioned
  BY SortInvPartitioned, SortInvariance, PTL

-------------------------------------------------------------------------------
(***************************************************************************)
(* runner_run_testcases, runner_run_tests and runner_run_testsuites         *)
(***************************************************************************)

(***************************************************************************)
(* The inductive invariant                                                  *)
(***************************************************************************)

\* Where a test has a reporter, and where a suite has one.
InTest == {"testcase", "run", "close_testcase", "close_test"}
InSuite == InTest \union {"test", "close_testsuite"}

\* The reporters that live are the ones the local variables hold, and where
\* the control is says which these are.
LiveInv ==
    /\ live["testsuite"] = IF testsuiteReporter = NoReporter THEN 0 ELSE 1
    /\ live["test"] = IF pc \in InTest THEN 1 ELSE 0
    /\ live["testcase"] = IF pc \in {"run", "close_testcase"} THEN 1 ELSE 0
    /\ pc \in InTest <=> testReporter # NoReporter
    /\ pc \in InSuite => testsuiteReporter # NoReporter
    /\ pc \in {"call", "sort", "returned"} => testsuiteReporter = NoReporter
    /\ mode # "testcases" /\ pc \in {"testsuite", "return"} =>
         testsuiteReporter = NoReporter

\* The test cases are of the test, the tests are of the suite.
CasesBelong(cs, test) == \A i \in DOMAIN cs : TestOf[cs[i]] = test
TestsBelong(ts, suite) ==
    \A i \in DOMAIN ts :
        SuiteOf[ts[i].test] = suite /\ CasesBelong(ts[i].cases, ts[i].test)

\* What is left to run belongs to the reporters it will be run under.
BelongInv ==
    /\ pc \in InTest \union {"test"} => TestsBelong(tests, testsuiteReporter)
    /\ pc \in {"testcase", "run", "close_testcase"} =>
         CasesBelong(cases, testReporter)

\* A negative number is on its way to the caller, or is the result, exactly
\* when something has failed.
FaultInv ==
    /\ pc \in {"call", "sort", "testsuite", "test", "testcase", "run"} => ~faulted
    /\ pc \in {"close_testcase", "close_test", "close_testsuite"} =>
         (faulted <=> rc = -1)
    /\ pc = "return" => faulted /\ result = -1
    /\ pc = "returned" => (faulted <=> result = -1)
    /\ pc \notin {"return", "returned"} => result \in Nat
    /\ pc = "run" => /\ phase \in {"pending", "running"}
                     /\ verdict = "none" /\ rc = 0
    /\ pc = "close_testcase" => rc \in {-1, 0, 1}

\* The failures counted so far are spread over the three results and the
\* number that was returned last.
Counted(total) == failed <= total /\ total <= failed + errors
CountInv ==
    /\ pc \in {"call", "sort", "testsuite"} => Counted(result)
    /\ pc = "returned" /\ result # -1 => Counted(result)
    /\ pc = "test" => Counted(result + inSuite)
    /\ pc \in {"testcase", "run"} => Counted(result + inSuite + inTest)
    /\ pc = "close_testcase" /\ rc # -1 => Counted(result + inSuite + inTest + rc)
    /\ pc = "close_test" /\ rc # -1 => Counted(result + inSuite + rc)
    /\ pc = "close_testsuite" /\ rc # -1 => Counted(result + rc)

\* The copy: the sorts' own invariant holds of it; suites are not sorted.
CopyInv ==
    /\ mode # "testsuites" => SortInv
    /\ mode = "testsuites" =>
         /\ sorted = [i \in DOMAIN input |-> i]
         /\ loop = "outer" /\ write = 1

UtilsInv ==
    TypeOK /\ LiveInv /\ BelongInv /\ FaultInv /\ CountInv /\ CopyInv

(***************************************************************************)
(* What the next round of the loop takes                                    *)
(***************************************************************************)

\* At least one element is taken, all that are have the same key, and the
\* next one has another.
LEMMA LeadingProperties ==
    ASSUME NEW X, rest \in Seq(X), rest # <<>>, NEW keyOf
    PROVE  /\ Leading(keyOf) \in 1 .. Len(rest)
           /\ \A i \in 1 .. Leading(keyOf) : keyOf[rest[i]] = keyOf[rest[1]]
           /\ Leading(keyOf) < Len(rest) =>
                keyOf[rest[Leading(keyOf) + 1]] # keyOf[rest[1]]
  <1> DEFINE others == {i \in DOMAIN rest : keyOf[rest[i]] # keyOf[rest[1]]}
  <1>1. Len(rest) \in Nat \ {0} /\ DOMAIN rest = 1 .. Len(rest)
    OBVIOUS
  <1>2. CASE others = {}
    BY <1>1, <1>2 DEF Leading
  <1>3. CASE others # {}
    <2>1. Min(others) \in others /\ \A x \in others : Min(others) <= x
      <3>1. others \in SUBSET Nat
        BY <1>1
      <3> HIDE DEF others
      <3> QED
        BY <1>3, <3>1, LeastNumber
    <2>2. PICK m \in others : m = Min(others) /\ \A x \in others : m <= x
      BY <2>1
    <2>3. Leading(keyOf) = m - 1
      BY <1>3, <2>2 DEF Leading
    <2>4. m \in 2 .. Len(rest)
      BY <1>1, <2>2
    <2>5. ASSUME NEW i \in 1 .. (m - 1) PROVE keyOf[rest[i]] = keyOf[rest[1]]
      <3>1. i \in DOMAIN rest /\ ~(m <= i)
        BY <1>1, <2>4
      <3>2. i \notin others
        BY <2>2, <3>1
      <3> QED
        BY <3>1, <3>2
    <2>6. m - 1 + 1 = m /\ keyOf[rest[m]] # keyOf[rest[1]]
      BY <2>2, <2>4
    <2> QED
      BY <2>3, <2>4, <2>5, <2>6
  <1> QED
    BY <1>2, <1>3

\* A prefix of a sequence that is not all of it.
LEMMA Prefix ==
    ASSUME NEW X, NEW s \in Seq(X), NEW n \in 1 .. Len(s)
    PROVE  /\ SubSeq(s, 1, n) \in Seq(X) /\ Len(SubSeq(s, 1, n)) = n
           /\ \A i \in 1 .. n : SubSeq(s, 1, n)[i] = s[i]
           /\ SubSeq(s, n + 1, Len(s)) \in Seq(X)
           /\ Len(SubSeq(s, n + 1, Len(s))) = Len(s) - n
           /\ \A i \in 1 .. (Len(s) - n) : SubSeq(s, n + 1, Len(s))[i] = s[n + i]
  <1>1. Len(s) \in Nat /\ \A i \in 1 .. Len(s) : s[i] \in X
    OBVIOUS
  <1>2. /\ SubSeq(s, 1, n) \in Seq(X) /\ Len(SubSeq(s, 1, n)) = n
        /\ \A i \in 1 .. n : SubSeq(s, 1, n)[i] = s[i]
    BY <1>1, SubSeqProperties
  <1>3. /\ SubSeq(s, n + 1, Len(s)) \in Seq(X)
        /\ Len(SubSeq(s, n + 1, Len(s))) = Len(s) - n
        /\ \A i \in 1 .. (Len(s) - n) : SubSeq(s, n + 1, Len(s))[i] = s[n + i]
    BY <1>1, SubSeqProperties
  <1> QED
    BY <1>2, <1>3

\* The tests of a suite, with all of their test cases.
LEMMA WithCasesProperties ==
    ASSUME NEW ts \in Seq(Tests), NEW suite,
           \A i \in DOMAIN ts : SuiteOf[ts[i]] = suite
    PROVE  /\ WithCases(ts) \in Seq([test : Tests, cases : Seq(Testcases)])
           /\ TestsBelong(WithCases(ts), suite)
  <1>1. Len(ts) \in Nat /\ DOMAIN ts = 1 .. Len(ts)
    OBVIOUS
  <1>2. ASSUME NEW i \in DOMAIN ts
        PROVE  /\ ts[i] \in Tests /\ CasesOf[ts[i]] \in Seq(Testcases)
               /\ [test |-> ts[i], cases |-> CasesOf[ts[i]]]
                    \in [test : Tests, cases : Seq(Testcases)]
               /\ CasesBelong(CasesOf[ts[i]], ts[i])
    BY <1>1, UtilsAssumption DEF CasesBelong
  <1> DEFINE T == [test : Tests, cases : Seq(Testcases)]
  <1>3. WithCases(ts) \in [1 .. Len(ts) -> T]
    BY <1>1, <1>2 DEF WithCases
  <1>4. DOMAIN WithCases(ts) = DOMAIN ts
    BY DEF WithCases
  <1>5. \A i \in DOMAIN ts : /\ WithCases(ts)[i].test = ts[i]
                             /\ WithCases(ts)[i].cases = CasesOf[ts[i]]
    BY DEF WithCases
  <1>6. WithCases(ts) \in Seq(T)
    <2> HIDE DEF T
    <2> QED
      BY <1>1, <1>3
  <1>7. TestsBelong(WithCases(ts), suite)
    BY <1>2, <1>4, <1>5 DEF TestsBelong
  <1> QED
    BY <1>6, <1>7

\* What a round takes belongs together.
LEMMA RoundProperties ==
    ASSUME LoopTypeOK, rest # <<>>
    PROVE  /\ Round.suite \in Testsuites
           /\ Round.taken \in 1 .. Len(rest)
           /\ Round.tests \in Seq([test : Tests, cases : Seq(Testcases)])
           /\ TestsBelong(Round.tests, Round.suite)
  <1>1. Len(rest) \in Nat \ {0} /\ DOMAIN rest = 1 .. Len(rest) /\ 1 \in DOMAIN rest
    BY DEF LoopTypeOK
  <1>2. CASE mode = "testcases"
    <2>1. rest \in Seq(Testcases)
      BY <1>2 DEF LoopTypeOK, Selections
    <2>2. PICK n \in 1 .. Len(rest) :
            /\ n = Leading(TestOf)
            /\ \A i \in 1 .. n : TestOf[rest[i]] = TestOf[rest[1]]
      BY <2>1, LeadingProperties
    <2>3. PICK test \in Tests : test = TestOf[rest[1]] /\ SuiteOf[test] \in Testsuites
      BY <1>1, <2>1, RepartitionAssumption
    <2>4. PICK entry : entry = [test |-> test, cases |-> SubSeq(rest, 1, n)]
      OBVIOUS
    <2>5. /\ Round.suite = SuiteOf[test] /\ Round.taken = n
          /\ Round.tests = <<entry>>
      BY <1>2, <2>2, <2>3, <2>4 DEF Round
    <2>6. /\ SubSeq(rest, 1, n) \in Seq(Testcases)
          /\ DOMAIN SubSeq(rest, 1, n) = 1 .. n
          /\ \A i \in 1 .. n : SubSeq(rest, 1, n)[i] = rest[i]
      BY <2>1, Prefix
    <2>7. /\ entry \in [test : Tests, cases : Seq(Testcases)]
          /\ entry.test = test /\ entry.cases = SubSeq(rest, 1, n)
      BY <2>4, <2>6
    <2>8. CasesBelong(entry.cases, entry.test)
      BY <2>2, <2>3, <2>6, <2>7 DEF CasesBelong
    <2>9. TestsBelong(<<entry>>, SuiteOf[test])
      <3> SUFFICES ASSUME NEW i \in DOMAIN <<entry>>
                   PROVE  /\ SuiteOf[<<entry>>[i].test] = SuiteOf[test]
                          /\ CasesBelong(<<entry>>[i].cases, <<entry>>[i].test)
        BY DEF TestsBelong
      <3>1. <<entry>>[i] = entry
        OBVIOUS
      <3> QED
        BY <2>7, <2>8, <3>1
    <2> QED
      BY <2>3, <2>5, <2>7, <2>9
  <1>3. CASE mode = "tests"
    <2>1. rest \in Seq(Tests)
      BY <1>3 DEF LoopTypeOK, Selections
    <2>2. PICK n \in 1 .. Len(rest) :
            /\ n = Leading(SuiteOf)
            /\ \A i \in 1 .. n : SuiteOf[rest[i]] = SuiteOf[rest[1]]
      BY <2>1, LeadingProperties
    <2>3. SuiteOf[rest[1]] \in Testsuites
      BY <1>1, <2>1, RepartitionAssumption
    <2>4. PICK ts : ts = SubSeq(rest, 1, n)
      OBVIOUS
    <2>5. /\ ts \in Seq(Tests) /\ DOMAIN ts = 1 .. n
          /\ \A i \in 1 .. n : ts[i] = rest[i]
      BY <2>1, <2>4, Prefix
    <2>6. \A i \in DOMAIN ts : SuiteOf[ts[i]] = SuiteOf[rest[1]]
      BY <2>2, <2>5
    <2>7. /\ Round.suite = SuiteOf[rest[1]] /\ Round.taken = n
          /\ Round.tests = WithCases(ts)
      BY <1>3, <2>2, <2>4 DEF Round
    <2> QED
      BY <2>3, <2>5, <2>6, <2>7, WithCasesProperties
  <1>4. CASE mode = "testsuites"
    <2>1. rest \in Seq(Testsuites)
      BY <1>4 DEF LoopTypeOK, Selections
    <2>2. PICK suite \in Testsuites : suite = rest[1]
      BY <1>1, <2>1
    <2>3. /\ TestsOf[suite] \in Seq(Tests)
          /\ \A i \in DOMAIN TestsOf[suite] : SuiteOf[TestsOf[suite][i]] = suite
      BY <2>2, UtilsAssumption
    <2>4. Round.suite = suite /\ Round.taken = 1 /\ Round.tests = WithCases(TestsOf[suite])
      BY <1>4, <2>2 DEF Round
    <2> QED
      BY <1>1, <2>2, <2>3, <2>4, WithCasesProperties
  <1> QED
    BY <1>2, <1>3, <1>4 DEF LoopTypeOK

\* The head of what is left, and what is left behind it, belong as it did.
LEMMA HeadBelongs ==
    ASSUME NEW ts \in Seq([test : Tests, cases : Seq(Testcases)]), ts # <<>>,
           NEW suite, TestsBelong(ts, suite)
    PROVE  /\ Head(ts).test \in Tests /\ Head(ts).cases \in Seq(Testcases)
           /\ SuiteOf[Head(ts).test] = suite
           /\ CasesBelong(Head(ts).cases, Head(ts).test)
           /\ Tail(ts) \in Seq([test : Tests, cases : Seq(Testcases)])
           /\ TestsBelong(Tail(ts), suite)
  <1> DEFINE T == [test : Tests, cases : Seq(Testcases)]
  <1>1. /\ Head(ts) = ts[1] /\ 1 \in DOMAIN ts /\ ts[1] \in T
        /\ Tail(ts) \in Seq(T) /\ Len(Tail(ts)) = Len(ts) - 1
        /\ \A i \in 1 .. (Len(ts) - 1) : Tail(ts)[i] = ts[i + 1]
        /\ Len(ts) \in Nat \ {0} /\ DOMAIN ts = 1 .. Len(ts)
    <2>1. ts \in Seq(T)
      OBVIOUS
    <2> HIDE DEF T
    <2> QED
      BY <2>1, HeadTailProperties
  <1>2. SuiteOf[ts[1].test] = suite /\ CasesBelong(ts[1].cases, ts[1].test)
    BY <1>1 DEF TestsBelong
  <1>3. TestsBelong(Tail(ts), suite)
    <2> SUFFICES ASSUME NEW i \in DOMAIN Tail(ts)
                 PROVE  /\ SuiteOf[Tail(ts)[i].test] = suite
                        /\ CasesBelong(Tail(ts)[i].cases, Tail(ts)[i].test)
      BY DEF TestsBelong
    <2>1. i + 1 \in DOMAIN ts /\ Tail(ts)[i] = ts[i + 1]
      BY <1>1
    <2> QED
      BY <2>1 DEF TestsBelong
  <1> QED
    BY <1>1, <1>2, <1>3

LEMMA HeadCaseBelongs ==
    ASSUME NEW cs \in Seq(Testcases), cs # <<>>, NEW test, CasesBelong(cs, test)
    PROVE  /\ Head(cs) \in Testcases /\ TestOf[Head(cs)] = test
           /\ Tail(cs) \in Seq(Testcases) /\ CasesBelong(Tail(cs), test)
  <1>1. /\ Head(cs) = cs[1] /\ 1 \in DOMAIN cs /\ cs[1] \in Testcases
        /\ Tail(cs) \in Seq(Testcases) /\ Len(Tail(cs)) = Len(cs) - 1
        /\ \A i \in 1 .. (Len(cs) - 1) : Tail(cs)[i] = cs[i + 1]
        /\ Len(cs) \in Nat \ {0} /\ DOMAIN cs = 1 .. Len(cs)
    BY HeadTailProperties
  <1> QED
    BY <1>1 DEF CasesBelong

(***************************************************************************)
(* Types                                                                    *)
(***************************************************************************)

\* The elements of the copy are elements of the selection.
LEMMA CopyOfSelection ==
    ASSUME LoopTypeOK, CopyInv
    PROVE  /\ [i \in DOMAIN sorted |-> Item(i)] \in Seq(Selections(mode))
           /\ DOMAIN sorted = 1 .. Len(input) /\ Len(sorted) = Len(input)
           /\ \A i \in DOMAIN sorted : Item(i) \in Selections(mode)
  <1>1. /\ input \in Seq(Selections(mode)) /\ Len(input) \in Nat
        /\ DOMAIN input = 1 .. Len(input)
        /\ \A i \in 1 .. Len(input) : input[i] \in Selections(mode)
    BY DEF LoopTypeOK
  <1>2. sorted \in [1 .. Len(input) -> 1 .. Len(input)] /\ Len(sorted) = Len(input)
    <2>1. CASE mode = "testsuites"
      BY <1>1, <2>1 DEF CopyInv
    <2>2. CASE mode # "testsuites"
      BY <1>1, <2>2 DEF CopyInv, SortInv, Rearranged
    <2> QED
      BY <2>1, <2>2
  <1>3. DOMAIN sorted = 1 .. Len(input)
    BY <1>2
  <1>4. \A i \in 1 .. Len(input) : Item(i) \in Selections(mode)
    BY <1>1, <1>2 DEF Item
  <1>5. [i \in DOMAIN sorted |-> Item(i)] \in [1 .. Len(input) -> Selections(mode)]
    BY <1>3, <1>4
  <1>6. [i \in DOMAIN sorted |-> Item(i)] \in Seq(Selections(mode))
    BY <1>1, <1>5
  <1> QED
    BY <1>2, <1>3, <1>4, <1>6

LEMMA LoopTypeStep ==
    ASSUME UtilsInv, [Next]_utilVars
    PROVE  LoopTypeOK'
  <1> USE DEF UtilsInv, TypeOK
  <1>1. UNCHANGED <<mode, input>> /\ Selections(mode)' = Selections(mode)
    <2>1. UNCHANGED <<mode, input>>
      BY DEF Next, Step, Call, Sort, BeginLoop, OpenTestsuite, OpenTest,
         OpenTestcase, RunTestcase, CloseTestcase, TestDone, CloseTest,
         TestsuiteDone, CloseTestsuite, Return, Returned, utilVars, call
    <2> QED
      BY <2>1 DEF Selections
  <1>2. CASE BeginLoop
    <2>1. rest' = [i \in DOMAIN sorted |-> Item(i)] /\ UNCHANGED <<tests, cases>>
      BY <1>2 DEF BeginLoop
    <2> QED
      BY <1>1, <2>1, CopyOfSelection DEF LoopTypeOK
  <1>3. CASE OpenTestsuite
    <2>1. /\ rest # <<>> /\ UNCHANGED cases
          /\ \/ rest' = SubSeq(rest, Round.taken + 1, Len(rest)) /\ tests' = Round.tests
             \/ UNCHANGED <<rest, tests>>
      BY <1>3 DEF OpenTestsuite
    <2>2. /\ Round.taken \in 1 .. Len(rest)
          /\ Round.tests \in Seq([test : Tests, cases : Seq(Testcases)])
      BY <2>1, RoundProperties
    <2>3. SubSeq(rest, Round.taken + 1, Len(rest)) \in Seq(Selections(mode))
      BY <2>2, Prefix DEF LoopTypeOK
    <2>4. rest' \in Seq(Selections(mode))
      BY <2>1, <2>3 DEF LoopTypeOK
    <2>5. tests' \in Seq([test : Tests, cases : Seq(Testcases)])
      BY <2>1, <2>2 DEF LoopTypeOK
    <2> QED
      BY <1>1, <2>1, <2>4, <2>5 DEF LoopTypeOK
  <1>4. CASE OpenTest
    <2>1. /\ tests # <<>> /\ pc = "test" /\ UNCHANGED rest
          /\ \/ tests' = Tail(tests) /\ cases' = Head(tests).cases
             \/ UNCHANGED <<tests, cases>>
      BY <1>4 DEF OpenTest
    <2>2. /\ Head(tests).cases \in Seq(Testcases)
          /\ Tail(tests) \in Seq([test : Tests, cases : Seq(Testcases)])
      BY <2>1, HeadBelongs DEF LoopTypeOK, BelongInv
    <2>3. tests' \in Seq([test : Tests, cases : Seq(Testcases)])
      BY <2>1, <2>2 DEF LoopTypeOK
    <2>4. cases' \in Seq(Testcases)
      BY <2>1, <2>2 DEF LoopTypeOK
    <2> QED
      BY <1>1, <2>1, <2>3, <2>4 DEF LoopTypeOK
  <1>5. CASE OpenTestcase
    <2>1. /\ cases # <<>> /\ UNCHANGED <<rest, tests>>
          /\ cases' = Tail(cases) \/ UNCHANGED cases
      BY <1>5 DEF OpenTestcase
    <2>2. cases' \in Seq(Testcases)
      BY <2>1, HeadTailProperties DEF LoopTypeOK
    <2> QED
      BY <1>1, <2>1, <2>2 DEF LoopTypeOK
  <1>6. CASE \/ Call \/ Sort \/ RunTestcase \/ CloseTestcase \/ TestDone \/ CloseTest
             \/ TestsuiteDone \/ CloseTestsuite \/ Return \/ UNCHANGED utilVars
    <2>1. UNCHANGED <<rest, tests, cases>>
      BY <1>6 DEF Call, Sort, RunTestcase, CloseTestcase, TestDone, CloseTest,
         TestsuiteDone, CloseTestsuite, Return, utilVars
    <2> QED
      BY <1>1, <2>1 DEF LoopTypeOK
  <1> QED
    BY <1>2, <1>3, <1>4, <1>5, <1>6 DEF Next, Step, Returned

\* Who is called and opened.
LEMMA HistoryTypeStep ==
    ASSUME UtilsInv, [Next]_utilVars
    PROVE  HistoryTypeOK'
  <1> USE DEF UtilsInv, TypeOK
  <1>1. CASE OpenTestsuite
    <2>1. /\ rest # <<>> /\ UNCHANGED called
          /\ UNCHANGED opened \/ opened' = Append(opened, Round.suite)
      BY <1>1 DEF OpenTestsuite
    <2>2. Round.suite \in Testsuites \union Tests
      BY <2>1, RoundProperties
    <2> QED
      BY <2>1, <2>2, AppendProperties DEF HistoryTypeOK
  <1>2. CASE OpenTest
    <2>1. /\ tests # <<>> /\ pc = "test" /\ UNCHANGED called
          /\ UNCHANGED opened \/ opened' = Append(opened, Head(tests).test)
      BY <1>2 DEF OpenTest
    <2>2. Head(tests).test \in Testsuites \union Tests
      BY <2>1, HeadBelongs DEF LoopTypeOK, BelongInv
    <2> QED
      BY <2>1, <2>2, AppendProperties DEF HistoryTypeOK
  <1>3. CASE OpenTestcase
    <2>1. /\ cases # <<>> /\ UNCHANGED opened
          /\ UNCHANGED called \/ called' = Append(called, Head(cases))
      BY <1>3 DEF OpenTestcase
    <2>2. Head(cases) \in Testcases
      BY <2>1, HeadTailProperties DEF LoopTypeOK
    <2> QED
      BY <2>1, <2>2, AppendProperties DEF HistoryTypeOK
  <1>4. CASE \/ Call \/ Sort \/ BeginLoop \/ RunTestcase \/ CloseTestcase
             \/ TestDone \/ CloseTest \/ TestsuiteDone \/ CloseTestsuite
             \/ Return \/ UNCHANGED utilVars
    <2>1. UNCHANGED <<called, opened>>
      BY <1>4 DEF Call, Sort, BeginLoop, RunTestcase, CloseTestcase, TestDone,
         CloseTest, TestsuiteDone, CloseTestsuite, Return, utilVars, history
    <2> QED
      BY <2>1 DEF HistoryTypeOK
  <1> QED
    BY <1>1, <1>2, <1>3, <1>4 DEF Next, Step, Returned

(***************************************************************************)
(* Reporters                                                                *)
(***************************************************************************)

LEMMA ReportersAreSet ==
    /\ \A suite \in Testsuites : suite # NoReporter
    /\ \A test \in Tests : test # NoReporter
    /\ \A testcase \in Testcases : testcase # NoReporter
  BY RepartitionAssumption DEF NoTest, NoReporter

\* One more reporter of a level, or one less.
LEMMA CreatedProperties ==
    ASSUME live \in [Levels -> {0, 1}], NEW level \in Levels, NEW n \in {-1, 0, 1},
           live[level] + n \in {0, 1}
    PROVE  /\ Created(level, n) \in [Levels -> {0, 1}]
           /\ Created(level, n)[level] = live[level] + n
           /\ \A l \in Levels : l # level => Created(level, n)[l] = live[l]
  BY DEF Created

\* Where the control goes, the reporters go too.
LEMMA LiveStep ==
    ASSUME UtilsInv, [Next]_utilVars
    PROVE  ControlTypeOK' /\ LiveInv'
  <1> USE ReportersAreSet DEF UtilsInv, TypeOK, ControlTypeOK, LiveInv, InTest, InSuite
  <1> DEFINE ts == "testsuite"
             t == "test"
             tc == "testcase"
  <1>1. {ts, t, tc} = Levels
    BY DEF Levels
  <1>2. CASE Call \/ Sort \/ BeginLoop \/ TestDone \/ TestsuiteDone
             \/ UNCHANGED utilVars
    <2>1. /\ UNCHANGED <<mode, testsuiteReporter, testReporter, testcaseReporter>>
          /\ UNCHANGED <<live, phase, verdict>>
      BY <1>2 DEF Call, Sort, BeginLoop, TestDone, TestsuiteDone, utilVars, call,
         reporters, report, history
    <2>2. \/ pc' = pc
          \/ pc = "call" /\ pc' \in {"sort", "returned"}
          \/ pc = "sort" /\ pc' = "testsuite"
          \/ pc = "testcase" /\ pc' = "close_test"
          \/ pc = "test" /\ pc' = "close_testsuite"
      BY <1>2 DEF Call, Sort, BeginLoop, TestDone, TestsuiteDone, utilVars
    <2> QED
      BY <2>1, <2>2
  <1>3. CASE OpenTestsuite
    <2>1. /\ pc = "testsuite" /\ rest # <<>>
          /\ UNCHANGED <<mode, testReporter, testcaseReporter, phase, verdict>>
      BY <1>3 DEF OpenTestsuite, call, report
    <2>2. Round.suite \in Testsuites
      BY <2>1, RoundProperties
    <2>3. PICK old \in {0, 1} :
            /\ old = IF testsuiteReporter = NoReporter THEN 0 ELSE 1
            /\ live[ts] = old
      OBVIOUS
    <2>4. \/ /\ pc' = "test" /\ UNCHANGED <<testsuiteReporter, live>>
             /\ testsuiteReporter # NoReporter
          \/ /\ pc' = "test" /\ testsuiteReporter' = Round.suite
             /\ live' = Created(ts, 1 - old)
          \/ /\ pc' = "return" /\ testsuiteReporter' = NoReporter
             /\ live' = Created(ts, -old)
      BY <1>3, <2>2, <2>3 DEF OpenTestsuite, KeepsReporter
    <2>5. /\ Created(ts, 1 - old) \in [Levels -> {0, 1}]
          /\ Created(ts, 1 - old)[ts] = 1
          /\ Created(ts, 1 - old)[t] = live[t]
          /\ Created(ts, 1 - old)[tc] = live[tc]
      <3>1. 1 - old \in {-1, 0, 1} /\ live[ts] + (1 - old) = 1
        BY <2>3
      <3> QED
        BY <1>1, <3>1, CreatedProperties
    <2>6. /\ Created(ts, -old) \in [Levels -> {0, 1}]
          /\ Created(ts, -old)[ts] = 0
          /\ Created(ts, -old)[t] = live[t]
          /\ Created(ts, -old)[tc] = live[tc]
      <3>1. -old \in {-1, 0, 1} /\ live[ts] + (-old) = 0
        <4>1. old \in Int
          BY <2>3
        <4>2. -old = 0 - old
          BY <4>1
        <4>3. 0 - old \in {-1, 0}
          OBVIOUS
        <4>4. live[ts] + (0 - old) = 0
          BY <2>3, <4>1
        <4> QED
          BY <4>2, <4>3, <4>4
      <3> QED
        BY <1>1, <3>1, CreatedProperties
    <2> QED
      BY <2>1, <2>2, <2>4, <2>5, <2>6
  <1>4. CASE OpenTest
    <2>1. /\ pc = "test" /\ tests # <<>>
          /\ UNCHANGED <<mode, testsuiteReporter, testcaseReporter, phase, verdict>>
      BY <1>4 DEF OpenTest, call
    <2>2. Head(tests).test \in Tests
      BY <2>1, HeadBelongs DEF LoopTypeOK, BelongInv
    <2>3. \/ /\ pc' = "testcase" /\ testReporter' = Head(tests).test
             /\ live' = Created(t, 1)
          \/ pc' = "close_testsuite" /\ UNCHANGED <<testReporter, live>>
      BY <1>4 DEF OpenTest
    <2>4. /\ Created(t, 1) \in [Levels -> {0, 1}] /\ Created(t, 1)[t] = 1
          /\ Created(t, 1)[ts] = live[ts] /\ Created(t, 1)[tc] = live[tc]
      <3>1. live[t] + 1 = 1
        BY <2>1
      <3> QED
        BY <1>1, <3>1, CreatedProperties
    <2> QED
      BY <2>1, <2>2, <2>3, <2>4
  <1>5. CASE OpenTestcase
    <2>1. /\ pc = "testcase" /\ cases # <<>>
          /\ UNCHANGED <<mode, testsuiteReporter, testReporter>>
      BY <1>5 DEF OpenTestcase, call
    <2>2. Head(cases) \in Testcases
      BY <2>1, HeadTailProperties DEF LoopTypeOK
    <2>3. \/ /\ pc' = "run" /\ testcaseReporter' = Head(cases)
             /\ live' = Created(tc, 1) /\ phase' = "pending" /\ verdict' = "none"
          \/ /\ pc' = "close_test"
             /\ UNCHANGED <<testcaseReporter, live, phase, verdict>>
      BY <1>5 DEF OpenTestcase
    <2>4. /\ Created(tc, 1) \in [Levels -> {0, 1}] /\ Created(tc, 1)[tc] = 1
          /\ Created(tc, 1)[ts] = live[ts] /\ Created(tc, 1)[t] = live[t]
      <3>1. live[tc] + 1 = 1
        BY <2>1
      <3> QED
        BY <1>1, <3>1, CreatedProperties
    <2> QED
      BY <2>1, <2>2, <2>3, <2>4
  <1>6. CASE RunTestcase
    <2>1. /\ pc = "run" /\ pc' \in {"run", "close_testcase"} /\ UNCHANGED live
          /\ UNCHANGED <<mode, testsuiteReporter, testReporter, testcaseReporter>>
      BY <1>6 DEF RunTestcase, call, reporters
    <2>2. /\ phase' \in {"pending", "running", "completed", "abandoned"}
          /\ verdict' \in {"none", "PASS", "FAIL", "SKIPPED", "ERROR"}
      BY <1>6 DEF RunTestcase, Run!Start, Run!Report, Run!Abandon
    <2> QED
      BY <2>1, <2>2
  <1>7. CASE CloseTestcase
    <2>1. /\ pc = "close_testcase" /\ pc' \in {"close_test", "testcase"}
          /\ testcaseReporter' = NoReporter /\ live' = Created(tc, -1)
          /\ UNCHANGED <<mode, testsuiteReporter, testReporter, phase, verdict>>
      BY <1>7 DEF CloseTestcase, call, report
    <2>2. /\ Created(tc, -1) \in [Levels -> {0, 1}] /\ Created(tc, -1)[tc] = 0
          /\ Created(tc, -1)[ts] = live[ts] /\ Created(tc, -1)[t] = live[t]
      <3>1. live[tc] + (-1) = 0
        BY <2>1
      <3> QED
        BY <1>1, <3>1, CreatedProperties
    <2> QED
      BY <2>1, <2>2
  <1>8. CASE CloseTest
    <2>1. /\ pc = "close_test" /\ pc' \in {"close_testsuite", "test"}
          /\ testReporter' = NoReporter /\ live' = Created(t, -1)
          /\ UNCHANGED <<mode, testsuiteReporter, testcaseReporter, phase, verdict>>
      BY <1>8 DEF CloseTest, DestroyTest, call, report
    <2>2. /\ Created(t, -1) \in [Levels -> {0, 1}] /\ Created(t, -1)[t] = 0
          /\ Created(t, -1)[ts] = live[ts] /\ Created(t, -1)[tc] = live[tc]
      <3>1. live[t] + (-1) = 0
        BY <2>1
      <3> QED
        BY <1>1, <3>1, CreatedProperties
    <2> QED
      BY <2>1, <2>2
  <1>9. CASE CloseTestsuite \/ Return
    <2>1. /\ pc \in {"close_testsuite", "return", "testsuite"}
          /\ UNCHANGED <<mode, testReporter, testcaseReporter, phase, verdict>>
      BY <1>9 DEF CloseTestsuite, Return, call, report
    <2>2. \/ /\ UNCHANGED <<testsuiteReporter, live>>
             /\ \/ pc = "close_testsuite" /\ mode = "testcases"
                   /\ pc' \in {"return", "testsuite"}
                \/ /\ pc \in {"return", "testsuite"} /\ pc' = "returned"
                   /\ testsuiteReporter = NoReporter
          \/ /\ testsuiteReporter # NoReporter
             /\ testsuiteReporter' = NoReporter /\ live' = Created(ts, -1)
             /\ \/ pc = "close_testsuite" /\ pc' \in {"return", "testsuite"}
                \/ pc \in {"return", "testsuite"} /\ pc' = "returned"
      BY <1>9 DEF CloseTestsuite, Return
    <2>3. ASSUME testsuiteReporter # NoReporter
          PROVE  /\ Created(ts, -1) \in [Levels -> {0, 1}] /\ Created(ts, -1)[ts] = 0
                 /\ Created(ts, -1)[t] = live[t] /\ Created(ts, -1)[tc] = live[tc]
      <3>1. live[ts] + (-1) = 0
        BY <2>3
      <3> QED
        BY <1>1, <3>1, CreatedProperties
    <2> QED
      BY <2>1, <2>2, <2>3
  <1> QED
    BY <1>2, <1>3, <1>4, <1>5, <1>6, <1>7, <1>8, <1>9 DEF Next, Step, Returned

\* What is left to run still belongs to the reporters.
LEMMA BelongStep ==
    ASSUME UtilsInv, [Next]_utilVars
    PROVE  BelongInv'
  <1> USE DEF UtilsInv, TypeOK, InTest
  <1>1. CASE OpenTestsuite
    <2>1. rest # <<>> /\ pc' \in {"test", "return"}
      BY <1>1 DEF OpenTestsuite
    <2>2. pc' = "test" => tests' = Round.tests /\ testsuiteReporter' = Round.suite
      BY <1>1 DEF OpenTestsuite, KeepsReporter
    <2>3. TestsBelong(Round.tests, Round.suite)
      BY <2>1, RoundProperties
    <2> QED
      BY <2>1, <2>2, <2>3 DEF BelongInv
  <1>2. CASE OpenTest
    <2>1. /\ pc = "test" /\ tests # <<>> /\ UNCHANGED testsuiteReporter
          /\ pc' \in {"testcase", "close_testsuite"}
          /\ pc' = "testcase" => /\ testReporter' = Head(tests).test
                                 /\ tests' = Tail(tests)
                                 /\ cases' = Head(tests).cases
      BY <1>2 DEF OpenTest
    <2>2. /\ CasesBelong(Head(tests).cases, Head(tests).test)
          /\ TestsBelong(Tail(tests), testsuiteReporter)
      BY <2>1, HeadBelongs DEF LoopTypeOK, BelongInv
    <2> QED
      BY <2>1, <2>2 DEF BelongInv
  <1>3. CASE OpenTestcase
    <2>1. /\ pc = "testcase" /\ cases # <<>> /\ pc' \in {"run", "close_test"}
          /\ UNCHANGED <<tests, testsuiteReporter, testReporter>>
          /\ pc' = "run" => cases' = Tail(cases)
      BY <1>3 DEF OpenTestcase
    <2>2. CasesBelong(Tail(cases), testReporter)
      BY <2>1, HeadCaseBelongs DEF LoopTypeOK, BelongInv
    <2> QED
      BY <2>1, <2>2 DEF BelongInv
  <1>4. CASE \/ RunTestcase \/ CloseTestcase \/ TestDone \/ CloseTest
             \/ UNCHANGED utilVars
    <2>1. /\ UNCHANGED <<tests, cases, testsuiteReporter>>
          /\ pc' \in {"testcase", "run", "close_testcase"} =>
               /\ UNCHANGED testReporter
               /\ pc \in {"testcase", "run", "close_testcase"}
          /\ pc' \in InTest \union {"test"} => pc \in InTest \union {"test"}
      BY <1>4 DEF RunTestcase, CloseTestcase, TestDone, CloseTest, utilVars, reporters
    <2> QED
      BY <2>1 DEF BelongInv
  <1>5. CASE Call \/ Sort \/ BeginLoop \/ TestsuiteDone \/ CloseTestsuite \/ Return
    <2>1. pc' \notin InTest \union {"test"}
      BY <1>5 DEF Call, Sort, BeginLoop, TestsuiteDone, CloseTestsuite, Return
    <2> QED
      BY <2>1 DEF BelongInv
  <1> QED
    BY <1>1, <1>2, <1>3, <1>4, <1>5 DEF Next, Step, Returned

(***************************************************************************)
(* Numbers                                                                  *)
(***************************************************************************)

\* A test and a test case are never refused by the reporter of their parent.
LEMMA NeverRefused ==
    ASSUME UtilsInv
    PROVE  /\ pc = "test" /\ tests # <<>> =>
                SuiteOf[Head(tests).test] = testsuiteReporter
           /\ pc = "testcase" /\ cases # <<>> => TestOf[Head(cases)] = testReporter
  <1>1. ASSUME pc = "test", tests # <<>>
        PROVE  SuiteOf[Head(tests).test] = testsuiteReporter
    BY <1>1, HeadBelongs DEF UtilsInv, TypeOK, LoopTypeOK, BelongInv, InTest
  <1>2. ASSUME pc = "testcase", cases # <<>>
        PROVE  TestOf[Head(cases)] = testReporter
    BY <1>2, HeadCaseBelongs DEF UtilsInv, TypeOK, LoopTypeOK, BelongInv
  <1> QED
    BY <1>1, <1>2

\* What the callback returns agrees with what was reported.
LEMMA RunReturns ==
    ASSUME UtilsInv, RunTestcase
    PROVE  /\ pc = "run" /\ rc = 0 /\ verdict = "none"
           /\ UNCHANGED <<inTest, inSuite, result>>
           /\ \/ /\ pc' = "run" /\ phase' = "running" /\ rc' = 0
                 /\ verdict' = "none" /\ UNCHANGED <<failed, errors>>
                 /\ ~faulted'
              \/ /\ pc' = "close_testcase" /\ rc' = -1 /\ faulted'
                 /\ UNCHANGED <<failed, errors>>
              \/ /\ pc' = "close_testcase" /\ ~faulted'
                 /\ \/ rc' = 0 /\ UNCHANGED <<failed, errors>>
                    \/ rc' = 1 /\ failed' = failed + 1 /\ UNCHANGED errors
                    \/ rc' \in {0, 1} /\ errors' = errors + 1 /\ UNCHANGED failed
  <1> USE DEF UtilsInv, FaultInv
  <1>1. /\ pc = "run" /\ rc = 0 /\ verdict = "none" /\ ~faulted
        /\ UNCHANGED <<inTest, inSuite, result>>
    BY DEF RunTestcase, results
  <1>2. CASE Run!Start
    <2>1. phase' = "running" /\ verdict' = "none" /\ rc' = 0 /\ ~(rc' < 0)
      BY <1>1, <1>2 DEF Run!Start
    <2>2. pc' = "run" /\ UNCHANGED <<failed, errors>>
      BY <2>1 DEF RunTestcase
    <2>3. ~faulted'
      BY <1>1, <2>1, Zenon DEF RunTestcase
    <2> QED
      BY <1>1, <2>1, <2>2, <2>3
  <1>3. CASE Run!Abandon
    <2>1. phase' = "abandoned" /\ verdict' = "none" /\ rc' = -1 /\ rc' < 0
      BY <1>1, <1>3 DEF Run!Abandon
    <2>2. pc' = "close_testcase" /\ UNCHANGED <<failed, errors>>
      BY <2>1 DEF RunTestcase
    <2>3. faulted'
      BY <2>1, Zenon DEF RunTestcase
    <2> QED
      BY <1>1, <2>1, <2>2, <2>3
  <1>4. CASE Run!Report
    <2>1. /\ verdict' \in {"PASS", "FAIL", "SKIPPED", "ERROR"}
          /\ verdict' \in {"PASS", "SKIPPED"} => rc' = 0
          /\ verdict' = "FAIL" => rc' = 1
          /\ rc' \in {0, 1} /\ phase' = "completed"
      BY <1>4 DEF Run!Report, Run!Returns
    <2>2. /\ failed' = IF verdict' = "FAIL" THEN failed + 1 ELSE failed
          /\ errors' = IF verdict' = "ERROR" THEN errors + 1 ELSE errors
          /\ faulted' = (faulted \/ rc' < 0)
          /\ pc' = "close_testcase"
      BY <2>1 DEF RunTestcase
    <2>3. ~(rc' < 0)
      BY <2>1
    <2>4. ~faulted'
      BY <1>1, <2>2, <2>3, Zenon
    <2> QED
      BY <1>1, <2>1, <2>2, <2>4
  <1> QED
    BY <1>2, <1>3, <1>4 DEF RunTestcase

\* The numbers stay numbers.
LEMMA CountsTypeStep ==
    ASSUME UtilsInv, [Next]_utilVars
    PROVE  CountsTypeOK'
  <1> USE DEF UtilsInv, TypeOK, CountsTypeOK
  <1>1. CASE RunTestcase
    BY <1>1, RunReturns
  <1>2. CASE \/ Call \/ Sort \/ BeginLoop \/ OpenTestsuite \/ OpenTest \/ OpenTestcase
             \/ TestDone \/ TestsuiteDone \/ Return \/ UNCHANGED utilVars
    BY <1>2 DEF Call, Sort, BeginLoop, OpenTestsuite, OpenTest, OpenTestcase,
       TestDone, TestsuiteDone, Return, utilVars, results, report, history
  <1>3. CASE CloseTestcase
    BY <1>3 DEF CloseTestcase, AddUp, report
  <1>4. CASE CloseTest \/ CloseTestsuite
    <2>1. /\ UNCHANGED <<inTest, rc, failed, errors>>
          /\ \/ UNCHANGED inSuite
             \/ ~(rc < 0) /\ inSuite' = inSuite + rc
          /\ \/ result' = -1 \/ UNCHANGED result
             \/ pc = "close_testsuite" /\ ~(rc < 0) /\ result' = result + rc
      BY <1>4 DEF CloseTest, CloseTestsuite, AddUp, Error, report
    <2>2. pc = "close_testsuite" => result \in Nat
      BY DEF FaultInv
    <2> QED
      BY <2>1, <2>2
  <1> QED
    BY <1>1, <1>2, <1>3, <1>4 DEF Next, Step, Returned

\* The history of errors.
LEMMA FaultedStep ==
    ASSUME UtilsInv, [Next]_utilVars
    PROVE  faulted' \in BOOLEAN
  <1>1. faulted \in BOOLEAN
    BY DEF UtilsInv, TypeOK
  <1>2. CASE RunTestcase
    BY <1>2, Zenon DEF RunTestcase
  <1>3. CASE OpenTest
    BY <1>1, <1>3, Zenon DEF OpenTest, Faulted
  <1>4. CASE OpenTestcase
    BY <1>1, <1>4, Zenon DEF OpenTestcase, Faulted
  <1>5. CASE \/ Call \/ Sort \/ BeginLoop \/ OpenTestsuite \/ CloseTestcase
             \/ TestDone \/ CloseTest \/ TestsuiteDone \/ CloseTestsuite
             \/ Return \/ UNCHANGED utilVars
    <2>1. UNCHANGED faulted \/ faulted' = TRUE
      BY <1>5 DEF Call, Sort, BeginLoop, OpenTestsuite, CloseTestcase, TestDone,
         CloseTest, TestsuiteDone, CloseTestsuite, Return, utilVars, history
    <2> QED
      BY <1>1, <2>1, Zenon
  <1> QED
    BY <1>2, <1>3, <1>4, <1>5 DEF Next, Step, Returned

\* Every error is passed on, and there is none but those.
LEMMA FaultStep ==
    ASSUME UtilsInv, [Next]_utilVars
    PROVE  FaultInv'
  <1> USE DEF UtilsInv, TypeOK
  <1>1. rc \in Nat \union {-1} /\ result \in Nat \union {-1}
        /\ inTest \in Nat /\ inSuite \in Nat
    BY DEF CountsTypeOK
  <1>2. CASE Call
    <2>1. /\ pc = "call" /\ UNCHANGED <<rc, phase, verdict>>
          /\ \/ pc' = "sort" /\ UNCHANGED <<result, faulted>>
             \/ pc' = "returned" /\ result' = -1 /\ faulted'
      BY <1>2 DEF Call, report
    <2> QED
      BY <2>1 DEF FaultInv
  <1>3. CASE Sort \/ BeginLoop \/ UNCHANGED utilVars
    <2>1. /\ UNCHANGED <<rc, phase, verdict, result, faulted>>
          /\ pc' = pc \/ (pc = "sort" /\ pc' = "testsuite")
      BY <1>3 DEF Sort, BeginLoop, utilVars, call, reporters,
         report, results, history
    <2> QED
      BY <2>1 DEF FaultInv
  <1>4. CASE OpenTestsuite
    <2>1. /\ pc = "testsuite"
          /\ \/ pc' = "test" /\ UNCHANGED <<result, faulted>>
             \/ pc' = "return" /\ result' = -1 /\ faulted'
      BY <1>4 DEF OpenTestsuite
    <2> QED
      BY <2>1 DEF FaultInv
  <1>5. CASE OpenTest
    <2>1. /\ pc = "test" /\ UNCHANGED result
          /\ SuiteOf[Head(tests).test] = testsuiteReporter
      BY <1>5, NeverRefused DEF OpenTest
    <2>2. \/ pc' = "testcase" /\ UNCHANGED faulted
          \/ pc' = "close_testsuite" /\ rc' = -1 /\ faulted'
      BY <1>5, <2>1, Zenon DEF OpenTest, Faulted
    <2> QED
      BY <2>1, <2>2 DEF FaultInv
  <1>6. CASE OpenTestcase
    <2>1. /\ pc = "testcase" /\ UNCHANGED result
          /\ TestOf[Head(cases)] = testReporter
      BY <1>6, NeverRefused DEF OpenTestcase, results
    <2>2. \/ /\ pc' = "run" /\ UNCHANGED faulted
             /\ phase' = "pending" /\ verdict' = "none" /\ rc' = 0
          \/ pc' = "close_test" /\ rc' = -1 /\ faulted'
      BY <1>6, <2>1, Zenon DEF OpenTestcase, Faulted
    <2> QED
      BY <2>1, <2>2 DEF FaultInv
  <1>7. CASE RunTestcase
    <2>1. result \in Nat
      BY <1>7, RunReturns DEF FaultInv
    <2> QED
      BY <1>7, <2>1, RunReturns DEF FaultInv
  <1>8. CASE CloseTestcase \/ CloseTest
    <2>1. /\ pc \in {"close_testcase", "close_test"}
          /\ UNCHANGED <<rc, result, faulted>>
          /\ rc < 0 => pc' \in {"close_test", "close_testsuite"}
          /\ ~(rc < 0) => pc' \in {"testcase", "test"}
      BY <1>8 DEF CloseTestcase, CloseTest, Error, report
    <2>2. rc < 0 <=> rc = -1
      BY <1>1
    <2> QED
      BY <2>1, <2>2 DEF FaultInv
  <1>9. CASE CloseTestsuite
    <2>1. /\ pc = "close_testsuite" /\ UNCHANGED <<rc, faulted>>
          /\ rc < 0 => pc' = "return" /\ result' = -1
          /\ ~(rc < 0) => pc' = "testsuite" /\ result' = result + rc
      BY <1>9 DEF CloseTestsuite, Error, AddUp, report
    <2>2. /\ rc < 0 <=> rc = -1
          /\ ~(rc < 0) => rc \in Nat
          /\ result \in Nat
      BY <1>1, <2>1 DEF FaultInv
    <2> QED
      BY <2>1, <2>2 DEF FaultInv
  <1>10. CASE TestDone \/ TestsuiteDone
    <2>1. /\ pc \in {"testcase", "test"} /\ pc' \in {"close_test", "close_testsuite"}
          /\ rc' \in {inTest, inSuite} /\ UNCHANGED <<result, faulted>>
      BY <1>10 DEF TestDone, TestsuiteDone, results, history
    <2>2. rc' # -1
      BY <1>1, <2>1
    <2> QED
      BY <2>1, <2>2 DEF FaultInv
  <1>11. CASE Return
    <2>1. /\ pc \in {"return", "testsuite"} /\ pc' = "returned"
          /\ UNCHANGED <<result, faulted>>
      BY <1>11 DEF Return, results
    <2> QED
      BY <1>1, <2>1 DEF FaultInv
  <1> QED
    BY <1>2, <1>3, <1>4, <1>5, <1>6, <1>7, <1>8, <1>9, <1>10, <1>11
    DEF Next, Step, Returned

\* Every failure is in one of the numbers.
LEMMA CountStep ==
    ASSUME UtilsInv, [Next]_utilVars
    PROVE  CountInv'
  <1> USE DEF UtilsInv, TypeOK
  <1>1. /\ rc \in Nat \union {-1} /\ result \in Nat \union {-1}
        /\ inTest \in Nat /\ inSuite \in Nat /\ failed \in Nat /\ errors \in Nat
    BY DEF CountsTypeOK
  <1>2. pc \notin {"return", "returned"} => result \in Nat
    BY DEF FaultInv
  <1>3. CASE Call \/ Sort \/ BeginLoop \/ UNCHANGED utilVars
    <2>1. /\ UNCHANGED <<rc, inTest, inSuite, failed, errors>>
          /\ \/ /\ UNCHANGED result
                /\ \/ pc' = pc
                   \/ pc \in {"call", "sort"} /\ pc' \in {"sort", "testsuite"}
             \/ result' = -1 /\ pc' = "returned"
      BY <1>3 DEF Call, Sort, BeginLoop, utilVars, call, reporters,
         report, results, history
    <2> QED
      BY <2>1 DEF CountInv, Counted
  <1>4. CASE OpenTestsuite
    <2>1. /\ pc = "testsuite" /\ UNCHANGED <<failed, errors>>
          /\ \/ pc' = "test" /\ inSuite' = 0 /\ UNCHANGED result
             \/ pc' = "return"
      BY <1>4 DEF OpenTestsuite
    <2> QED
      BY <1>1, <1>2, <2>1 DEF CountInv, Counted
  <1>5. CASE OpenTest
    <2>1. /\ pc = "test" /\ UNCHANGED <<result, inSuite, failed, errors>>
          /\ \/ pc' = "testcase" /\ inTest' = 0
             \/ pc' = "close_testsuite" /\ rc' = -1
      BY <1>5 DEF OpenTest
    <2> QED
      BY <1>1, <1>2, <2>1 DEF CountInv, Counted
  <1>6. CASE OpenTestcase
    <2>1. /\ pc = "testcase" /\ UNCHANGED <<result, inSuite, inTest, failed, errors>>
          /\ \/ pc' = "run"
             \/ pc' = "close_test" /\ rc' = -1
      BY <1>6 DEF OpenTestcase, results
    <2> QED
      BY <1>1, <1>2, <2>1 DEF CountInv, Counted
  <1>7. CASE RunTestcase
    <2>1. pc = "run" /\ Counted(result + inSuite + inTest)
      BY <1>7, RunReturns DEF CountInv
    <2>2. result \in Nat
      BY <1>2, <2>1
    <2> QED
      BY <1>1, <1>7, <2>1, <2>2, RunReturns DEF CountInv, Counted
  <1>8. CASE CloseTestcase
    <2>1. /\ pc = "close_testcase" /\ UNCHANGED <<result, inSuite, rc, failed, errors>>
          /\ \/ rc < 0 /\ pc' = "close_test"
             \/ /\ ~(rc < 0) /\ pc' = "testcase"
                /\ inTest' = inTest + (IF rc > 0 THEN 1 ELSE 0)
      BY <1>8 DEF CloseTestcase, AddUp, Error, report
    <2>2. rc \in {-1, 0, 1}
      BY <2>1 DEF FaultInv
    <2> QED
      BY <1>1, <1>2, <2>1, <2>2 DEF CountInv, Counted
  <1>9. CASE CloseTest
    <2>1. /\ pc = "close_test" /\ UNCHANGED <<result, rc, failed, errors>>
          /\ \/ rc < 0 /\ pc' = "close_testsuite"
             \/ ~(rc < 0) /\ pc' = "test" /\ inSuite' = inSuite + rc
      BY <1>9 DEF CloseTest, AddUp, Error, report
    <2> QED
      BY <1>1, <1>2, <2>1 DEF CountInv, Counted
  <1>10. CASE CloseTestsuite
    <2>1. /\ pc = "close_testsuite" /\ UNCHANGED <<rc, failed, errors>>
          /\ \/ rc < 0 /\ pc' = "return"
             \/ ~(rc < 0) /\ pc' = "testsuite" /\ result' = result + rc
      BY <1>10 DEF CloseTestsuite, AddUp, Error, report
    <2> QED
      BY <1>1, <1>2, <2>1 DEF CountInv, Counted
  <1>11. CASE TestDone
    <2>1. /\ pc = "testcase" /\ pc' = "close_test" /\ rc' = inTest
          /\ UNCHANGED <<result, inSuite, inTest, failed, errors>>
      BY <1>11 DEF TestDone, results, history
    <2> QED
      BY <1>1, <1>2, <2>1 DEF CountInv, Counted
  <1>12. CASE TestsuiteDone
    <2>1. /\ pc = "test" /\ pc' = "close_testsuite" /\ rc' = inSuite
          /\ UNCHANGED <<result, inSuite, inTest, failed, errors>>
      BY <1>12 DEF TestsuiteDone, results, history
    <2> QED
      BY <1>1, <1>2, <2>1 DEF CountInv, Counted
  <1>13. CASE Return
    <2>1. /\ pc \in {"return", "testsuite"} /\ pc' = "returned"
          /\ UNCHANGED <<result, failed, errors>>
      BY <1>13 DEF Return, results
    <2> QED
      BY <2>1 DEF CountInv, Counted, FaultInv
  <1> QED
    BY <1>3, <1>4, <1>5, <1>6, <1>7, <1>8, <1>9, <1>10, <1>11, <1>12, <1>13
    DEF Next, Step, Returned

(***************************************************************************)
(* The copy, and the theorems                                               *)
(***************************************************************************)

\* The sorts keep their invariant, and nothing else touches the copy.
LEMMA CopyStep ==
    ASSUME UtilsInv, [Next]_utilVars
    PROVE  CopyInv'
  <1> USE DEF UtilsInv
  <1>1. CASE Sort
    <2>1. mode # "testsuites" /\ Sorting
      BY <1>1 DEF Sort, NeedsSort, Sorting
    <2>2. [SortNext]_<<mode, input, sortVars>>
      BY <2>1 DEF SortNext
    <2>3. SortInv'
      BY <2>1, <2>2, SortInvStep DEF CopyInv
    <2>4. mode' # "testsuites"
      BY <2>1 DEF Sorting
    <2> QED
      BY <2>3, <2>4 DEF CopyInv
  <1>2. CASE ~Sort
    <2>1. UNCHANGED <<mode, input, sortVars>>
      BY <1>2 DEF Next, Step, Call, BeginLoop, OpenTestsuite, OpenTest,
         OpenTestcase, RunTestcase, CloseTestcase, TestDone, CloseTest,
         TestsuiteDone, CloseTestsuite, Return, Returned, utilVars, call
    <2>2. [SortNext]_<<mode, input, sortVars>>
      BY <2>1
    <2>3. UNCHANGED <<mode, input, sorted, loop, write>>
      BY <2>1 DEF sortVars
    <2>4. mode # "testsuites" => SortInv'
      BY <2>2, SortInvStep DEF CopyInv
    <2> QED
      BY <2>3, <2>4 DEF CopyInv
  <1> QED
    BY <1>1, <1>2

\* The functions are called with any selection.
LEMMA UtilsInitInv == Init => UtilsInv
  <1> SUFFICES ASSUME Init PROVE UtilsInv
    OBVIOUS
  <1>1. mode \in {"testcases", "tests", "testsuites"} /\ SortInit
    BY DEF Init
  <1>2. PICK n \in 0 .. MaxInput : input \in [1 .. n -> Selections(mode)]
    BY DEF Init, Inputs
  <1>3. input \in Seq(Selections(mode))
    <2>1. n \in Nat
      BY RepartitionAssumption
    <2> QED
      BY <1>2, <2>1
  <1>4. LoopTypeOK
    BY <1>1, <1>3 DEF Init, LoopTypeOK
  <1>5. /\ pc = "call" /\ testsuiteReporter = NoReporter
        /\ testReporter = NoReporter /\ testcaseReporter = NoReporter
        /\ inTest = 0 /\ inSuite = 0 /\ result = 0
        /\ phase = "pending" /\ verdict = "none" /\ rc = 0
        /\ live = [l \in Levels |-> 0] /\ called = <<>> /\ opened = <<>>
        /\ failed = 0 /\ errors = 0
    BY DEF Init, Run!RunInit
  <1>6. ~faulted /\ faulted \in BOOLEAN
    BY Zenon DEF Init
  <1>7. live \in [Levels -> {0, 1}] /\ \A l \in Levels : live[l] = 0
    BY <1>5
  <1>8. ControlTypeOK
    BY <1>5, <1>7 DEF ControlTypeOK
  <1>9. CountsTypeOK /\ HistoryTypeOK
    BY <1>5 DEF CountsTypeOK, HistoryTypeOK
  <1>10. LiveInv
    BY <1>5, <1>7 DEF LiveInv, InTest, InSuite, Levels
  <1>11. BelongInv /\ FaultInv /\ CountInv
    BY <1>5, <1>6 DEF BelongInv, FaultInv, CountInv, Counted, InTest
  <1>12. CopyInv
    <2>1. CASE mode = "testsuites"
      BY <1>1, <2>1 DEF CopyInv, SortInit
    <2>2. CASE mode # "testsuites"
      <3>1. Called
        BY <1>1, <2>2 DEF Called, Init, Selections
      <3> QED
        BY <2>2, <3>1, CalledInv DEF CopyInv
    <2> QED
      BY <2>1, <2>2
  <1> QED
    BY <1>4, <1>6, <1>8, <1>9, <1>10, <1>11, <1>12 DEF UtilsInv, TypeOK

\* The invariant the theorems below rest on: the control says which reporters
\* live and in which numbers the failures are, and what is left to run belongs
\* to the reporters that live.
THEOREM UtilsInvariance == Spec => []UtilsInv
  <1>1. UtilsInv /\ [Next]_utilVars => UtilsInv'
    BY LoopTypeStep, HistoryTypeStep, LiveStep, BelongStep, CountsTypeStep,
       FaultedStep, FaultStep, CountStep, CopyStep DEF UtilsInv, TypeOK
  <1> QED
    BY <1>1, UtilsInitInv, PTL DEF Spec

\* The types of the three functions' variables; a level has at most one
\* reporter at a time.
THEOREM UtilsTypeCorrect == Spec => []TypeOK
  <1>1. UtilsInv => TypeOK
    BY DEF UtilsInv
  <1> QED
    BY <1>1, UtilsInvariance, PTL

\* The functions count every failure, through three levels of results, and
\* return -1 exactly when an allocation or a call of run_testcase failed.
THEOREM ResultCorrect == Spec => []ResultFaithful
  <1>1. UtilsInv => ResultFaithful
    <2> SUFFICES ASSUME UtilsInv, pc = "returned"
                 PROVE  /\ result >= 0 =>
                             failed <= result /\ result <= failed + errors
                        /\ result < 0 <=> faulted
      BY DEF ResultFaithful
    <2>1. result \in Nat \union {-1}
      BY DEF UtilsInv, TypeOK, CountsTypeOK
    <2>2. result >= 0 => failed <= result /\ result <= failed + errors
      BY <2>1 DEF UtilsInv, CountInv, Counted
    <2>3. result < 0 <=> result = -1
      BY <2>1
    <2> QED
      BY <2>2, <2>3 DEF UtilsInv, FaultInv
  <1> QED
    BY <1>1, UtilsInvariance, PTL

\* The copy the functions take the elements from is a permutation of the
\* selection, also while it is sorted.
THEOREM CopyIsPermutation == Spec => []Permutation
  <1>1. UtilsInv => Permutation
    <2>1. UtilsInv /\ mode = "testsuites" => Permutation
      BY DEF UtilsInv, CopyInv, Permutation
    <2>2. UtilsInv /\ mode # "testsuites" => Permutation
      BY SortInvPermutation DEF UtilsInv, CopyInv
    <2> QED
      BY <2>1, <2>2
  <1> QED
    BY <1>1, UtilsInvariance, PTL

\* Once it is sorted, it is in the promised order.
THEOREM CopyIsPartitioned == Spec => []Partitioned
  <1>1. UtilsInv => Partitioned
    <2>1. UtilsInv /\ mode # "testsuites" => Partitioned
      BY SortInvPartitioned DEF UtilsInv, CopyInv
    <2>2. UtilsInv /\ mode = "testsuites" => Partitioned
      <3> SUFFICES ASSUME UtilsInv, mode = "testsuites", SortDone,
                          NEW i \in DOMAIN sorted
                   PROVE  FALSE
        BY DEF Partitioned
      <3>1. Len(sorted) \in Nat /\ DOMAIN sorted = 1 .. Len(sorted) /\ write = 1
        <4>1. Len(input) \in Nat
          BY DEF UtilsInv, TypeOK, LoopTypeOK
        <4> QED
          BY <4>1, CopyOfSelection DEF UtilsInv, TypeOK, CopyInv
      <3> QED
        BY <3>1 DEF SortDone, Size
    <2> QED
      BY <2>1, <2>2
  <1> QED
    BY <1>1, UtilsInvariance, PTL

-------------------------------------------------------------------------------
(***************************************************************************)
(* Which elements of the copy are run, under which reports.  The suites a   *)
(* selection of suites names are run as they are, so this is about the      *)
(* other two functions.                                                     *)
(***************************************************************************)

\* The elements of the copy taken so far, and the keys of an element.
Taken == Len(input) - Len(rest)
GroupKey(i) == GroupAt[sorted[i]]
SuiteKey(i) == SuiteAt[sorted[i]]

\* What is left is the end of the copy, and starts with another group.
RestInv ==
    /\ pc \in {"call", "sort"} =>
         rest = <<>> /\ called = <<>> /\ opened = <<>> /\ tests = <<>>
    /\ pc \in {"testsuite", "return"} \union InSuite => SortDone
    /\ Len(rest) <= Len(input)
    /\ \A i \in 1 .. Len(rest) : rest[i] = Item(Taken + i)
    /\ pc \in {"testsuite", "return"} \union InSuite =>
         (Taken > 0 /\ Taken < Len(input) => GroupKey(Taken) # GroupKey(Taken + 1))

\* Reports were opened for suites, and by runner_run_testcases for tests, of
\* elements that were taken; that function keeps the report of the suite of
\* the last one, and has one test at a time to open the next for.
OpenedInv ==
    /\ \A j \in DOMAIN opened :
         opened[j] \in Testsuites =>
           \E i \in 1 .. Taken : SuiteKey(i) = opened[j]
    /\ OpenedOnce
    /\ mode = "testcases" =>
         /\ \A j \in DOMAIN opened :
              opened[j] \in Tests =>
                \E i \in 1 .. Taken : GroupKey(i) = opened[j]
         /\ Len(tests) <= 1 /\ (pc \in InTest => tests = <<>>)
         /\ pc = "test" /\ tests # <<>> =>
              /\ Taken > 0 /\ GroupKey(Taken) = Head(tests).test
              /\ \A j \in DOMAIN opened : opened[j] # Head(tests).test
         /\ testsuiteReporter # NoReporter =>
              Taken > 0 /\ SuiteKey(Taken) = testsuiteReporter
         /\ pc = "testsuite" /\ testsuiteReporter = NoReporter => Taken = 0

\* What runner_run_testcases has taken and not yet run.
Pending ==
    IF pc = "test" /\ tests # <<>> THEN Head(tests).cases
    ELSE IF pc \in {"testcase", "run", "close_testcase"} THEN cases ELSE <<>>

\* It runs the elements of the copy one after the other.
RunInv ==
    mode = "testcases" =>
        /\ Len(called) <= Len(input)
        /\ \A i \in 1 .. Len(called) : called[i] = Item(i)
        /\ called # <<>> => SortDone
        /\ pc \in {"testsuite"} \union InSuite /\ ~faulted =>
             /\ Len(called) + Len(Pending) = Taken
             /\ \A i \in 1 .. Len(Pending) : Pending[i] = Item(Len(called) + i)
        /\ pc = "returned" /\ result # -1 => Len(called) = Len(input)

RoundInv == mode # "testsuites" => RestInv /\ OpenedInv /\ RunInv

\* The keys of the elements of the copy.
LEMMA KeysOfItems ==
    ASSUME LoopTypeOK, CopyInv, mode # "testsuites", NEW i \in 1 .. Len(input)
    PROVE  /\ sorted[i] \in DOMAIN input
           /\ mode = "testcases" =>
                /\ Item(i) \in Testcases /\ GroupKey(i) = TestOf[Item(i)]
                /\ SuiteKey(i) = SuiteOf[GroupKey(i)] /\ GroupKey(i) \in Tests
           /\ mode = "tests" =>
                /\ Item(i) \in Tests /\ GroupKey(i) = SuiteOf[Item(i)]
                /\ SuiteKey(i) = GroupKey(i)
           /\ SuiteKey(i) \in Testsuites
  <1>1. sorted[i] \in DOMAIN input
    <2>1. SortTypeOK /\ Rearranged(Len(input), sorted)
      BY DEF CopyInv, SortInv
    <2> QED
      BY <2>1, Lengths
  <1>2. input[sorted[i]] \in Selections(mode)
    BY <1>1 DEF LoopTypeOK
  <1>3. mode \in {"testcases", "tests"}
    BY DEF LoopTypeOK
  <1>4. CASE mode = "testcases"
    <2>1. input[sorted[i]] \in Testcases
      BY <1>2, <1>4 DEF Selections
    <2> QED
      BY <1>1, <1>4, <2>1, RepartitionAssumption
      DEF Item, GroupKey, SuiteKey, GroupAt, SuiteAt
  <1>5. CASE mode = "tests"
    <2>1. input[sorted[i]] \in Tests
      BY <1>2, <1>5 DEF Selections
    <2> QED
      BY <1>1, <1>5, <2>1, RepartitionAssumption
      DEF Item, GroupKey, SuiteKey, GroupAt, SuiteAt
  <1> QED
    BY <1>1, <1>3, <1>4, <1>5

\* Two keys do not come before each other.
LEMMA NotBoth ==
    ASSUME NEW n \in Nat, NEW key, DOMAIN key = 1 .. n, NEW s, NEW t
    PROVE  ~(Before(key, s, t) /\ Before(key, t, s))
  BY DEF Before

\* The elements of a group, and those of a suite, are adjacent: where a group
\* ends it does not go on later.
LEMMA Contiguous ==
    ASSUME LoopTypeOK, CopyInv, mode # "testsuites", SortDone,
           NEW k \in 1 .. Len(input), k + 1 <= Len(input), NEW i \in 1 .. k
    PROVE  /\ GroupKey(k) # GroupKey(k + 1) => GroupKey(i) # GroupKey(k + 1)
           /\ SuiteKey(k) # SuiteKey(k + 1) => SuiteKey(i) # SuiteKey(k + 1)
  <1>1. /\ Len(input) \in Nat /\ k \in Nat /\ i \in Nat /\ i <= k
        /\ k + 1 \in 1 .. Len(input) /\ i \in 1 .. Len(input)
    BY DEF LoopTypeOK
  <1>2. /\ DOMAIN sorted = 1 .. Len(input)
        /\ DOMAIN SuiteAt = 1 .. Len(input) /\ DOMAIN GroupAt = 1 .. Len(input)
    <2>1. DOMAIN input = 1 .. Len(input)
      BY DEF LoopTypeOK
    <2> QED
      BY <2>1, CopyOfSelection DEF SuiteAt, GroupAt
  <1>3. Partitioned
    BY SortInvPartitioned DEF CopyInv
  <1>4. /\ Precedes(SuiteAt, GroupAt, sorted[k], sorted[k + 1])
        /\ i < k => Precedes(SuiteAt, GroupAt, sorted[i], sorted[k])
    BY <1>1, <1>2, <1>3 DEF Partitioned
  <1>5. CASE i = k
    BY <1>5
  <1>6. CASE i < k
    <2>1. ASSUME SuiteKey(k) # SuiteKey(k + 1), SuiteKey(i) = SuiteKey(k + 1)
          PROVE  FALSE
      <3>1. /\ Before(SuiteAt, SuiteKey(k), SuiteKey(k + 1))
            /\ Before(SuiteAt, SuiteKey(k + 1), SuiteKey(k))
        BY <1>4, <1>6, <2>1 DEF Precedes, SuiteKey
      <3> QED
        BY <1>1, <1>2, <3>1, NotBoth
    <2>2. ASSUME GroupKey(k) # GroupKey(k + 1), GroupKey(i) = GroupKey(k + 1)
          PROVE  FALSE
      <3>1. SuiteKey(i) = SuiteKey(k + 1)
        BY <1>1, <2>2, KeysOfItems DEF LoopTypeOK
      <3>2. SuiteKey(k) = SuiteKey(k + 1)
        BY <2>1, <3>1
      <3>3. /\ Before(GroupAt, GroupKey(k), GroupKey(k + 1))
            /\ Before(GroupAt, GroupKey(k + 1), GroupKey(k))
        BY <1>4, <1>6, <2>2, <3>1, <3>2 DEF Precedes, SuiteKey, GroupKey
      <3> QED
        BY <1>1, <1>2, <3>3, NotBoth
    <2> QED
      BY <2>1, <2>2
  <1> QED
    BY <1>1, <1>5, <1>6

\* What a round takes, in terms of the copy: all of one group.
LEMMA RoundKeys ==
    ASSUME LoopTypeOK, CopyInv, mode # "testsuites", RestInv, rest # <<>>
    PROVE  /\ Taken \in Nat /\ Taken + Len(rest) = Len(input)
           /\ Round.taken \in 1 .. Len(rest)
           /\ Round.suite = SuiteKey(Taken + 1)
           /\ \A i \in 1 .. Round.taken : GroupKey(Taken + i) = GroupKey(Taken + 1)
           /\ SuiteKey(Taken + Round.taken) = Round.suite
           /\ Taken + Round.taken < Len(input) =>
                GroupKey(Taken + Round.taken) # GroupKey(Taken + Round.taken + 1)
           /\ mode = "testcases" =>
                Round.tests = <<[test |-> GroupKey(Taken + 1),
                                 cases |-> SubSeq(rest, 1, Round.taken)]>>
  <1>1. /\ Len(input) \in Nat /\ Len(rest) \in Nat \ {0} /\ Len(rest) <= Len(input)
        /\ Taken \in Nat /\ Taken + Len(rest) = Len(input)
        /\ \A i \in 1 .. Len(rest) : rest[i] = Item(Taken + i)
    BY DEF LoopTypeOK, RestInv, Taken
  <1>2. PICK k \in Nat : k = Taken
    BY <1>1
  <1>3. \A i \in 1 .. Len(rest) : k + i \in 1 .. Len(input) /\ rest[i] = Item(k + i)
    BY <1>1, <1>2
  <1>4. CASE mode = "testcases"
    <2>1. PICK n \in 1 .. Len(rest) :
            /\ n = Leading(TestOf)
            /\ \A i \in 1 .. n : TestOf[rest[i]] = TestOf[rest[1]]
            /\ n < Len(rest) => TestOf[rest[n + 1]] # TestOf[rest[1]]
      BY LeadingProperties DEF LoopTypeOK
    <2>2. \A i \in 1 .. Len(rest) : /\ GroupKey(k + i) = TestOf[rest[i]]
                                    /\ SuiteKey(k + i) = SuiteOf[TestOf[rest[i]]]
      BY <1>3, <1>4, KeysOfItems
    <2>3. /\ Round.taken = n /\ Round.suite = SuiteOf[TestOf[rest[1]]]
          /\ Round.tests = <<[test |-> TestOf[rest[1]], cases |-> SubSeq(rest, 1, n)]>>
      BY <1>4, <2>1 DEF Round
    <2>4. 1 \in 1 .. Len(rest) /\ n \in 1 .. Len(rest) /\ n \in Nat
      BY <1>1
    <2>5. \A i \in 1 .. n : GroupKey(k + i) = GroupKey(k + 1)
      BY <2>1, <2>2, <2>4
    <2>6. SuiteKey(k + n) = SuiteOf[TestOf[rest[1]]] /\ n \in 1 .. n
      BY <2>1, <2>2, <2>4
    <2>7. ASSUME k + n < Len(input) PROVE GroupKey(k + n) # GroupKey(k + n + 1)
      <3>1. n + 1 \in 1 .. Len(rest) /\ k + (n + 1) = k + n + 1 /\ n < Len(rest)
        BY <1>1, <1>2, <2>4, <2>7
      <3>2. GroupKey(k + n + 1) = TestOf[rest[n + 1]]
        BY <2>2, <3>1
      <3>3. GroupKey(k + n) = TestOf[rest[1]]
        BY <2>1, <2>2, <2>4, <2>6
      <3> QED
        BY <2>1, <3>1, <3>2, <3>3
    <2>8. SuiteKey(k + 1) = SuiteOf[TestOf[rest[1]]] /\ GroupKey(k + 1) = TestOf[rest[1]]
      BY <2>2, <2>4
    <2> QED
      BY <1>1, <1>2, <2>3, <2>4, <2>5, <2>6, <2>7, <2>8
  <1>5. CASE mode = "tests"
    <2>1. PICK n \in 1 .. Len(rest) :
            /\ n = Leading(SuiteOf)
            /\ \A i \in 1 .. n : SuiteOf[rest[i]] = SuiteOf[rest[1]]
            /\ n < Len(rest) => SuiteOf[rest[n + 1]] # SuiteOf[rest[1]]
      BY LeadingProperties DEF LoopTypeOK
    <2>2. \A i \in 1 .. Len(rest) : /\ GroupKey(k + i) = SuiteOf[rest[i]]
                                    /\ SuiteKey(k + i) = SuiteOf[rest[i]]
      BY <1>3, <1>5, KeysOfItems
    <2>3. Round.taken = n /\ Round.suite = SuiteOf[rest[1]]
      BY <1>5, <2>1 DEF Round
    <2>4. 1 \in 1 .. Len(rest) /\ n \in 1 .. Len(rest) /\ n \in Nat
      BY <1>1
    <2>5. \A i \in 1 .. n : GroupKey(k + i) = GroupKey(k + 1)
      BY <2>1, <2>2, <2>4
    <2>6. SuiteKey(k + n) = SuiteOf[rest[1]] /\ n \in 1 .. n
      BY <2>1, <2>2, <2>4
    <2>7. ASSUME k + n < Len(input) PROVE GroupKey(k + n) # GroupKey(k + n + 1)
      <3>1. n + 1 \in 1 .. Len(rest) /\ k + (n + 1) = k + n + 1 /\ n < Len(rest)
        BY <1>1, <1>2, <2>4, <2>7
      <3>2. GroupKey(k + n + 1) = SuiteOf[rest[n + 1]]
        BY <2>2, <3>1
      <3>3. GroupKey(k + n) = SuiteOf[rest[1]]
        BY <2>1, <2>2, <2>4, <2>6
      <3> QED
        BY <2>1, <3>1, <3>2, <3>3
    <2>8. SuiteKey(k + 1) = SuiteOf[rest[1]]
      BY <2>2, <2>4
    <2> QED
      BY <1>1, <1>2, <1>5, <2>3, <2>4, <2>5, <2>6, <2>7, <2>8
  <1> QED
    BY <1>4, <1>5 DEF LoopTypeOK

\* Keys and elements depend on the selection and on the copy only.
LEMMA KeysFixed ==
    ASSUME UNCHANGED <<mode, input, sorted>>
    PROVE  /\ \A i : GroupKey(i)' = GroupKey(i)
           /\ \A i : SuiteKey(i)' = SuiteKey(i)
           /\ \A i : Item(i)' = Item(i)
  BY KeysKept DEF GroupKey, SuiteKey, Item

\* Only Sort changes the copy.
LEMMA CopyFixed ==
    ASSUME [Next]_utilVars, ~Sort
    PROVE  UNCHANGED <<mode, input, sorted, loop, write>>
  BY DEF Next, Step, Call, BeginLoop, OpenTestsuite, OpenTest, OpenTestcase,
     RunTestcase, CloseTestcase, TestDone, CloseTest, TestsuiteDone,
     CloseTestsuite, Return, Returned, utilVars, call, sortVars

\* The elements are taken from the copy one after the other.
LEMMA RestStep ==
    ASSUME UtilsInv, mode # "testsuites", RestInv, [Next]_utilVars
    PROVE  RestInv'
  <1>1. LoopTypeOK /\ CopyInv /\ Len(input) \in Nat /\ Len(rest) \in Nat
    BY DEF UtilsInv, TypeOK, LoopTypeOK
  <1>2. CASE Call \/ Sort
    <2>1. /\ rest = <<>> /\ called = <<>> /\ opened = <<>> /\ tests = <<>>
          /\ UNCHANGED <<rest, called, opened, tests, input>>
          /\ pc' \in {"sort", "returned"}
      BY <1>2 DEF Call, Sort, RestInv, call, history
    <2>2. rest' = <<>> /\ Len(rest') = 0 /\ Len(input') = Len(input)
      BY <2>1
    <2> QED
      BY <1>1, <2>1, <2>2 DEF RestInv, InSuite, InTest
  <1>3. ASSUME ~(Call \/ Sort)
        PROVE  /\ UNCHANGED <<mode, input, sorted>> /\ SortDone' = SortDone
               /\ \A i : GroupKey(i)' = GroupKey(i)
               /\ \A i : Item(i)' = Item(i)
    <2>1. UNCHANGED <<mode, input, sorted, loop, write>>
      BY <1>3, CopyFixed
    <2> QED
      BY <2>1, KeysFixed DEF SortDone, Size
  <1>4. CASE BeginLoop
    <2>1. /\ pc = "sort" /\ pc' = "testsuite" /\ SortDone
          /\ rest' = [i \in DOMAIN sorted |-> Item(i)]
      BY <1>4 DEF BeginLoop, NeedsSort
    <2>2. /\ rest' \in Seq(Selections(mode)) /\ DOMAIN rest' = 1 .. Len(input)
          /\ \A i \in 1 .. Len(input) : rest'[i] = Item(i)
      BY <1>1, <2>1, CopyOfSelection
    <2>3. Len(rest') = Len(input)
      BY <1>1, <2>2
    <2>4. ~(Call \/ Sort)
      BY <2>1 DEF Call, Sort
    <2>5. Taken' = 0
      BY <1>1, <1>3, <2>3, <2>4 DEF Taken
    <2>6. \A i \in 1 .. Len(rest') : rest'[i] = Item(0 + i)'
      BY <1>3, <2>2, <2>3, <2>4
    <2> QED
      BY <1>1, <1>3, <2>1, <2>3, <2>4, <2>5, <2>6 DEF RestInv, InSuite, InTest
  <1>5. CASE OpenTestsuite /\ pc' = "test"
    <2>1. /\ pc = "testsuite" /\ rest # <<>> /\ SortDone
          /\ rest' = SubSeq(rest, Round.taken + 1, Len(rest))
      BY <1>5 DEF OpenTestsuite, RestInv
    <2>2. PICK k \in Nat, n \in 1 .. Len(rest) :
            /\ k = Taken /\ n = Round.taken /\ k + Len(rest) = Len(input)
            /\ k + n < Len(input) => GroupKey(k + n) # GroupKey(k + n + 1)
      BY <1>1, <2>1, RoundKeys
    <2>3. /\ Len(rest') = Len(rest) - n
          /\ \A i \in 1 .. (Len(rest) - n) : rest'[i] = rest[n + i]
      BY <2>1, <2>2, Prefix DEF UtilsInv, TypeOK, LoopTypeOK
    <2>4. ~(Call \/ Sort)
      BY <2>1 DEF Call, Sort
    <2>5. /\ Taken' = k + n /\ Len(rest') \in Nat
          /\ Len(rest') <= Len(input) /\ Len(input') = Len(input)
      <3>1. Len(input') = Len(input) /\ Taken' = Len(input') - Len(rest')
        BY <1>3, <2>4 DEF Taken
      <3>2. /\ Len(rest) - n \in Nat /\ Len(rest) - n <= Len(input)
            /\ Len(input) - (Len(rest) - n) = k + n
        BY <1>1, <2>2
      <3> QED
        BY <2>3, <3>1, <3>2
    <2>6. ASSUME NEW i \in 1 .. Len(rest') PROVE rest'[i] = Item((k + n) + i)'
      <3>1. /\ i \in 1 .. (Len(rest) - n) /\ n + i \in 1 .. Len(rest)
            /\ k + (n + i) = (k + n) + i
        BY <1>1, <2>2, <2>3
      <3>2. rest[n + i] = Item(k + (n + i))
        BY <2>2, <3>1 DEF RestInv
      <3> QED
        BY <1>3, <2>3, <2>4, <3>1, <3>2
    <2>7. (Taken < Len(input) => GroupKey(Taken) # GroupKey(Taken + 1))'
      BY <1>3, <2>2, <2>4, <2>5
    <2>8. SortDone' /\ pc' = "test"
      BY <1>3, <1>5, <2>1, <2>4
    <2> QED
      BY <2>5, <2>6, <2>7, <2>8 DEF RestInv
  <1>6. CASE \/ (OpenTestsuite /\ pc' # "test") \/ OpenTest \/ OpenTestcase
             \/ RunTestcase \/ CloseTestcase \/ TestDone \/ CloseTest
             \/ TestsuiteDone \/ CloseTestsuite \/ Return
    <2>1. /\ UNCHANGED rest /\ pc' \notin {"call", "sort"}
          /\ pc \in {"testsuite", "return"} \union InSuite
      BY <1>6 DEF OpenTestsuite, OpenTest, OpenTestcase, RunTestcase,
         CloseTestcase, TestDone, CloseTest, TestsuiteDone, CloseTestsuite,
         Return, InSuite, InTest
    <2>2. ~(Call \/ Sort)
      BY <2>1 DEF Call, Sort, InSuite, InTest
    <2>3. Taken' = Taken /\ Len(rest') = Len(rest) /\ Len(input') = Len(input)
      BY <1>3, <2>1, <2>2 DEF Taken
    <2> QED
      BY <1>3, <2>1, <2>2, <2>3 DEF RestInv
  <1>7. CASE UNCHANGED utilVars
    <2>1. /\ UNCHANGED <<pc, rest, called, opened, tests, mode, input, sorted>>
          /\ UNCHANGED <<loop, write>>
      BY <1>7 DEF utilVars, call, sortVars, history
    <2>2. /\ \A i : GroupKey(i)' = GroupKey(i)
          /\ \A i : Item(i)' = Item(i)
          /\ SortDone' = SortDone
      BY <2>1, KeysFixed DEF SortDone, Size
    <2>3. Taken' = Taken /\ Len(rest') = Len(rest) /\ Len(input') = Len(input)
      BY <2>1 DEF Taken
    <2> QED
      BY <2>1, <2>2, <2>3 DEF RestInv
  <1> QED
    BY <1>2, <1>4, <1>5, <1>6, <1>7 DEF Next, Step, Returned

\* Appending what is new to a history.
LEMMA AppendedOnce ==
    ASSUME NEW X, NEW s \in Seq(X), NEW e \in X
    PROVE  /\ DOMAIN s = 1 .. Len(s) /\ DOMAIN Append(s, e) = 1 .. (Len(s) + 1)
           /\ Len(s) \in Nat /\ Append(s, e)[Len(s) + 1] = e
           /\ \A j \in DOMAIN s : Append(s, e)[j] = s[j]
           /\ \A j \in DOMAIN Append(s, e) : j \in DOMAIN s \/ j = Len(s) + 1
  <1>1. /\ Len(s) \in Nat /\ DOMAIN s = 1 .. Len(s)
        /\ Len(Append(s, e)) = Len(s) + 1
        /\ Append(s, e)[Len(s) + 1] = e
        /\ \A j \in 1 .. Len(s) : Append(s, e)[j] = s[j]
        /\ Append(s, e) \in Seq(X)
    BY AppendProperties
  <1>2. DOMAIN Append(s, e) = 1 .. (Len(s) + 1)
    BY <1>1
  <1> QED
    BY <1>1, <1>2

\* A suite is opened that no element taken so far belongs to.
LEMMA NewSuite ==
    ASSUME UtilsInv, mode # "testsuites", RestInv, OpenedInv,
           pc = "testsuite", rest # <<>>, ~KeepsReporter(Round.suite)
    PROVE  \A j \in DOMAIN opened : opened[j] # Round.suite
  <1>1. LoopTypeOK /\ CopyInv /\ SortDone
    BY DEF UtilsInv, TypeOK, RestInv
  <1>2. PICK k \in Nat : /\ k = Taken /\ k + Len(rest) = Len(input)
                         /\ Round.suite = SuiteKey(k + 1)
    BY <1>1, RoundKeys
  <1>3. Len(rest) \in Nat \ {0} /\ Len(input) \in Nat
    BY <1>1 DEF LoopTypeOK
  <1>4. k > 0 => SuiteKey(k) # SuiteKey(k + 1)
    <2> SUFFICES ASSUME k > 0 PROVE SuiteKey(k) # SuiteKey(k + 1)
      OBVIOUS
    <2>1. CASE mode = "testcases"
      BY <1>2, <2>1 DEF OpenedInv, KeepsReporter
    <2>2. CASE mode = "tests"
      <3>1. GroupKey(k) # GroupKey(k + 1)
        BY <1>2, <1>3 DEF RestInv
      <3>2. k \in 1 .. Len(input) /\ k + 1 \in 1 .. Len(input)
        BY <1>2, <1>3
      <3> QED
        BY <1>1, <2>2, <3>1, <3>2, KeysOfItems
    <2> QED
      BY <1>1, <2>1, <2>2 DEF LoopTypeOK
  <1>5. ASSUME NEW i \in 1 .. k PROVE SuiteKey(i) # Round.suite
    <2>1. k \in 1 .. Len(input) /\ k + 1 <= Len(input) /\ k > 0
      BY <1>2, <1>3, <1>5
    <2> QED
      BY <1>1, <1>2, <1>4, <2>1, Contiguous
  <1>6. Round.suite \in Testsuites
    BY <1>1, RoundProperties
  <1> QED
    BY <1>2, <1>5, <1>6 DEF OpenedInv

\* A test is collected that no element taken so far belongs to.
LEMMA NewTest ==
    ASSUME UtilsInv, mode = "testcases", RestInv, OpenedInv,
           pc = "testsuite", rest # <<>>
    PROVE  \A j \in DOMAIN opened : opened[j] # GroupKey(Taken + 1)
  <1>1. LoopTypeOK /\ CopyInv /\ SortDone
    BY DEF UtilsInv, TypeOK, RestInv
  <1>2. PICK k \in Nat : k = Taken /\ k + Len(rest) = Len(input)
    BY <1>1, RoundKeys
  <1>3. /\ Len(rest) \in Nat \ {0} /\ Len(input) \in Nat
        /\ k + 1 \in 1 .. Len(input)
    BY <1>1, <1>2 DEF LoopTypeOK
  <1>4. ASSUME NEW i \in 1 .. k PROVE GroupKey(i) # GroupKey(k + 1)
    <2>1. k \in 1 .. Len(input) /\ k + 1 <= Len(input) /\ k > 0 /\ k < Len(input)
      BY <1>2, <1>3, <1>4
    <2>2. GroupKey(k) # GroupKey(k + 1)
      BY <1>2, <2>1 DEF RestInv
    <2> QED
      BY <1>1, <2>1, <2>2, Contiguous
  <1>5. GroupKey(k + 1) \in Tests
    BY <1>1, <1>3, KeysOfItems
  <1> QED
    BY <1>2, <1>4, <1>5 DEF OpenedInv

\* The reports are opened once.
LEMMA OpenedStep ==
    ASSUME UtilsInv, mode # "testsuites", RestInv, OpenedInv, [Next]_utilVars
    PROVE  OpenedInv'
  <1>1. /\ LoopTypeOK /\ CopyInv /\ Len(input) \in Nat /\ Len(rest) \in Nat
        /\ opened \in Seq(Testsuites \union Tests) /\ LiveInv
        /\ \A j \in DOMAIN opened : opened[j] \in Testsuites \union Tests
    <2>1. opened \in Seq(Testsuites \union Tests)
      BY DEF UtilsInv, TypeOK, HistoryTypeOK
    <2> QED
      BY <2>1 DEF UtilsInv, TypeOK, LoopTypeOK
  <1>2. CASE Call \/ Sort \/ BeginLoop
    <2>1. /\ opened = <<>> /\ tests = <<>> /\ testsuiteReporter = NoReporter
          /\ UNCHANGED <<opened, tests, testsuiteReporter>>
      BY <1>1, <1>2 DEF Call, Sort, BeginLoop, RestInv, LiveInv, history, reporters
    <2>2. pc' = "testsuite" => Taken' = 0
      <3> SUFFICES ASSUME BeginLoop PROVE Taken' = 0
        BY <1>2 DEF Call, Sort
      <3>1. rest' = [i \in DOMAIN sorted |-> Item(i)] /\ UNCHANGED input
        BY DEF BeginLoop, call
      <3>2. Len(rest') = Len(input)
        BY <1>1, <3>1, CopyOfSelection
      <3> QED
        BY <1>1, <3>1, <3>2 DEF Taken
    <2>3. DOMAIN opened' = {} /\ Len(tests') = 0 /\ testsuiteReporter' = NoReporter
          /\ tests' = <<>>
      BY <2>1
    <2> QED
      BY <2>2, <2>3 DEF OpenedInv, OpenedOnce
  <1>3. ASSUME ~Sort
        PROVE  /\ UNCHANGED <<mode, input, sorted>>
               /\ \A i : GroupKey(i)' = GroupKey(i)
               /\ \A i : SuiteKey(i)' = SuiteKey(i)
    BY <1>3, CopyFixed, KeysFixed
  <1>4. CASE OpenTestsuite /\ pc' = "test"
    <2>1. /\ pc = "testsuite" /\ rest # <<>> /\ ~Sort
          /\ rest' = SubSeq(rest, Round.taken + 1, Len(rest))
          /\ tests' = Round.tests
          /\ testsuiteReporter' = Round.suite
          /\ KeepsReporter(Round.suite) => UNCHANGED opened
          /\ ~KeepsReporter(Round.suite) => opened' = Append(opened, Round.suite)
      BY <1>4 DEF OpenTestsuite, KeepsReporter, Sort
    <2>2. PICK k \in Nat, n \in 1 .. Len(rest) :
            /\ k = Taken /\ n = Round.taken /\ k + Len(rest) = Len(input)
            /\ Round.suite = SuiteKey(k + 1) /\ SuiteKey(k + n) = Round.suite
            /\ GroupKey(k + n) = GroupKey(k + 1)
            /\ mode = "testcases" =>
                 Round.tests = <<[test |-> GroupKey(k + 1),
                                  cases |-> SubSeq(rest, 1, n)]>>
      <3>1. /\ Taken \in Nat /\ Round.taken \in 1 .. Len(rest)
            /\ Round.taken \in 1 .. Round.taken
        BY <1>1, <2>1, RoundKeys
      <3>2. GroupKey(Taken + Round.taken) = GroupKey(Taken + 1)
        BY <1>1, <2>1, <3>1, RoundKeys
      <3> QED
        BY <1>1, <2>1, <3>1, <3>2, RoundKeys
    <2>3. Taken' = k + n
      <3>1. Len(rest') = Len(rest) - n
        <4>1. rest \in Seq(Selections(mode)) /\ rest' = SubSeq(rest, n + 1, Len(rest))
          BY <1>1, <2>1, <2>2 DEF LoopTypeOK
        <4> QED
          BY <2>2, <4>1, Prefix
      <3>2. Len(input') = Len(input)
        BY <1>3, <2>1
      <3>3. Len(input) - (Len(rest) - n) = k + n
        <4>1. n \in Nat /\ k + Len(rest) = Len(input)
          BY <1>1, <2>2
        <4> QED
          BY <1>1, <4>1
      <3> QED
        BY <3>1, <3>2, <3>3 DEF Taken
    <2>4. /\ Round.suite \in Testsuites /\ Round.suite \notin Tests
          /\ k + 1 \in 1 .. (k + n)
          /\ \A i \in 1 .. k : i \in 1 .. (k + n)
      BY <1>1, <2>1, <2>2, RoundProperties, UtilsAssumption
    <2>5. \A j \in DOMAIN opened' :
            \/ j \in DOMAIN opened /\ opened'[j] = opened[j]
            \/ opened'[j] = Round.suite
      BY <1>1, <2>1, <2>4, AppendedOnce
    <2>6. \A j \in DOMAIN opened' :
            opened'[j] \in Testsuites =>
              \E i \in 1 .. (k + n) : SuiteKey(i) = opened'[j]
      <3> SUFFICES ASSUME NEW j \in DOMAIN opened', opened'[j] \in Testsuites
                   PROVE  \E i \in 1 .. (k + n) : SuiteKey(i) = opened'[j]
        OBVIOUS
      <3>1. CASE opened'[j] = Round.suite
        BY <2>2, <2>4, <3>1
      <3>2. CASE j \in DOMAIN opened /\ opened'[j] = opened[j]
        BY <2>2, <2>4, <3>2 DEF OpenedInv
      <3> QED
        BY <2>5, <3>1, <3>2
    <2>7. OpenedOnce'
      <3>1. CASE KeepsReporter(Round.suite)
        BY <1>3, <2>1, <3>1 DEF OpenedInv, OpenedOnce
      <3>2. CASE ~KeepsReporter(Round.suite)
        <4>1. opened' = Append(opened, Round.suite) /\ mode' = mode
          BY <1>3, <2>1, <3>2
        <4>2. \A j \in DOMAIN opened : opened[j] # Round.suite
          BY <2>1, <3>2, NewSuite
        <4>3. /\ \A j \in DOMAIN opened' : j \in DOMAIN opened \/ j = Len(opened) + 1
              /\ \A j \in DOMAIN opened : opened'[j] = opened[j]
              /\ opened'[Len(opened) + 1] = Round.suite
          BY <1>1, <2>4, <4>1, AppendedOnce
        <4> QED
          BY <4>1, <4>2, <4>3 DEF OpenedInv, OpenedOnce
      <3> QED
        BY <3>1, <3>2
    <2>8. ASSUME mode = "testcases"
          PROVE  /\ \A j \in DOMAIN opened' :
                      opened'[j] \in Tests =>
                        \E i \in 1 .. (k + n) : GroupKey(i) = opened'[j]
                 /\ Len(tests') <= 1 /\ tests' # <<>>
                 /\ Head(tests').test = GroupKey(k + n)
                 /\ \A j \in DOMAIN opened' : opened'[j] # Head(tests').test
      <3>1. PICK e : /\ e.test = GroupKey(k + 1) /\ tests' = <<e>>
        BY <2>1, <2>2, <2>8
      <3>2. Len(tests') = 1 /\ tests' # <<>> /\ Head(tests') = e
        BY <3>1
      <3>3. GroupKey(k + 1) \in Tests
        BY <1>1, <2>2, <2>8, KeysOfItems
      <3>4. \A j \in DOMAIN opened' : opened'[j] # GroupKey(k + 1)
        BY <2>1, <2>2, <2>4, <2>5, <2>8, <3>3, NewTest
      <3>5. \A j \in DOMAIN opened' :
              opened'[j] \in Tests =>
                \E i \in 1 .. (k + n) : GroupKey(i) = opened'[j]
        BY <2>2, <2>4, <2>5, <2>8 DEF OpenedInv
      <3> QED
        BY <2>2, <3>1, <3>2, <3>4, <3>5
    <2>9. k + n > 0 /\ testsuiteReporter' = SuiteKey(k + n)
      BY <2>1, <2>2
    <2>10. /\ \A i : GroupKey(i)' = GroupKey(i)
           /\ \A i : SuiteKey(i)' = SuiteKey(i) /\ mode' = mode
      BY <1>3, <2>1
    <2> QED
      BY <1>4, <2>3, <2>6, <2>7, <2>8, <2>9, <2>10 DEF OpenedInv, InTest
  <1>5. CASE OpenTest /\ pc' = "testcase"
    <2>1. /\ pc = "test" /\ tests # <<>> /\ ~Sort
          /\ UNCHANGED <<rest, testsuiteReporter>>
          /\ tests' = Tail(tests) /\ opened' = Append(opened, Head(tests).test)
      BY <1>5 DEF OpenTest, Sort
    <2>2. PICK t \in Tests : t = Head(tests).test /\ t \notin Testsuites
      BY <1>1, <2>1, HeadBelongs, UtilsAssumption
      DEF LoopTypeOK, UtilsInv, BelongInv, InTest
    <2>3. Taken' = Taken /\ mode' = mode
      BY <1>3, <2>1 DEF Taken
    <2>4. /\ \A j \in DOMAIN opened' : j \in DOMAIN opened \/ j = Len(opened) + 1
          /\ \A j \in DOMAIN opened : opened'[j] = opened[j]
          /\ opened'[Len(opened) + 1] = t
      BY <1>1, <2>1, <2>2, AppendedOnce
    <2>5. OpenedOnce'
      <3> SUFFICES ASSUME NEW i \in DOMAIN opened', NEW j \in DOMAIN opened',
                          i # j, opened'[i] = opened'[j], mode # "testsuites"
                   PROVE  mode = "tests" /\ opened'[i] \in Tests
        BY <2>3 DEF OpenedOnce
      <3>1. CASE i \in DOMAIN opened /\ j \in DOMAIN opened
        BY <2>4, <3>1 DEF OpenedInv, OpenedOnce
      <3>2. CASE i = Len(opened) + 1 \/ j = Len(opened) + 1
        <4>1. opened'[i] = t /\ \E l \in DOMAIN opened : opened[l] = t
          BY <2>4, <3>2
        <4>2. mode # "testcases"
          BY <2>1, <2>2, <4>1 DEF OpenedInv
        <4> QED
          BY <1>1, <2>2, <4>1, <4>2 DEF LoopTypeOK
      <3> QED
        BY <2>4, <3>1, <3>2
    <2>6. \A j \in DOMAIN opened' :
            opened'[j] \in Testsuites =>
              \E i \in 1 .. Taken : SuiteKey(i) = opened'[j]
      BY <2>2, <2>4 DEF OpenedInv
    <2>7. ASSUME mode = "testcases"
          PROVE  /\ \A j \in DOMAIN opened' :
                      opened'[j] \in Tests =>
                        \E i \in 1 .. Taken : GroupKey(i) = opened'[j]
                 /\ tests' = <<>> /\ Len(tests') = 0
      <3>1. Taken > 0 /\ GroupKey(Taken) = t
        BY <2>1, <2>2, <2>7 DEF OpenedInv
      <3>2. Taken \in 1 .. Taken
        BY <1>1, <3>1 DEF Taken
      <3>3. Len(tests) <= 1 /\ tests \in Seq([test : Tests, cases : Seq(Testcases)])
        BY <1>1, <2>7 DEF OpenedInv, LoopTypeOK
      <3>4. tests' = <<>> /\ Len(tests') = 0
        <4> DEFINE T == [test : Tests, cases : Seq(Testcases)]
        <4>1. tests \in Seq(T)
          BY <3>3
        <4> HIDE DEF T
        <4>2. /\ Tail(tests) \in Seq(T) /\ Len(Tail(tests)) = Len(tests) - 1
              /\ Len(tests) \in Nat \ {0}
          BY <2>1, <4>1, HeadTailProperties
        <4>3. Len(Tail(tests)) = 0
          BY <3>3, <4>2
        <4> QED
          BY <2>1, <4>2, <4>3
      <3>5. ASSUME NEW j \in DOMAIN opened', opened'[j] \in Tests
            PROVE  \E i \in 1 .. Taken : GroupKey(i) = opened'[j]
        BY <2>4, <2>7, <3>1, <3>2, <3>5 DEF OpenedInv
      <3> QED
        BY <3>4, <3>5
    <2>8. /\ \A i : GroupKey(i)' = GroupKey(i)
          /\ \A i : SuiteKey(i)' = SuiteKey(i)
      BY <1>3, <2>1
    <2> QED
      BY <1>5, <2>1, <2>3, <2>5, <2>6, <2>7, <2>8 DEF OpenedInv
  <1>6. ASSUME ~Sort,
               \/ (OpenTestsuite /\ pc' # "test") \/ (OpenTest /\ pc' # "testcase")
               \/ OpenTestcase \/ RunTestcase \/ CloseTestcase \/ TestDone
               \/ CloseTest \/ TestsuiteDone \/ CloseTestsuite \/ Return
               \/ UNCHANGED utilVars
        PROVE  OpenedInv'
    <2>1. UNCHANGED <<rest, opened, tests>>
      BY <1>6 DEF OpenTestsuite, OpenTest, OpenTestcase, RunTestcase,
         CloseTestcase, TestDone, CloseTest, TestsuiteDone, CloseTestsuite,
         Return, utilVars, history
    <2>2. /\ mode = "testcases" =>
               testsuiteReporter' = testsuiteReporter \/ testsuiteReporter' = NoReporter
          /\ pc' \in InTest => pc \in InTest
          /\ pc' = "test" => pc \in InTest \union {"test"}
          /\ mode = "testcases" /\ pc' = "testsuite" =>
               /\ pc \in {"testsuite", "close_testsuite"}
               /\ testsuiteReporter' = testsuiteReporter
      BY <1>6 DEF OpenTestsuite, OpenTest, OpenTestcase, RunTestcase,
         CloseTestcase, TestDone, CloseTest, TestsuiteDone, CloseTestsuite,
         Return, utilVars, reporters, InTest
    <2>3. Taken' = Taken /\ mode' = mode
      BY <1>3, <1>6, <2>1 DEF Taken
    <2>4. /\ \A i : GroupKey(i)' = GroupKey(i)
          /\ \A i : SuiteKey(i)' = SuiteKey(i)
      BY <1>3, <1>6
    <2>5. OpenedOnce'
      BY <2>1, <2>3 DEF OpenedInv, OpenedOnce
    <2>6. pc = "close_testsuite" => testsuiteReporter # NoReporter
      BY <1>1 DEF LiveInv, InSuite
    <2> QED
      BY <2>1, <2>2, <2>3, <2>4, <2>5, <2>6 DEF OpenedInv
  <1> QED
    BY <1>2, <1>4, <1>5, <1>6 DEF Next, Step, Returned

\* runner_run_testcases runs what it has taken, one after the other.
LEMMA RunStep ==
    ASSUME UtilsInv, mode = "testcases", RestInv, OpenedInv, RunInv,
           [Next]_utilVars
    PROVE  RunInv'
  <1>1. /\ LoopTypeOK /\ CopyInv /\ Len(input) \in Nat /\ Len(rest) \in Nat
        /\ called \in Seq(Testcases) /\ Len(called) \in Nat
        /\ cases \in Seq(Testcases) /\ FaultInv /\ LiveInv
    <2>1. called \in Seq(Testcases)
      BY DEF UtilsInv, TypeOK, HistoryTypeOK
    <2> QED
      BY <2>1 DEF UtilsInv, TypeOK, LoopTypeOK
  <1>2. CASE Call \/ Sort \/ BeginLoop
    <2>1. /\ called = <<>> /\ tests = <<>> /\ UNCHANGED <<called, tests, input>>
          /\ pc' = "returned" => result' = -1
          /\ pc' \in {"sort", "returned", "testsuite"}
          /\ pc' = "testsuite" => BeginLoop
      BY <1>2 DEF Call, Sort, BeginLoop, RestInv, history, call
    <2>2. Pending' = <<>> /\ called' = <<>> /\ Len(called') = 0
      BY <2>1 DEF Pending
    <2>3. pc' = "testsuite" => Taken' = 0
      <3> SUFFICES ASSUME BeginLoop PROVE Taken' = 0
        BY <2>1
      <3>1. rest' = [i \in DOMAIN sorted |-> Item(i)]
        BY DEF BeginLoop
      <3>2. Len(rest') = Len(input)
        BY <1>1, <3>1, CopyOfSelection
      <3> QED
        BY <1>1, <2>1, <3>2 DEF Taken
    <2> QED
      BY <1>1, <2>1, <2>2, <2>3 DEF RunInv, InSuite, InTest
  <1>3. ASSUME ~Sort
        PROVE  /\ UNCHANGED <<mode, input, sorted>> /\ SortDone' = SortDone
               /\ \A i : Item(i)' = Item(i)
    <2>1. UNCHANGED <<mode, input, sorted, loop, write>>
      BY <1>3, CopyFixed
    <2> QED
      BY <2>1, KeysFixed DEF SortDone, Size
  \* what is called stays as it is
  <1>4. ASSUME ~Sort, UNCHANGED called,
               pc' = "returned" /\ result' # -1 => Len(called) = Len(input),
               pc' \in {"testsuite"} \union InSuite /\ ~faulted' =>
                 /\ Len(called) + Len(Pending') = Taken'
                 /\ \A i \in 1 .. Len(Pending') : Pending'[i] = Item(Len(called) + i)
        PROVE  RunInv'
    BY <1>3, <1>4 DEF RunInv
  <1>5. CASE OpenTestsuite
    <2>1. /\ pc = "testsuite" /\ rest # <<>> /\ ~Sort /\ UNCHANGED called
          /\ \/ /\ rest' = SubSeq(rest, Round.taken + 1, Len(rest))
                /\ tests' = Round.tests /\ pc' = "test"
             \/ pc' = "return"
      BY <1>5 DEF OpenTestsuite, Sort
    <2>2. CASE pc' = "return"
      BY <1>4, <2>1, <2>2 DEF InSuite, InTest
    <2>3. CASE pc' = "test"
      <3>1. PICK k \in Nat, n \in 1 .. Len(rest) :
              /\ k = Taken /\ n = Round.taken /\ k + Len(rest) = Len(input)
              /\ Round.tests = <<[test |-> GroupKey(k + 1),
                                  cases |-> SubSeq(rest, 1, n)]>>
        BY <1>1, <2>1, RoundKeys
      <3>2. rest \in Seq(Testcases)
        BY <1>1 DEF LoopTypeOK, Selections
      <3>3. /\ Len(SubSeq(rest, 1, n)) = n
            /\ \A i \in 1 .. n : SubSeq(rest, 1, n)[i] = rest[i]
            /\ Len(SubSeq(rest, n + 1, Len(rest))) = Len(rest) - n
        BY <3>2, Prefix
      <3>4. Pending' = SubSeq(rest, 1, n)
        <4>1. PICK e : /\ e.cases = SubSeq(rest, 1, n)
                       /\ Round.tests = <<e>>
          BY <3>1
        <4>2. tests' = <<e>>
          BY <2>1, <2>3, <4>1
        <4>3. tests' # <<>> /\ Head(tests') = e
          BY <4>2
        <4> QED
          BY <2>3, <4>1, <4>3 DEF Pending
      <3>5. Taken' = k + n
        <4>1. Len(rest') = Len(rest) - n /\ Len(input') = Len(input)
          BY <1>3, <2>1, <2>3, <3>1, <3>3
        <4>2. n \in Nat /\ k + Len(rest) = Len(input)
          BY <1>1, <3>1
        <4>3. Len(input) - (Len(rest) - n) = k + n
          BY <1>1, <4>2
        <4> QED
          BY <4>1, <4>3 DEF Taken
      <3>6. Len(called) = k
        <4>1. Pending = <<>> /\ ~faulted
          BY <1>1, <2>1 DEF Pending, FaultInv
        <4>2. Len(called) + 0 = Taken
          BY <2>1, <4>1 DEF RunInv
        <4> QED
          BY <1>1, <3>1, <4>2
      <3>7. \A i \in 1 .. n : rest[i] = Item(k + i)
        BY <3>1 DEF RestInv
      <3> QED
        BY <1>4, <2>1, <2>3, <3>3, <3>4, <3>5, <3>6, <3>7
    <2> QED
      BY <2>1, <2>2, <2>3
  <1>6. CASE OpenTest
    <2>1. /\ pc = "test" /\ tests # <<>> /\ ~Sort /\ UNCHANGED <<called, rest>>
          /\ \/ pc' = "testcase" /\ cases' = Head(tests).cases
             \/ pc' = "close_testsuite" /\ faulted'
      <3>1. SuiteOf[Head(tests).test] = testsuiteReporter
        BY <1>6, NeverRefused DEF OpenTest
      <3> QED
        BY <1>6, <3>1, Zenon DEF OpenTest, Faulted, Sort
    <2>2. CASE pc' = "close_testsuite"
      BY <1>4, <2>1, <2>2
    <2>3. CASE pc' = "testcase"
      <3>1. Pending' = Pending
        BY <2>1, <2>3 DEF Pending
      <3>2. Taken' = Taken
        BY <1>3, <2>1 DEF Taken
      <3>3. ~faulted /\ pc \in InSuite
        BY <1>1, <2>1 DEF FaultInv, InSuite
      <3> QED
        BY <1>4, <2>1, <2>3, <3>1, <3>2, <3>3 DEF RunInv
    <2> QED
      BY <2>1, <2>2, <2>3
  <1>7. CASE OpenTestcase
    <2>1. /\ pc = "testcase" /\ cases # <<>> /\ ~Sort /\ UNCHANGED rest
          /\ \/ /\ pc' = "run" /\ cases' = Tail(cases)
                /\ called' = Append(called, Head(cases))
             \/ pc' = "close_test" /\ faulted' /\ UNCHANGED called
      <3>1. TestOf[Head(cases)] = testReporter
        BY <1>7, NeverRefused DEF OpenTestcase
      <3> QED
        BY <1>7, <3>1, Zenon DEF OpenTestcase, Faulted, Sort
    <2>2. CASE pc' = "close_test"
      BY <1>4, <2>1, <2>2
    <2>3. CASE pc' = "run"
      <3>1. /\ Pending = cases /\ Pending' = Tail(cases) /\ ~faulted
            /\ pc \in InSuite
        BY <1>1, <2>1, <2>3 DEF Pending, FaultInv, InSuite, InTest
      <3>2. PICK m \in Nat, n \in Nat \ {0}, k \in Nat :
              /\ m = Len(called) /\ n = Len(cases) /\ k = Taken
              /\ m + n = k /\ k <= Len(input)
              /\ \A i \in 1 .. n : cases[i] = Item(m + i)
        <4>1. /\ Len(called) + Len(cases) = Taken
              /\ \A i \in 1 .. Len(cases) : cases[i] = Item(Len(called) + i)
          BY <3>1 DEF RunInv
        <4>2. Len(cases) \in Nat \ {0}
          BY <1>1, <2>1
        <4>3. Taken \in Nat /\ Taken <= Len(input)
          BY <1>1, <4>1, <4>2 DEF Taken
        <4> QED
          BY <1>1, <4>1, <4>2, <4>3
      <3>3. /\ Head(cases) = cases[1] /\ Len(Tail(cases)) = n - 1
            /\ \A i \in 1 .. (n - 1) : Tail(cases)[i] = cases[i + 1]
            /\ Head(cases) \in Testcases
        BY <1>1, <2>1, <3>2, HeadTailProperties
      <3>4. /\ Len(called') = m + 1 /\ called'[m + 1] = Item(m + 1)
            /\ \A i \in 1 .. m : called'[i] = called[i]
        <4>1. PICK t \in Testcases : t = Head(cases)
          BY <3>3
        <4>2. m = Len(called)
          BY <3>2
        <4>3. /\ Len(Append(called, t)) = m + 1
              /\ Append(called, t)[m + 1] = t
              /\ \A i \in 1 .. m : Append(called, t)[i] = called[i]
          BY <1>1, <4>2, AppendProperties
        <4>4. called' = Append(called, t)
          BY <2>1, <2>3, <4>1
        <4>5. 1 \in 1 .. n
          OBVIOUS
        <4>6. t = Item(m + 1)
          BY <3>2, <3>3, <4>1, <4>5
        <4> QED
          BY <4>3, <4>4, <4>6
      <3>5. Len(called') <= Len(input) /\ Len(called') + Len(Tail(cases)) = k
        BY <1>1, <3>2, <3>3, <3>4
      <3>6. ASSUME NEW i \in 1 .. (m + 1) PROVE called'[i] = Item(i)
        BY <3>2, <3>4 DEF RunInv
      <3>7. ASSUME NEW i \in 1 .. (n - 1) PROVE Tail(cases)[i] = Item((m + 1) + i)
        <4>1. i + 1 \in 1 .. n /\ m + (i + 1) = (m + 1) + i
          BY <3>2
        <4> QED
          BY <3>2, <3>3, <4>1
      <3>8. SortDone' /\ Taken' = k
        <4>1. SortDone
          BY <3>1 DEF RestInv
        <4> QED
          BY <1>3, <2>1, <3>2, <4>1 DEF Taken
      <3>9. UNCHANGED input /\ \A i : Item(i)' = Item(i)
        BY <1>3, <2>1
      <3> QED
        BY <2>3, <3>1, <3>3, <3>4, <3>5, <3>6, <3>7, <3>8, <3>9 DEF RunInv
    <2> QED
      BY <2>1, <2>2, <2>3
  <1>8. CASE RunTestcase \/ CloseTestcase
    <2>1. /\ pc \in {"run", "close_testcase"} /\ ~Sort
          /\ UNCHANGED <<called, rest, cases>>
          /\ pc' \in {"run", "close_testcase", "testcase", "close_test"}
          /\ ~faulted' => ~faulted /\ pc' # "close_test"
      <3>1. CASE RunTestcase
        <4>1. ~faulted
          BY <1>1, <3>1 DEF RunTestcase, FaultInv
        <4> QED
          BY <3>1, <4>1 DEF RunTestcase, Sort
      <3>2. CASE CloseTestcase
        <4>1. rc \in Nat \union {-1} /\ (faulted <=> rc = -1)
          BY <1>1, <3>2 DEF CloseTestcase, FaultInv, UtilsInv, TypeOK, CountsTypeOK
        <4>2. ~faulted => ~(rc < 0)
          BY <4>1
        <4>3. faulted' = faulted
          BY <3>2 DEF CloseTestcase
        <4> QED
          BY <3>2, <4>2, <4>3 DEF CloseTestcase, Error, Sort
      <3> QED
        BY <1>8, <3>1, <3>2
    <2>2. pc' # "close_test" => Pending' = Pending
      BY <2>1 DEF Pending
    <2>3. Taken' = Taken /\ pc \in InSuite
      BY <1>3, <2>1 DEF Taken, InSuite, InTest
    <2>4. ~faulted' => /\ Len(called) + Len(Pending') = Taken'
                       /\ \A i \in 1 .. Len(Pending') :
                            Pending'[i] = Item(Len(called) + i)
      BY <2>1, <2>2, <2>3 DEF RunInv
    <2> QED
      BY <1>4, <2>1, <2>4
  <1>9. CASE TestDone \/ CloseTest \/ TestsuiteDone \/ CloseTestsuite
    <2>1. /\ pc \in {"testcase", "close_test", "test", "close_testsuite"} /\ ~Sort
          /\ UNCHANGED <<called, rest, tests, faulted>>
          /\ pc' \in {"close_test", "close_testsuite", "test", "testsuite", "return"}
          /\ pc = "testcase" => cases = <<>>
          /\ pc = "test" => tests = <<>>
          /\ pc' = "test" => pc = "close_test"
      BY <1>9 DEF TestDone, CloseTest, TestsuiteDone, CloseTestsuite, Sort, history
    <2>2. Pending = <<>> /\ Pending' = <<>>
      <3>1. pc' = "test" => tests = <<>>
        BY <2>1 DEF OpenedInv, InTest
      <3> QED
        BY <2>1, <3>1 DEF Pending
    <2>3. Taken' = Taken /\ pc \in InSuite
      BY <1>3, <2>1 DEF Taken, InSuite, InTest
    <2>4. ~faulted' => Len(called) + 0 = Taken'
      BY <2>1, <2>2, <2>3 DEF RunInv
    <2> QED
      BY <1>4, <2>1, <2>2, <2>4
  <1>10. CASE Return
    <2>1. /\ ~Sort /\ UNCHANGED <<called, result>> /\ pc' = "returned"
          /\ \/ pc = "return"
             \/ pc = "testsuite" /\ rest = <<>>
      BY <1>10 DEF Return, Sort, results
    <2>2. ASSUME result # -1 PROVE Len(called) = Len(input)
      <3>1. pc = "testsuite" /\ rest = <<>> /\ ~faulted
        BY <1>1, <2>1, <2>2 DEF FaultInv
      <3>2. Pending = <<>> /\ Taken = Len(input)
        BY <1>1, <3>1 DEF Pending, Taken
      <3>3. Len(called) + 0 = Taken
        BY <3>1, <3>2 DEF RunInv
      <3> QED
        BY <1>1, <3>2, <3>3
    <2> QED
      BY <1>4, <2>1, <2>2 DEF InSuite, InTest
  <1>11. ASSUME ~Sort, UNCHANGED utilVars PROVE RunInv'
    <2>1. /\ UNCHANGED <<pc, rest, tests, cases, called, result, faulted>>
          /\ Taken' = Taken
      BY <1>3, <1>11 DEF utilVars, history, results, Taken
    <2>2. Pending' = Pending
      BY <2>1 DEF Pending
    <2> QED
      BY <1>4, <1>11, <2>1, <2>2 DEF RunInv
  <1> QED
    BY <1>2, <1>5, <1>6, <1>7, <1>8, <1>9, <1>10, <1>11 DEF Next, Step, Returned

\* The invariant of the rounds.
LEMMA RoundInvariance == Spec => []RoundInv
  <1>1. Init => RoundInv
    <2> SUFFICES ASSUME Init, mode # "testsuites" PROVE RestInv /\ OpenedInv /\ RunInv
      BY DEF RoundInv
    <2>1. /\ rest = <<>> /\ called = <<>> /\ opened = <<>> /\ tests = <<>>
          /\ pc = "call" /\ testsuiteReporter = NoReporter
      BY DEF Init
    <2>2. Len(input) \in Nat
      BY UtilsInitInv DEF UtilsInv, TypeOK, LoopTypeOK
    <2> QED
      BY <2>1, <2>2 DEF RestInv, OpenedInv, OpenedOnce, RunInv, InSuite, InTest
  <1>2. UtilsInv /\ RoundInv /\ [Next]_utilVars => RoundInv'
    <2> SUFFICES ASSUME UtilsInv, RoundInv, [Next]_utilVars, mode' # "testsuites"
                 PROVE  RestInv' /\ OpenedInv' /\ RunInv'
      BY DEF RoundInv
    <2>1. mode' = mode
      BY DEF Next, Step, Call, Sort, BeginLoop, OpenTestsuite, OpenTest,
         OpenTestcase, RunTestcase, CloseTestcase, TestDone, CloseTest,
         TestsuiteDone, CloseTestsuite, Return, Returned, utilVars, call
    <2>2. RestInv' /\ OpenedInv'
      BY <2>1, RestStep, OpenedStep DEF RoundInv
    <2>3. RunInv'
      <3>1. CASE mode = "testcases"
        BY <2>1, <3>1, RunStep DEF RoundInv
      <3>2. CASE mode # "testcases"
        BY <2>1, <3>2 DEF RunInv
      <3> QED
        BY <3>1, <3>2
    <2> QED
      BY <2>2, <2>3
  <1> QED
    BY <1>1, <1>2, UtilsInvariance, PTL DEF Spec

\* Whatever is selected, in whichever order and however often, and whatever
\* fails: a reporter is used only while its parents live, each is destroyed
\* exactly once, and no report is opened a second time.
THEOREM ReportersAlwaysNested == Spec => []ReportersNested
  <1>1. UtilsInv /\ RoundInv => ReportersNested
    <2> SUFFICES ASSUME UtilsInv, RoundInv PROVE ReportersNested
      OBVIOUS
    <2>1. /\ live["testcase"] <= live["test"] /\ live["test"] <= live["testsuite"]
          /\ pc \in {"run", "close_testcase"} => live["testcase"] = 1
      BY DEF UtilsInv, LiveInv, InTest, InSuite
    <2>2. pc = "returned" =>
            live["testcase"] = 0 /\ live["test"] = 0 /\ live["testsuite"] = 0
      BY DEF UtilsInv, LiveInv, InTest
    <2>3. OpenedOnce
      BY DEF RoundInv, OpenedInv, OpenedOnce
    <2> QED
      BY <2>1, <2>2, <2>3 DEF ReportersNested, Levels
  <1> QED
    BY <1>1, UtilsInvariance, RoundInvariance, PTL

\* runner_run_testcases calls run_testcase for the elements of the selection,
\* each at its place in the promised order, and for all of them unless it
\* returns an error.
SelectionRun ==
    mode = "testcases" =>
        /\ \A i \in DOMAIN called :
             /\ called[i] = input[sorted[i]]
             /\ \A j \in DOMAIN called :
                  i < j => Precedes(SuiteAt, GroupAt, sorted[i], sorted[j])
        /\ pc = "returned" /\ result >= 0 => Len(called) = Len(input)

\* Whatever is selected and whatever fails, runner_run_testcases keeps that.
THEOREM SelectionIsRun == Spec => []SelectionRun
  <1>1. UtilsInv /\ RoundInv => SelectionRun
    <2> SUFFICES ASSUME UtilsInv, RoundInv, mode = "testcases"
                 PROVE  /\ \A i \in DOMAIN called :
                             /\ called[i] = input[sorted[i]]
                             /\ \A j \in DOMAIN called :
                                  i < j => Precedes(SuiteAt, GroupAt, sorted[i],
                                                    sorted[j])
                        /\ pc = "returned" /\ result >= 0 =>
                             Len(called) = Len(input)
      BY DEF SelectionRun
    <2>1. RunInv /\ CopyInv /\ LoopTypeOK
      BY DEF RoundInv, UtilsInv, TypeOK
    <2>2. /\ DOMAIN called = 1 .. Len(called) /\ Len(called) \in Nat
          /\ Len(called) <= Len(input) /\ Len(input) \in Nat
          /\ DOMAIN sorted = 1 .. Len(input)
      BY <2>1, CopyOfSelection
      DEF RunInv, UtilsInv, TypeOK, LoopTypeOK, HistoryTypeOK
    <2>3. \A i \in DOMAIN called : called[i] = input[sorted[i]] /\ i \in DOMAIN sorted
      BY <2>1, <2>2 DEF RunInv, Item
    <2>4. ASSUME NEW i \in DOMAIN called PROVE SortDone /\ Partitioned
      BY <2>1, SortInvPartitioned DEF RunInv, CopyInv
    <2>5. pc = "returned" /\ result >= 0 => Len(called) = Len(input)
      BY <2>1 DEF RunInv
    <2> QED
      BY <2>3, <2>4, <2>5 DEF Partitioned
  <1> QED
    BY <1>1, UtilsInvariance, RoundInvariance, PTL

-------------------------------------------------------------------------------
(***************************************************************************)
(* The order the test cases are run in                                      *)
(***************************************************************************)

\* Of two elements, at most one precedes the other.
LEMMA PrecedesAsymmetric ==
    ASSUME NEW n \in Nat, NEW suite, NEW group, Nested(n, suite, group),
           NEW p \in 1 .. n, NEW q \in 1 .. n,
           Precedes(suite, group, p, q), Precedes(suite, group, q, p)
    PROVE  FALSE
  <1>1. DOMAIN suite = 1 .. n /\ DOMAIN group = 1 .. n
    BY DEF Nested
  <1>2. CASE suite[p] # suite[q]
    BY <1>1, <1>2, NotBoth DEF Precedes
  <1>3. CASE suite[p] = suite[q] /\ group[p] # group[q]
    BY <1>1, <1>3, NotBoth DEF Precedes
  <1>4. CASE suite[p] = suite[q] /\ group[p] = group[q]
    BY <1>4 DEF Precedes
  <1> QED
    BY <1>2, <1>3, <1>4

\* A copy that is in order holds no element twice.
LEMMA RearrangedOnce ==
    ASSUME NEW n \in Nat, NEW s, Rearranged(n, s),
           NEW suite, NEW group, Nested(n, suite, group),
           \A i, j \in 1 .. n : i < j => Precedes(suite, group, s[i], s[j])
    PROVE  \A i, j \in 1 .. n : s[i] = s[j] => i = j
  <1> SUFFICES ASSUME NEW i \in 1 .. n, NEW j \in 1 .. n, s[i] = s[j], i < j
               PROVE  FALSE
    OBVIOUS
  <1>1. PICK p \in 1 .. n : p = s[i]
    BY DEF Rearranged
  <1>2. Precedes(suite, group, p, p)
    BY <1>1
  <1> QED
    BY <1>2, PrecedesAsymmetric

\* In a copy that is in order, the place of an element is where it is.
LEMMA PlaceOfSorted ==
    ASSUME LoopTypeOK, CopyInv, mode # "testsuites", SortDone,
           NEW i \in 1 .. Len(input)
    PROVE  Place(sorted[i]) = i
  <1>1. PICK n \in Nat : n = Len(input)
    BY DEF LoopTypeOK
  <1>2. SortInv /\ SortTypeOK /\ Rearranged(n, sorted) /\ Partitioned
    BY <1>1, SortInvPartitioned DEF CopyInv, SortInv
  <1>3. DOMAIN input = 1 .. n /\ DOMAIN sorted = 1 .. n
    BY <1>1, <1>2, Lengths
  <1>4. PICK s \in [1 .. n -> 1 .. n], suite \in {SuiteAt}, group \in {GroupAt} :
          s = sorted /\ Nested(n, suite, group)
    BY <1>1, <1>2, Keys DEF Rearranged
  <1>5. /\ \A j, k \in 1 .. n : j < k => Precedes(suite, group, s[j], s[k])
        /\ \A p \in 1 .. n : \E k \in 1 .. n : s[k] = p
        /\ Rearranged(n, s)
    <2>1. \A j, k \in 1 .. n : j < k => Precedes(SuiteAt, GroupAt, sorted[j], sorted[k])
      BY <1>2, <1>3 DEF Partitioned
    <2>2. \A j, k \in 1 .. n : j < k => Precedes(suite, group, s[j], s[k])
      BY <1>4, <2>1, Zenon
    <2>3. Rearranged(n, s)
      BY <1>2, <1>4, Zenon
    <2> QED
      BY <2>2, <2>3 DEF Rearranged
  <1>6. \A j, k \in 1 .. n : s[j] = s[k] => j = k
    BY <1>4, <1>5, RearrangedOnce
  <1> DEFINE before == {q \in 1 .. n : Precedes(suite, group, q, s[i])}
  <1>7. Preceding(sorted[i]) = before
    BY <1>3, <1>4 DEF Preceding
  <1>8. i \in 1 .. n
    BY <1>1
  <1>9. ASSUME NEW j \in 1 .. (i - 1) PROVE s[j] \in before
    <2>1. j \in 1 .. n /\ j < i
      BY <1>8
    <2> QED
      BY <1>5, <1>8, <2>1
  <1>10. ASSUME NEW q \in before PROVE \E j \in 1 .. (i - 1) : s[j] = q
    <2>1. PICK k \in 1 .. n : s[k] = q
      BY <1>5
    <2>2. s[i] \in 1 .. n /\ s[k] \in 1 .. n /\ Precedes(suite, group, s[k], s[i])
      BY <1>8, <2>1
    <2>3. ~(i < k)
      BY <1>4, <1>5, <1>8, <2>2, PrecedesAsymmetric
    <2>4. i # k
      BY <1>4, <2>2, PrecedesAsymmetric
    <2>5. k \in 1 .. (i - 1)
      BY <1>8, <2>3, <2>4
    <2> QED
      BY <2>1, <2>5
  <1> DEFINE f == [j \in 1 .. (i - 1) |-> s[j]]
  <1>11. f \in Bijection(1 .. (i - 1), before)
    <2>1. f \in [1 .. (i - 1) -> before]
      <3> HIDE DEF before
      <3> QED
        BY <1>9
    <2>2. \A j, k \in 1 .. (i - 1) : f[j] = f[k] => j = k
      <3>1. \A j \in 1 .. (i - 1) : j \in 1 .. n
        BY <1>8
      <3> QED
        BY <1>6, <3>1
    <2>3. \A q \in before : \E j \in 1 .. (i - 1) : f[j] = q
      <3> HIDE DEF before
      <3> QED
        BY <1>10
    <2> HIDE DEF f, before
    <2> QED
      BY <2>1, <2>2, <2>3 DEF Bijection, Injection, Surjection, IsInjective
  <1>12. ExistsBijection(1 .. (i - 1), before)
    <2> HIDE DEF f, before
    <2> QED
      BY <1>11 DEF ExistsBijection
  <1>13. IsFiniteSet(1 .. (i - 1)) /\ Cardinality(1 .. (i - 1)) = i - 1
    <2>1. PICK k \in Nat : k = i - 1
      BY <1>8
    <2>2. IsFiniteSet(1 .. k) /\ Cardinality(1 .. k) = IF 1 > k THEN 0 ELSE k - 1 + 1
      BY FS_Interval
    <2>3. Cardinality(1 .. k) = k
      BY <2>2
    <2> QED
      BY <2>1, <2>2, <2>3
  <1>14. Cardinality(before) = i - 1
    <2> HIDE DEF before
    <2> QED
      BY <1>12, <1>13, FS_Bijection
  <1> QED
    BY <1>7, <1>8, <1>14 DEF Place

\* Such a copy is the selection in the promised order.
LEMMA SortedIsRegrouped ==
    ASSUME LoopTypeOK, CopyInv, mode # "testsuites", SortDone
    PROVE  Regrouped = [i \in DOMAIN sorted |-> Item(i)]
  <1>1. PICK n \in Nat : n = Len(input)
    BY DEF LoopTypeOK
  <1>2. SortTypeOK /\ Rearranged(n, sorted)
    BY <1>1 DEF CopyInv, SortInv
  <1>3. DOMAIN input = 1 .. n /\ DOMAIN sorted = 1 .. n
    BY <1>1, <1>2, Lengths
  <1>4. ASSUME NEW i \in 1 .. n
        PROVE  (CHOOSE p \in DOMAIN input : Place(p) = i) = sorted[i]
    <2>1. sorted[i] \in DOMAIN input /\ Place(sorted[i]) = i
      BY <1>1, <1>2, <1>3, PlaceOfSorted DEF Rearranged
    <2>2. ASSUME NEW p \in DOMAIN input, Place(p) = i PROVE p = sorted[i]
      <3>1. PICK k \in 1 .. n : sorted[k] = p
        BY <1>2, <1>3 DEF Rearranged
      <3>2. Place(p) = k
        BY <1>1, <3>1, PlaceOfSorted
      <3> QED
        BY <2>2, <3>1, <3>2
    <2> QED
      BY <2>1, <2>2
  <1>5. \A i \in 1 .. n : input[CHOOSE p \in DOMAIN input : Place(p) = i] = Item(i)
    BY <1>4, Zenon DEF Item
  <1> QED
    BY <1>3, <1>5, Zenon DEF Regrouped

\* What runner_run_tests runs for a test and runner_run_testsuites for a suite,
\* and for a sequence of them.
CasesFor ==
    IF mode = "tests" THEN CasesOf
    ELSE [suite \in Testsuites |-> AllCases(TestsOf[suite])]
Mapped(g, r) == [i \in DOMAIN r |-> g[r[i]]]
AllFor(g, r) == FlattenSeq(Mapped(g, r))
CasesIn(ts) == FlattenSeq([i \in DOMAIN ts |-> ts[i].cases])

\* All they are to run, and what of it they have yet to run of the test and of
\* the suite they are in, and altogether.
Plan == AllFor(CasesFor, [i \in DOMAIN sorted |-> Item(i)])
OfTest == IF pc \in {"testcase", "run", "close_testcase"} THEN cases ELSE <<>>
OfSuite == IF pc \in InTest \union {"test"} THEN CasesIn(tests) ELSE <<>>
Left == OfTest \o (OfSuite \o AllFor(CasesFor, rest))

\* What was run, and what is left, make up the plan, in this order.
PlanInv ==
    mode # "testcases" =>
        /\ pc \in {"call", "sort"} => called = <<>>
        /\ pc \in {"testsuite"} \union InSuite /\ ~faulted => called \o Left = Plan
        /\ pc = "returned" /\ result # -1 =>
             called = Plan /\ (mode = "tests" => SortDone)

\* A sequence of sequences, from a sequence.
Gives(g, S, X) == g \in [S -> Seq(X)]
LEMMA MappedSeq ==
    ASSUME NEW S, NEW X, NEW g, Gives(g, S, X), NEW r \in Seq(S)
    PROVE  /\ Mapped(g, r) \in Seq(Seq(X)) /\ Len(Mapped(g, r)) = Len(r)
           /\ \A i \in 1 .. Len(r) : Mapped(g, r)[i] = g[r[i]]
           /\ AllFor(g, r) \in Seq(X)
  <1>1. PICK n \in Nat : n = Len(r) /\ DOMAIN r = 1 .. n
    OBVIOUS
  <1>2. PICK T : T = Seq(X)
    OBVIOUS
  <1>3. \A i \in 1 .. n : g[r[i]] \in T
    BY <1>1, <1>2 DEF Gives
  <1> DEFINE m == [i \in 1 .. n |-> g[r[i]]]
  <1>4. m \in Seq(T) /\ Len(m) = n /\ \A i \in 1 .. n : m[i] = g[r[i]]
    BY <1>3
  <1>5. Mapped(g, r) = m
    BY <1>1 DEF Mapped
  <1>6. AllFor(g, r) \in Seq(X)
    <2>1. AllFor(g, r) = FlattenSeq(m)
      BY <1>5 DEF AllFor
    <2> HIDE DEF m
    <2>2. m \in Seq(Seq(X))
      BY <1>2, <1>4
    <2> QED
      BY <2>1, <2>2, FlatType
  <1> QED
    BY <1>1, <1>2, <1>4, <1>5, <1>6

\* The first n and the others.
LEMMA AllForSplit ==
    ASSUME NEW S, NEW X, NEW g, Gives(g, S, X), NEW r \in Seq(S),
           NEW n \in 1 .. Len(r)
    PROVE  AllFor(g, r) = AllFor(g, SubSeq(r, 1, n))
                            \o AllFor(g, SubSeq(r, n + 1, Len(r)))
  <1>1. PICK r1 \in Seq(S), r2 \in Seq(S) :
          /\ r1 = SubSeq(r, 1, n) /\ r2 = SubSeq(r, n + 1, Len(r))
          /\ Len(r1) = n /\ \A i \in 1 .. n : r1[i] = r[i]
          /\ Len(r2) = Len(r) - n /\ \A i \in 1 .. (Len(r) - n) : r2[i] = r[n + i]
    <2>1. /\ SubSeq(r, 1, n) \in Seq(S) /\ Len(SubSeq(r, 1, n)) = n
          /\ \A i \in 1 .. n : SubSeq(r, 1, n)[i] = r[i]
          /\ SubSeq(r, n + 1, Len(r)) \in Seq(S)
          /\ Len(SubSeq(r, n + 1, Len(r))) = Len(r) - n
          /\ \A i \in 1 .. (Len(r) - n) : SubSeq(r, n + 1, Len(r))[i] = r[n + i]
      BY Prefix
    <2> QED
      BY <2>1, Zenon
  <1>2. PICK c \in Seq(Seq(X)) :
          /\ c = Mapped(g, r)
          /\ Len(c) = Len(r) /\ \A i \in 1 .. Len(r) : c[i] = g[r[i]]
    <2>1. /\ Mapped(g, r) \in Seq(Seq(X)) /\ Len(Mapped(g, r)) = Len(r)
          /\ \A i \in 1 .. Len(r) : Mapped(g, r)[i] = g[r[i]]
      BY MappedSeq
    <2> QED
      BY <2>1, Zenon
  <1>3. PICK a \in Seq(Seq(X)) :
          /\ a = Mapped(g, r1)
          /\ Len(a) = Len(r1) /\ \A i \in 1 .. Len(r1) : a[i] = g[r1[i]]
    <2>1. /\ Mapped(g, r1) \in Seq(Seq(X)) /\ Len(Mapped(g, r1)) = Len(r1)
          /\ \A i \in 1 .. Len(r1) : Mapped(g, r1)[i] = g[r1[i]]
      BY MappedSeq
    <2> QED
      BY <2>1, Zenon
  <1>4. PICK b \in Seq(Seq(X)) :
          /\ b = Mapped(g, r2)
          /\ Len(b) = Len(r2) /\ \A i \in 1 .. Len(r2) : b[i] = g[r2[i]]
    <2>1. /\ Mapped(g, r2) \in Seq(Seq(X)) /\ Len(Mapped(g, r2)) = Len(r2)
          /\ \A i \in 1 .. Len(r2) : Mapped(g, r2)[i] = g[r2[i]]
      BY MappedSeq
    <2> QED
      BY <2>1, Zenon
  <1>5. PICK l \in Nat, k \in Nat : l = Len(r) /\ k = l - n /\ n \in Nat
    OBVIOUS
  <1>6. /\ Len(c) = l /\ Len(a) = n /\ Len(b) = k
        /\ \A i \in 1 .. n : i \in 1 .. l
        /\ \A i \in 1 .. k : n + i \in 1 .. l
        /\ l = n + k
    <2>1. Len(c) = l /\ Len(a) = n /\ Len(b) = k
      BY <1>1, <1>2, <1>3, <1>4, <1>5
    <2>2. n \in 1 .. l
      BY <1>5
    <2> QED
      BY <1>5, <2>1, <2>2
  <1>7. \A i \in 1 .. n : c[i] = a[i]
    BY <1>1, <1>2, <1>3, <1>5, <1>6
  <1>8. \A i \in 1 .. k : c[n + i] = b[i]
    <2> SUFFICES ASSUME NEW i \in 1 .. k PROVE c[n + i] = b[i]
      OBVIOUS
    <2>1. n + i \in 1 .. l /\ i \in 1 .. (Len(r) - n) /\ i \in 1 .. Len(r2)
      BY <1>1, <1>5, <1>6
    <2>2. c[n + i] = g[r[n + i]] /\ r2[i] = r[n + i] /\ b[i] = g[r2[i]]
      BY <1>1, <1>2, <1>4, <1>5, <2>1
    <2> QED
      BY <2>2
  <1>9. IsJoined(c, a, b)
    BY <1>6, <1>7, <1>8 DEF IsJoined
  <1>10. FlattenSeq(c) = FlattenSeq(a) \o FlattenSeq(b)
    BY <1>9, FlattenJoined
  <1> QED
    BY <1>1, <1>2, <1>3, <1>4, <1>10 DEF AllFor

\* Nothing is run for nothing.
LEMMA AllForNothing == \A g : AllFor(g, <<>>) = <<>>
  <1> SUFFICES ASSUME NEW g PROVE AllFor(g, <<>>) = <<>>
    OBVIOUS
  <1>1. Mapped(g, <<>>) = <<>>
    BY DEF Mapped
  <1>2. FlattenSeq(<<>>) = <<>>
    BY DEF FlattenSeq
  <1> QED
    BY <1>1, <1>2 DEF AllFor

LEMMA CasesForType ==
    ASSUME mode \in {"tests", "testsuites"}
    PROVE  Gives(CasesFor, Selections(mode), Testcases)
  <1>1. CasesOf \in [Tests -> Seq(Testcases)] /\ TestsOf \in [Testsuites -> Seq(Tests)]
    BY UtilsAssumption
  <1>2. CASE mode = "tests"
    BY <1>1, <1>2 DEF Gives, CasesFor, Selections
  <1>3. CASE mode = "testsuites"
    <2>1. ASSUME NEW suite \in Testsuites
          PROVE  AllCases(TestsOf[suite]) \in Seq(Testcases)
      <3>1. PICK ts \in Seq(Tests) : ts = TestsOf[suite]
        BY <1>1
      <3>2. Gives(CasesOf, Tests, Testcases)
        BY <1>1 DEF Gives
      <3>3. AllFor(CasesOf, ts) \in Seq(Testcases)
        BY <3>2, MappedSeq
      <3> QED
        BY <3>1, <3>3 DEF AllFor, Mapped, AllCases
    <2> QED
      BY <1>3, <2>1 DEF Gives, CasesFor, Selections
  <1> QED
    BY <1>2, <1>3

\* The same of the tests that are left of a suite, with their test cases.
LEMMA CasesInType ==
    ASSUME NEW ts \in Seq([test : Tests, cases : Seq(Testcases)])
    PROVE  /\ [i \in DOMAIN ts |-> ts[i].cases] \in Seq(Seq(Testcases))
           /\ Len([i \in DOMAIN ts |-> ts[i].cases]) = Len(ts)
           /\ \A i \in 1 .. Len(ts) : [j \in DOMAIN ts |-> ts[j].cases][i] = ts[i].cases
           /\ CasesIn(ts) \in Seq(Testcases)
  <1>1. PICK n \in Nat : n = Len(ts) /\ DOMAIN ts = 1 .. n
    OBVIOUS
  <1>2. PICK T : T = Seq(Testcases)
    OBVIOUS
  <1>3. \A i \in 1 .. n : ts[i].cases \in T
    <2>1. PICK R : R = [test : Tests, cases : T]
      OBVIOUS
    <2>2. ts \in Seq(R)
      BY <1>2, <2>1, Zenon
    <2>3. \A i \in 1 .. n : ts[i] \in R
      BY <1>1, <2>2, ElementOfSeq
    <2> QED
      BY <2>1, <2>3
  <1> DEFINE m == [i \in 1 .. n |-> ts[i].cases]
  <1>4. m \in Seq(T) /\ Len(m) = n /\ \A i \in 1 .. n : m[i] = ts[i].cases
    BY <1>3
  <1>5. [i \in DOMAIN ts |-> ts[i].cases] = m
    BY <1>1
  <1>6. CasesIn(ts) \in Seq(Testcases)
    <2>1. CasesIn(ts) = FlattenSeq(m)
      BY <1>5 DEF CasesIn
    <2> HIDE DEF m
    <2>2. m \in Seq(Seq(Testcases))
      BY <1>2, <1>4
    <2> QED
      BY <2>1, <2>2, FlatType
  <1> QED
    BY <1>1, <1>2, <1>4, <1>5, <1>6

LEMMA CasesInSplit ==
    ASSUME NEW ts \in Seq([test : Tests, cases : Seq(Testcases)]), ts # <<>>
    PROVE  CasesIn(ts) = Head(ts).cases \o CasesIn(Tail(ts))
  <1> DEFINE T == [test : Tests, cases : Seq(Testcases)]
  <1>1. PICK n \in Nat \ {0}, rs \in Seq(T) :
          /\ n = Len(ts) /\ rs = Tail(ts) /\ Len(rs) = n - 1
          /\ Head(ts) = ts[1] /\ ts[1] \in T
          /\ \A i \in 1 .. (n - 1) : rs[i] = ts[i + 1]
    <2>1. ts \in Seq(T)
      OBVIOUS
    <2> HIDE DEF T
    <2>2. /\ Len(ts) \in Nat \ {0} /\ Tail(ts) \in Seq(T)
          /\ Len(Tail(ts)) = Len(ts) - 1 /\ Head(ts) = ts[1] /\ ts[1] \in T
          /\ \A i \in 1 .. (Len(ts) - 1) : Tail(ts)[i] = ts[i + 1]
      BY <2>1, HeadTailProperties
    <2> QED
      BY <2>2
  <1>2. PICK c \in Seq(Seq(Testcases)) :
          /\ c = [i \in DOMAIN ts |-> ts[i].cases]
          /\ Len(c) = Len(ts) /\ \A i \in 1 .. Len(ts) : c[i] = ts[i].cases
    BY CasesInType
  <1>3. PICK b \in Seq(Seq(Testcases)) :
          /\ b = [i \in DOMAIN rs |-> rs[i].cases]
          /\ Len(b) = Len(rs) /\ \A i \in 1 .. Len(rs) : b[i] = rs[i].cases
    BY CasesInType
  <1>4. PICK cs \in Seq(Testcases) : cs = ts[1].cases
    BY <1>1
  <1>5. PICK a \in Seq(Seq(Testcases)) : a = <<cs>> /\ Len(a) = 1 /\ a[1] = cs
    <2>1. PICK X : X = Seq(Testcases) /\ cs \in X
      OBVIOUS
    <2>2. <<cs>> \in Seq(X) /\ Len(<<cs>>) = 1 /\ <<cs>>[1] = cs
      BY <2>1
    <2> QED
      BY <2>1, <2>2
  <1>6. /\ Len(c) = n /\ Len(b) = n - 1 /\ Len(c) = Len(a) + Len(b)
        /\ 1 \in 1 .. n
    <2>1. Len(c) = n /\ Len(b) = n - 1 /\ Len(a) = 1
      BY <1>1, <1>2, <1>3, <1>5
    <2>2. 1 + (n - 1) = n /\ 1 \in 1 .. n
      OBVIOUS
    <2> QED
      BY <2>1, <2>2
  <1>7. \A i \in 1 .. 1 : c[i] = a[i]
    BY <1>1, <1>2, <1>4, <1>5, <1>6
  <1>8. \A i \in 1 .. (n - 1) : c[1 + i] = b[i]
    <2> SUFFICES ASSUME NEW i \in 1 .. (n - 1) PROVE c[1 + i] = b[i]
      OBVIOUS
    <2>1. 1 + i = i + 1 /\ i + 1 \in 1 .. n
      OBVIOUS
    <2> QED
      BY <1>1, <1>2, <1>3, <2>1
  <1>9. IsJoined(c, a, b)
    BY <1>5, <1>6, <1>7, <1>8 DEF IsJoined
  <1>10. FlattenSeq(c) = FlattenSeq(a) \o FlattenSeq(b)
    BY <1>9, FlattenJoined
  <1>11. FlattenSeq(a) = cs
    BY <1>5, FlattenOne
  <1> QED
    BY <1>1, <1>2, <1>3, <1>4, <1>10, <1>11 DEF CasesIn

\* What a round is to run is what is run for the elements it takes.
LEMMA RoundCases ==
    ASSUME LoopTypeOK, rest # <<>>, mode # "testcases"
    PROVE  CasesIn(Round.tests) = AllFor(CasesFor, SubSeq(rest, 1, Round.taken))
  <1>1. ASSUME NEW ts \in Seq(Tests)
        PROVE  CasesIn(WithCases(ts)) = AllFor(CasesOf, ts)
    <2>1. DOMAIN WithCases(ts) = DOMAIN ts
      BY DEF WithCases
    <2>2. \A i \in DOMAIN ts : WithCases(ts)[i].cases = CasesOf[ts[i]]
      BY DEF WithCases
    <2>3. [i \in DOMAIN WithCases(ts) |-> WithCases(ts)[i].cases]
            = [i \in DOMAIN ts |-> CasesOf[ts[i]]]
      BY <2>1, <2>2
    <2> QED
      BY <2>3 DEF CasesIn, AllFor, Mapped
  <1>2. CASE mode = "tests"
    <2>1. rest \in Seq(Tests) /\ Round.taken \in 1 .. Len(rest)
      BY <1>2, RoundProperties DEF LoopTypeOK, Selections
    <2>2. Round.tests = WithCases(SubSeq(rest, 1, Round.taken))
      BY <1>2 DEF Round
    <2>3. PICK n \in 1 .. Len(rest) : n = Round.taken
      BY <2>1
    <2>4. SubSeq(rest, 1, n) \in Seq(Tests)
      BY <2>1, Prefix
    <2>5. CasesFor = CasesOf
      BY <1>2 DEF CasesFor
    <2> QED
      BY <1>1, <2>2, <2>3, <2>4, <2>5
  <1>3. CASE mode = "testsuites"
    <2>1. rest \in Seq(Testsuites) /\ 1 \in 1 .. Len(rest)
      BY <1>3 DEF LoopTypeOK, Selections
    <2>2. PICK suite \in Testsuites : suite = rest[1]
      BY <2>1
    <2>3. TestsOf[suite] \in Seq(Tests)
      BY UtilsAssumption
    <2>4. Round.tests = WithCases(TestsOf[suite]) /\ Round.taken = 1
      BY <1>3, <2>2 DEF Round
    <2>5. CasesFor[suite] = AllCases(TestsOf[suite])
      BY <1>3 DEF CasesFor
    <2>6. AllCases(TestsOf[suite]) = AllFor(CasesOf, TestsOf[suite])
      BY DEF AllCases, AllFor, Mapped
    <2>7. PICK r \in Seq(Testsuites) : /\ r = SubSeq(rest, 1, 1)
                                       /\ Len(r) = 1 /\ r[1] = suite
      <3>1. /\ SubSeq(rest, 1, 1) \in Seq(Testsuites) /\ Len(SubSeq(rest, 1, 1)) = 1
            /\ \A i \in 1 .. 1 : SubSeq(rest, 1, 1)[i] = rest[i]
        BY <2>1, Prefix
      <3>2. SubSeq(rest, 1, 1)[1] = suite
        BY <2>2, <3>1
      <3> QED
        BY <3>1, <3>2, Zenon
    <2>8. PICK m : /\ m = Mapped(CasesFor, r)
                   /\ Len(m) = 1 /\ m[1] = CasesFor[suite]
      <3>1. DOMAIN r = 1 .. 1
        BY <2>7
      <3>2. PICK x : x = CasesFor[suite]
        OBVIOUS
      <3>3. Mapped(CasesFor, r) = [i \in 1 .. 1 |-> x]
        BY <2>7, <3>1, <3>2 DEF Mapped
      <3>4. Len([i \in 1 .. 1 |-> x]) = 1 /\ [i \in 1 .. 1 |-> x][1] = x
        OBVIOUS
      <3> QED
        BY <3>2, <3>3, <3>4
    <2>9. AllFor(CasesFor, r) = CasesFor[suite]
      BY <2>8, FlattenOne DEF AllFor
    <2> QED
      BY <1>1, <2>3, <2>4, <2>5, <2>6, <2>7, <2>9
  <1> QED
    BY <1>2, <1>3 DEF LoopTypeOK

\* The parts of what is left are sequences of test cases.
LEMMA PartsType ==
    ASSUME LoopTypeOK, mode # "testcases"
    PROVE  /\ OfTest \in Seq(Testcases) /\ OfSuite \in Seq(Testcases)
           /\ AllFor(CasesFor, rest) \in Seq(Testcases)
           /\ OfSuite \o AllFor(CasesFor, rest) \in Seq(Testcases)
           /\ Left \in Seq(Testcases)
  <1>1. <<>> \in Seq(Testcases) /\ cases \in Seq(Testcases)
    BY DEF LoopTypeOK
  <1>2. CasesIn(tests) \in Seq(Testcases)
    BY CasesInType DEF LoopTypeOK
  <1>3. AllFor(CasesFor, rest) \in Seq(Testcases)
    <2>1. Gives(CasesFor, Selections(mode), Testcases)
      BY CasesForType DEF LoopTypeOK
    <2>2. PICK S : S = Selections(mode) /\ rest \in Seq(S)
      BY DEF LoopTypeOK
    <2> QED
      BY <2>1, <2>2, MappedSeq
  <1>4. OfTest \in Seq(Testcases) /\ OfSuite \in Seq(Testcases)
    BY <1>1, <1>2 DEF OfTest, OfSuite
  <1>5. PICK a \in Seq(Testcases), b \in Seq(Testcases), c \in Seq(Testcases) :
          a = OfTest /\ b = OfSuite /\ c = AllFor(CasesFor, rest)
    BY <1>3, <1>4
  <1>6. b \o c \in Seq(Testcases)
    BY ConcatProperties
  <1>7. a \o (b \o c) \in Seq(Testcases)
    BY <1>6, ConcatProperties
  <1> QED
    BY <1>3, <1>4, <1>5, <1>6, <1>7 DEF Left

\* The plan depends on the selection and on the copy only.
LEMMA PlanFixed ==
    ASSUME UNCHANGED <<mode, input, sorted>>
    PROVE  CasesFor' = CasesFor /\ Plan' = Plan
  <1>1. CasesFor' = CasesFor
    BY DEF CasesFor
  <1>2. \A i : Item(i)' = Item(i)
    BY KeysFixed
  <1>3. [i \in DOMAIN sorted |-> Item(i)]' = [i \in DOMAIN sorted |-> Item(i)]
    BY <1>2
  <1> QED
    BY <1>1, <1>3 DEF Plan

\* The functions run what is left, one after the other.
LEMMA PlanStep ==
    ASSUME UtilsInv, mode # "testcases", mode = "tests" => RestInv, PlanInv,
           [Next]_utilVars
    PROVE  PlanInv'
  <1>1. /\ LoopTypeOK /\ CopyInv /\ FaultInv /\ called \in Seq(Testcases)
        /\ cases \in Seq(Testcases)
        /\ tests \in Seq([test : Tests, cases : Seq(Testcases)])
    BY DEF UtilsInv, TypeOK, LoopTypeOK, HistoryTypeOK
  <1>2. /\ OfTest \in Seq(Testcases) /\ OfSuite \in Seq(Testcases)
        /\ AllFor(CasesFor, rest) \in Seq(Testcases)
        /\ OfSuite \o AllFor(CasesFor, rest) \in Seq(Testcases)
        /\ Left \in Seq(Testcases)
    BY <1>1, PartsType
  <1>3. ASSUME ~Sort
        PROVE  /\ UNCHANGED mode /\ SortDone' = SortDone
               /\ CasesFor' = CasesFor /\ Plan' = Plan
    <2>1. UNCHANGED <<mode, input, sorted, loop, write>>
      BY <1>3, CopyFixed
    <2> QED
      BY <2>1, PlanFixed DEF SortDone, Size
  <1>4. CASE Call \/ Sort
    <2>1. /\ called = <<>> /\ called' = <<>> /\ pc' \in {"sort", "returned"}
          /\ pc' = "returned" => result' = -1
      BY <1>4 DEF Call, Sort, PlanInv, history
    <2> QED
      BY <2>1 DEF PlanInv, InSuite, InTest
  <1>5. CASE BeginLoop
    <2>1. /\ pc = "sort" /\ pc' = "testsuite" /\ ~Sort /\ called' = <<>>
          /\ rest' = [i \in DOMAIN sorted |-> Item(i)]
      BY <1>5 DEF BeginLoop, Sort, NeedsSort, PlanInv, history
    <2>2. OfTest' = <<>> /\ OfSuite' = <<>>
      BY <2>1 DEF OfTest, OfSuite, InTest
    <2>3. AllFor(CasesFor, rest)' = Plan
      BY <1>3, <2>1 DEF Plan
    <2>4. Plan \in Seq(Testcases)
      <3>1. Gives(CasesFor, Selections(mode), Testcases)
        BY <1>1, CasesForType DEF LoopTypeOK
      <3>2. PICK S, r : /\ S = Selections(mode) /\ r \in Seq(S)
                        /\ r = [i \in DOMAIN sorted |-> Item(i)]
        BY <1>1, CopyOfSelection
      <3>3. AllFor(CasesFor, r) \in Seq(Testcases)
        BY <3>1, <3>2, MappedSeq
      <3> QED
        BY <3>2, <3>3 DEF Plan
    <2>5. Left' = <<>> \o (<<>> \o Plan)
      BY <2>2, <2>3 DEF Left
    <2>6. called' \o Left' = Plan
      BY <2>1, <2>4, <2>5, ConcatEmptySeq
    <2> QED
      BY <1>3, <2>1, <2>6 DEF PlanInv
  \* where nothing is called, what is left stays the same
  <1>6. ASSUME ~Sort, UNCHANGED called, pc \in {"testsuite"} \union InSuite,
               pc' \in {"testsuite", "return"} \union InSuite,
               pc' # "return" /\ ~faulted' => ~faulted /\ Left' = Left
        PROVE  PlanInv'
    <2>1. pc' \in {"testsuite"} \union InSuite /\ ~faulted' => called' \o Left' = Plan'
      BY <1>3, <1>6 DEF PlanInv, InSuite, InTest
    <2>2. pc' \notin {"call", "sort", "returned"}
      BY <1>6 DEF InSuite, InTest
    <2> QED
      BY <2>1, <2>2 DEF PlanInv
  <1>7. CASE OpenTestsuite
    <2>1. /\ pc = "testsuite" /\ rest # <<>> /\ ~Sort /\ UNCHANGED called
          /\ \/ /\ rest' = SubSeq(rest, Round.taken + 1, Len(rest))
                /\ tests' = Round.tests /\ pc' = "test"
             \/ pc' = "return"
      BY <1>7 DEF OpenTestsuite, Sort
    <2>2. CASE pc' = "return"
      BY <1>6, <2>1, <2>2
    <2>3. CASE pc' = "test"
      <3>1. PICK S, r, g : /\ S = Selections(mode) /\ r \in Seq(S) /\ r = rest
                           /\ g = CasesFor /\ Gives(g, S, Testcases)
        BY <1>1, CasesForType DEF LoopTypeOK
      <3>2. PICK n \in 1 .. Len(r) : n = Round.taken
        BY <1>1, <2>1, <3>1, RoundProperties
      <3>3. AllFor(g, r) = AllFor(g, SubSeq(r, 1, n))
                             \o AllFor(g, SubSeq(r, n + 1, Len(r)))
        BY <3>1, AllForSplit
      <3>4. CasesIn(Round.tests) = AllFor(g, SubSeq(r, 1, n))
        BY <1>1, <2>1, <3>1, <3>2, RoundCases
      <3>5. /\ OfTest' = <<>> /\ OfSuite' = CasesIn(Round.tests)
            /\ OfTest = <<>> /\ OfSuite = <<>>
        BY <2>1, <2>3 DEF OfTest, OfSuite, InTest
      <3>6. AllFor(CasesFor, rest)' = AllFor(g, SubSeq(r, n + 1, Len(r)))
        BY <1>3, <2>1, <2>3, <3>1, <3>2
      <3>7. Left' = <<>> \o AllFor(g, r) /\ Left = <<>> \o (<<>> \o AllFor(g, r))
        BY <3>1, <3>3, <3>4, <3>5, <3>6 DEF Left
      <3>8. AllFor(g, r) \in Seq(Testcases)
        BY <1>2, <3>1
      <3>9. Left' = Left
        BY <3>7, <3>8, ConcatEmptySeq
      <3>10. ~faulted
        BY <1>1, <2>1 DEF FaultInv
      <3> QED
        BY <1>6, <2>1, <2>3, <3>9, <3>10 DEF InSuite
    <2> QED
      BY <2>1, <2>2, <2>3
  <1>8. CASE OpenTest
    <2>1. /\ pc = "test" /\ tests # <<>> /\ ~Sort /\ UNCHANGED <<called, rest>>
          /\ \/ /\ pc' = "testcase" /\ cases' = Head(tests).cases
                /\ tests' = Tail(tests)
             \/ pc' = "close_testsuite" /\ faulted'
      <3>1. SuiteOf[Head(tests).test] = testsuiteReporter
        BY <1>8, NeverRefused DEF OpenTest
      <3> QED
        BY <1>8, <3>1, Zenon DEF OpenTest, Faulted, Sort
    <2>2. CASE pc' = "close_testsuite"
      BY <1>6, <2>1, <2>2 DEF InSuite
    <2>3. CASE pc' = "testcase"
      <3>1. /\ OfTest = <<>> /\ OfSuite = CasesIn(tests)
            /\ OfTest' = Head(tests).cases /\ OfSuite' = CasesIn(Tail(tests))
            /\ AllFor(CasesFor, rest)' = AllFor(CasesFor, rest)
        BY <1>3, <2>1, <2>3 DEF OfTest, OfSuite, InTest
      <3>2. /\ CasesIn(tests) = Head(tests).cases \o CasesIn(Tail(tests))
            /\ Head(tests).cases \in Seq(Testcases)
            /\ CasesIn(Tail(tests)) \in Seq(Testcases)
        <4>1. PICK T : T = [test : Tests, cases : Seq(Testcases)]
          OBVIOUS
        <4>2. tests \in Seq(T)
          BY <1>1, <4>1, Zenon
        <4>3. Head(tests) \in T /\ Tail(tests) \in Seq(T)
          BY <2>1, <4>2, HeadTailProperties
        <4>4. Tail(tests) \in Seq([test : Tests, cases : Seq(Testcases)])
          BY <4>1, <4>3, Zenon
        <4>5. CasesIn(Tail(tests)) \in Seq(Testcases)
          BY <4>4, CasesInType
        <4> QED
          BY <1>1, <2>1, <4>1, <4>3, <4>5, CasesInSplit
      <3>3. PICK a \in Seq(Testcases), b \in Seq(Testcases), c \in Seq(Testcases) :
              /\ a = Head(tests).cases /\ b = CasesIn(Tail(tests))
              /\ c = AllFor(CasesFor, rest)
        BY <1>2, <3>2
      <3>4. Left = <<>> \o ((a \o b) \o c) /\ Left' = a \o (b \o c)
        BY <3>1, <3>2, <3>3 DEF Left
      <3>5. (a \o b) \o c = a \o (b \o c) /\ a \o (b \o c) \in Seq(Testcases)
        BY ConcatAssociative, ConcatProperties
      <3>6. Left' = Left
        BY <3>4, <3>5, ConcatEmptySeq
      <3>7. ~faulted
        BY <1>1, <2>1 DEF FaultInv
      <3> QED
        BY <1>6, <2>1, <2>3, <3>6, <3>7 DEF InSuite, InTest
    <2> QED
      BY <2>1, <2>2, <2>3
  <1>9. CASE OpenTestcase
    <2>1. /\ pc = "testcase" /\ cases # <<>> /\ ~Sort /\ UNCHANGED <<rest, tests>>
          /\ \/ /\ pc' = "run" /\ cases' = Tail(cases)
                /\ called' = Append(called, Head(cases))
             \/ pc' = "close_test" /\ faulted' /\ UNCHANGED called
      <3>1. TestOf[Head(cases)] = testReporter
        BY <1>9, NeverRefused DEF OpenTestcase
      <3> QED
        BY <1>9, <3>1, Zenon DEF OpenTestcase, Faulted, Sort
    <2>2. CASE pc' = "close_test"
      BY <1>6, <2>1, <2>2 DEF InSuite, InTest
    <2>3. CASE pc' = "run"
      <3>1. /\ OfTest = cases /\ OfTest' = Tail(cases) /\ OfSuite' = OfSuite
            /\ AllFor(CasesFor, rest)' = AllFor(CasesFor, rest) /\ ~faulted
        BY <1>1, <1>3, <2>1, <2>3 DEF OfTest, OfSuite, InTest, FaultInv
      <3>2. /\ Head(cases) \in Testcases /\ Tail(cases) \in Seq(Testcases)
            /\ cases = <<Head(cases)>> \o Tail(cases)
        BY <1>1, <2>1, HeadTailProperties
      <3>3. PICK e \in Testcases, a \in Seq(Testcases), b \in Seq(Testcases),
                 d \in Seq(Testcases) :
              /\ e = Head(cases) /\ a = Tail(cases) /\ d = called
              /\ b = OfSuite \o AllFor(CasesFor, rest)
        BY <1>1, <1>2, <3>2
      <3>4. Left = (<<e>> \o a) \o b /\ Left' = a \o b /\ called' = Append(d, e)
        BY <2>1, <2>3, <3>1, <3>2, <3>3 DEF Left
      <3>5. Append(d, e) \o (a \o b) = d \o ((<<e>> \o a) \o b)
        <4>1. /\ <<e>> \in Seq(Testcases) /\ a \o b \in Seq(Testcases)
          BY ConcatProperties
        <4>2. Append(d, e) = d \o <<e>>
          BY AppendIsConcat
        <4>3. (<<e>> \o a) \o b = <<e>> \o (a \o b)
          BY <4>1, ConcatAssociative
        <4>4. (d \o <<e>>) \o (a \o b) = d \o (<<e>> \o (a \o b))
          BY <4>1, ConcatAssociative
        <4> QED
          BY <4>2, <4>3, <4>4
      <3>6. called \o Left = Plan
        BY <2>1, <3>1 DEF PlanInv, InSuite, InTest
      <3>7. called' \o Left' = Plan'
        BY <1>3, <2>1, <3>3, <3>4, <3>5, <3>6
      <3> QED
        BY <2>3, <3>7 DEF PlanInv
    <2> QED
      BY <2>1, <2>2, <2>3
  <1>10. CASE RunTestcase \/ CloseTestcase
    <2>1. /\ pc \in {"run", "close_testcase"} /\ ~Sort
          /\ UNCHANGED <<called, rest, cases, tests>>
          /\ pc' \in {"run", "close_testcase", "testcase", "close_test"}
          /\ ~faulted' => ~faulted /\ pc' # "close_test"
      <3>1. CASE RunTestcase
        <4>1. ~faulted
          BY <1>1, <3>1 DEF RunTestcase, FaultInv
        <4> QED
          BY <3>1, <4>1 DEF RunTestcase, Sort
      <3>2. CASE CloseTestcase
        <4>1. rc \in Nat \union {-1} /\ (faulted <=> rc = -1)
          BY <1>1, <3>2 DEF CloseTestcase, FaultInv, UtilsInv, TypeOK, CountsTypeOK
        <4>2. ~faulted => ~(rc < 0)
          BY <4>1
        <4>3. faulted' = faulted
          BY <3>2 DEF CloseTestcase
        <4> QED
          BY <3>2, <4>2, <4>3 DEF CloseTestcase, Error, Sort
      <3> QED
        BY <1>10, <3>1, <3>2
    <2>2. pc' # "close_test" => OfTest' = OfTest /\ OfSuite' = OfSuite
      BY <2>1 DEF OfTest, OfSuite, InTest
    <2>3. AllFor(CasesFor, rest)' = AllFor(CasesFor, rest)
      BY <1>3, <2>1
    <2>4. ~faulted' => ~faulted /\ Left' = Left
      BY <2>1, <2>2, <2>3 DEF Left
    <2> QED
      BY <1>6, <2>1, <2>4 DEF InSuite, InTest
  <1>11. CASE TestDone \/ CloseTest \/ TestsuiteDone \/ CloseTestsuite
    <2>1. /\ pc \in {"testcase", "close_test", "test", "close_testsuite"} /\ ~Sort
          /\ UNCHANGED <<called, rest, tests, faulted>>
          /\ pc = "testcase" => cases = <<>> /\ pc' = "close_test"
          /\ pc = "close_test" => pc' \in {"test", "close_testsuite"}
          /\ pc = "test" => tests = <<>> /\ pc' = "close_testsuite"
          /\ pc = "close_testsuite" => pc' \in {"testsuite", "return"}
      BY <1>11 DEF TestDone, CloseTest, TestsuiteDone, CloseTestsuite, Sort, history
    <2>2. ~faulted /\ pc = "close_test" => pc' = "test"
      <3> SUFFICES ASSUME ~faulted, CloseTest PROVE pc' = "test"
        BY <1>11 DEF TestDone, TestsuiteDone, CloseTestsuite
      <3>1. rc \in Nat \union {-1} /\ (faulted <=> rc = -1)
        BY <1>1 DEF CloseTest, FaultInv, UtilsInv, TypeOK, CountsTypeOK
      <3>2. ~(rc < 0)
        BY <3>1
      <3> QED
        BY <3>2 DEF CloseTest, Error
    <2>3. ~faulted => OfTest' = OfTest
      BY <2>1, <2>2 DEF OfTest
    <2>4. ~faulted => OfSuite' = OfSuite
      <3>1. CasesIn(<<>>) = <<>>
        <4>1. [i \in DOMAIN <<>> |-> <<>>[i].cases] = <<>>
          OBVIOUS
        <4>2. FlattenSeq(<<>>) = <<>>
          BY DEF FlattenSeq
        <4> QED
          BY <4>1, <4>2 DEF CasesIn
      <3> QED
        BY <2>1, <2>2, <3>1 DEF OfSuite, InTest
    <2>5. AllFor(CasesFor, rest)' = AllFor(CasesFor, rest)
      BY <1>3, <2>1
    <2>6. ~faulted' => ~faulted /\ Left' = Left
      BY <2>1, <2>3, <2>4, <2>5 DEF Left
    <2>7. /\ pc \in {"testsuite"} \union InSuite
          /\ pc' \in {"testsuite", "return"} \union InSuite
      BY <2>1 DEF InSuite, InTest
    <2> QED
      BY <1>6, <2>1, <2>6, <2>7
  <1>12. CASE Return
    <2>1. /\ ~Sort /\ UNCHANGED <<called, result>> /\ pc' = "returned"
          /\ \/ pc = "return"
             \/ pc = "testsuite" /\ rest = <<>>
      BY <1>12 DEF Return, Sort, results
    <2>2. ASSUME result # -1
          PROVE  called = Plan /\ (mode = "tests" => SortDone)
      <3>1. pc = "testsuite" /\ rest = <<>> /\ ~faulted
        BY <1>1, <2>1, <2>2 DEF FaultInv
      <3>2. OfTest = <<>> /\ OfSuite = <<>> /\ AllFor(CasesFor, rest) = <<>>
        BY <3>1, AllForNothing DEF OfTest, OfSuite, InTest
      <3>3. Left = <<>>
        <4>1. <<>> \o (<<>> \o <<>>) = <<>>
          OBVIOUS
        <4> QED
          BY <3>2, <4>1 DEF Left
      <3>4. called \o <<>> = Plan
        BY <3>1, <3>3 DEF PlanInv
      <3>5. called = Plan
        BY <1>1, <3>4, ConcatEmptySeq
      <3> QED
        BY <3>1, <3>5 DEF RestInv
    <2> QED
      BY <1>3, <2>1, <2>2 DEF PlanInv, InSuite, InTest
  <1>13. ASSUME ~Sort, UNCHANGED utilVars PROVE PlanInv'
    <2>1. UNCHANGED <<pc, rest, tests, cases, called, result, faulted>>
      BY <1>13 DEF utilVars, history, results
    <2>2. Left' = Left
      BY <1>3, <1>13, <2>1 DEF Left, OfTest, OfSuite
    <2> QED
      BY <1>3, <1>13, <2>1, <2>2 DEF PlanInv
  <1> QED
    BY <1>4, <1>5, <1>7, <1>8, <1>9, <1>10, <1>11, <1>12, <1>13
    DEF Next, Step, Returned

\* The invariant of what is left.
LEMMA PlanInvariance == Spec => []PlanInv
  <1>1. Init => PlanInv
    BY DEF Init, PlanInv, InSuite, InTest
  <1>2. UtilsInv /\ RoundInv /\ PlanInv /\ [Next]_utilVars => PlanInv'
    <2> SUFFICES ASSUME UtilsInv, RoundInv, PlanInv, [Next]_utilVars PROVE PlanInv'
      OBVIOUS
    <2>1. mode' = mode
      BY DEF Next, Step, Call, Sort, BeginLoop, OpenTestsuite, OpenTest,
         OpenTestcase, RunTestcase, CloseTestcase, TestDone, CloseTest,
         TestsuiteDone, CloseTestsuite, Return, Returned, utilVars, call
    <2>2. CASE mode = "testcases"
      BY <2>1, <2>2 DEF PlanInv
    <2>3. CASE mode # "testcases"
      <3>1. mode = "tests" => RestInv
        BY DEF RoundInv
      <3> QED
        BY <2>3, <3>1, PlanStep
    <2> QED
      BY <2>2, <2>3
  <1> QED
    BY <1>1, <1>2, UtilsInvariance, RoundInvariance, PTL DEF Spec

\* The plan is what was promised.
LEMMA PlanIsOrdered ==
    ASSUME LoopTypeOK, CopyInv, mode # "testcases", mode = "tests" => SortDone
    PROVE  Plan = Ordered
  <1>1. CASE mode = "tests"
    <2>1. Regrouped = [i \in DOMAIN sorted |-> Item(i)]
      BY <1>1, SortedIsRegrouped
    <2>2. Plan = AllFor(CasesOf, Regrouped)
      BY <1>1, <2>1 DEF Plan, CasesFor
    <2>3. AllFor(CasesOf, Regrouped) = AllCases(Regrouped)
      BY DEF AllFor, Mapped, AllCases
    <2> QED
      BY <1>1, <2>2, <2>3 DEF Ordered
  <1>2. CASE mode = "testsuites"
    <2>1. /\ input \in Seq(Testsuites) /\ DOMAIN input = 1 .. Len(input)
          /\ \A i \in DOMAIN input : input[i] \in Testsuites
          /\ sorted = [i \in DOMAIN input |-> i]
      BY <1>2 DEF LoopTypeOK, Selections, CopyInv
    <2>2. \A i \in DOMAIN input : Item(i) = input[i]
      BY <2>1 DEF Item
    <2>3. DOMAIN sorted = DOMAIN input
      BY <2>1
    <2>4. [i \in DOMAIN sorted |-> Item(i)] = input
      BY <2>1, <2>2, <2>3
    <2>5. \A i \in DOMAIN input : CasesFor[input[i]] = AllCases(TestsOf[input[i]])
      BY <1>2, <2>1 DEF CasesFor
    <2>6. Mapped(CasesFor, input) = [i \in DOMAIN input |-> AllCases(TestsOf[input[i]])]
      BY <2>5 DEF Mapped
    <2> QED
      BY <1>2, <2>4, <2>6 DEF Plan, AllFor, Ordered
  <1> QED
    BY <1>1, <1>2 DEF LoopTypeOK

\* Whatever is selected, in whichever order and however often: the three
\* functions call run_testcase in the order runner_utils.h promises, leave
\* nothing out before the call they are in, and run all of the selection,
\* each test case as often as it was selected, unless they return an error.
THEOREM AlwaysInOrder == Spec => []InOrder
  <1>1. UtilsInv /\ RoundInv /\ PlanInv => InOrder
    <2> SUFFICES ASSUME UtilsInv, RoundInv, PlanInv
                 PROVE  /\ pc = "run" => IsPrefix(called, Ordered)
                        /\ pc = "returned" /\ result >= 0 => called = Ordered
      BY DEF InOrder
    <2>1. /\ LoopTypeOK /\ CopyInv /\ FaultInv /\ called \in Seq(Testcases)
          /\ input \in Seq(Selections(mode)) /\ result \in Nat \union {-1}
      BY DEF UtilsInv, TypeOK, LoopTypeOK, HistoryTypeOK, CountsTypeOK
    <2>2. pc = "run" => pc \in {"testsuite"} \union InSuite /\ ~faulted
      BY <2>1 DEF FaultInv, InSuite, InTest
    <2>3. mode # "testsuites" /\ pc = "run" => SortDone
      BY <2>2 DEF RoundInv, RestInv
    <2>4. result >= 0 => result # -1
      BY <2>1
    <2>5. CASE mode = "testcases"
      <3>1. /\ Len(called) \in Nat /\ Len(input) \in Nat /\ Len(called) <= Len(input)
            /\ \A i \in 1 .. Len(called) : called[i] = Item(i)
            /\ called # <<>> => SortDone
            /\ pc = "returned" /\ result # -1 => Len(called) = Len(input)
        BY <2>1, <2>5 DEF RoundInv, RunInv
      <3>2. PICK r \in Seq(Testcases) :
              /\ r = [i \in DOMAIN sorted |-> Item(i)] /\ Len(r) = Len(input)
              /\ \A i \in 1 .. Len(input) : r[i] = Item(i)
        <4>1. /\ [i \in DOMAIN sorted |-> Item(i)] \in Seq(Testcases)
              /\ DOMAIN sorted = 1 .. Len(input)
          BY <2>1, <2>5, CopyOfSelection DEF Selections
        <4>2. Len([i \in DOMAIN sorted |-> Item(i)]) = Len(input)
          BY <3>1, <4>1
        <4> QED
          BY <4>1, <4>2
      <3>3. SortDone => Ordered = r
        BY <2>1, <2>5, <3>2, SortedIsRegrouped DEF Ordered
      <3>4. \A i \in 1 .. Len(called) : called[i] = r[i]
        BY <3>1, <3>2
      <3>5. IsPrefix(called, r) /\ (Len(called) = Len(r) => called = r)
        BY <2>1, <3>1, <3>2, <3>4, PrefixAgrees
      <3>6. CASE SortDone
        BY <2>4, <3>1, <3>2, <3>3, <3>5, <3>6
      <3>7. ASSUME ~SortDone, pc = "returned", result >= 0
            PROVE  called = Ordered
        <4>1. called = <<>> /\ Len(input) = 0
          BY <2>4, <3>1, <3>7
        <4>2. input = <<>>
          BY <2>1, <4>1, EmptySeq
        <4>3. Regrouped = <<>>
          BY <4>2 DEF Regrouped
        <4> QED
          BY <2>5, <4>1, <4>3 DEF Ordered
      <3> QED
        BY <2>3, <2>5, <3>6, <3>7
    <2>6. CASE mode # "testcases"
      <3>1. ASSUME pc = "run" PROVE IsPrefix(called, Ordered)
        <4>1. called \o Left = Plan
          BY <2>2, <2>6, <3>1 DEF PlanInv
        <4>2. Plan = Ordered
          BY <2>1, <2>3, <2>6, <3>1, PlanIsOrdered
        <4>3. Left \in Seq(Testcases)
          BY <2>1, <2>6, PartsType
        <4>4. IsPrefix(called, called \o Left)
          BY <2>1, <4>3, PrefixOfJoin
        <4> QED
          BY <4>1, <4>2, <4>4
      <3>2. ASSUME pc = "returned", result >= 0 PROVE called = Ordered
        <4>1. called = Plan /\ (mode = "tests" => SortDone)
          BY <2>4, <2>6, <3>2 DEF PlanInv
        <4> QED
          BY <2>1, <2>6, <4>1, PlanIsOrdered
      <3> QED
        BY <3>1, <3>2
    <2> QED
      BY <2>5, <2>6
  <1> QED
    BY <1>1, UtilsInvariance, RoundInvariance, PlanInvariance, PTL
===============================================================================
