------------------------- MODULE JsonlEngineProofs -------------------------
(***************************************************************************)
(* Proofs about JsonlEngine, for every content, every size of a chunk or a *)
(* fingerprint, every queue and any writes.  What a refresh is classified  *)
(* by is followed through its awaits: a stamp that has not changed since   *)
(* it was looked at (Looked) stands for content that has not (Untouched,   *)
(* BaselineIsOfTheSnapshot), and a file that was only appended to still    *)
(* holds every byte that the engine compares (Undamaged).                  *)
(*                                                                         *)
(* What an operation reads is followed without knowing who writes (Data):  *)
(* as long as the source still has the snapshot's bytes (Intact) all that  *)
(* has been read, indexed and rebuilt is of them, and a source that has    *)
(* lost one never gets it back, so that the snapshot check after the read  *)
(* answers only for bytes that were intact all along.                      *)
(*                                                                         *)
(* What comes first is about the index alone (SegmentIndex), for any bytes *)
(* and any size of a chunk, a segment and the cache.  SplitLines is what   *)
(* the whole file has; an index IsOf the bytes when it agrees with the     *)
(* lines that have ended where it has scanned to.  A chunk that is         *)
(* committed keeps that, wherever it ends, and so does a segment that is   *)
(* rebuilt chunk by chunk (IsLoad) and put in the cache: what is looked up *)
(* in an index is then a line of the file.  Counting up through the bytes  *)
(* of a file, or the lines of a chunk, is done by the least number that is *)
(* not yet in a set (CountingUp).                                          *)
(***************************************************************************)
EXTENDS JsonlEngine, SequenceTheorems, WellFoundedInduction, TLAPS

Bytes == [is: Kinds, at: Nat]

-----------------------------------------------------------------------------
(* Numbers *)

\* A set that has zero and with a number the next one has all up to a bound.
LEMMA CountingUp ==
    ASSUME NEW N \in Nat, NEW S, 0 \in S, \A n \in 0..N : n \in S /\ n < N => n + 1 \in S
    PROVE  \A n \in 0..N : n \in S
<1> DEFINE T == (0..N) \ S
<1> SUFFICES ASSUME T # {} PROVE FALSE
  OBVIOUS
<1>1. T \subseteq Nat
  OBVIOUS
<1>2. PICK m \in T : \A k \in T : ~(k < m)
  <2>1. PICK m \in T : \A k \in T : ~(<<k, m>> \in OpToRel(<, Nat))
    BY <1>1, NatLessThanWellFounded, WFMin
  <2>2. ASSUME NEW k \in T, k < m
        PROVE  FALSE
    <3>1. <<k, m>> \in Nat \X Nat
      BY <1>1
    <3>2. <<k, m>> \in OpToRel(<, Nat)
      BY <2>2, <3>1, Zenon DEF OpToRel
    <3> QED
      BY <2>1, <2>2, <3>2
  <2> QED
    BY <2>2
<1>3. m # 0 /\ m \in Nat /\ m <= N
  BY <1>2
<1>4. m - 1 \in 0..N /\ m - 1 < m /\ m - 1 < N
  BY <1>3
<1>5. m - 1 \in S
  BY <1>2, <1>4
<1>6. (m - 1) + 1 \in S
  BY <1>4, <1>5
<1> QED
  BY <1>2, <1>3, <1>6

-----------------------------------------------------------------------------
(* Ranges of bytes *)

LEMMA BytesInRange ==
    ASSUME NEW S, NEW s \in Seq(S), NEW o \in Nat, NEW l \in Nat,
           o + l <= Len(s)
    PROVE  /\ BytesAt(s, o, l) \in Seq(S)
           /\ Len(BytesAt(s, o, l)) = l
           /\ \A i \in 1..l : BytesAt(s, o, l)[i] = s[o + i]
<1>1. Len(s) \in Nat
  BY LenProperties
<1>2. BytesAt(s, o, l) = SubSeq(s, o + 1, o + l)
  BY <1>1 DEF BytesAt
<1>3. \A i \in o + 1..o + l : s[i] \in S
  BY <1>1, ElementOfSeq
<1> DEFINE r == SubSeq(s, o + 1, o + l)
<1>4. /\ r \in Seq(S)
      /\ Len(r) = IF o + 1 <= o + l THEN (o + l) - (o + 1) + 1 ELSE 0
      /\ \A i \in 1..(o + l) - (o + 1) + 1 : r[i] = s[(o + 1) + i - 1]
  BY <1>3, SubSeqProperties
<1> HIDE DEF r
<1>5. Len(r) = l
  BY <1>4
<1>6. ASSUME NEW i \in 1..l
      PROVE  r[i] = s[o + i]
  <2>1. i \in 1..(o + l) - (o + 1) + 1 /\ (o + 1) + i - 1 = o + i
    OBVIOUS
  <2> QED
    BY <1>4, <2>1
<1> QED
  BY <1>2, <1>4, <1>5, <1>6 DEF r

LEMMA WholeRange ==
    ASSUME NEW S, NEW s \in Seq(S)
    PROVE  BytesAt(s, 0, Len(s)) = s
<1>1. Len(s) \in Nat /\ 0 + Len(s) <= Len(s)
  BY LenProperties
<1>2. /\ BytesAt(s, 0, Len(s)) \in Seq(S)
      /\ Len(BytesAt(s, 0, Len(s))) = Len(s)
      /\ \A i \in 1..Len(s) : BytesAt(s, 0, Len(s))[i] = s[0 + i]
  BY <1>1, BytesInRange
<1> DEFINE r == BytesAt(s, 0, Len(s))
<1>3. ASSUME NEW i \in 1..Len(s)
      PROVE  r[i] = s[i]
  <2>1. 0 + i = i
    OBVIOUS
  <2> QED
    BY <1>2, <2>1
<1>4. r \in Seq(S) /\ Len(r) = Len(s)
  BY <1>2
<1> HIDE DEF r
<1>5. r = s
  BY <1>3, <1>4, SeqEqual
<1> QED
  BY <1>5 DEF r

\* Appending to a file leaves every range that it had.
LEMMA AppendKeepsRange ==
    ASSUME NEW S, NEW s \in Seq(S), NEW b \in S, NEW o \in Nat, NEW l \in Nat,
           o + l <= Len(s)
    PROVE  BytesAt(Append(s, b), o, l) = BytesAt(s, o, l)
<1> DEFINE t == Append(s, b)
<1>1. /\ Len(s) \in Nat
      /\ t \in Seq(S)
      /\ Len(t) = Len(s) + 1
      /\ \A i \in 1..Len(s) : t[i] = s[i]
  BY AppendProperties, LenProperties
<1> HIDE DEF t
<1>2. t \in Seq(S) /\ o + l <= Len(t)
  BY <1>1
<1>3. /\ BytesAt(t, o, l) \in Seq(S)
      /\ Len(BytesAt(t, o, l)) = l
      /\ \A i \in 1..l : BytesAt(t, o, l)[i] = t[o + i]
  BY <1>2, BytesInRange
<1>4. /\ BytesAt(s, o, l) \in Seq(S)
      /\ Len(BytesAt(s, o, l)) = l
      /\ \A i \in 1..l : BytesAt(s, o, l)[i] = s[o + i]
  BY BytesInRange
<1>5. \A i \in 1..l : o + i \in 1..Len(s)
  BY <1>1
<1> DEFINE q == BytesAt(t, o, l)
           r == BytesAt(s, o, l)
<1>6. \A i \in 1..l : q[i] = r[i]
  BY <1>1, <1>3, <1>4, <1>5
<1>7. q \in Seq(S) /\ r \in Seq(S) /\ Len(q) = Len(r) /\ Len(q) = l
  BY <1>3, <1>4
<1> HIDE DEF q, r
<1>8. q = r
  BY <1>6, <1>7, SeqEqual
<1> QED
  BY <1>8 DEF q, r, t
-----------------------------------------------------------------------------
(* The lines of a chunk *)

DelimiterAt(previous, chunk, n) ==
    IF (IF n = 1 THEN previous ELSE chunk[n - 1].is) = "cr" THEN 2 ELSE 1

\* What the n-th byte of a chunk adds to the references before it.
WithByte(refs, base, lineStart, previous, chunk, n) ==
    IF ~IsLineFeed(chunk[n]) THEN refs
    ELSE Append(refs, [start |-> LineStartAfter(refs, lineStart),
                       end |-> base + n - DelimiterAt(previous, chunk, n),
                       delimiter |-> DelimiterAt(previous, chunk, n)])

Scans(f, m, base, lineStart, previous, chunk) ==
    f = [n \in 0..m |-> IF n = 0 THEN <<>>
                        ELSE WithByte(f[n - 1], base, lineStart, previous, chunk, n)]

LEMMA ScanExists ==
    ASSUME NEW m \in Nat, NEW base, NEW lineStart, NEW previous, NEW chunk
    PROVE  \E f : Scans(f, m, base, lineStart, previous, chunk)
<1> DEFINE S == {n \in Nat : \E f : Scans(f, n, base, lineStart, previous, chunk)}
<1>1. 0 \in S
  <2> DEFINE f == [n \in 0..0 |-> <<>>]
  <2>1. Scans(f, 0, base, lineStart, previous, chunk)
    BY DEF Scans
  <2> QED
    BY <2>1
<1>2. ASSUME NEW n \in 0..m, n \in S
      PROVE  n + 1 \in S
  <2>1. PICK g : Scans(g, n, base, lineStart, previous, chunk)
    BY <1>2
  <2> DEFINE f == [i \in 0..n + 1 |->
                     IF i = n + 1 THEN WithByte(g[n], base, lineStart, previous, chunk, n + 1)
                     ELSE g[i]]
             step(h) == [i \in 0..n + 1 |->
                     IF i = 0 THEN <<>>
                     ELSE WithByte(h[i - 1], base, lineStart, previous, chunk, i)]
  <2>2. \A i \in 0..n : g[i] = IF i = 0 THEN <<>>
                             ELSE WithByte(g[i - 1], base, lineStart, previous, chunk, i)
    BY <2>1 DEF Scans
  <2>3. ASSUME NEW i \in 0..n + 1
        PROVE  f[i] = step(f)[i]
    <3>1. CASE i = n + 1
      <4>1. i # 0 /\ i - 1 = n /\ n \in 0..n + 1 /\ n # n + 1
        BY <3>1
      <4> QED
        BY <3>1, <4>1
    <3>2. CASE i # n + 1
      <4>1. i \in 0..n /\ (i # 0 => i - 1 \in 0..n + 1 /\ i - 1 # n + 1)
        BY <3>2
      <4> QED
        BY <2>2, <3>2, <4>1
    <3> QED
      BY <3>1, <3>2
  <2>4. f = step(f)
    BY <2>3
  <2> HIDE DEF f
  <2>5. Scans(f, n + 1, base, lineStart, previous, chunk)
    BY <2>4 DEF Scans
  <2> QED
    BY <2>5
<1> HIDE DEF S
<1>3. \A n \in 0..m : n \in S
  BY <1>1, <1>2, CountingUp
<1>4. m \in S
  BY <1>3
<1> QED
  BY <1>4 DEF S

\* The definition of ChunkRefs is that of such a function.
ScanOf(base, lineStart, previous, chunk) ==
    CHOOSE f : Scans(f, Len(chunk), base, lineStart, previous, chunk)

LEMMA ChunkIsScanned ==
    ASSUME NEW base, NEW lineStart, NEW previous, NEW chunk, Len(chunk) \in Nat
    PROVE  LET f == ScanOf(base, lineStart, previous, chunk)
           IN  /\ Scans(f, Len(chunk), base, lineStart, previous, chunk)
               /\ ChunkRefs(base, lineStart, previous, chunk) = f[Len(chunk)]
<1> DEFINE f == CHOOSE g : Scans(g, Len(chunk), base, lineStart, previous, chunk)
<1>1. Scans(f, Len(chunk), base, lineStart, previous, chunk)
  BY ScanExists
<1>2. ChunkRefs(base, lineStart, previous, chunk) = f[Len(chunk)]
  BY DEF ChunkRefs, Scans, WithByte, DelimiterAt
<1> QED
  BY <1>1, <1>2 DEF ScanOf

-----------------------------------------------------------------------------
(* The lines of a file *)

Refs == [start: Nat, end: Nat, delimiter: 0..2]

FileScan(f, bytes) == Scans(f, Len(bytes), 0, 0, "none", bytes)

LEMMA AfterLast ==
    ASSUME NEW S, NEW s \in Seq(S), NEW start
    PROVE  LineStartAfter(s, start) = IF Len(s) = 0 THEN start ELSE PhysicalEnd(s[Len(s)])
<1>1. Len(s) = 0 <=> s = <<>>
  BY EmptySeq
<1> QED
  BY <1>1 DEF LineStartAfter, Last

\* The references of the lines that ended in the first n bytes: a line begins
\* where the one before it ended, and was listed with its line feed.
Follows(f, bytes, n) ==
    /\ f[n] \in Seq(Refs)
    /\ \A j \in 1..Len(f[n]) :
        /\ f[n][j].start = IF j = 1 THEN 0 ELSE PhysicalEnd(f[n][j - 1])
        /\ PhysicalEnd(f[n][j]) \in 1..n
        /\ IsLineFeed(bytes[PhysicalEnd(f[n][j])])
        /\ Len(f[PhysicalEnd(f[n][j])]) = j
    /\ \A m \in 0..n :
        /\ Len(f[m]) <= Len(f[n])
        /\ \A j \in 1..Len(f[m]) : f[m][j] = f[n][j]

LEMMA EndedLinesFollow ==
    ASSUME NEW bytes \in Seq(Bytes), NEW f, FileScan(f, bytes)
    PROVE  \A n \in 0..Len(bytes) : Follows(f, bytes, n)
<1> DEFINE N == Len(bytes)
           S == {n \in Nat : n <= N => Follows(f, bytes, n)}
<1>1. N \in Nat
  BY LenProperties
<1>2. /\ f[0] = <<>>
      /\ \A n \in 0..N : n # 0 => f[n] = WithByte(f[n - 1], 0, 0, "none", bytes, n)
  BY <1>1 DEF FileScan, Scans
<1> HIDE DEF N
<1>3. 0 \in S
  <2>1. f[0] \in Seq(Refs) /\ Len(f[0]) = 0
    BY <1>2
  <2>2. \A m \in 0..0 : m = 0
    OBVIOUS
  <2>3. Follows(f, bytes, 0)
    BY <2>1, <2>2 DEF Follows
  <2> QED
    BY <2>3
<1>4. ASSUME NEW n \in 0..N, n \in S, n < N
      PROVE  n + 1 \in S
  <2>1. Follows(f, bytes, n)
    BY <1>1, <1>4
  <2>2. n + 1 \in 0..N /\ n + 1 # 0 /\ (n + 1) - 1 = n /\ n \in Nat
    BY <1>1, <1>4
  <2>3. f[n + 1] = WithByte(f[n], 0, 0, "none", bytes, n + 1)
    BY <1>2, <2>2
  <2>4. \A m \in 0..n + 1 : m = n + 1 \/ m \in 0..n
    BY <2>2
  <2>5. CASE ~IsLineFeed(bytes[n + 1])
    <3>1. f[n + 1] = f[n]
      BY <2>3, <2>5 DEF WithByte
    <3>2. ASSUME NEW j \in 1..Len(f[n + 1])
          PROVE  /\ f[n + 1][j].start = IF j = 1 THEN 0 ELSE PhysicalEnd(f[n + 1][j - 1])
                 /\ PhysicalEnd(f[n + 1][j]) \in 1..n + 1
                 /\ IsLineFeed(bytes[PhysicalEnd(f[n + 1][j])])
                 /\ Len(f[PhysicalEnd(f[n + 1][j])]) = j
      <4>1. PhysicalEnd(f[n][j]) \in 1..n
        BY <2>1, <3>1, <3>2 DEF Follows
      <4>2. PhysicalEnd(f[n][j]) \in 1..n + 1
        BY <2>2, <4>1
      <4> QED
        BY <2>1, <3>1, <3>2, <4>2 DEF Follows
    <3>3. ASSUME NEW m \in 0..n + 1
          PROVE  /\ Len(f[m]) <= Len(f[n + 1])
                 /\ \A j \in 1..Len(f[m]) : f[m][j] = f[n + 1][j]
      <4>1. CASE m = n + 1
        <5>1. Len(f[n]) \in Nat
          BY <2>1, LenProperties DEF Follows
        <5> QED
          BY <3>1, <4>1, <5>1
      <4>2. CASE m # n + 1
        BY <2>1, <2>4, <3>1, <4>2 DEF Follows
      <4> QED
        BY <4>1, <4>2
    <3>4. f[n + 1] \in Seq(Refs)
      BY <2>1, <3>1 DEF Follows
    <3>5. Follows(f, bytes, n + 1)
      BY <3>2, <3>3, <3>4 DEF Follows
    <3> QED
      BY <2>2, <3>5
  <2>6. CASE IsLineFeed(bytes[n + 1])
    <3> DEFINE d == DelimiterAt("none", bytes, n + 1)
               ref == [start |-> LineStartAfter(f[n], 0), end |-> 0 + (n + 1) - d,
                       delimiter |-> d]
               k == Len(f[n])
    <3>1. f[n + 1] = Append(f[n], ref)
      BY <2>3, <2>6 DEF WithByte
    <3>2. f[n] \in Seq(Refs) /\ k \in Nat
      BY <2>1, LenProperties DEF Follows
    <3>3. d \in {1, 2} /\ (d = 2 => n + 1 # 1)
      BY DEF DelimiterAt
    <3>4. ref.end \in Nat /\ PhysicalEnd(ref) = n + 1
      BY <2>2, <3>3 DEF PhysicalEnd
    <3>5. LineStartAfter(f[n], 0) = IF k = 0 THEN 0 ELSE PhysicalEnd(f[n][k])
      BY <3>2, AfterLast
    <3>6. LineStartAfter(f[n], 0) \in Nat
      <4>1. CASE k # 0
        <5>1. k \in 1..k
          BY <3>2, <4>1
        <5>2. PhysicalEnd(f[n][k]) \in 1..n
          BY <2>1, <5>1 DEF Follows
        <5> QED
          BY <3>5, <4>1, <5>2
      <4> QED
        BY <3>5, <4>1
    <3>7. ref \in Refs /\ ref.start = LineStartAfter(f[n], 0)
      BY <3>3, <3>4, <3>6 DEF Refs
    <3> HIDE DEF ref
    <3>8. /\ f[n + 1] \in Seq(Refs) /\ Len(f[n + 1]) = k + 1
          /\ \A j \in 1..k : f[n + 1][j] = f[n][j]
          /\ f[n + 1][k + 1] = ref
      BY <3>1, <3>2, <3>7, AppendProperties
    <3> HIDE DEF k
    <3>9. ASSUME NEW j \in 1..k + 1
          PROVE  /\ f[n + 1][j].start = IF j = 1 THEN 0 ELSE PhysicalEnd(f[n + 1][j - 1])
                 /\ PhysicalEnd(f[n + 1][j]) \in 1..n + 1
                 /\ IsLineFeed(bytes[PhysicalEnd(f[n + 1][j])])
                 /\ Len(f[PhysicalEnd(f[n + 1][j])]) = j
      <4>1. CASE j = k + 1
        <5>1. f[n + 1][j] = ref /\ PhysicalEnd(ref) = n + 1 /\ n + 1 \in 1..n + 1
          BY <2>2, <3>4, <3>8, <4>1
        <5>2. j # 1 => j - 1 = k /\ k \in 1..k /\ k # 0
          BY <3>2, <4>1
        <5>3. ref.start = IF j = 1 THEN 0 ELSE PhysicalEnd(f[n + 1][j - 1])
          BY <3>2, <3>5, <3>7, <3>8, <4>1, <5>2
        <5> QED
          BY <2>6, <3>8, <4>1, <5>1, <5>3
      <4>2. CASE j # k + 1
        <5>1. j \in 1..k /\ (j # 1 => j - 1 \in 1..k)
          BY <3>2, <4>2
        <5>2. /\ f[n][j].start = IF j = 1 THEN 0 ELSE PhysicalEnd(f[n][j - 1])
              /\ PhysicalEnd(f[n][j]) \in 1..n
              /\ IsLineFeed(bytes[PhysicalEnd(f[n][j])])
              /\ Len(f[PhysicalEnd(f[n][j])]) = j
          BY <2>1, <5>1 DEF Follows, k
        <5>3. PhysicalEnd(f[n][j]) \in 1..n + 1
          BY <2>2, <5>2
        <5> QED
          BY <3>8, <5>1, <5>2, <5>3
      <4> QED
        BY <4>1, <4>2
    <3>10. ASSUME NEW m \in 0..n + 1
           PROVE  /\ Len(f[m]) <= Len(f[n + 1])
                  /\ \A j \in 1..Len(f[m]) : f[m][j] = f[n + 1][j]
      <4>1. CASE m = n + 1
        BY <3>2, <3>8, <4>1
      <4>2. CASE m # n + 1
        <5>1. m \in 0..n
          BY <2>4, <4>2
        <5>2. Follows(f, bytes, n) => Len(f[m]) <= k /\ \A j \in 1..Len(f[m]) : f[m][j] = f[n][j]
          BY <5>1 DEF Follows, k
        <5>3. m \in 0..n /\ Len(f[m]) <= k /\ \A j \in 1..Len(f[m]) : f[m][j] = f[n][j]
          BY <2>1, <5>1, <5>2
        <5>4. Len(f[m]) <= k + 1 /\ \A j \in 1..Len(f[m]) : j \in 1..k
          BY <3>2, <5>3
        <5> QED
          BY <3>8, <5>3, <5>4
      <4> QED
        BY <4>1, <4>2
    <3>11. Follows(f, bytes, n + 1)
      BY <3>8, <3>9, <3>10 DEF Follows
    <3> QED
      BY <2>2, <3>11
  <2> QED
    BY <2>5, <2>6
<1> HIDE DEF S
<1>5. \A n \in 0..N : n \in S
  BY <1>1, <1>3, <1>4, CountingUp
<1> QED
  BY <1>1, <1>5 DEF S, N

\* s lists what L has after its first a elements, up to the b-th.
Lists(s, L, a, b) ==
    /\ s \in Seq(Refs)
    /\ Len(s) = b - a
    /\ \A i \in 1..b - a : s[i] = L[a + i]

LEMMA ListsNothing ==
    ASSUME NEW L, NEW a \in Nat
    PROVE  Lists(<<>>, L, a, a)
<1>1. <<>> \in Seq(Refs) /\ Len(<<>>) = 0 /\ a - a = 0
  BY EmptySeq
<1> QED
  BY <1>1 DEF Lists

LEMMA ListsBoth ==
    ASSUME NEW L, NEW a \in Nat, NEW b \in Nat, NEW c \in Nat, a <= b, b <= c,
           NEW s, Lists(s, L, a, b), NEW t, Lists(t, L, b, c)
    PROVE  Lists(s \o t, L, a, c)
<1>1. /\ s \o t \in Seq(Refs)
      /\ Len(s \o t) = Len(s) + Len(t)
      /\ \A i \in 1..Len(s) + Len(t) :
            (s \o t)[i] = IF i <= Len(s) THEN s[i] ELSE t[i - Len(s)]
  BY ConcatProperties DEF Lists
<1>2. Len(s) = b - a /\ Len(t) = c - b /\ Len(s) + Len(t) = c - a
  BY DEF Lists
<1>3. ASSUME NEW i \in 1..c - a
      PROVE  (s \o t)[i] = L[a + i]
  <2>1. CASE i <= b - a
    <3>1. i \in 1..b - a
      BY <2>1
    <3> QED
      BY <1>1, <1>2, <2>1, <3>1 DEF Lists
  <2>2. CASE ~(i <= b - a)
    <3>1. i - (b - a) \in 1..c - b /\ b + (i - (b - a)) = a + i
      BY <2>2
    <3>2. (s \o t)[i] = t[i - (b - a)]
      BY <1>1, <1>2, <2>2
    <3> QED
      BY <3>1, <3>2 DEF Lists
  <2> QED
    BY <2>1, <2>2
<1> QED
  BY <1>1, <1>2, <1>3 DEF Lists

LEMMA ListsOneMore ==
    ASSUME NEW L, NEW a \in Nat, NEW b \in Nat, a <= b, NEW s, Lists(s, L, a, b),
           L[b + 1] \in Refs
    PROVE  Lists(Append(s, L[b + 1]), L, a, b + 1)
<1>1. s \in Seq(Refs) /\ Len(s) = b - a
  BY DEF Lists
<1>2. /\ Append(s, L[b + 1]) \in Seq(Refs)
      /\ Len(Append(s, L[b + 1])) = (b - a) + 1
      /\ \A i \in 1..b - a : Append(s, L[b + 1])[i] = s[i]
      /\ Append(s, L[b + 1])[(b - a) + 1] = L[b + 1]
  BY <1>1, AppendProperties
<1>3. (b - a) + 1 = (b + 1) - a
  OBVIOUS
<1>4. ASSUME NEW i \in 1..(b + 1) - a
      PROVE  Append(s, L[b + 1])[i] = L[a + i]
  <2>1. CASE i = (b - a) + 1
    BY <1>2, <2>1
  <2>2. CASE i # (b - a) + 1
    <3>1. i \in 1..b - a
      BY <2>2
    <3> QED
      BY <1>2, <3>1 DEF Lists
  <2> QED
    BY <2>1, <2>2
<1> QED
  BY <1>2, <1>3, <1>4 DEF Lists

LEMMA ListsIsSubSeq ==
    ASSUME NEW L \in Seq(Refs), NEW a \in Nat, NEW b \in Nat, a <= b, b <= Len(L), NEW s,
           Lists(s, L, a, b)
    PROVE  s = SubSeq(L, a + 1, b)
<1> DEFINE r == SubSeq(L, a + 1, b)
<1>1. Len(L) \in Nat
  BY LenProperties
<1>2. \A i \in a + 1..b : L[i] \in Refs
  BY <1>1, ElementOfSeq
<1>3. /\ r \in Seq(Refs)
      /\ Len(r) = IF a + 1 <= b THEN b - (a + 1) + 1 ELSE 0
      /\ \A i \in 1..b - (a + 1) + 1 : r[i] = L[(a + 1) + i - 1]
  BY <1>2, SubSeqProperties
<1> HIDE DEF r
<1>4. Len(r) = b - a
  BY <1>3
<1>5. ASSUME NEW i \in 1..b - a
      PROVE  r[i] = s[i]
  <2>1. i \in 1..b - (a + 1) + 1 /\ (a + 1) + i - 1 = a + i
    OBVIOUS
  <2> QED
    BY <1>3, <2>1 DEF Lists
<1>6. s \in Seq(Refs) /\ Len(s) = b - a
  BY DEF Lists
<1>7. s = r
  BY <1>3, <1>4, <1>5, <1>6, SeqEqual
<1> QED
  BY <1>7 DEF r

\* Lists(s, L, 0, n) for a sequence and its own beginning.
FileScanOf(bytes) == ScanOf(0, 0, "none", bytes)

\* How many lines have ended in the first n bytes.
Ended(bytes, n) == Len(FileScanOf(bytes)[n])

\* Where the line after the first k begins.
Boundary(L, k) == IF k = 0 THEN 0 ELSE PhysicalEnd(L[k])

LEMMA FileIsScanned ==
    ASSUME NEW bytes \in Seq(Bytes)
    PROVE  /\ FileScan(FileScanOf(bytes), bytes)
           /\ ChunkRefs(0, 0, "none", bytes) = FileScanOf(bytes)[Len(bytes)]
<1>1. Len(bytes) \in Nat
  BY LenProperties
<1> QED
  BY <1>1, ChunkIsScanned DEF FileScan, FileScanOf

LEMMA LinesFollow ==
    ASSUME NEW bytes \in Seq(Bytes)
    PROVE  LET L == SplitLines(bytes)
               N == Len(bytes)
           IN  /\ L \in Seq(Refs)
               /\ N \in Nat
               /\ Ended(bytes, 0) = 0
               /\ \A n \in 0..N : /\ Ended(bytes, n) \in 0..Ended(bytes, N)
                                  /\ Lists(FileScanOf(bytes)[n], L, 0, Ended(bytes, n))
               /\ Ended(bytes, N) <= Len(L)
               /\ Lists(UnendedLine(Boundary(L, Ended(bytes, N)), N), L, Ended(bytes, N), Len(L))
               /\ \A j \in 1..Len(L) :
                    /\ L[j].start = Boundary(L, j - 1)
                    /\ Boundary(L, j) \in 1..N
               /\ \A j \in 1..Ended(bytes, N) :
                    /\ IsLineFeed(bytes[Boundary(L, j)])
                    /\ Ended(bytes, Boundary(L, j)) = j
               /\ \A j \in 1..Len(L) : j > Ended(bytes, N) =>
                    /\ j = Ended(bytes, N) + 1
                    /\ Boundary(L, j) = N
<1> DEFINE L == SplitLines(bytes)
           N == Len(bytes)
           f == FileScanOf(bytes)
           K == Ended(bytes, N)
           last == UnendedLine(LineStartAfter(f[N], 0), N)
<1>1. N \in Nat
  BY LenProperties
<1>2. FileScan(f, bytes) /\ L = f[N] \o last
  BY FileIsScanned DEF SplitLines
<1>3. \A n \in 0..N : Follows(f, bytes, n)
  BY <1>2, EndedLinesFollow
<1>4. f[0] = <<>>
  BY <1>1, <1>2 DEF FileScan, Scans
<1>5. Follows(f, bytes, N) /\ Len(f[N]) = K
  BY <1>1, <1>3 DEF Ended
<1>6. f[N] \in Seq(Refs) /\ K \in Nat
  BY <1>5, LenProperties DEF Follows
<1> HIDE DEF f, K, N
<1>7. LineStartAfter(f[N], 0) = IF K = 0 THEN 0 ELSE PhysicalEnd(f[N][K])
  BY <1>5, <1>6, AfterLast
<1>8. LineStartAfter(f[N], 0) \in 0..N
  <2>1. CASE K # 0
    <3>1. K \in 1..Len(f[N])
      BY <1>5, <1>6, <2>1
    <3>2. PhysicalEnd(f[N][K]) \in 1..N
      BY <1>5, <3>1 DEF Follows
    <3> QED
      BY <1>7, <2>1, <3>2
  <2> QED
    BY <1>1, <1>7, <2>1
<1> DEFINE b == LineStartAfter(f[N], 0)
<1>9. last \in Seq(Refs) /\ Len(last) = IF b < N THEN 1 ELSE 0
  <2>1. CASE b < N
    <3>1. [start |-> b, end |-> N, delimiter |-> 0] \in Refs
      BY <1>1, <1>8 DEF Refs
    <3> QED
      BY <2>1, <3>1 DEF UnendedLine
  <2>2. CASE ~(b < N)
    BY <2>2 DEF UnendedLine
  <2> QED
    BY <2>1, <2>2
<1>10. b < N => last[1] = [start |-> b, end |-> N, delimiter |-> 0]
  BY DEF UnendedLine
<1> HIDE DEF last, L
<1>11. /\ L \in Seq(Refs)
       /\ Len(L) = K + Len(last)
       /\ \A i \in 1..K + Len(last) : L[i] = IF i <= K THEN f[N][i] ELSE last[i - K]
  BY <1>2, <1>5, <1>6, <1>9, ConcatProperties
<1>12. \A i \in 1..K : L[i] = f[N][i]
  BY <1>6, <1>9, <1>11
<1>13. Boundary(L, K) = b /\ (b < N => Len(L) = K + 1 /\ L[K + 1] = last[1])
  <2>1. K # 0 => K \in 1..K
    BY <1>6
  <2>2. b < N => K + 1 \in 1..K + Len(last) /\ ~(K + 1 <= K) /\ (K + 1) - K = 1
    BY <1>6, <1>9
  <2> QED
    BY <1>7, <1>9, <1>11, <1>12, <2>1, <2>2 DEF Boundary
<1>14. Len(L) \in Nat /\ K <= Len(L) /\ (Len(L) # K => b < N /\ Len(L) = K + 1)
  BY <1>6, <1>9, <1>11
<1>15. ASSUME NEW n \in 0..N
       PROVE  Ended(bytes, n) \in 0..K /\ Lists(f[n], L, 0, Ended(bytes, n))
  <2>1. Follows(f, bytes, n)
    BY <1>3 DEF N
  <2>2. f[n] \in Seq(Refs) /\ Len(f[n]) = Ended(bytes, n) /\ Ended(bytes, n) \in Nat
    BY <2>1, LenProperties DEF Follows, Ended, f
  <2>3. Ended(bytes, n) <= K /\ \A j \in 1..Ended(bytes, n) : f[n][j] = f[N][j]
    BY <1>5, <2>2 DEF Follows
  <2>4. \A j \in 1..Ended(bytes, n) : j \in 1..K /\ 0 + j = j
    BY <1>6, <2>2, <2>3
  <2>5. \A j \in 1..Ended(bytes, n) : f[n][j] = L[0 + j]
    BY <1>12, <2>3, <2>4
  <2> QED
    BY <1>6, <2>2, <2>3, <2>5 DEF Lists
<1>16. Lists(UnendedLine(Boundary(L, K), N), L, K, Len(L))
  <2>1. UnendedLine(Boundary(L, K), N) = last
    BY <1>13 DEF last
  <2>2. Len(last) = Len(L) - K
    BY <1>6, <1>9, <1>11
  <2>3. ASSUME NEW i \in 1..Len(L) - K
        PROVE  last[i] = L[K + i]
    <3>1. i = 1 /\ b < N
      BY <1>6, <1>14, <2>3
    <3> QED
      BY <1>13, <3>1
  <2> QED
    BY <1>9, <2>1, <2>2, <2>3 DEF Lists
<1>17. ASSUME NEW j \in 1..Len(L), j <= K
       PROVE  /\ L[j].start = Boundary(L, j - 1)
              /\ Boundary(L, j) \in 1..N
              /\ IsLineFeed(bytes[Boundary(L, j)])
              /\ Ended(bytes, Boundary(L, j)) = j
  <2>1. j \in 1..Len(f[N]) /\ j \in 1..K /\ j # 0
    BY <1>5, <1>6, <1>17
  <2>2. /\ f[N][j].start = IF j = 1 THEN 0 ELSE PhysicalEnd(f[N][j - 1])
        /\ PhysicalEnd(f[N][j]) \in 1..N
        /\ IsLineFeed(bytes[PhysicalEnd(f[N][j])])
        /\ Len(f[PhysicalEnd(f[N][j])]) = j
    BY <1>5, <2>1 DEF Follows
  <2>3. Boundary(L, j) = PhysicalEnd(f[N][j])
    BY <1>12, <2>1 DEF Boundary
  <2>4. Boundary(L, j - 1) = IF j = 1 THEN 0 ELSE PhysicalEnd(f[N][j - 1])
    <3>1. j # 1 => j - 1 \in 1..K /\ j - 1 # 0
      BY <1>6, <2>1
    <3> QED
      BY <1>12, <3>1 DEF Boundary
  <2> QED
    BY <1>12, <2>1, <2>2, <2>3, <2>4 DEF Ended, f
<1>18. ASSUME NEW j \in 1..Len(L), j > K
       PROVE  /\ L[j].start = Boundary(L, j - 1)
              /\ Boundary(L, j) \in 1..N
              /\ j = K + 1
              /\ Boundary(L, j) = N
  <2>1. j = K + 1 /\ b < N /\ j # 0 /\ j - 1 = K
    BY <1>6, <1>14, <1>18
  <2>2. L[j] = [start |-> b, end |-> N, delimiter |-> 0]
    BY <1>10, <1>13, <2>1
  <2>3. PhysicalEnd(L[j]) = N /\ L[j].start = b
    BY <1>1, <2>2 DEF PhysicalEnd
  <2>4. N \in 1..N
    BY <1>1, <1>8, <2>1
  <2> QED
    BY <1>13, <2>1, <2>3, <2>4 DEF Boundary
<1>19. Ended(bytes, 0) = 0
  BY <1>4 DEF Ended, f
<1>20. \A j \in 1..K : j \in 1..Len(L) /\ j <= K
  BY <1>6, <1>14
<1>21. \A j \in 1..Len(L) : j <= K \/ j > K
  BY <1>6, <1>14
<1> HIDE DEF b
<1> QED
  BY <1>1, <1>11, <1>14, <1>15, <1>16, <1>17, <1>18, <1>19, <1>20, <1>21 DEF L, N, f, K

LEMMA ListsEndAtBoundary ==
    ASSUME NEW L, NEW a \in Nat, NEW b \in Nat, a <= b, NEW s, Lists(s, L, a, b)
    PROVE  LineStartAfter(s, Boundary(L, a)) = Boundary(L, b)
<1>1. s \in Seq(Refs) /\ Len(s) = b - a
  BY DEF Lists
<1>2. LineStartAfter(s, Boundary(L, a)) =
        IF Len(s) = 0 THEN Boundary(L, a) ELSE PhysicalEnd(s[Len(s)])
  BY <1>1, AfterLast
<1>3. CASE a = b
  BY <1>1, <1>2, <1>3
<1>4. CASE a # b
  <2>1. b - a \in 1..b - a /\ b # 0 /\ a + (b - a) = b
    BY <1>4
  <2>2. s[b - a] = L[b]
    BY <2>1 DEF Lists
  <2> QED
    BY <1>1, <1>2, <1>4, <2>1, <2>2 DEF Boundary
<1> QED
  BY <1>3, <1>4

\* Whether the byte before an offset is a carriage return.
ReturnBefore(bytes, offset) == offset > 0 /\ bytes[offset].is = "cr"

\* However a file is cut into chunks, each gives the lines that end in it.
LEMMA ChunkGivesItsLines ==
    ASSUME NEW bytes \in Seq(Bytes), NEW p \in Nat, NEW m \in Nat, p + m <= Len(bytes),
           NEW chunk, Len(chunk) = m, \A i \in 1..m : chunk[i] = bytes[p + i],
           NEW previous, previous = "cr" <=> ReturnBefore(bytes, p)
    PROVE  LET L == SplitLines(bytes)
           IN  /\ Ended(bytes, p) <= Ended(bytes, p + m)
               /\ Lists(ChunkRefs(p, Boundary(L, Ended(bytes, p)), previous, chunk),
                        L, Ended(bytes, p), Ended(bytes, p + m))
<1> DEFINE L == SplitLines(bytes)
           N == Len(bytes)
           f == FileScanOf(bytes)
           k(n) == Ended(bytes, n)
           start == Boundary(L, k(p))
           r == ScanOf(p, start, previous, chunk)
           S == {n \in Nat : n <= m => k(p) <= k(p + n) /\ Lists(r[n], L, k(p), k(p + n))}
<1>1. /\ L \in Seq(Refs) /\ N \in Nat /\ k(N) <= Len(L)
      /\ \A n \in 0..N : k(n) \in 0..k(N) /\ Lists(f[n], L, 0, k(n))
  BY LinesFollow
<1>2. \A n \in 0..N : n # 0 => f[n] = WithByte(f[n - 1], 0, 0, "none", bytes, n)
  <2>1. FileScan(f, bytes)
    BY FileIsScanned
  <2> HIDE DEF f
  <2> QED
    BY <2>1 DEF FileScan, Scans
<1>3. /\ r[0] = <<>>
      /\ \A n \in 0..m : n # 0 => r[n] = WithByte(r[n - 1], p, start, previous, chunk, n)
      /\ ChunkRefs(p, start, previous, chunk) = r[m]
  <2>1. /\ Scans(r, Len(chunk), p, start, previous, chunk)
        /\ ChunkRefs(p, start, previous, chunk) = r[Len(chunk)]
    BY ChunkIsScanned
  <2> HIDE DEF r, start
  <2> QED
    BY <2>1 DEF Scans
<1>4. \A n \in 0..m : p + n \in 0..N
  BY <1>1
<1>5. \A n \in 0..N : k(n) = Len(f[n])
  BY DEF Ended
<1>6. k(p) \in Nat
  <2>1. p \in 0..N
    BY <1>1
  <2> QED
    BY <1>1, <2>1
<1> HIDE DEF L, N, f, k, r
<1>7. 0 \in S
  <2>1. p + 0 = p
    OBVIOUS
  <2> QED
    BY <1>3, <1>6, <2>1, ListsNothing
<1>8. ASSUME NEW n \in 0..m, n \in S, n < m
      PROVE  n + 1 \in S
  <2>1. /\ k(p) <= k(p + n) /\ Lists(r[n], L, k(p), k(p + n))
    BY <1>8
  <2>2. /\ n + 1 \in 0..m /\ n + 1 # 0 /\ (n + 1) - 1 = n /\ n + 1 \in 1..m /\ n \in 0..m
        /\ n + 1 \in Nat /\ p + (n + 1) = (p + n) + 1 /\ (p + n) + 1 # 0
        /\ ((p + n) + 1) - 1 = p + n
    BY <1>8
  <2> DEFINE q == p + n
  <2>3. q \in 0..N /\ q + 1 \in 0..N
    BY <1>4, <2>2
  <2>4. /\ f[q + 1] = WithByte(f[q], 0, 0, "none", bytes, q + 1)
        /\ r[n + 1] = WithByte(r[n], p, start, previous, chunk, n + 1)
    BY <1>2, <1>3, <2>2, <2>3
  <2>5. chunk[n + 1] = bytes[q + 1]
    BY <2>2
  <2>6. k(q) \in Nat /\ Lists(f[q], L, 0, k(q)) /\ k(q + 1) \in Nat
        /\ Lists(f[q + 1], L, 0, k(q + 1)) /\ k(q + 1) <= k(N) /\ k(N) \in Nat
    BY <1>1, <2>3
  <2>7. CASE ~IsLineFeed(bytes[q + 1])
    <3>1. f[q + 1] = f[q] /\ r[n + 1] = r[n]
      BY <2>4, <2>5, <2>7 DEF WithByte
    <3>2. k(q + 1) = k(q)
      BY <1>5, <2>3, <3>1
    <3> QED
      BY <2>1, <2>2, <3>1, <3>2
  <2>8. CASE IsLineFeed(bytes[q + 1])
    <3> DEFINE d == DelimiterAt("none", bytes, q + 1)
               ref == [start |-> Boundary(L, k(q)), end |-> q + 1 - d, delimiter |-> d]
    <3>1. DelimiterAt(previous, chunk, n + 1) = d
      <4>1. CASE n = 0
        <5>1. q = p /\ n + 1 = 1 /\ (q + 1 = 1 <=> p = 0) /\ (q + 1) - 1 = p
          BY <4>1
        <5> QED
          BY <5>1 DEF DelimiterAt, ReturnBefore
      <4>2. CASE n # 0
        <5>1. n \in 1..m /\ n + 1 # 1 /\ q + 1 # 1 /\ (q + 1) - 1 = q /\ (n + 1) - 1 = n
          BY <4>2
        <5>2. chunk[n] = bytes[q]
          BY <5>1
        <5> QED
          BY <5>1, <5>2 DEF DelimiterAt
      <4> QED
        BY <4>1, <4>2
    <3>2. LineStartAfter(f[q], 0) = Boundary(L, k(q))
      <4>1. LineStartAfter(f[q], Boundary(L, 0)) = Boundary(L, k(q))
        BY <2>6, ListsEndAtBoundary
      <4> QED
        BY <4>1 DEF Boundary
    <3>3. LineStartAfter(r[n], start) = Boundary(L, k(q))
      BY <1>6, <2>1, <2>6, ListsEndAtBoundary
    <3>4. f[q + 1] = Append(f[q], ref)
      <4>1. 0 + (q + 1) - d = q + 1 - d
        BY DEF DelimiterAt
      <4> QED
        BY <2>4, <2>8, <3>2, <4>1 DEF WithByte
    <3>5. r[n + 1] = Append(r[n], ref)
      <4>1. p + (n + 1) - d = q + 1 - d
        BY DEF DelimiterAt
      <4> QED
        BY <2>4, <2>5, <2>8, <3>1, <3>3, <4>1 DEF WithByte
    <3> HIDE DEF ref, q
    <3>6. f[q] \in Seq(Refs) /\ Len(f[q]) = k(q) /\ f[q + 1] \in Seq(Refs)
          /\ Len(f[q + 1]) = k(q + 1)
      BY <1>5, <2>3, <2>6 DEF Lists
    <3>7. Len(f[q + 1]) = k(q) + 1 /\ f[q + 1][k(q) + 1] = ref
      BY <2>6, <3>4, <3>6, AppendProperties
    <3>8. k(q + 1) = k(q) + 1
      BY <3>6, <3>7
    <3>9. L[k(q) + 1] = ref
      <4>1. k(q) + 1 \in 1..k(q + 1) - 0 /\ 0 + (k(q) + 1) = k(q) + 1
        BY <2>6, <3>8
      <4> QED
        BY <2>6, <3>7, <4>1 DEF Lists
    <3>10. ref \in Refs
      <4>1. k(q) + 1 \in 1..Len(f[q + 1])
        BY <2>6, <3>7
      <4> QED
        BY <3>6, <3>7, <4>1, ElementOfSeq
    <3>11. Lists(r[n + 1], L, k(p), k(q) + 1)
      BY <1>6, <2>1, <2>6, <3>5, <3>9, <3>10, ListsOneMore DEF q
    <3>12. k(p) <= k(q) + 1
      BY <1>6, <2>1, <2>6 DEF q
    <3> QED
      BY <2>2, <3>8, <3>11, <3>12 DEF q
  <2> QED
    BY <2>7, <2>8
<1> HIDE DEF S
<1>9. \A n \in 0..m : n \in S
  BY <1>7, <1>8, CountingUp
<1>10. m \in S /\ m \in Nat
  BY <1>9
<1>11. k(p) <= k(p + m) /\ Lists(r[m], L, k(p), k(p + m))
  BY <1>10 DEF S
<1>12. Lists(ChunkRefs(p, start, previous, chunk), L, k(p), k(p + m))
  BY <1>3, <1>11
<1> QED
  BY <1>11, <1>12 DEF L, k

-----------------------------------------------------------------------------
(* The index *)

LEMMA PutCacheKeeps ==
    ASSUME NEW G, NEW cache \in Seq(G), NEW id, NEW refs, [id |-> id, refs |-> refs] \in G,
           Len(cache) <= CachedSegments
    PROVE  /\ PutCache(cache, id, refs) \in Seq(G)
           /\ Len(PutCache(cache, id, refs)) <= CachedSegments
<1> DEFINE entry == [id |-> id, refs |-> refs]
           old == {n \in DOMAIN cache : cache[n].id = id}
           others == IF old = {} THEN cache ELSE RemoveAt(cache, CHOOSE n \in old : TRUE)
           kept == Append(others, entry)
<1>1. Len(cache) \in Nat /\ DOMAIN cache = 1..Len(cache) /\ CachedSegments \in Nat
  BY LenProperties, SegmentAssumption
<1>2. others \in Seq(G) /\ Len(others) <= CachedSegments
  <2>1. CASE old = {}
    BY <2>1
  <2>2. CASE old # {}
    <3> DEFINE i == CHOOSE n \in old : TRUE
               a == SubSeq(cache, 1, i - 1)
               b == SubSeq(cache, i + 1, Len(cache))
    <3>1. i \in 1..Len(cache)
      BY <1>1, <2>2
    <3> HIDE DEF i
    <3>2. \A n \in 1..Len(cache) : cache[n] \in G
      BY ElementOfSeq
    <3>3. (\A n \in 1..i - 1 : cache[n] \in G) /\ (\A n \in i + 1..Len(cache) : cache[n] \in G)
      BY <1>1, <3>1, <3>2
    <3>4. a \in Seq(G) /\ Len(a) = IF 1 <= i - 1 THEN (i - 1) - 1 + 1 ELSE 0
      BY <3>1, <3>3, SubSeqProperties
    <3>5. b \in Seq(G) /\ Len(b) = IF i + 1 <= Len(cache) THEN Len(cache) - (i + 1) + 1 ELSE 0
      BY <1>1, <3>1, <3>3, SubSeqProperties
    <3> HIDE DEF a, b
    <3>6. a \o b \in Seq(G) /\ Len(a \o b) = Len(a) + Len(b)
      BY <3>4, <3>5, ConcatProperties
    <3>7. Len(a) + Len(b) <= CachedSegments
      <4>1. Len(a) = i - 1
        BY <3>1, <3>4
      <4>2. Len(b) = Len(cache) - i
        <5> DEFINE l == Len(cache)
        <5>1. l \in Nat /\ i \in 1..l /\ Len(b) = IF i + 1 <= l THEN l - (i + 1) + 1 ELSE 0
          BY <1>1, <3>1, <3>5
        <5> HIDE DEF l
        <5>2. Len(b) = l - i
          BY <5>1
        <5> QED
          BY <5>2 DEF l
      <4>3. i \in Nat /\ (i - 1) + (Len(cache) - i) <= Len(cache)
        BY <1>1, <3>1
      <4>4. Len(a) + Len(b) <= Len(cache) /\ Len(a) + Len(b) \in Int
        BY <1>1, <4>1, <4>2, <4>3
      <4> QED
        BY <1>1, <4>4
    <3>8. others = a \o b
      BY <2>2 DEF RemoveAt, i, a, b
    <3> QED
      BY <3>6, <3>7, <3>8
  <2> QED
    BY <2>1, <2>2
<1> HIDE DEF others, entry
<1>3. entry \in G
  BY DEF entry
<1>4. kept \in Seq(G) /\ Len(kept) = Len(others) + 1 /\ Len(others) \in Nat
  BY <1>2, <1>3, AppendProperties, LenProperties
<1>5. kept # <<>>
  BY <1>4, EmptySeq
<1> HIDE DEF kept
<1>6. Tail(kept) \in Seq(G) /\ Len(Tail(kept)) = Len(kept) - 1
  BY <1>4, <1>5, HeadTailProperties
<1>7. PutCache(cache, id, refs) = IF Len(kept) > CachedSegments THEN Tail(kept) ELSE kept
  BY DEF PutCache, kept, others, old, entry
<1> QED
  BY <1>1, <1>2, <1>4, <1>6, <1>7

IndexFields == {"scanned", "lineStart", "previous", "records", "complete", "segments",
                "pending", "cache"}

\* A segment of lines, all among the first n.
Segments(L, n) ==
    {meta \in [first: Nat, count: Nat, start: Nat, end: Nat] :
        /\ meta.count > 0 /\ meta.first + meta.count <= n
        /\ meta.start = Boundary(L, meta.first)
        /\ meta.end = Boundary(L, meta.first + meta.count)}

\* A segment in the cache, with its lines.
Entries(L, segments) ==
    {entry \in [id: Nat, refs: Seq(Refs)] :
        /\ entry.id + 1 \in 1..Len(segments)
        /\ LET meta == segments[entry.id + 1]
           IN  Lists(entry.refs, L, meta.first, meta.first + meta.count)}

IsLines(L) ==
    /\ L \in Seq(Refs)
    /\ \A j \in 1..Len(L) : L[j].start = Boundary(L, j - 1)

\* The index is of the first lines of L, as many as it has records.
Agrees(ix, L) ==
    /\ DOMAIN ix = IndexFields
    /\ ix.records \in 0..Len(L)
    /\ Len(ix.pending) \in 0..ix.records
    /\ Lists(ix.pending, L, ix.records - Len(ix.pending), ix.records)
    /\ ix.lineStart = Boundary(L, ix.records)
    /\ ix.segments \in Seq(Segments(L, ix.records - Len(ix.pending)))
    /\ ix.cache \in Seq(Entries(L, ix.segments))
    /\ Len(ix.cache) <= CachedSegments

\* What is not touched when records are emitted.
SameScan(ix, iy) ==
    iy.scanned = ix.scanned /\ iy.previous = ix.previous /\ iy.complete = ix.complete

LEMMA SegmentsGrow ==
    ASSUME NEW L, NEW n \in Nat, NEW m \in Nat, n <= m
    PROVE  Segments(L, n) \subseteq Segments(L, m)
<1> SUFFICES ASSUME NEW meta \in Segments(L, n) PROVE meta \in Segments(L, m)
  OBVIOUS
<1>1. meta.first + meta.count <= n /\ meta.first + meta.count \in Nat
  BY DEF Segments
<1>2. meta.first + meta.count <= m
  BY <1>1
<1> QED
  BY <1>2 DEF Segments

LEMMA SubsetSeq ==
    ASSUME NEW S, NEW T, S \subseteq T, NEW s \in Seq(S)
    PROVE  s \in Seq(T)
<1>1. Len(s) \in Nat /\ DOMAIN s = 1..Len(s) /\ s \in [1..Len(s) -> S]
  BY LenProperties
<1>2. s \in [1..Len(s) -> T]
  BY <1>1
<1> QED
  BY <1>1, <1>2, SeqDef

LEMMA FinalizeKeeps ==
    ASSUME NEW L, IsLines(L), NEW ix, Agrees(ix, L)
    PROVE  LET iy == FinalizePending(ix)
           IN  /\ Agrees(iy, L) /\ SameScan(ix, iy)
               /\ iy.records = ix.records /\ iy.pending = <<>>
<1> DEFINE id == Len(ix.segments)
           count == Len(ix.pending)
           n == ix.records - count
           meta == [first |-> n, count |-> count, start |-> Head(ix.pending).start,
                    end |-> PhysicalEnd(Last(ix.pending))]
           segments == Append(ix.segments, meta)
           cache == PutCache(ix.cache, id, ix.pending)
           iy == FinalizePending(ix)
<1>1. /\ L \in Seq(Refs) /\ Len(L) \in Nat /\ ix.records \in 0..Len(L)
      /\ count \in 0..ix.records /\ ix.pending \in Seq(Refs)
      /\ ix.segments \in Seq(Segments(L, n)) /\ id \in Nat
      /\ Lists(ix.pending, L, n, ix.records)
  BY LenProperties DEF Agrees, IsLines, Lists
<1>2. /\ n \in Nat /\ n + count = ix.records /\ ix.records - n = count /\ count \in Nat
      /\ ix.records <= Len(L) /\ ix.records \in Nat
  BY <1>1
<1>3. /\ L \in Seq(Refs) /\ Len(L) \in Nat
      /\ count \in Nat /\ n \in Nat /\ n + count = ix.records /\ ix.records \in Nat
      /\ ix.records <= Len(L) /\ ix.pending \in Seq(Refs)
      /\ \A i \in 1..count : ix.pending[i] = L[n + i]
      /\ ix.segments \in Seq(Segments(L, n)) /\ id \in Nat
      /\ Lists(ix.pending, L, n, n + count)
  BY <1>1, <1>2 DEF Lists
<1> HIDE DEF n
<1>4. CASE ix.pending = <<>>
  BY <1>4 DEF FinalizePending, SameScan
<1>5. CASE ix.pending # <<>>
  <2>1. count # 0
    BY <1>3, <1>5, EmptySeq
  <2>2. 1 \in 1..count /\ count \in 1..count /\ n + 1 \in 1..Len(L) /\ (n + 1) - 1 = n
        /\ ix.records # 0
    BY <1>3, <2>1
  <2>3. Head(ix.pending).start = Boundary(L, n)
    <3>1. Head(ix.pending) = L[n + 1]
      BY <1>3, <1>5, <2>2, HeadTailProperties
    <3> QED
      BY <2>2, <3>1 DEF IsLines
  <2>4. PhysicalEnd(Last(ix.pending)) = Boundary(L, ix.records)
    <3>1. Last(ix.pending) = L[ix.records]
      BY <1>3, <2>2 DEF Last
    <3> QED
      BY <2>2, <3>1 DEF Boundary
  <2>5. meta.start \in Nat /\ meta.end \in Nat
    <3>1. \A r \in Refs : r.start \in Nat /\ PhysicalEnd(r) \in Nat
      BY DEF Refs, PhysicalEnd
    <3>2. ix.pending[1] \in Refs /\ ix.pending[count] \in Refs
      BY <1>3, <2>2, ElementOfSeq
    <3> QED
      BY <1>3, <1>5, <3>1, <3>2, HeadTailProperties DEF Last
  <2>6. /\ meta.first = n /\ meta.count = count /\ meta.start = Boundary(L, n)
        /\ meta.end = Boundary(L, n + count)
        /\ meta \in [first: Nat, count: Nat, start: Nat, end: Nat]
    BY <1>3, <2>3, <2>4, <2>5
  <2>7. meta \in Segments(L, ix.records)
    <3> HIDE DEF meta, count
    <3>1. count > 0 /\ n + count <= ix.records
      BY <1>3, <2>1
    <3> QED
      BY <2>6, <3>1 DEF Segments
  <2> HIDE DEF meta
  <2>8. ix.segments \in Seq(Segments(L, ix.records))
    <3>1. n <= ix.records
      BY <1>3
    <3>2. Segments(L, n) \subseteq Segments(L, ix.records)
      BY <1>3, <3>1, SegmentsGrow
    <3> QED
      BY <1>3, <3>2, SubsetSeq
  <2>9. /\ segments \in Seq(Segments(L, ix.records)) /\ Len(segments) = id + 1
        /\ \A i \in 1..id : segments[i] = ix.segments[i]
        /\ segments[id + 1] = meta
    BY <2>7, <2>8, AppendProperties
  <2> HIDE DEF segments
  <2>10. Entries(L, ix.segments) \subseteq Entries(L, segments)
    <3> SUFFICES ASSUME NEW e \in Entries(L, ix.segments) PROVE e \in Entries(L, segments)
      OBVIOUS
    <3>1. e \in [id: Nat, refs: Seq(Refs)] /\ e.id + 1 \in 1..id
          /\ Lists(e.refs, L, ix.segments[e.id + 1].first,
                   ix.segments[e.id + 1].first + ix.segments[e.id + 1].count)
      BY DEF Entries
    <3>2. e.id + 1 \in 1..Len(segments) /\ segments[e.id + 1] = ix.segments[e.id + 1]
      BY <1>3, <2>9, <3>1
    <3> QED
      BY <3>1, <3>2 DEF Entries
  <2>11. [id |-> id, refs |-> ix.pending] \in Entries(L, segments)
    <3>1. id + 1 \in 1..Len(segments) /\ segments[id + 1].first = n
          /\ segments[id + 1].count = count
      BY <1>3, <2>9, <2>6
    <3>2. Lists(ix.pending, L, n, n + count)
      BY <1>3
    <3> QED
      BY <1>3, <3>1, <3>2 DEF Entries
  <2>12. ix.cache \in Seq(Entries(L, segments)) /\ Len(ix.cache) <= CachedSegments
    BY <2>10, SubsetSeq DEF Agrees
  <2>13. cache \in Seq(Entries(L, segments)) /\ Len(cache) <= CachedSegments
    BY <2>11, <2>12, PutCacheKeeps
  <2> HIDE DEF cache
  <2>14. iy = [ix EXCEPT !.segments = segments, !.cache = cache, !.pending = <<>>]
    BY <1>5 DEF FinalizePending, segments, cache, meta, n
  <2>15. /\ DOMAIN iy = IndexFields /\ iy.records = ix.records /\ iy.pending = <<>>
         /\ iy.lineStart = ix.lineStart /\ iy.segments = segments /\ iy.cache = cache
         /\ SameScan(ix, iy)
    BY <2>14 DEF Agrees, IndexFields, SameScan
  <2>16. Len(iy.pending) = 0 /\ ix.records - 0 = ix.records
    BY <1>3, <2>15, EmptySeq
  <2>17. Lists(iy.pending, L, iy.records, iy.records)
    BY <1>3, <2>15, ListsNothing
  <2> HIDE DEF iy
  <2>18. Agrees(iy, L)
    BY <1>3, <2>9, <2>13, <2>15, <2>16, <2>17 DEF Agrees
  <2> QED
    BY <2>15, <2>18 DEF iy
<1> QED
  BY <1>4, <1>5

LEMMA EmitKeeps ==
    ASSUME NEW L, IsLines(L), NEW ix, Agrees(ix, L), ix.records < Len(L)
    PROVE  LET iy == EmitRecord(ix, L[ix.records + 1])
           IN  Agrees(iy, L) /\ SameScan(ix, iy) /\ iy.records = ix.records + 1
<1> DEFINE ref == L[ix.records + 1]
           count == Len(ix.pending)
           n == ix.records - count
           pending == Append(ix.pending, ref)
           emitted == [ix EXCEPT !.pending = Append(@, ref), !.records = @ + 1,
                                 !.lineStart = PhysicalEnd(ref)]
<1>1. /\ L \in Seq(Refs) /\ Len(L) \in Nat /\ ix.records \in 0..Len(L)
      /\ count \in 0..ix.records /\ ix.pending \in Seq(Refs)
      /\ Lists(ix.pending, L, n, ix.records)
      /\ ix.segments \in Seq(Segments(L, n))
  BY LenProperties DEF Agrees, IsLines, Lists
<1>2. /\ ix.records \in Nat /\ count \in Nat /\ n \in Nat /\ n <= ix.records
  BY <1>1
<1>3. ix.records + 1 \in 1..Len(L) /\ ix.records + 1 \in 0..Len(L) /\ ix.records + 1 # 0
  <2>1. ix.records < Len(L)
    OBVIOUS
  <2> QED
    BY <1>1, <1>2, <2>1
<1>4. ref \in Refs
  BY <1>1, <1>3, ElementOfSeq
<1>5. Lists(pending, L, n, ix.records + 1)
  BY <1>1, <1>2, <1>4, ListsOneMore
<1>6. Len(pending) = count + 1
  BY <1>1, <1>2, <1>4, AppendProperties
<1>7. /\ DOMAIN emitted = IndexFields /\ emitted.pending = pending
      /\ emitted.records = ix.records + 1 /\ emitted.lineStart = PhysicalEnd(ref)
      /\ emitted.segments = ix.segments /\ emitted.cache = ix.cache /\ SameScan(ix, emitted)
  BY DEF Agrees, IndexFields, SameScan
<1>8. emitted.lineStart = Boundary(L, ix.records + 1)
  BY <1>3, <1>7 DEF Boundary
<1>9. (ix.records + 1) - (count + 1) = n /\ count + 1 \in 0..ix.records + 1
  BY <1>2
<1> HIDE DEF emitted, pending, ref
<1>10. Agrees(emitted, L)
  BY <1>1, <1>2, <1>3, <1>5, <1>6, <1>7, <1>8, <1>9 DEF Agrees
<1>11. EmitRecord(ix, ref) \in {emitted, FinalizePending(emitted)}
  BY DEF EmitRecord, emitted
<1>12. LET iy == FinalizePending(emitted)
       IN  Agrees(iy, L) /\ SameScan(emitted, iy) /\ iy.records = emitted.records
  BY <1>10, FinalizeKeeps
<1> QED
  BY <1>7, <1>10, <1>11, <1>12 DEF SameScan, ref

Emits(f, n, ix, refs) ==
    f = [k \in 0..n |-> IF k = 0 THEN ix ELSE EmitRecord(f[k - 1], refs[k])]

LEMMA EmissionExists ==
    ASSUME NEW m \in Nat, NEW ix, NEW refs
    PROVE  \E f : Emits(f, m, ix, refs)
<1> DEFINE S == {n \in Nat : \E f : Emits(f, n, ix, refs)}
<1>1. 0 \in S
  <2> DEFINE f == [k \in 0..0 |-> ix]
  <2>1. Emits(f, 0, ix, refs)
    BY DEF Emits
  <2> QED
    BY <2>1
<1>2. ASSUME NEW n \in 0..m, n \in S
      PROVE  n + 1 \in S
  <2>1. PICK g : Emits(g, n, ix, refs)
    BY <1>2
  <2> DEFINE f == [k \in 0..n + 1 |->
                     IF k = n + 1 THEN EmitRecord(g[n], refs[n + 1]) ELSE g[k]]
             step(h) == [k \in 0..n + 1 |->
                           IF k = 0 THEN ix ELSE EmitRecord(h[k - 1], refs[k])]
  <2>2. \A k \in 0..n : g[k] = IF k = 0 THEN ix ELSE EmitRecord(g[k - 1], refs[k])
    BY <2>1 DEF Emits
  <2>3. ASSUME NEW k \in 0..n + 1
        PROVE  f[k] = step(f)[k]
    <3>1. CASE k = n + 1
      <4>1. k # 0 /\ k - 1 = n /\ n \in 0..n + 1 /\ n # n + 1
        BY <3>1
      <4> QED
        BY <3>1, <4>1
    <3>2. CASE k # n + 1
      <4>1. k \in 0..n /\ (k # 0 => k - 1 \in 0..n + 1 /\ k - 1 # n + 1)
        BY <3>2
      <4> QED
        BY <2>2, <3>2, <4>1
    <3> QED
      BY <3>1, <3>2
  <2>4. f = step(f)
    BY <2>3
  <2> HIDE DEF f
  <2>5. Emits(f, n + 1, ix, refs)
    BY <2>4 DEF Emits
  <2> QED
    BY <2>5
<1> HIDE DEF S
<1>3. \A n \in 0..m : n \in S
  BY <1>1, <1>2, CountingUp
<1>4. m \in S
  BY <1>3
<1> QED
  BY <1>4 DEF S

LEMMA EmissionsKeep ==
    ASSUME NEW L, IsLines(L), NEW ix, Agrees(ix, L), NEW b \in Nat, ix.records <= b,
           b <= Len(L), NEW refs, Lists(refs, L, ix.records, b)
    PROVE  LET iy == EmitRecords(ix, refs)
           IN  Agrees(iy, L) /\ SameScan(ix, iy) /\ iy.records = b
<1> DEFINE a == ix.records
           f == CHOOSE g : Emits(g, Len(refs), ix, refs)
           S == {n \in Nat : n <= b - a =>
                   Agrees(f[n], L) /\ SameScan(ix, f[n]) /\ f[n].records = a + n}
<1>1. Len(refs) = b - a /\ a \in Nat /\ b - a \in Nat /\ Len(L) \in Nat
      /\ \A i \in 1..b - a : refs[i] = L[a + i]
  <2>1. Len(L) \in Nat
    BY LenProperties DEF IsLines
  <2>2. a \in 0..Len(L)
    BY DEF Agrees
  <2>3. a <= b
    OBVIOUS
  <2> HIDE DEF a
  <2>4. b - a \in Nat /\ a \in Nat
    BY <2>1, <2>2, <2>3
  <2> QED
    BY <2>1, <2>4 DEF Lists, a
<1>2. Emits(f, Len(refs), ix, refs)
  BY <1>1, EmissionExists
<1>3. EmitRecords(ix, refs) = f[Len(refs)]
  BY DEF EmitRecords, Emits
<1>4. a <= b
  OBVIOUS
<1> HIDE DEF f, a
<1>5. f[0] = ix /\ \A k \in 0..b - a : k # 0 => f[k] = EmitRecord(f[k - 1], refs[k])
  BY <1>1, <1>2 DEF Emits
<1>6. 0 \in S
  <2>1. a + 0 = a
    BY <1>1
  <2> QED
    BY <1>5, <2>1 DEF SameScan, a
<1>7. ASSUME NEW n \in 0..b - a, n \in S, n < b - a
      PROVE  n + 1 \in S
  <2>1. /\ n + 1 \in 0..b - a /\ n + 1 # 0 /\ (n + 1) - 1 = n /\ n + 1 \in 1..b - a
        /\ n + 1 \in Nat /\ a + (n + 1) = (a + n) + 1 /\ a + n < b /\ n <= b - a
        /\ a + n \in Nat
    <3> DEFINE c == b - a
    <3>1. n \in 0..c /\ n < c /\ c \in Nat /\ a \in Nat /\ b = a + c
      BY <1>1, <1>7
    <3> HIDE DEF c
    <3>2. /\ n + 1 \in 0..c /\ n + 1 # 0 /\ (n + 1) - 1 = n /\ n + 1 \in 1..c
          /\ n + 1 \in Nat /\ a + (n + 1) = (a + n) + 1 /\ a + n < b /\ n <= c
          /\ a + n \in Nat
      BY <3>1
    <3> QED
      BY <3>2 DEF c
  <2>2. Agrees(f[n], L) /\ SameScan(ix, f[n]) /\ f[n].records = a + n
    BY <1>7, <2>1
  <2>3. f[n + 1] = EmitRecord(f[n], refs[n + 1])
    BY <1>5, <2>1
  <2>4. refs[n + 1] = L[f[n].records + 1]
    BY <1>1, <2>1, <2>2
  <2>5. a + n < Len(L)
    <3>1. b <= Len(L)
      OBVIOUS
    <3> QED
      BY <1>1, <2>1, <3>1
  <2>6. /\ Agrees(f[n + 1], L) /\ SameScan(f[n], f[n + 1])
        /\ f[n + 1].records = f[n].records + 1
    BY <2>2, <2>3, <2>4, <2>5, EmitKeeps
  <2> QED
    BY <2>1, <2>2, <2>6 DEF SameScan
<1> HIDE DEF S
<1>8. \A n \in 0..b - a : n \in S
  BY <1>1, <1>6, <1>7, CountingUp
<1>9. b - a \in S /\ a + (b - a) = b /\ b - a <= b - a
  BY <1>1, <1>8
<1>10. Agrees(f[b - a], L) /\ SameScan(ix, f[b - a]) /\ f[b - a].records = b
  BY <1>9 DEF S
<1> QED
  BY <1>1, <1>3, <1>10

\* The index is of the first bytes of a file, as many as it has scanned.
IsOf(ix, bytes) ==
    LET L == SplitLines(bytes)
    IN  /\ Agrees(ix, L)
        /\ ix.scanned \in 0..Len(bytes)
        /\ ix.previous = "cr" <=> ReturnBefore(bytes, ix.scanned)
        /\ ix.complete \in BOOLEAN
        /\ IF ix.complete
             THEN ix.records = Len(L) /\ ix.pending = <<>> /\ ix.scanned = Len(bytes)
             ELSE ix.records = Ended(bytes, ix.scanned)

LEMMA FileHasLines ==
    ASSUME NEW bytes \in Seq(Bytes)
    PROVE  IsLines(SplitLines(bytes))
  BY LinesFollow DEF IsLines

LEMMA EmptyIndexIsOf ==
    ASSUME NEW bytes \in Seq(Bytes)
    PROVE  IsOf(EmptyIndex, bytes)
<1> DEFINE L == SplitLines(bytes)
<1>1. L \in Seq(Refs) /\ Len(L) \in Nat /\ Len(bytes) \in Nat /\ Ended(bytes, 0) = 0
  BY LinesFollow, LenProperties
<1> HIDE DEF L
<1>2. /\ DOMAIN EmptyIndex = IndexFields
      /\ EmptyIndex.scanned = 0 /\ EmptyIndex.lineStart = 0 /\ EmptyIndex.previous = "none"
      /\ EmptyIndex.records = 0 /\ EmptyIndex.complete = FALSE
      /\ EmptyIndex.segments = <<>> /\ EmptyIndex.pending = <<>> /\ EmptyIndex.cache = <<>>
  BY DEF EmptyIndex, IndexFields
<1>3. <<>> \in Seq(Segments(L, 0)) /\ <<>> \in Seq(Entries(L, <<>>)) /\ Len(<<>>) = 0
      /\ 0 - 0 = 0
  BY EmptySeq
<1>4. Lists(<<>>, L, 0, 0)
  BY ListsNothing
<1>5. 0 <= CachedSegments
  BY SegmentAssumption
<1>6. Agrees(EmptyIndex, L)
  BY <1>1, <1>2, <1>3, <1>4, <1>5 DEF Agrees, Boundary
<1>7. EmptyIndex.previous = "cr" <=> ReturnBefore(bytes, EmptyIndex.scanned)
  BY <1>2 DEF ReturnBefore
<1>8. EmptyIndex.scanned \in 0..Len(bytes)
  BY <1>1, <1>2
<1> QED
  BY <1>1, <1>2, <1>6, <1>7, <1>8 DEF IsOf, L

LEMMA FinishKeeps ==
    ASSUME NEW bytes \in Seq(Bytes), NEW ix, IsOf(ix, bytes), ~ix.complete,
           ix.scanned = Len(bytes)
    PROVE  IsOf(FinishAtEof(ix, Len(bytes)), bytes)
<1> DEFINE L == SplitLines(bytes)
           N == Len(bytes)
           K == Ended(bytes, N)
           refs == UnendedLine(Boundary(L, K), N)
           last == EmitRecords(ix, refs)
           done == FinalizePending(last)
           iy == FinishAtEof(ix, N)
<1>1. /\ IsLines(L) /\ Len(L) \in Nat /\ K \in Nat /\ K <= Len(L) /\ N \in Nat
      /\ Lists(refs, L, K, Len(L))
  <2>1. /\ L \in Seq(Refs) /\ N \in Nat /\ K <= Len(L) /\ Lists(refs, L, K, Len(L))
        /\ \A n \in 0..N : Ended(bytes, n) \in 0..K
    BY LinesFollow
  <2>2. IsLines(L)
    BY FileHasLines
  <2> HIDE DEF L, N, refs
  <2>3. Len(L) \in Nat /\ 0 \in 0..N
    BY <2>1, LenProperties
  <2>4. K \in Nat
    <3>1. N \in 0..N
      BY <2>1
    <3>2. K \in 0..K
      BY <2>1, <3>1
    <3> QED
      BY <3>2
  <2> QED
    BY <2>1, <2>2, <2>3, <2>4
<1>2. Agrees(ix, L) /\ ix.records = K /\ ix.lineStart = Boundary(L, K)
  BY DEF IsOf, Agrees
<1> HIDE DEF L, K, N
<1>3. Agrees(last, L) /\ SameScan(ix, last) /\ last.records = Len(L)
  <2> HIDE DEF refs
  <2>1. Len(L) <= Len(L) /\ ix.records <= Len(L)
    BY <1>1, <1>2
  <2> QED
    BY <1>1, <1>2, <2>1, EmissionsKeep
<1> HIDE DEF last
<1>4. Agrees(done, L) /\ SameScan(last, done) /\ done.records = Len(L) /\ done.pending = <<>>
  BY <1>1, <1>3, FinalizeKeeps
<1>5. iy = [done EXCEPT !.complete = TRUE]
  BY <1>2 DEF FinishAtEof, done, last, refs
<1> HIDE DEF done, iy
<1>6. /\ DOMAIN iy = IndexFields /\ iy.complete = TRUE /\ iy.scanned = done.scanned
      /\ iy.previous = done.previous /\ iy.records = done.records
      /\ iy.pending = done.pending /\ iy.lineStart = done.lineStart
      /\ iy.segments = done.segments /\ iy.cache = done.cache
  BY <1>4, <1>5 DEF Agrees, IndexFields
<1>7. Agrees(iy, L)
  BY <1>4, <1>6 DEF Agrees
<1>8. iy.scanned = ix.scanned /\ iy.previous = ix.previous
  BY <1>3, <1>4, <1>6 DEF SameScan
<1>9. /\ ix.scanned = N /\ ix.scanned \in 0..N
      /\ ix.previous = "cr" <=> ReturnBefore(bytes, ix.scanned)
  BY DEF IsOf, N
<1>10. IsOf(iy, bytes)
  BY <1>4, <1>6, <1>7, <1>8, <1>9 DEF IsOf, L, N
<1> QED
  BY <1>10 DEF iy, N

\* Wherever a chunk of the file ends, within a record, between the two bytes of
\* its delimiter or at the end of the file, to commit it leaves the index that
\* of the bytes up to there: no record is cut, counted twice or left out, and
\* the last one is there when the file is (scanNextChunk, emitRecord).
THEOREM CommitKeeps ==
    ASSUME NEW bytes \in Seq(Bytes), NEW ix, IsOf(ix, bytes), ~ix.complete,
           NEW chunk, Len(chunk) \in Nat \ {0}, ix.scanned + Len(chunk) <= Len(bytes),
           \A i \in 1..Len(chunk) : chunk[i] = bytes[ix.scanned + i]
    PROVE  IsOf(CommitChunk(ix, chunk, Len(bytes)), bytes)
<1> DEFINE L == SplitLines(bytes)
           N == Len(bytes)
           p == ix.scanned
           m == Len(chunk)
           refs == ChunkRefs(p, ix.lineStart, ix.previous, chunk)
           emitted == EmitRecords(ix, refs)
           moved == [emitted EXCEPT !.previous = Last(chunk).is, !.scanned = p + m]
<1>1. /\ IsLines(L) /\ Len(L) \in Nat /\ N \in Nat
      /\ \A n \in 0..N : Ended(bytes, n) \in Nat /\ Ended(bytes, n) <= Len(L)
  <2>1. L \in Seq(Refs)
    BY LinesFollow
  <2>2. /\ Len(L) \in Nat /\ N \in Nat
    BY <2>1, LenProperties
  <2>3. N \in 0..N
    BY <2>2
  <2>4. /\ \A n \in 0..N : Ended(bytes, n) \in 0..Ended(bytes, N)
        /\ Ended(bytes, N) <= Len(L)
    BY LinesFollow
  <2>5. Ended(bytes, N) \in Nat
    BY <2>3, <2>4
  <2> HIDE DEF L, N
  <2> QED
    BY <2>2, <2>4, <2>5, FileHasLines DEF L
<1>2. /\ Agrees(ix, L) /\ ix.records = Ended(bytes, p) /\ p \in 0..N
      /\ ix.previous = "cr" <=> ReturnBefore(bytes, p)
      /\ ix.lineStart = Boundary(L, Ended(bytes, p))
  BY DEF IsOf, Agrees
<1>3. m \in Nat /\ m # 0 /\ p + m <= N /\ p \in Nat /\ p + m \in 0..N /\ p + m > 0
  <2>1. m \in Nat /\ m # 0 /\ p + m <= N
    OBVIOUS
  <2> HIDE DEF m, p, N
  <2> QED
    BY <1>1, <1>2, <2>1
<1>4. /\ Ended(bytes, p) <= Ended(bytes, p + m)
      /\ Lists(refs, L, Ended(bytes, p), Ended(bytes, p + m))
  <2> HIDE DEF p, N
  <2>1. \A i \in 1..m : chunk[i] = bytes[p + i]
    BY DEF p
  <2> QED
    BY <1>2, <1>3, <2>1, ChunkGivesItsLines DEF N
<1> HIDE DEF L, N, m, p, refs
<1>5. Agrees(emitted, L) /\ SameScan(ix, emitted) /\ emitted.records = Ended(bytes, p + m)
  BY <1>1, <1>2, <1>3, <1>4, EmissionsKeep
<1> HIDE DEF emitted
<1>6. /\ DOMAIN moved = IndexFields /\ moved.complete = emitted.complete
      /\ moved.scanned = p + m /\ moved.previous = Last(chunk).is
      /\ moved.records = emitted.records /\ moved.pending = emitted.pending
      /\ moved.lineStart = emitted.lineStart
      /\ moved.segments = emitted.segments /\ moved.cache = emitted.cache
  BY <1>5 DEF Agrees, IndexFields
<1>7. CommitChunk(ix, chunk, N) = IF moved.scanned >= N THEN FinishAtEof(moved, N) ELSE moved
  BY DEF CommitChunk, moved, emitted, refs, p, m
<1> HIDE DEF moved
<1>8. Agrees(moved, L)
  BY <1>5, <1>6 DEF Agrees
<1>9. moved.previous = "cr" <=> ReturnBefore(bytes, p + m)
  <2>1. Last(chunk) = bytes[p + m]
    <3>1. m \in 1..m /\ chunk[m] = Last(chunk)
      BY <1>3 DEF m, Last
    <3> QED
      BY <3>1 DEF m, p
  <2> QED
    BY <1>3, <1>6, <2>1 DEF ReturnBefore
<1>10. moved.complete = FALSE
  <2>1. ix.complete = FALSE
    BY DEF IsOf
  <2> QED
    BY <1>5, <1>6, <2>1 DEF SameScan
<1>11. IsOf(moved, bytes)
  BY <1>3, <1>5, <1>6, <1>8, <1>9, <1>10 DEF IsOf, L, N
<1>12. moved.scanned >= N => IsOf(FinishAtEof(moved, N), bytes)
  <2>1. moved.scanned >= N => moved.scanned = N
    BY <1>1, <1>3, <1>6
  <2> QED
    BY <1>10, <1>11, <2>1, FinishKeeps DEF N
<1> QED
  BY <1>7, <1>11, <1>12 DEF N
-----------------------------------------------------------------------------
(* What is looked up in an index *)

LEMMA SegmentIsOfLines ==
    ASSUME NEW bytes \in Seq(Bytes), NEW ix, IsOf(ix, bytes), NEW k \in 1..Len(ix.segments)
    PROVE  LET L == SplitLines(bytes)
               meta == ix.segments[k]
           IN  /\ meta.first \in Nat /\ meta.count \in Nat /\ meta.count > 0
               /\ meta.first + meta.count <= Len(L)
               /\ meta.start = Boundary(L, meta.first)
               /\ meta.end = Boundary(L, meta.first + meta.count)
<1> DEFINE L == SplitLines(bytes)
           n == ix.records - Len(ix.pending)
           meta == ix.segments[k]
<1>1. /\ ix.records \in 0..Len(L) /\ Len(ix.pending) \in 0..ix.records
      /\ ix.segments \in Seq(Segments(L, n))
  BY DEF IsOf, Agrees
<1>2. Len(L) \in Nat
  BY LinesFollow, LenProperties
<1> HIDE DEF L
<1>3. n \in Nat /\ n <= Len(L)
  <2> DEFINE p == Len(ix.pending)
  <2>1. p \in 0..ix.records
    BY <1>1
  <2> HIDE DEF p
  <2>2. ix.records - p \in Nat /\ ix.records - p <= Len(L)
    BY <1>1, <1>2, <2>1
  <2> QED
    BY <2>2 DEF p
<1> HIDE DEF n
<1>4. meta \in Segments(L, n)
  BY <1>1, ElementOfSeq
<1> HIDE DEF meta
<1>5. /\ meta.first \in Nat /\ meta.count \in Nat /\ meta.count > 0
      /\ meta.first + meta.count <= n
      /\ meta.start = Boundary(L, meta.first)
      /\ meta.end = Boundary(L, meta.first + meta.count)
  BY <1>4 DEF Segments
<1>6. meta.first + meta.count <= Len(L)
  BY <1>2, <1>3, <1>5
<1> QED
  BY <1>5, <1>6 DEF L, meta

LEMMA EntryIsOfLines ==
    ASSUME NEW bytes \in Seq(Bytes), NEW ix, IsOf(ix, bytes), NEW k \in 1..Len(ix.cache)
    PROVE  LET L == SplitLines(bytes)
               meta == ix.segments[ix.cache[k].id + 1]
           IN  /\ ix.cache[k].id \in Nat
               /\ ix.cache[k].id + 1 \in 1..Len(ix.segments)
               /\ Lists(ix.cache[k].refs, L, meta.first, meta.first + meta.count)
<1>1. ix.cache \in Seq(Entries(SplitLines(bytes), ix.segments))
  BY DEF IsOf, Agrees
<1>2. ix.cache[k] \in Entries(SplitLines(bytes), ix.segments)
  BY <1>1, ElementOfSeq
<1> QED
  BY <1>2 DEF Entries

\* An index of a file holds what the definition of its records says.
LEMMA IndexListsRecords ==
    ASSUME NEW bytes \in Seq(Bytes), NEW ix, IsOf(ix, bytes)
    PROVE  LET L == SplitLines(bytes)
           IN  /\ IF ix.complete THEN ix.records = Len(L) ELSE ix.records <= Len(L)
               /\ ix.pending = SubSeq(L, ix.records - Len(ix.pending) + 1, ix.records)
               /\ \A k \in DOMAIN ix.cache :
                    LET meta == ix.segments[ix.cache[k].id + 1]
                    IN  ix.cache[k].refs = SubSeq(L, meta.first + 1, meta.first + meta.count)
<1> DEFINE L == SplitLines(bytes)
<1>1. L \in Seq(Refs) /\ Len(L) \in Nat
  BY LinesFollow, LenProperties
<1>2. /\ ix.records \in 0..Len(L) /\ Len(ix.pending) \in 0..ix.records
      /\ Lists(ix.pending, L, ix.records - Len(ix.pending), ix.records)
      /\ ix.complete => ix.records = Len(L)
      /\ ix.cache \in Seq(Entries(L, ix.segments))
  BY DEF IsOf, Agrees
<1> HIDE DEF L
<1>3. ix.pending = SubSeq(L, ix.records - Len(ix.pending) + 1, ix.records)
  <2> DEFINE p == Len(ix.pending)
  <2>1. p \in 0..ix.records /\ Lists(ix.pending, L, ix.records - p, ix.records)
    BY <1>2
  <2> HIDE DEF p
  <2>2. ix.records - p \in Nat /\ ix.records - p <= ix.records /\ ix.records \in Nat
        /\ ix.records <= Len(L)
    BY <1>1, <1>2, <2>1
  <2>3. ix.pending = SubSeq(L, (ix.records - p) + 1, ix.records)
    BY <1>1, <2>1, <2>2, ListsIsSubSeq
  <2> QED
    BY <2>3 DEF p
<1>4. ASSUME NEW k \in DOMAIN ix.cache
      PROVE  LET meta == ix.segments[ix.cache[k].id + 1]
             IN  ix.cache[k].refs = SubSeq(L, meta.first + 1, meta.first + meta.count)
  <2>1. k \in 1..Len(ix.cache)
    BY <1>2, LenProperties
  <2> DEFINE meta == ix.segments[ix.cache[k].id + 1]
  <2>2. /\ ix.cache[k].id + 1 \in 1..Len(ix.segments)
        /\ Lists(ix.cache[k].refs, L, meta.first, meta.first + meta.count)
    BY <2>1, EntryIsOfLines DEF L
  <2>3. /\ meta.first \in Nat /\ meta.count \in Nat /\ meta.first + meta.count <= Len(L)
    BY <2>2, SegmentIsOfLines DEF L
  <2> HIDE DEF meta
  <2>4. meta.first + meta.count \in Nat /\ meta.first <= meta.first + meta.count
    BY <2>3
  <2>5. ix.cache[k].refs = SubSeq(L, meta.first + 1, meta.first + meta.count)
    BY <1>1, <2>2, <2>3, <2>4, ListsIsSubSeq
  <2> QED
    BY <2>5 DEF meta
<1>5. ix.records <= Len(L)
  BY <1>1, <1>2
<1> QED
  BY <1>2, <1>3, <1>4, <1>5 DEF L

LEMMA FoundInPending ==
    ASSUME NEW bytes \in Seq(Bytes), NEW ix, IsOf(ix, bytes), NEW ordinal \in Nat,
           ordinal < ix.records, ordinal >= ix.records - Len(ix.pending)
    PROVE  LET L == SplitLines(bytes)
           IN  /\ ordinal < Len(L)
               /\ ix.pending[ordinal - (ix.records - Len(ix.pending)) + 1] = L[ordinal + 1]
<1> DEFINE L == SplitLines(bytes)
           p == Len(ix.pending)
           r == ix.records
<1>1. Len(L) \in Nat
  BY LinesFollow, LenProperties
<1>2. r \in 0..Len(L) /\ p \in 0..r /\ Lists(ix.pending, L, r - p, r)
  BY DEF IsOf, Agrees
<1>3. ordinal < r /\ ordinal >= r - p
  OBVIOUS
<1> HIDE DEF L, p, r
<1>4. /\ ordinal - (r - p) + 1 \in 1..r - (r - p)
      /\ (r - p) + (ordinal - (r - p) + 1) = ordinal + 1
      /\ ordinal < Len(L)
  BY <1>1, <1>2, <1>3
<1>5. ix.pending[ordinal - (r - p) + 1] = L[(r - p) + (ordinal - (r - p) + 1)]
  BY <1>2, <1>4 DEF Lists
<1> QED
  BY <1>4, <1>5 DEF L, p, r

\* One of the lines of a segment, in a list of them.
LEMMA FoundInSegment ==
    ASSUME NEW bytes \in Seq(Bytes), NEW ix, IsOf(ix, bytes), NEW k \in 1..Len(ix.segments),
           NEW ordinal \in Nat,
           ix.segments[k].first <= ordinal,
           ordinal < ix.segments[k].first + ix.segments[k].count,
           NEW refs,
           Lists(refs, SplitLines(bytes), ix.segments[k].first,
                 ix.segments[k].first + ix.segments[k].count)
    PROVE  /\ ordinal < Len(SplitLines(bytes))
           /\ refs[ordinal - ix.segments[k].first + 1] = SplitLines(bytes)[ordinal + 1]
<1> DEFINE L == SplitLines(bytes)
           a == ix.segments[k].first
           c == ix.segments[k].count
<1>1. a \in Nat /\ c \in Nat /\ a + c <= Len(L) /\ Len(L) \in Nat
  BY SegmentIsOfLines, LinesFollow, LenProperties
<1>2. a <= ordinal /\ ordinal < a + c /\ Lists(refs, L, a, a + c)
  OBVIOUS
<1> HIDE DEF L, a, c
<1>3. ordinal - a + 1 \in 1..(a + c) - a /\ a + (ordinal - a + 1) = ordinal + 1
      /\ ordinal < Len(L)
  BY <1>1, <1>2
<1>4. refs[ordinal - a + 1] = L[a + (ordinal - a + 1)]
  BY <1>2, <1>3 DEF Lists
<1> QED
  BY <1>3, <1>4 DEF L, a, c

\* A cache with the segment put into it is still one of the index.
LEMMA CachedKeeps ==
    ASSUME NEW bytes \in Seq(Bytes), NEW ix, IsOf(ix, bytes), NEW id \in Nat,
           id + 1 \in 1..Len(ix.segments), NEW refs,
           Lists(refs, SplitLines(bytes), ix.segments[id + 1].first,
                 ix.segments[id + 1].first + ix.segments[id + 1].count)
    PROVE  IsOf([ix EXCEPT !.cache = PutCache(ix.cache, id, refs)], bytes)
<1> DEFINE L == SplitLines(bytes)
           put == PutCache(ix.cache, id, refs)
           iy == [ix EXCEPT !.cache = put]
           G == Entries(L, ix.segments)
<1>1. Agrees(ix, L) /\ ix.cache \in Seq(G) /\ Len(ix.cache) <= CachedSegments
  BY DEF IsOf, Agrees
<1>2. [id |-> id, refs |-> refs] \in G
  <2>1. refs \in Seq(Refs)
    BY DEF Lists
  <2> QED
    BY <2>1 DEF Entries
<1> HIDE DEF L, G
<1>3. put \in Seq(G) /\ Len(put) <= CachedSegments
  BY <1>1, <1>2, PutCacheKeeps
<1> HIDE DEF put
<1>4. /\ DOMAIN iy = IndexFields /\ iy.cache = put
      /\ iy.scanned = ix.scanned /\ iy.lineStart = ix.lineStart
      /\ iy.previous = ix.previous /\ iy.records = ix.records
      /\ iy.complete = ix.complete /\ iy.segments = ix.segments
      /\ iy.pending = ix.pending
  BY <1>1 DEF Agrees, IndexFields
<1> HIDE DEF iy
<1>5. Agrees(iy, L)
  BY <1>1, <1>3, <1>4 DEF Agrees, G
<1>6. IsOf(iy, bytes)
  BY <1>4, <1>5 DEF IsOf, L
<1> QED
  BY <1>6 DEF iy, put

LEMMA SameCacheKeeps ==
    ASSUME NEW bytes, NEW ix, IsOf(ix, bytes)
    PROVE  IsOf([ix EXCEPT !.cache = ix.cache], bytes)
<1> DEFINE iy == [ix EXCEPT !.cache = ix.cache]
<1>1. Agrees(ix, SplitLines(bytes))
  BY DEF IsOf
<1>2. /\ DOMAIN iy = IndexFields /\ iy.cache = ix.cache
      /\ iy.scanned = ix.scanned /\ iy.lineStart = ix.lineStart
      /\ iy.previous = ix.previous /\ iy.records = ix.records
      /\ iy.complete = ix.complete /\ iy.segments = ix.segments
      /\ iy.pending = ix.pending
  BY <1>1 DEF Agrees, IndexFields
<1> HIDE DEF iy
<1>3. Agrees(iy, SplitLines(bytes))
  BY <1>1, <1>2 DEF Agrees
<1>4. IsOf(iy, bytes)
  BY <1>2, <1>3 DEF IsOf
<1> QED
  BY <1>4 DEF iy
-----------------------------------------------------------------------------
(* A segment that is being rebuilt *)

\* The load has the lines of its segment that end before its offset.
IsLoad(load, ix, bytes) ==
    LET L == SplitLines(bytes)
        meta == ix.segments[load.id + 1]
    IN  /\ DOMAIN load = {"id", "offset", "lineStart", "previous", "refs"}
        /\ load.id \in Nat
        /\ load.id + 1 \in 1..Len(ix.segments)
        /\ load.offset \in 0..Len(bytes)
        /\ load.offset <= meta.end
        /\ load.previous = "cr" <=> ReturnBefore(bytes, load.offset)
        /\ meta.first <= Ended(bytes, load.offset)
        /\ Lists(load.refs, L, meta.first, Ended(bytes, load.offset))
        /\ load.lineStart = Boundary(L, Ended(bytes, load.offset))

\* Where a line ends, as many lines have ended as there are up to it, but for
\* one that ends with the file.
LEMMA EndedAtBoundary ==
    ASSUME NEW bytes \in Seq(Bytes), NEW j \in 0..Len(SplitLines(bytes))
    PROVE  LET L == SplitLines(bytes)
               N == Len(bytes)
               K == Ended(bytes, N)
           IN  /\ Boundary(L, j) \in 0..N
               /\ K \in Nat /\ K <= Len(L) /\ Len(L) <= K + 1
               /\ j <= K => /\ Ended(bytes, Boundary(L, j)) = j
                            /\ ~ReturnBefore(bytes, Boundary(L, j))
               /\ j > K => Boundary(L, j) = N /\ j = Len(L) /\ j = K + 1
<1> DEFINE L == SplitLines(bytes)
           N == Len(bytes)
           K == Ended(bytes, N)
<1>1. /\ L \in Seq(Refs) /\ N \in Nat /\ Ended(bytes, 0) = 0 /\ K <= Len(L)
      /\ \A n \in 0..N : Ended(bytes, n) \in 0..K
      /\ \A i \in 1..Len(L) : Boundary(L, i) \in 1..N
      /\ \A i \in 1..K : /\ IsLineFeed(bytes[Boundary(L, i)])
                         /\ Ended(bytes, Boundary(L, i)) = i
      /\ \A i \in 1..Len(L) : i > K => i = K + 1 /\ Boundary(L, i) = N
  BY LinesFollow
<1>2. Len(L) \in Nat
  BY <1>1, LenProperties
<1> HIDE DEF L
<1>3. K \in Nat
  <2> HIDE DEF N
  <2>1. N \in 0..N
    BY <1>1
  <2>2. K \in 0..K
    BY <1>1, <2>1
  <2> HIDE DEF K
  <2> QED
    BY <2>2
<1>4. j \in 0..Len(L)
  BY DEF L
<1> HIDE DEF N, K
<1>5. Len(L) <= K + 1
  <2>1. CASE Len(L) <= K
    BY <1>2, <1>3, <2>1
  <2>2. CASE Len(L) > K
    <3>1. Len(L) \in 1..Len(L)
      BY <1>2, <1>3, <2>2
    <3> QED
      BY <1>1, <1>2, <1>3, <2>2, <3>1
  <2> QED
    BY <1>2, <1>3, <2>1, <2>2
<1>6. CASE j = 0
  <2>1. Boundary(L, j) = 0
    BY <1>6 DEF Boundary
  <2>2. ~ReturnBefore(bytes, 0)
    BY DEF ReturnBefore
  <2>3. Boundary(L, j) \in 0..N /\ ~(j > K)
    BY <1>1, <1>3, <1>6, <2>1
  <2> QED
    BY <1>1, <1>3, <1>5, <1>6, <2>1, <2>2, <2>3 DEF L, N, K
<1>7. CASE j # 0
  <2>1. j \in 1..Len(L)
    BY <1>2, <1>4, <1>7
  <2>2. Boundary(L, j) \in 1..N /\ Boundary(L, j) \in 0..N
    BY <1>1, <2>1
  <2>3. j <= K => j \in 1..K
    BY <1>3, <2>1
  <2>4. ASSUME j <= K
        PROVE  /\ Ended(bytes, Boundary(L, j)) = j
               /\ ~ReturnBefore(bytes, Boundary(L, j))
    <3>1. IsLineFeed(bytes[Boundary(L, j)]) /\ Ended(bytes, Boundary(L, j)) = j
      BY <1>1, <2>3, <2>4
    <3> QED
      BY <3>1 DEF ReturnBefore, IsLineFeed
  <2>5. j > K => Boundary(L, j) = N /\ j = Len(L) /\ j = K + 1
    BY <1>1, <1>2, <1>3, <1>5, <2>1
  <2> QED
    BY <1>1, <1>3, <1>5, <2>2, <2>4, <2>5 DEF L, N, K
<1> QED
  BY <1>6, <1>7

\* As a chunk goes on, no fewer lines have ended.
LEMMA EndedGrows ==
    ASSUME NEW bytes \in Seq(Bytes), NEW p \in 0..Len(bytes), NEW q \in 0..Len(bytes), p <= q
    PROVE  Ended(bytes, p) <= Ended(bytes, q)
<1> DEFINE chunk == BytesAt(bytes, p, q - p)
           previous == IF ReturnBefore(bytes, p) THEN "cr" ELSE "none"
<1>1. Len(bytes) \in Nat
  BY LenProperties
<1>2. p \in Nat /\ q - p \in Nat /\ p + (q - p) = q /\ q <= Len(bytes)
  BY <1>1
<1>3. Len(chunk) = q - p
  BY <1>2, BytesInRange
<1>4. \A i \in 1..q - p : chunk[i] = bytes[p + i]
  BY <1>2, BytesInRange
<1>5. previous = "cr" <=> ReturnBefore(bytes, p)
  OBVIOUS
<1> HIDE DEF chunk, previous
<1>6. PICK m \in Nat : m = q - p
  BY <1>2
<1>7. p + m <= Len(bytes) /\ Len(chunk) = m /\ \A i \in 1..m : chunk[i] = bytes[p + i]
  BY <1>2, <1>3, <1>4, <1>6
<1>8. Ended(bytes, p) <= Ended(bytes, p + m)
  BY <1>2, <1>5, <1>7, ChunkGivesItsLines
<1> QED
  BY <1>2, <1>6, <1>8

LEMMA LoadStarts ==
    ASSUME NEW bytes \in Seq(Bytes), NEW ix, IsOf(ix, bytes), NEW id \in Nat,
           id + 1 \in 1..Len(ix.segments)
    PROVE  IsLoad(StartLoad(ix, id), ix, bytes)
<1> DEFINE L == SplitLines(bytes)
           N == Len(bytes)
           K == Ended(bytes, N)
           meta == ix.segments[id + 1]
           load == StartLoad(ix, id)
           a == meta.first
           b == meta.first + meta.count
<1>1. /\ meta.first \in Nat /\ meta.count \in Nat /\ meta.count > 0
      /\ b <= Len(L) /\ meta.start = Boundary(L, a) /\ meta.end = Boundary(L, b)
  BY SegmentIsOfLines
<1>2. Len(L) \in Nat /\ N \in Nat
  BY LinesFollow, LenProperties
<1>3. /\ load.id = id /\ load.offset = meta.start /\ load.lineStart = meta.start
      /\ load.previous = "none" /\ load.refs = <<>>
      /\ DOMAIN load = {"id", "offset", "lineStart", "previous", "refs"}
  BY DEF StartLoad
<1> HIDE DEF load
<1>4. a \in Nat /\ b \in Nat /\ a < b /\ a \in 0..Len(L) /\ b \in 0..Len(L) /\ a < Len(L)
  <2> DEFINE f == meta.first
             c == meta.count
  <2>1. f \in Nat /\ c \in Nat /\ c > 0 /\ f + c <= Len(L)
    BY <1>1
  <2> HIDE DEF f, c, L
  <2>2. f + c \in Nat /\ f < f + c /\ f \in 0..Len(L) /\ f + c \in 0..Len(L) /\ f < Len(L)
    BY <1>2, <2>1
  <2> QED
    BY <2>2 DEF f, c
<1>5. /\ Boundary(L, a) \in 0..N /\ K \in Nat /\ Len(L) <= K + 1
      /\ a <= K => /\ Ended(bytes, Boundary(L, a)) = a
                   /\ ~ReturnBefore(bytes, Boundary(L, a))
  BY <1>4, EndedAtBoundary
<1>6. /\ Boundary(L, b) \in 0..N
      /\ b <= K => Ended(bytes, Boundary(L, b)) = b
      /\ b > K => Boundary(L, b) = N
  BY <1>4, EndedAtBoundary
<1> HIDE DEF L, N, K, a, b, meta
<1>7. a <= K
  BY <1>2, <1>4, <1>5
<1>8. Ended(bytes, Boundary(L, a)) = a /\ ~ReturnBefore(bytes, Boundary(L, a))
  BY <1>5, <1>7
<1>9. Boundary(L, a) <= Boundary(L, b)
  <2>1. CASE b > K
    BY <1>2, <1>5, <1>6, <2>1
  <2>2. CASE b <= K
    <3>1. Ended(bytes, Boundary(L, b)) = b
      BY <1>6, <2>2
    <3>2. Boundary(L, b) < Boundary(L, a) =>
            Ended(bytes, Boundary(L, b)) <= Ended(bytes, Boundary(L, a))
      <4>1. Boundary(L, b) < Boundary(L, a) => Boundary(L, b) <= Boundary(L, a)
        BY <1>2, <1>5, <1>6
      <4> QED
        BY <1>5, <1>6, <4>1, EndedGrows DEF N
    <3> QED
      BY <1>2, <1>4, <1>5, <1>6, <1>8, <3>1, <3>2
  <2> QED
    BY <1>4, <1>5, <2>1, <2>2
<1>10. Lists(<<>>, L, a, a)
  BY <1>4, ListsNothing
<1>11. load.previous = "cr" <=> ReturnBefore(bytes, load.offset)
  BY <1>1, <1>3, <1>8
<1>12. /\ load.offset \in 0..N /\ load.offset <= meta.end
       /\ a <= Ended(bytes, load.offset)
       /\ Lists(load.refs, L, a, Ended(bytes, load.offset))
       /\ load.lineStart = Boundary(L, Ended(bytes, load.offset))
  BY <1>1, <1>3, <1>4, <1>5, <1>8, <1>9, <1>10
<1>13. IsLoad(load, ix, bytes)
  BY <1>3, <1>11, <1>12 DEF IsLoad, L, N, a, meta
<1> QED
  BY <1>13 DEF load

LEMMA LoadKeeps ==
    ASSUME NEW bytes \in Seq(Bytes), NEW ix, IsOf(ix, bytes), NEW load, IsLoad(load, ix, bytes),
           NEW chunk, Len(chunk) \in Nat \ {0},
           load.offset + Len(chunk) <= ix.segments[load.id + 1].end,
           \A i \in 1..Len(chunk) : chunk[i] = bytes[load.offset + i]
    PROVE  /\ IsLoad(LoadChunk(load, chunk), ix, bytes)
           /\ LoadChunk(load, chunk).id = load.id
<1> DEFINE L == SplitLines(bytes)
           N == Len(bytes)
           meta == ix.segments[load.id + 1]
           p == load.offset
           m == Len(chunk)
           q == p + m
           refs == ChunkRefs(p, load.lineStart, load.previous, chunk)
           next == LoadChunk(load, chunk)
<1>1. /\ DOMAIN load = {"id", "offset", "lineStart", "previous", "refs"}
      /\ load.id \in Nat /\ load.id + 1 \in 1..Len(ix.segments)
      /\ p \in 0..N /\ p <= meta.end
      /\ load.previous = "cr" <=> ReturnBefore(bytes, p)
      /\ meta.first <= Ended(bytes, p)
      /\ Lists(load.refs, L, meta.first, Ended(bytes, p))
      /\ load.lineStart = Boundary(L, Ended(bytes, p))
  BY DEF IsLoad
<1>2. /\ meta.first \in Nat /\ meta.count \in Nat /\ meta.first + meta.count <= Len(L)
      /\ meta.end = Boundary(L, meta.first + meta.count)
  BY <1>1, SegmentIsOfLines
<1>3. Len(L) \in Nat /\ N \in Nat
  BY LinesFollow, LenProperties
<1>4. meta.end \in 0..N
  <2> DEFINE b == meta.first + meta.count
  <2>1. b \in 0..Len(L)
    <3> DEFINE f == meta.first
               c == meta.count
    <3>1. f \in Nat /\ c \in Nat /\ f + c <= Len(L)
      BY <1>2
    <3> HIDE DEF f, c, L
    <3>2. f + c \in 0..Len(L)
      BY <1>3, <3>1
    <3> QED
      BY <3>2 DEF f, c
  <2> HIDE DEF b
  <2>2. Boundary(L, b) \in 0..N
    BY <2>1, EndedAtBoundary
  <2> QED
    BY <1>2, <2>2 DEF b
<1>5. m \in Nat /\ m # 0 /\ q <= meta.end /\ \A i \in 1..m : chunk[i] = bytes[p + i]
  OBVIOUS
<1>6. chunk[m] = Last(chunk)
  BY DEF Last
<1>7. /\ next.refs = load.refs \o refs
      /\ next.lineStart = LineStartAfter(refs, load.lineStart)
      /\ next.previous = Last(chunk).is
      /\ next.offset = q /\ next.id = load.id
      /\ DOMAIN next = {"id", "offset", "lineStart", "previous", "refs"}
  BY <1>1 DEF LoadChunk
<1> HIDE DEF L, N, meta, p, m, refs, next
<1>8. p \in Nat /\ q \in Nat /\ q \in 0..N /\ q > 0 /\ p <= q /\ p + m <= N
  BY <1>1, <1>3, <1>4, <1>5
<1>9. /\ Ended(bytes, p) <= Ended(bytes, q)
      /\ Lists(refs, L, Ended(bytes, p), Ended(bytes, q))
  BY <1>1, <1>5, <1>8, ChunkGivesItsLines DEF refs, L, N, m
<1>10. Ended(bytes, p) \in Nat /\ Ended(bytes, q) \in Nat
  <2>1. \A n \in 0..N : Ended(bytes, n) \in 0..Ended(bytes, N)
    BY LinesFollow DEF N
  <2> QED
    BY <1>1, <1>8, <2>1
<1> HIDE DEF q
<1>11. Lists(load.refs \o refs, L, meta.first, Ended(bytes, q))
  BY <1>1, <1>2, <1>9, <1>10, ListsBoth
<1>12. LineStartAfter(refs, load.lineStart) = Boundary(L, Ended(bytes, q))
  BY <1>1, <1>9, <1>10, ListsEndAtBoundary
<1>13. Last(chunk) = bytes[q]
  <2>1. m \in 1..m
    BY <1>5
  <2> QED
    BY <1>5, <1>6, <2>1 DEF q
<1>14. next.previous = "cr" <=> ReturnBefore(bytes, next.offset)
  BY <1>7, <1>8, <1>13 DEF ReturnBefore
<1>15. meta.first <= Ended(bytes, q)
  BY <1>1, <1>2, <1>9, <1>10
<1>16. IsLoad(next, ix, bytes)
  BY <1>1, <1>5, <1>7, <1>8, <1>11, <1>12, <1>14, <1>15 DEF IsLoad, L, N, meta
<1> QED
  BY <1>7, <1>16 DEF next

\* A load that has come to the end of its segment has the segment's lines.
LEMMA LoadEnds ==
    ASSUME NEW bytes \in Seq(Bytes), NEW ix, IsOf(ix, bytes), NEW load, IsLoad(load, ix, bytes),
           ~(load.offset < ix.segments[load.id + 1].end)
    PROVE  Lists(LoadedRefs(ix, load), SplitLines(bytes), ix.segments[load.id + 1].first,
                 ix.segments[load.id + 1].first + ix.segments[load.id + 1].count)
<1> DEFINE L == SplitLines(bytes)
           N == Len(bytes)
           K == Ended(bytes, N)
           meta == ix.segments[load.id + 1]
           a == meta.first
           b == meta.first + meta.count
           e == meta.end
           rest == UnendedLine(load.lineStart, e)
<1>1. /\ load.id + 1 \in 1..Len(ix.segments)
      /\ load.offset \in 0..N /\ load.offset <= e /\ ~(load.offset < e)
      /\ a <= Ended(bytes, load.offset)
      /\ Lists(load.refs, L, a, Ended(bytes, load.offset))
      /\ load.lineStart = Boundary(L, Ended(bytes, load.offset))
  BY DEF IsLoad
<1>2. /\ meta.first \in Nat /\ meta.count \in Nat
      /\ b <= Len(L) /\ e = Boundary(L, b)
  BY <1>1, SegmentIsOfLines
<1>3. /\ Len(L) \in Nat /\ N \in Nat
      /\ Lists(UnendedLine(Boundary(L, K), N), L, K, Len(L))
  BY LinesFollow, LenProperties
<1>4. LoadedRefs(ix, load) = load.refs \o rest
  BY DEF LoadedRefs
<1>5. a \in Nat /\ b \in Nat /\ a <= b /\ b \in 0..Len(L)
  <2> DEFINE f == meta.first
             c == meta.count
  <2>1. f \in Nat /\ c \in Nat /\ f + c <= Len(L)
    BY <1>2
  <2> HIDE DEF f, c, L
  <2>2. f + c \in Nat /\ f <= f + c /\ f + c \in 0..Len(L)
    BY <1>3, <2>1
  <2> QED
    BY <2>1, <2>2 DEF f, c
<1> HIDE DEF b
<1>6. /\ Boundary(L, b) \in 0..N /\ K \in Nat
      /\ b <= K => Ended(bytes, Boundary(L, b)) = b
      /\ b > K => Boundary(L, b) = N /\ b = Len(L) /\ b = K + 1
  BY <1>5, EndedAtBoundary
<1> HIDE DEF L, N, K, a, e, meta
<1>7. load.offset = e /\ e \in Nat
  BY <1>1, <1>2, <1>3, <1>6
<1>8. CASE b <= K
  <2>1. Ended(bytes, e) = b /\ load.lineStart = e
    BY <1>1, <1>2, <1>6, <1>7, <1>8
  <2>2. rest = <<>>
    BY <1>7, <2>1 DEF UnendedLine
  <2>3. Lists(rest, L, b, b)
    BY <1>5, <2>2, ListsNothing
  <2>4. Lists(load.refs, L, a, b) /\ b <= b
    BY <1>1, <1>5, <1>7, <2>1
  <2> HIDE DEF rest
  <2>5. Lists(load.refs \o rest, L, a, b)
    BY <1>5, <2>3, <2>4, ListsBoth
  <2> QED
    BY <1>4, <2>5 DEF a, b, L, meta
<1>9. CASE b > K
  <2>1. e = N /\ b = Len(L) /\ b = K + 1 /\ Ended(bytes, e) = K
    BY <1>2, <1>6, <1>9 DEF K
  <2>2. Lists(rest, L, K, b)
    BY <1>1, <1>3, <1>7, <2>1
  <2>3. Lists(load.refs, L, a, K) /\ a <= K /\ K <= b
    BY <1>1, <1>5, <1>6, <1>7, <2>1
  <2> HIDE DEF rest
  <2>4. Lists(load.refs \o rest, L, a, b)
    BY <1>5, <1>6, <2>2, <2>3, ListsBoth
  <2> QED
    BY <1>4, <2>4 DEF a, b, L, meta
<1> QED
  BY <1>5, <1>6, <1>8, <1>9

-----------------------------------------------------------------------------
(* The engine *)

Stats == [file: Nat, size: Nat, stamp: Nat]
Fields == {"op", "ordinal", "at", "then", "cont", "file", "seen", "read",
           "used", "load", "ref", "record"}
Queued == [op: Reads \cup {"classify"}, ordinal: Nat]

\* The types of what the proofs are about: everything but the index.
Typed ==
    /\ path \in Files \cup {Directory, Nothing}
    /\ disk \in [Files -> [bytes: Seq(Bytes), stamp: Nat]]
    /\ writes \in Nat
    /\ damaged \in BOOLEAN
    /\ DOMAIN snapshot = {"bytes", "size", "prefix", "tail"}
    /\ snapshot.bytes \in Seq(Bytes)
    /\ Size = Len(snapshot.bytes)
    /\ DOMAIN run = Fields
    /\ run.seen \in Stats
    /\ run.cont \in {"idle", "check-whole", "classify-whole"}
    /\ queue \in Seq(Queued)

\* Stamps are those of writes that have been made.
StampsArePast ==
    /\ \A f \in Files : disk[f].stamp <= writes
    /\ run.seen.stamp <= writes

\* A source without a new stamp holds the bytes of the snapshot, and so does
\* what a baseline was read from when the stamp is still the old one.
Untouched ==
    disk[Source].stamp = 0 =>
        /\ Content(Source) = snapshot.bytes
        /\ run.at = "base-again" => run.read = snapshot.bytes

BaselineIsOfTheSnapshot ==
    /\ baseline.state = "known" => baseline.bytes = snapshot.bytes
    /\ baseline.state = "unavailable" => baseline = Unavailable
    /\ baseline.state \in {"lazy", "unavailable", "known"}
    /\ run.at = "classify-whole" => baseline.state # "lazy"

\* The places of classifyRefresh at which it has opened a file.
Opened ==
    \/ run.at \in {"classify-prefix", "classify-tail", "classify-whole",
                   "classify-again"}
    \/ /\ run.at \in {"base-stat", "base-read", "base-again"}
       /\ run.cont = "classify-whole"

\* The path names the source and the source has the stamp that was seen.
AsSeen == path = Source /\ disk[Source].stamp = run.seen.stamp

\* The source was at the path when it was first looked at.  If it is there
\* with that stamp, it was not away from it, and it is what was opened and
\* compared.
Looked ==
    /\ Opened \/ run.at = "classify-open" => run.seen.file = Source
    /\ Opened /\ AsSeen => run.file = Source
    /\ run.at = "classify-again" /\ AsSeen => OldRange(Source) = snapshot.bytes

\* What the engine compares is in its place in a source that was only appended
\* to or touched.
Undamaged ==
    ~damaged =>
        /\ path = Source
        /\ Size <= Len(Content(Source))
        /\ OldRange(Source) = snapshot.bytes
        /\ run.at # "open-prefix" => snapshot.prefix = PrefixOf(Source)
        /\ run.at \notin {"open-prefix", "open-tail"} =>
             snapshot.tail = TailOf(Source)
        /\ Opened => run.file = Source

\* The handle is closed after everything else.
ClosedIsLast == closed => closing /\ run = Idle /\ queue = <<>>

IInv ==
    /\ Typed
    /\ StampsArePast
    /\ Untouched
    /\ BaselineIsOfTheSnapshot
    /\ Looked
    /\ Undamaged
    /\ OnlyDamageIsDestructive
    /\ ClosedIsLast
-----------------------------------------------------------------------------
(* Steps of an operation that compare nothing *)

\* The places that say nothing of what the engine has seen of the file.
CalmAt(at, cont) ==
    \/ at \in {"idle", "scan", "check-path", "check-handle", "check-prefix",
               "check-tail", "check-whole", "check-again", "commit-path",
               "commit-handle", "load", "hydrate", "classify-path"}
    \/ at = "base-stat" /\ cont = "check-whole"

Afterwards == run.at \notin {"idle", "open-prefix", "open-tail"}

\* What an operation keeps for its next step.
Kept(r) ==
    /\ DOMAIN r = Fields
    /\ r.seen \in Stats
    /\ r.seen.stamp <= writes
    /\ r.cont \in {"idle", "check-whole", "classify-whole"}

\* The file is left alone, and the answer is none of a classification.
Quietly ==
    /\ UNCHANGED <<fileVars, snapshot, baseline, queue, closed>>
    /\ answer' = answer \/ answer'.outcome \in {"none", "ok", "failed", "unknown"}

LEMMA RunIsKept == IInv => Kept(run)
  BY DEF IInv, Typed, StampsArePast, Kept

LEMMA IdleFields ==
    /\ DOMAIN Idle = Fields
    /\ Idle.at = "idle" /\ Idle.cont = "idle" /\ Idle.then = "idle"
    /\ Idle.op = "none"
    /\ Idle.seen \in Stats /\ Idle.seen.stamp = 0
  BY DEF Idle, Fields, Stats, Nothing

LEMMA IdleIsKept == IInv => Kept(Idle)
  BY IdleFields DEF IInv, Typed, Kept

LEMMA NotClosed == IInv /\ run.at # "idle" => ~closed
  BY IdleFields DEF IInv, ClosedIsLast

LEMMA QuietAnswer ==
    ASSUME IInv, UNCHANGED damaged,
           answer' = answer \/ answer'.outcome \in {"none", "ok", "failed", "unknown"}
    PROVE  OnlyDamageIsDestructive'
  BY DEF IInv, OnlyDamageIsDestructive, Destructive

LEMMA CalmChange ==
    ASSUME IInv, run.at \notin {"open-prefix", "open-tail"},
           UNCHANGED <<fileVars, snapshot, baseline>>, OnlyDamageIsDestructive',
           Kept(run'), CalmAt(run'.at, run'.cont),
           queue' \in Seq(Queued), ClosedIsLast'
    PROVE  IInv'
<1>1. UNCHANGED <<path, disk, writes, damaged, snapshot, baseline>>
  BY DEF fileVars
<1>2. Typed'
  BY <1>1 DEF IInv, Typed, Kept, Size
<1>3. StampsArePast'
  BY <1>1 DEF IInv, StampsArePast, Kept
<1>4. run'.at \notin {"base-again", "classify-open", "open-prefix", "open-tail"}
  BY DEF CalmAt
<1>5. Untouched'
  BY <1>1, <1>4 DEF IInv, Untouched, Content
<1>6. ~Opened' /\ run'.at # "classify-whole" /\ run'.at # "classify-again"
  BY DEF CalmAt, Opened
<1>7. BaselineIsOfTheSnapshot'
  BY <1>1, <1>6 DEF IInv, BaselineIsOfTheSnapshot, Unavailable
<1>8. Looked'
  BY <1>4, <1>6 DEF Looked
<1>9. Undamaged'
  <2>1. /\ Size' = Size /\ Content(Source)' = Content(Source)
        /\ OldRange(Source)' = OldRange(Source)
        /\ PrefixOf(Source)' = PrefixOf(Source)
        /\ TailOf(Source)' = TailOf(Source)
    BY <1>1 DEF Size, Content, OldRange, PrefixOf, TailOf, PrefixLength
  <2> QED
    BY <1>1, <1>6, <2>1 DEF IInv, Undamaged
<1> QED
  BY <1>2, <1>3, <1>5, <1>7, <1>8, <1>9 DEF IInv

LEMMA CalmKeeps ==
    ASSUME IInv, Afterwards, Quietly, Kept(run'), CalmAt(run'.at, run'.cont)
    PROVE  IInv'
<1>1. UNCHANGED <<fileVars, snapshot, baseline, queue, closed>>
  BY DEF Quietly
<1>2. ClosedIsLast'
  BY <1>1, NotClosed DEF Afterwards, ClosedIsLast
<1>3. OnlyDamageIsDestructive'
  BY QuietAnswer DEF Quietly, fileVars
<1>4. queue' \in Seq(Queued)
  BY <1>1 DEF IInv, Typed
<1> QED
  BY <1>1, <1>2, <1>3, <1>4, CalmChange DEF Afterwards

\* An operation that ends without a classification.
LEMMA EndKeeps ==
    ASSUME IInv, Afterwards, NEW result, Settle(result),
           result.outcome \in {"none", "ok", "failed", "unknown"},
           UNCHANGED <<fileVars, snapshot, baseline>>
    PROVE  IInv'
<1>1. run' = Idle /\ answer' = result /\ UNCHANGED <<queue, closed>>
  BY DEF Settle
<1>2. Kept(run') /\ CalmAt(run'.at, run'.cont)
  BY <1>1, IdleIsKept, IdleFields DEF CalmAt
<1>3. Quietly
  BY <1>1 DEF Quietly
<1> QED
  BY <1>2, <1>3, CalmKeeps
-----------------------------------------------------------------------------
(* assertSnapshotUnchanged and reading *)

\* An operation that goes on, to a place that says nothing of the file.
LEMMA ContinueKeeps ==
    ASSUME IInv, Afterwards, NEW next, Continue(next), UNCHANGED fileVars,
           Kept(next), CalmAt(next.at, next.cont)
    PROVE  IInv'
<1>1. run' = next
  BY DEF Continue
<1>2. Quietly
  BY DEF Continue, GoesOn, hostVars, engineVars, Quietly
<1> QED
  BY <1>1, <1>2, CalmKeeps

LEMMA GotoKeeps ==
    ASSUME IInv, Afterwards, NEW place, Goto(place), UNCHANGED fileVars,
           CalmAt(place, "idle")
    PROVE  IInv'
<1> DEFINE next == [run EXCEPT !.at = place]
<1>1. Continue(next)
  BY DEF Goto
<1>2. Kept(next) /\ next.at = place
  BY RunIsKept DEF Kept, Fields
<1>3. CalmAt(next.at, next.cont)
  BY <1>2 DEF CalmAt
<1> HIDE DEF next
<1> QED
  BY <1>1, <1>2, <1>3, ContinueKeeps

LEMMA FailKeeps ==
    ASSUME IInv, Afterwards, UNCHANGED fileVars,
           \/ Fail
           \/ (Ends("failed") \/ Ends("ok")) /\ UNCHANGED <<snapshot, baseline>>
    PROVE  IInv'
<1> DEFINE failed == [NoAnswer EXCEPT !.op = run.op, !.ordinal = run.ordinal,
                                      !.outcome = "failed"]
           ok == [NoAnswer EXCEPT !.op = run.op, !.ordinal = run.ordinal,
                                  !.outcome = "ok"]
<1>1. failed.outcome = "failed" /\ ok.outcome = "ok"
  BY DEF NoAnswer
<1>2. (Settle(failed) \/ Settle(ok)) /\ UNCHANGED <<snapshot, baseline>>
  BY DEF Fail, Ends, engineVars
<1> HIDE DEF failed, ok
<1> QED
  BY <1>1, <1>2, EndKeeps

LEMMA LatchKeeps ==
    ASSUME IInv, Afterwards, UNCHANGED fileVars, LatchAndFail
    PROVE  IInv'
<1>1. /\ run' = Idle /\ answer'.outcome = "failed"
      /\ UNCHANGED <<queue, closed, snapshot, baseline>>
  BY DEF LatchAndFail, Ends, Settle, NoAnswer
<1>2. Kept(run') /\ CalmAt(run'.at, run'.cont)
  BY <1>1, IdleIsKept, IdleFields DEF CalmAt
<1>3. Quietly
  BY <1>1 DEF Quietly
<1> QED
  BY <1>2, <1>3, CalmKeeps

LEMMA ReturnKeeps ==
    ASSUME IInv, Afterwards, UNCHANGED fileVars, Return
    PROVE  IInv'
<1>1. CASE run.then = "scan"
  <2> DEFINE next == [run EXCEPT !.at = "scan", !.seen = Idle.seen, !.read = <<>>]
  <2>1. Continue(next)
    BY <1>1 DEF Return
  <2>2. Kept(next) /\ next.at = "scan"
    BY RunIsKept, IdleIsKept DEF Kept, Fields
  <2>3. CalmAt(next.at, next.cont)
    BY <2>2 DEF CalmAt
  <2> HIDE DEF next
  <2> QED
    BY <2>1, <2>2, <2>3, ContinueKeeps
<1>2. CASE run.then # "scan"
  <2> DEFINE result == [op |-> run.op, ordinal |-> run.ordinal, outcome |-> "ok",
                        ref |-> run.ref, bytes |-> run.record]
  <2>1. Settle(result) /\ UNCHANGED engineVars /\ result.outcome = "ok"
    BY <1>2 DEF Return
  <2> HIDE DEF result
  <2> QED
    BY <2>1, EndKeeps DEF engineVars
<1> QED
  BY <1>1, <1>2

\* The stat of the source is one of a write that has been made.
LEMMA StatIsPast ==
    ASSUME IInv, NEW f \in Files \cup {Directory, Nothing}
    PROVE  Stat(f) \in Stats /\ Stat(f).stamp <= writes /\ Stat(f).file = f
<1>1. Typed /\ StampsArePast
  BY DEF IInv
<1>2. f \in Nat
  BY DEF Files, Source, Other, Directory, Nothing
<1>3. CASE f \in Files
  <2>1. disk[f].bytes \in Seq(Bytes) /\ disk[f].stamp \in Nat
    BY <1>1, <1>3 DEF Typed
  <2>2. Len(disk[f].bytes) \in Nat
    BY <2>1, LenProperties
  <2> QED
    BY <1>1, <1>2, <1>3, <2>1, <2>2 DEF Stat, Stats, StampsArePast
<1>4. CASE f \notin Files
  BY <1>1, <1>2, <1>4 DEF Stat, Stats, Typed
<1> QED
  BY <1>3, <1>4

LEMMA CheckingKeeps ==
    ASSUME IInv, Checking, UNCHANGED fileVars
    PROVE  IInv'
<1>1. Afterwards
  BY DEF Checking, CheckPath, CheckHandle, CheckPrefix, CheckTail, CheckWhole,
         CheckAgain, Afterwards
<1>2. Kept(run)
  BY RunIsKept
<1>3. CASE CheckPath
  BY <1>1, <1>3, FailKeeps, LatchKeeps, GotoKeeps DEF CheckPath, CalmAt, Fail
<1>4. CASE CheckHandle
  <2> DEFINE now == Stat(Source)
             grown == [run EXCEPT !.at = "check-prefix", !.seen = now]
             same == [run EXCEPT !.seen = now]
             based == WithBaseline(same, "check-whole")
  <2>1. now \in Stats /\ now.stamp <= writes
    BY StatIsPast DEF Files
  <2>2. Fail \/ LatchAndFail \/ Return \/ Continue(grown) \/ Continue(based)
    BY <1>4 DEF CheckHandle
  <2> HIDE DEF now
  <2>3. Kept(grown) /\ CalmAt(grown.at, grown.cont)
    BY <1>2, <2>1 DEF Kept, Fields, CalmAt
  <2>4. Kept(based) /\ CalmAt(based.at, based.cont)
    BY <1>2, <2>1 DEF Kept, Fields, CalmAt, WithBaseline
  <2> HIDE DEF grown, based
  <2> QED
    BY <1>1, <2>2, <2>3, <2>4, FailKeeps, LatchKeeps, ReturnKeeps, ContinueKeeps
       DEF Fail
<1>5. CASE CheckPrefix
  <2> DEFINE next == [run EXCEPT !.at = "check-tail", !.read = PrefixOf(Source)]
  <2>1. Fail \/ Continue(next)
    BY <1>5 DEF CheckPrefix
  <2>2. Kept(next) /\ CalmAt(next.at, next.cont)
    BY <1>2 DEF Kept, Fields, CalmAt
  <2> HIDE DEF next
  <2> QED
    BY <1>1, <2>1, <2>2, FailKeeps, ContinueKeeps DEF Fail
<1>6. CASE CheckTail
  <2> DEFINE next == WithBaseline([run EXCEPT !.read = <<>>], "check-whole")
  <2>1. Fail \/ LatchAndFail \/ Continue(next)
    BY <1>6 DEF CheckTail
  <2>2. Kept(next) /\ CalmAt(next.at, next.cont)
    BY <1>2 DEF Kept, Fields, CalmAt, WithBaseline
  <2> HIDE DEF next
  <2> QED
    BY <1>1, <2>1, <2>2, FailKeeps, LatchKeeps, ContinueKeeps DEF Fail
<1>7. CASE CheckWhole
  BY <1>1, <1>7, FailKeeps, LatchKeeps, ReturnKeeps, GotoKeeps
     DEF CheckWhole, CalmAt, Fail
<1>8. CASE CheckAgain
  BY <1>1, <1>8, FailKeeps, ReturnKeeps DEF CheckAgain, Fail
<1> QED
  BY <1>3, <1>4, <1>5, <1>6, <1>7, <1>8 DEF Checking
-----------------------------------------------------------------------------
(* Reading *)

\* A place of reading, with whatever was read.
LEMMA ReadOnKeeps ==
    ASSUME IInv, Afterwards, UNCHANGED <<fileVars, snapshot, baseline>>, GoesOn,
           Kept(run'), CalmAt(run'.at, run'.cont)
    PROVE  IInv'
<1>1. Quietly
  BY DEF GoesOn, hostVars, Quietly
<1> QED
  BY <1>1, CalmKeeps

LEMMA ReadChunkKeeps ==
    ASSUME IInv, Afterwards, UNCHANGED fileVars, NEW chunk, ReadChunk(chunk)
    PROVE  IInv'
<1> DEFINE next == [run EXCEPT !.at = "commit-path", !.read = chunk]
<1>1. Fail \/ Continue(next)
  BY DEF ReadChunk
<1>2. Kept(next) /\ CalmAt(next.at, next.cont)
  BY RunIsKept DEF Kept, Fields, CalmAt
<1> HIDE DEF next
<1> QED
  BY <1>1, <1>2, FailKeeps, ContinueKeeps

LEMMA CheckLastKeeps ==
    ASSUME IInv, Afterwards, UNCHANGED fileVars, CheckLast
    PROVE  IInv'
<1> DEFINE next == [run EXCEPT !.at = "check-path", !.then = "deliver",
                               !.load = <<>>, !.read = <<>>]
<1>1. Continue(next)
  BY DEF CheckLast
<1>2. Kept(next) /\ CalmAt(next.at, next.cont)
  BY RunIsKept DEF Kept, Fields, CalmAt
<1> HIDE DEF next
<1> QED
  BY <1>1, <1>2, ContinueKeeps

LEMMA FoundKeeps ==
    ASSUME IInv, Afterwards, UNCHANGED fileVars, NEW ref, NEW cache, Found(ref, cache)
    PROVE  IInv'
<1> DEFINE next == [run EXCEPT !.at = "hydrate", !.ref = <<ref>>, !.load = <<>>]
<1>1. /\ Ends("failed") \/ (run' = next /\ GoesOn)
      /\ UNCHANGED <<snapshot, baseline>>
  BY DEF Found
<1>2. Kept(next) /\ CalmAt(next.at, next.cont)
  BY RunIsKept DEF Kept, Fields, CalmAt
<1> HIDE DEF next
<1> QED
  BY <1>1, <1>2, FailKeeps, ReadOnKeeps

LEMMA FindRecordKeeps ==
    ASSUME IInv, Afterwards, UNCHANGED fileVars, FindRecord
    PROVE  IInv'
<1> DEFINE loading(id) == [run EXCEPT !.at = "load", !.load = <<StartLoad(index, id)>>]
<1>1. \/ Fail \/ CheckLast
      \/ \E ref, cache : Found(ref, cache)
      \/ \E id : Continue(loading(id))
  BY DEF FindRecord
<1>2. \A id : Kept(loading(id)) /\ CalmAt(loading(id).at, loading(id).cont)
  BY RunIsKept DEF Kept, Fields, CalmAt
<1> HIDE DEF loading
<1> QED
  BY <1>1, <1>2, FailKeeps, CheckLastKeeps, FoundKeeps, ContinueKeeps

LEMMA CommitHandleKeeps ==
    ASSUME IInv, Afterwards, UNCHANGED fileVars, CommitHandle
    PROVE  IInv'
<1> DEFINE loaded == [run EXCEPT !.at = "load", !.read = <<>>, !.seen = Idle.seen,
                                 !.load = <<LoadChunk(@[1], run.read)>>]
           committed == [run EXCEPT !.at = "scan", !.read = <<>>, !.seen = Idle.seen,
                                    !.used = @ + Len(run.read)]
<1>1. \/ LatchAndFail \/ Fail \/ Continue(loaded)
      \/ run' = committed /\ GoesOn /\ UNCHANGED <<snapshot, baseline>>
  BY DEF CommitHandle
<1>2. Kept(loaded) /\ CalmAt(loaded.at, loaded.cont)
  BY RunIsKept, IdleIsKept DEF Kept, Fields, CalmAt
<1>3. Kept(committed) /\ CalmAt(committed.at, committed.cont)
  BY RunIsKept, IdleIsKept DEF Kept, Fields, CalmAt
<1> HIDE DEF loaded, committed
<1> QED
  BY <1>1, <1>2, <1>3, LatchKeeps, FailKeeps, ContinueKeeps, ReadOnKeeps

LEMMA ReadingKeeps ==
    ASSUME IInv, Reading, UNCHANGED fileVars
    PROVE  IInv'
<1>1. Afterwards
  BY DEF Reading, Scan, IndexDone, FindRecord, LoadSegment, CommitPath,
         CommitHandle, Hydrate, Afterwards
<1>2. CASE Scan
  <2>1. \/ \E chunk : ReadChunk(chunk)
        \/ /\ UNCHANGED <<run, snapshot, baseline>> /\ GoesOn
           /\ run.at = "scan"
    BY <1>2 DEF Scan
  <2> QED
    BY <1>1, <2>1, ReadChunkKeeps, ReadOnKeeps, RunIsKept DEF CalmAt, Kept
<1>3. CASE IndexDone
  BY <1>1, <1>3, CheckLastKeeps DEF IndexDone
<1>4. CASE FindRecord
  BY <1>1, <1>4, FindRecordKeeps
<1>5. CASE LoadSegment
  <2>1. (\E chunk : ReadChunk(chunk)) \/ Fail \/ \E ref, cache : Found(ref, cache)
    BY <1>5 DEF LoadSegment
  <2> QED
    BY <1>1, <2>1, ReadChunkKeeps, FailKeeps, FoundKeeps
<1>6. CASE CommitPath
  <2> DEFINE now == Stat(path)
             next == [run EXCEPT !.at = "commit-handle", !.seen = now]
  <2>1. LatchAndFail \/ Continue(next)
    BY <1>6 DEF CommitPath
  <2>2. now \in Stats /\ now.stamp <= writes
    BY StatIsPast DEF IInv, Typed
  <2> HIDE DEF now
  <2>3. Kept(next) /\ CalmAt(next.at, next.cont)
    BY <2>2, RunIsKept DEF Kept, Fields, CalmAt
  <2> HIDE DEF next
  <2> QED
    BY <1>1, <2>1, <2>3, LatchKeeps, ContinueKeeps
<1>7. CASE CommitHandle
  BY <1>1, <1>7, CommitHandleKeeps
<1>8. CASE Hydrate
  <2> DEFINE bytes == ReadAt(run.ref[1].start + Len(run.record), run.ref[1].end)
             next == [run EXCEPT !.record = @ \o bytes]
  <2>1. CheckLast \/ Fail \/ Continue(next)
    BY <1>8 DEF Hydrate
  <2>2. run.at = "hydrate"
    BY <1>8 DEF Hydrate
  <2>3. Kept(next) /\ CalmAt(next.at, next.cont)
    BY <2>2, RunIsKept DEF Kept, Fields, CalmAt
  <2> HIDE DEF next
  <2> QED
    BY <1>1, <2>1, <2>3, CheckLastKeeps, FailKeeps, ContinueKeeps
<1> QED
  BY <1>2, <1>3, <1>4, <1>5, <1>6, <1>7, <1>8 DEF Reading
-----------------------------------------------------------------------------
(* Opening and the baseline *)

BasePlaces == {"base-stat", "base-read", "base-again"}

\* Steps between the awaits at which something that was opened is compared.
LEMMA ComparingKeeps ==
    ASSUME IInv, Afterwards, UNCHANGED <<fileVars, snapshot, queue, closed>>,
           Kept(run'), run'.at \notin {"open-prefix", "open-tail"},
           Untouched', BaselineIsOfTheSnapshot', Looked',
           ~damaged /\ Opened' => run'.file = Source,
           OnlyDamageIsDestructive'
    PROVE  IInv'
<1>1. UNCHANGED <<path, disk, writes, damaged, snapshot, queue, closed>>
  BY DEF fileVars
<1>2. Typed'
  BY <1>1 DEF IInv, Typed, Kept, Size
<1>3. StampsArePast'
  BY <1>1 DEF IInv, StampsArePast, Kept
<1>4. Undamaged'
  <2>1. /\ Size' = Size /\ Content(Source)' = Content(Source)
        /\ OldRange(Source)' = OldRange(Source)
        /\ PrefixOf(Source)' = PrefixOf(Source)
        /\ TailOf(Source)' = TailOf(Source)
    BY <1>1 DEF Size, Content, OldRange, PrefixOf, TailOf, PrefixLength
  <2> QED
    BY <1>1, <2>1 DEF IInv, Undamaged, Afterwards
<1>5. ClosedIsLast'
  BY <1>1, NotClosed DEF Afterwards, ClosedIsLast
<1> QED
  BY <1>2, <1>3, <1>4, <1>5 DEF IInv

LEMMA SameAnswer ==
    ASSUME IInv, UNCHANGED <<answer, damaged>>
    PROVE  OnlyDamageIsDestructive'
  BY DEF IInv, OnlyDamageIsDestructive

LEMMA BaselineIsKeeps ==
    ASSUME IInv, run.at \in BasePlaces, NEW b, BaselineIs(b), UNCHANGED fileVars,
           \/ b = Unavailable
           \/ b = Known(snapshot.bytes)
    PROVE  IInv'
<1>1. /\ Afterwards
      /\ UNCHANGED <<fileVars, snapshot, queue, closed, answer>>
      /\ baseline' = b
  BY DEF Afterwards, BasePlaces, BaselineIs, GoesOn, hostVars
<1>2. Kept(run) /\ Kept(Idle)
  BY RunIsKept, IdleIsKept
<1> DEFINE next == [run EXCEPT !.at = run.cont, !.cont = "idle", !.read = <<>>]
<1>3. /\ next.at = run.cont /\ next.cont = "idle"
      /\ next.seen = run.seen /\ next.file = run.file
      /\ Kept(next)
  BY <1>2 DEF Kept, Fields
<1>4. run' = IF run.cont = "idle" THEN Idle ELSE next
  BY DEF BaselineIs
<1> HIDE DEF next
<1>5. /\ Kept(run') /\ run'.at \in {"idle", "check-whole", "classify-whole"}
      /\ run'.at = "classify-whole" =>
           /\ run.cont = "classify-whole"
           /\ run'.seen = run.seen /\ run'.file = run.file
  BY <1>2, <1>3, <1>4, IdleFields DEF Kept
<1>6. Untouched'
  BY <1>1, <1>5 DEF IInv, Untouched, Content, fileVars
<1>7. BaselineIsOfTheSnapshot'
  BY <1>1 DEF BaselineIsOfTheSnapshot, Unavailable, Known
<1>8. Opened' => run'.at = "classify-whole" /\ Opened
  BY <1>5 DEF Opened, BasePlaces
<1>9. Looked'
  BY <1>1, <1>5, <1>8 DEF IInv, Looked, AsSeen, fileVars
<1>10. ~damaged /\ Opened' => run'.file = Source
  BY <1>5, <1>8 DEF IInv, Undamaged
<1>11. OnlyDamageIsDestructive'
  BY <1>1, SameAnswer DEF fileVars
<1>12. run'.at \notin {"open-prefix", "open-tail"}
  BY <1>5
<1> QED
  BY <1>1, <1>5, <1>6, <1>7, <1>9, <1>10, <1>11, <1>12, ComparingKeeps

\* On to another place of the baseline.
LEMMA BaseGoesOn ==
    ASSUME IInv, run.at \in BasePlaces, NEW next, Continue(next),
           UNCHANGED fileVars, Kept(next),
           next.at \in {"base-read", "base-again"}, next.cont = run.cont,
           next.seen = run.seen, next.file = run.file,
           next.at = "base-again" => next.read = OldRange(Source)
    PROVE  IInv'
<1>1. /\ Afterwards /\ run' = next
      /\ UNCHANGED <<fileVars, snapshot, baseline, queue, closed, answer>>
  BY DEF Afterwards, BasePlaces, Continue, GoesOn, hostVars, engineVars
<1>2. Untouched'
  <2>1. snapshot.bytes \in Seq(Bytes) /\ Size = Len(snapshot.bytes)
    BY DEF IInv, Typed
  <2>2. BytesAt(snapshot.bytes, 0, Size) = snapshot.bytes
    BY <2>1, WholeRange
  <2>3. disk[Source].stamp = 0 =>
          Content(Source) = snapshot.bytes /\ OldRange(Source) = snapshot.bytes
    BY <2>2 DEF IInv, Untouched, OldRange
  <2> QED
    BY <1>1, <2>3 DEF Untouched, Content, fileVars
<1>3. BaselineIsOfTheSnapshot'
  BY <1>1 DEF IInv, BaselineIsOfTheSnapshot, Unavailable
<1>4. Opened' <=> Opened
  BY <1>1 DEF Opened, BasePlaces
<1>5. Looked'
  BY <1>1, <1>4 DEF IInv, Looked, AsSeen, fileVars
<1>6. ~damaged /\ Opened' => run'.file = Source
  BY <1>1, <1>4 DEF IInv, Undamaged
<1>7. OnlyDamageIsDestructive'
  BY <1>1, SameAnswer DEF fileVars
<1>8. Kept(run') /\ run'.at \notin {"open-prefix", "open-tail"}
  BY <1>1 DEF Kept
<1> QED
  BY <1>1, <1>2, <1>3, <1>5, <1>6, <1>7, <1>8, ComparingKeeps
-----------------------------------------------------------------------------

LEMMA OpenPrefixKeeps ==
    ASSUME IInv, OpenPrefix, UNCHANGED fileVars
    PROVE  IInv'
<1>1. /\ UNCHANGED <<path, disk, writes, damaged, baseline, queue, closed, answer>>
      /\ run.at = "open-prefix"
      /\ snapshot' = [snapshot EXCEPT !.prefix = PrefixOf(Source)]
      /\ run' = [run EXCEPT !.at = "open-tail"]
  BY DEF OpenPrefix, GoesOn, hostVars, fileVars
<1>2. Kept(run') /\ run'.at = "open-tail"
  BY <1>1, RunIsKept DEF Kept, Fields
<1>3. /\ DOMAIN snapshot' = DOMAIN snapshot
      /\ snapshot'.bytes = snapshot.bytes /\ snapshot'.size = snapshot.size
      /\ snapshot'.prefix = PrefixOf(Source)
  BY <1>1 DEF IInv, Typed
<1>4. Typed'
  BY <1>1, <1>2, <1>3 DEF IInv, Typed, Kept, Size
<1>5. StampsArePast'
  BY <1>1, <1>2 DEF IInv, StampsArePast, Kept
<1>6. Untouched'
  BY <1>1, <1>2, <1>3 DEF IInv, Untouched, Content
<1>7. BaselineIsOfTheSnapshot'
  BY <1>1, <1>2, <1>3 DEF IInv, BaselineIsOfTheSnapshot, Unavailable
<1>8. ~Opened' /\ Looked'
  BY <1>2 DEF Opened, Looked
<1>9. Undamaged'
  <2>1. /\ Size' = Size /\ Content(Source)' = Content(Source)
        /\ OldRange(Source)' = OldRange(Source)
        /\ PrefixOf(Source)' = PrefixOf(Source)
    BY <1>1, <1>3 DEF Size, Content, OldRange, PrefixOf, PrefixLength
  <2> QED
    BY <1>1, <1>2, <1>3, <1>8, <2>1 DEF IInv, Undamaged
<1>10. OnlyDamageIsDestructive' /\ ClosedIsLast'
  BY <1>1, SameAnswer, NotClosed DEF ClosedIsLast
<1> QED
  BY <1>4, <1>5, <1>6, <1>7, <1>8, <1>9, <1>10 DEF IInv

LEMMA OpenTailKeeps ==
    ASSUME IInv, OpenTail, UNCHANGED fileVars
    PROVE  IInv'
<1> DEFINE next == [run EXCEPT !.at = "base-stat", !.cont = "idle"]
<1>1. /\ UNCHANGED <<path, disk, writes, damaged, baseline, queue, closed, answer>>
      /\ run.at = "open-tail"
      /\ snapshot' = [snapshot EXCEPT !.tail = TailOf(Source)]
      /\ run' \in {next, Idle}
  BY DEF OpenTail, GoesOn, hostVars, fileVars
<1>2. Kept(next) /\ next.at = "base-stat" /\ next.cont = "idle"
  BY RunIsKept DEF Kept, Fields
<1> HIDE DEF next
<1>3. /\ Kept(run') /\ run'.cont = "idle" /\ run'.at \in {"base-stat", "idle"}
  BY <1>1, <1>2, IdleIsKept, IdleFields
<1>4. /\ DOMAIN snapshot' = DOMAIN snapshot
      /\ snapshot'.bytes = snapshot.bytes /\ snapshot'.size = snapshot.size
      /\ snapshot'.prefix = snapshot.prefix
      /\ snapshot'.tail = TailOf(Source)
  BY <1>1 DEF IInv, Typed
<1>5. Typed'
  BY <1>1, <1>3, <1>4 DEF IInv, Typed, Kept, Size
<1>6. StampsArePast'
  BY <1>1, <1>3 DEF IInv, StampsArePast, Kept
<1>7. Untouched'
  BY <1>1, <1>3, <1>4 DEF IInv, Untouched, Content
<1>8. BaselineIsOfTheSnapshot'
  BY <1>1, <1>3, <1>4 DEF IInv, BaselineIsOfTheSnapshot, Unavailable
<1>9. ~Opened' /\ Looked'
  BY <1>3 DEF Opened, Looked
<1>10. Undamaged'
  <2>1. /\ Size' = Size /\ Content(Source)' = Content(Source)
        /\ OldRange(Source)' = OldRange(Source)
        /\ PrefixOf(Source)' = PrefixOf(Source)
        /\ TailOf(Source)' = TailOf(Source)
    BY <1>1, <1>4 DEF Size, Content, OldRange, PrefixOf, TailOf, PrefixLength
  <2> QED
    BY <1>1, <1>3, <1>4, <1>9, <2>1 DEF IInv, Undamaged
<1>11. OnlyDamageIsDestructive' /\ ClosedIsLast'
  BY <1>1, SameAnswer, NotClosed DEF ClosedIsLast
<1> QED
  BY <1>5, <1>6, <1>7, <1>8, <1>9, <1>10, <1>11 DEF IInv

LEMMA OpeningKeeps ==
    ASSUME IInv, Opening, UNCHANGED fileVars
    PROVE  IInv'
<1>1. Kept(run)
  BY RunIsKept
<1>2. CASE BaseStat
  <2> DEFINE next == [run EXCEPT !.at = "base-read"]
  <2>1. run.at \in BasePlaces /\ (Continue(next) \/ BaselineIs(Unavailable))
    BY <1>2 DEF BaseStat, Goto, BasePlaces
  <2>2. /\ Kept(next) /\ next.at = "base-read" /\ next.cont = run.cont
        /\ next.seen = run.seen /\ next.file = run.file
    BY <1>1 DEF Kept, Fields
  <2> HIDE DEF next
  <2> QED
    BY <2>1, <2>2, BaseGoesOn, BaselineIsKeeps
<1>3. CASE BaseRead
  <2> DEFINE next == [run EXCEPT !.at = "base-again", !.read = OldRange(Source)]
  <2>1. run.at \in BasePlaces /\ (Continue(next) \/ BaselineIs(Unavailable))
    BY <1>3 DEF BaseRead, BasePlaces
  <2>2. /\ Kept(next) /\ next.at = "base-again" /\ next.cont = run.cont
        /\ next.seen = run.seen /\ next.file = run.file
        /\ next.read = OldRange(Source)
    BY <1>1 DEF Kept, Fields
  <2> HIDE DEF next
  <2> QED
    BY <2>1, <2>2, BaseGoesOn, BaselineIsKeeps
<1>4. CASE BaseAgain
  <2>1. CASE Stat(Source) = SnapshotStat
    <3>1. disk[Source].stamp = 0
      <4>1. Stat(Source).stamp = disk[Source].stamp
        BY DEF Stat, Files
      <4>2. SnapshotStat.stamp = 0
        BY DEF SnapshotStat
      <4> QED
        BY <2>1, <4>1, <4>2
    <3>2. run.read = snapshot.bytes
      BY <1>4, <3>1 DEF BaseAgain, IInv, Untouched
    <3> QED
      BY <1>4, <2>1, <3>2, BaselineIsKeeps DEF BaseAgain, BasePlaces
  <2>2. CASE Stat(Source) # SnapshotStat
    BY <1>4, <2>2, BaselineIsKeeps DEF BaseAgain, BasePlaces
  <2> QED
    BY <2>1, <2>2
<1> QED
  BY <1>2, <1>3, <1>4, OpenPrefixKeeps, OpenTailKeeps DEF Opening
-----------------------------------------------------------------------------
(* classifyRefresh *)

LEMMA ClassifiedKeeps ==
    ASSUME IInv, Afterwards, NEW kind, Classified(kind), UNCHANGED fileVars,
           kind \in Destructive => damaged
    PROVE  IInv'
<1>1. /\ run' = Idle /\ answer'.outcome = kind
      /\ UNCHANGED <<snapshot, baseline, queue, closed, damaged>>
  BY DEF Classified, Ends, Settle, NoAnswer, engineVars, fileVars
<1>2. Kept(run') /\ CalmAt(run'.at, run'.cont)
  BY <1>1, IdleIsKept, IdleFields DEF CalmAt
<1>3. OnlyDamageIsDestructive'
  BY <1>1 DEF OnlyDamageIsDestructive, Destructive
<1>4. ClosedIsLast' /\ queue' \in Seq(Queued)
  BY <1>1, NotClosed DEF ClosedIsLast, Afterwards, IInv, Typed
<1> QED
  BY <1>1, <1>2, <1>3, <1>4, CalmChange DEF Afterwards

\* Between two looks at the path: the file opened is held, or has just been.
LEMMA ClassifyGoesOn ==
    ASSUME IInv, Afterwards, NEW next, Continue(next), UNCHANGED fileVars,
           Kept(next),
           \/ next.at \in {"classify-open", "classify-prefix", "classify-tail",
                           "classify-whole", "classify-again"}
           \/ next.at = "base-stat" /\ next.cont = "classify-whole",
           next.at = "classify-whole" => baseline.state # "lazy",
           next.seen.file = Source,
           next.at # "classify-open" =>
             /\ AsSeen /\ next.seen = run.seen => next.file = Source
             /\ next.seen = run.seen
             /\ ~damaged => next.file = Source,
           next.at = "classify-again" /\ AsSeen => OldRange(Source) = snapshot.bytes
    PROVE  IInv'
<1>1. /\ run' = next
      /\ UNCHANGED <<fileVars, snapshot, baseline, queue, closed, answer>>
  BY DEF Continue, GoesOn, hostVars, engineVars
<1>2. Untouched'
  BY <1>1 DEF IInv, Untouched, Content, fileVars
<1>3. BaselineIsOfTheSnapshot'
  BY <1>1 DEF IInv, BaselineIsOfTheSnapshot, Unavailable
<1>4. Opened' => next.at # "classify-open"
  BY <1>1 DEF Opened
<1>5. next.at # "classify-open" => (AsSeen' <=> AsSeen)
  BY <1>1 DEF AsSeen, fileVars
<1>6. OldRange(Source)' = OldRange(Source)
  BY <1>1 DEF OldRange, Content, Size, fileVars
<1>7. Looked'
  BY <1>1, <1>4, <1>5, <1>6 DEF Looked
<1>8. ~damaged /\ Opened' => run'.file = Source
  BY <1>1, <1>4
<1>9. OnlyDamageIsDestructive'
  BY <1>1, SameAnswer DEF fileVars
<1>10. Kept(run') /\ run'.at \notin {"open-prefix", "open-tail"}
  BY <1>1 DEF Kept
<1> QED
  BY <1>1, <1>2, <1>3, <1>7, <1>8, <1>9, <1>10, ComparingKeeps
-----------------------------------------------------------------------------

LEMMA ClassifyPathKeeps ==
    ASSUME IInv, ClassifyPath, UNCHANGED fileVars
    PROVE  IInv'
<1> DEFINE now == Stat(path)
           next == [run EXCEPT !.at = "classify-open", !.seen = now]
<1>1. /\ Afterwards
      /\ \/ path = Nothing /\ Classified("delete")
         \/ Fail
         \/ path # Source /\ Classified("replace")
         \/ path = Source /\ now.size < Size /\ Classified("truncate")
         \/ path = Source /\ Continue(next)
  BY DEF ClassifyPath, Afterwards
<1>2. path # Source => damaged
  BY DEF IInv, Undamaged
<1>3. path = Source /\ now.size < Size => damaged
  <2>1. path = Source => now.size = Len(Content(Source))
    BY DEF Stat, Files, Content
  <2>2. Len(Content(Source)) \in Nat /\ Size \in Nat
    <3>1. Content(Source) \in Seq(Bytes) /\ snapshot.bytes \in Seq(Bytes)
      BY DEF IInv, Typed, Content, Files
    <3> QED
      BY <3>1, LenProperties DEF IInv, Typed
  <2> HIDE DEF now
  <2> QED
    BY <2>1, <2>2 DEF IInv, Undamaged
<1>4. now \in Stats /\ now.stamp <= writes /\ now.file = path
  BY StatIsPast DEF IInv, Typed
<1> HIDE DEF now
<1>5. Kept(next) /\ next.at = "classify-open" /\ next.seen = now
  BY <1>4, RunIsKept DEF Kept, Fields
<1> HIDE DEF next
<1>6. CASE path = Source /\ Continue(next)
  BY <1>1, <1>4, <1>5, <1>6, ClassifyGoesOn
<1>7. Nothing # Source
  BY DEF Nothing, Source
<1> QED
  BY <1>1, <1>2, <1>3, <1>6, <1>7, FailKeeps, ClassifiedKeeps

LEMMA ClassifyOpenKeeps ==
    ASSUME IInv, ClassifyOpen, UNCHANGED fileVars
    PROVE  IInv'
<1> DEFINE next == [run EXCEPT !.at = "classify-prefix", !.file = path]
<1>1. /\ Afterwards /\ run.at = "classify-open"
      /\ \/ path = Nothing /\ Classified("delete")
         \/ Continue(next)
         \/ Classified("unknown")
  BY DEF ClassifyOpen, Afterwards
<1>2. path # Source => damaged
  BY DEF IInv, Undamaged
<1>3. /\ Kept(next) /\ next.at = "classify-prefix" /\ next.seen = run.seen
      /\ next.file = path
  BY RunIsKept DEF Kept, Fields
<1>4. run.seen.file = Source
  BY <1>1 DEF IInv, Looked
<1>5. Nothing # Source /\ "unknown" \notin Destructive
  BY DEF Nothing, Source, Destructive
<1> HIDE DEF next
<1>6. CASE Continue(next)
  BY <1>1, <1>2, <1>3, <1>4, <1>6, ClassifyGoesOn DEF AsSeen
<1> QED
  BY <1>1, <1>2, <1>5, <1>6, ClassifiedKeeps

\* What holds at each look at the file that was opened.
LEMMA HeldOpen ==
    ASSUME IInv, run.at \in {"classify-prefix", "classify-tail", "classify-whole"}
    PROVE  /\ Afterwards
           /\ run.seen.file = Source
           /\ AsSeen => run.file = Source
           /\ ~damaged =>
                /\ run.file = Source
                /\ OldRange(Source) = snapshot.bytes
                /\ PrefixOf(Source) = snapshot.prefix
                /\ TailOf(Source) = snapshot.tail
  BY DEF IInv, Looked, Undamaged, Opened, Afterwards

LEMMA ClassifyRangesKeep ==
    ASSUME IInv, ClassifyPrefix \/ ClassifyTail, UNCHANGED fileVars
    PROVE  IInv'
<1>1. run.at \in {"classify-prefix", "classify-tail"}
  BY DEF ClassifyPrefix, ClassifyTail
<1>2. /\ Afterwards /\ run.seen.file = Source
      /\ AsSeen => run.file = Source
      /\ ~damaged => /\ run.file = Source
                     /\ PrefixOf(Source) = snapshot.prefix
                     /\ TailOf(Source) = snapshot.tail
  BY <1>1, HeldOpen
<1> DEFINE tail == [run EXCEPT !.at = "classify-tail"]
           whole == WithBaseline(run, "classify-whole")
<1>3. \/ Fail
      \/ /\ PrefixOf(run.file) # snapshot.prefix \/ TailOf(run.file) # snapshot.tail
         /\ Classified("replace")
      \/ Continue(tail)
      \/ Continue(whole)
  BY DEF ClassifyPrefix, ClassifyTail, Goto
<1>4. /\ Kept(tail) /\ tail.at = "classify-tail"
      /\ tail.seen = run.seen /\ tail.file = run.file
  BY RunIsKept DEF Kept, Fields
<1>5. /\ Kept(whole)
      /\ whole.seen = run.seen /\ whole.file = run.file
      /\ \/ whole.at = "classify-whole" /\ baseline.state # "lazy"
         \/ whole.at = "base-stat" /\ whole.cont = "classify-whole"
  BY RunIsKept DEF Kept, Fields, WithBaseline
<1> HIDE DEF tail, whole
<1>6. CASE Continue(tail)
  BY <1>2, <1>4, <1>6, ClassifyGoesOn
<1>7. CASE Continue(whole)
  BY <1>2, <1>5, <1>7, ClassifyGoesOn
<1>8. CASE /\ PrefixOf(run.file) # snapshot.prefix \/ TailOf(run.file) # snapshot.tail
           /\ Classified("replace")
  <2>1. damaged
    BY <1>2, <1>8
  <2> QED
    BY <1>2, <1>8, <2>1, ClassifiedKeeps
<1> QED
  BY <1>2, <1>3, <1>6, <1>7, <1>8, FailKeeps

LEMMA ClassifyWholeKeeps ==
    ASSUME IInv, ClassifyWhole, UNCHANGED fileVars
    PROVE  IInv'
<1>1. run.at = "classify-whole"
  BY DEF ClassifyWhole
<1>2. /\ Afterwards /\ run.seen.file = Source
      /\ AsSeen => run.file = Source
      /\ ~damaged => run.file = Source /\ OldRange(Source) = snapshot.bytes
  BY <1>1, HeldOpen
<1>3. baseline = Unavailable \/ baseline.bytes = snapshot.bytes
  BY <1>1 DEF IInv, BaselineIsOfTheSnapshot
<1> DEFINE next == [run EXCEPT !.at = "classify-again"]
<1>4. \/ Classified("unknown")
      \/ Fail
      \/ /\ OldRange(run.file) # snapshot.bytes
         /\ Classified("replace")
      \/ OldRange(run.file) = snapshot.bytes /\ Continue(next)
  BY <1>3 DEF ClassifyWhole, Goto
<1>5. /\ Kept(next) /\ next.at = "classify-again"
      /\ next.seen = run.seen /\ next.file = run.file
  BY RunIsKept DEF Kept, Fields
<1> HIDE DEF next
<1>6. CASE OldRange(run.file) = snapshot.bytes /\ Continue(next)
  <2>1. AsSeen => OldRange(Source) = snapshot.bytes
    BY <1>2, <1>6
  <2> QED
    BY <1>2, <1>5, <1>6, <2>1, ClassifyGoesOn
<1>7. CASE OldRange(run.file) # snapshot.bytes /\ Classified("replace")
  <2>1. damaged
    BY <1>2, <1>7
  <2> QED
    BY <1>2, <1>7, <2>1, ClassifiedKeeps
<1>8. "unknown" \notin Destructive
  BY DEF Destructive
<1> QED
  BY <1>2, <1>4, <1>6, <1>7, <1>8, FailKeeps, ClassifiedKeeps

LEMMA ClassifyAgainKeeps ==
    ASSUME IInv, ClassifyAgain, UNCHANGED fileVars
    PROVE  IInv'
<1>1. Afterwards
  BY DEF ClassifyAgain, Afterwards
<1>2. \/ path \in {Nothing, Directory} /\ (Classified("delete") \/ Classified("replace"))
      \/ Classified("unknown") \/ Classified("append") \/ Classified("unchanged")
  BY DEF ClassifyAgain, GrownOrNot
<1>3. path \in {Nothing, Directory} => damaged
  BY DEF IInv, Undamaged, Nothing, Directory, Source
<1>4. \A kind \in {"unknown", "append", "unchanged"} : kind \notin Destructive
  BY DEF Destructive
<1> QED
  BY <1>1, <1>2, <1>3, <1>4, ClassifiedKeeps

LEMMA ClassifyingKeeps ==
    ASSUME IInv, Classifying, UNCHANGED fileVars
    PROVE  IInv'
  BY ClassifyPathKeeps, ClassifyOpenKeeps, ClassifyRangesKeep, ClassifyWholeKeeps,
     ClassifyAgainKeeps DEF Classifying
-----------------------------------------------------------------------------
(* The executor, background indexing and disposal *)

\* Operations come and wait, and the handle is closed after the last one.
LEMMA QueueKeeps ==
    ASSUME IInv, UNCHANGED <<fileVars, engineVars, run, answer>>,
           queue' \in Seq(Queued), ClosedIsLast'
    PROVE  IInv'
<1>1. UNCHANGED <<path, disk, writes, damaged, snapshot, baseline, run, answer>>
  BY DEF fileVars, engineVars
<1>2. Typed'
  BY <1>1 DEF IInv, Typed, Size
<1>3. StampsArePast' /\ Untouched' /\ BaselineIsOfTheSnapshot'
  BY <1>1 DEF IInv, StampsArePast, Untouched, Content, BaselineIsOfTheSnapshot,
              Unavailable
<1>4. /\ Size' = Size /\ Content(Source)' = Content(Source)
      /\ OldRange(Source)' = OldRange(Source)
      /\ PrefixOf(Source)' = PrefixOf(Source)
      /\ TailOf(Source)' = TailOf(Source)
  BY <1>1 DEF Size, Content, OldRange, PrefixOf, TailOf, PrefixLength
<1>5. Looked' /\ Undamaged'
  BY <1>1, <1>4 DEF IInv, Looked, Undamaged, Opened, AsSeen
<1>6. OnlyDamageIsDestructive'
  BY <1>1, SameAnswer
<1> QED
  BY <1>2, <1>3, <1>5, <1>6 DEF IInv

LEMMA DequeueKeeps ==
    ASSUME IInv, Dequeue
    PROVE  IInv'
<1>1. /\ UNCHANGED <<fileVars, snapshot, baseline, closed>>
      /\ run.at = "idle" /\ queue # <<>> /\ queue' = Tail(queue)
      /\ run' \in {Idle, Starting(Head(queue))}
      /\ answer'.outcome \in {"failed", "none"}
  <2> DEFINE refused == [NoAnswer EXCEPT !.op = Head(queue).op, !.outcome = "failed"]
  <2>1. refused.outcome = "failed" /\ NoAnswer.outcome = "none"
    BY DEF NoAnswer
  <2>2. answer' \in {refused, NoAnswer}
    BY DEF Dequeue
  <2>3. /\ UNCHANGED <<fileVars, snapshot, baseline, closed>>
        /\ queue # <<>> /\ queue' = Tail(queue)
        /\ run' \in {Idle, Starting(Head(queue))}
    BY DEF Dequeue, engineVars
  <2>4. run.at = "idle"
    BY IdleFields DEF Dequeue
  <2> HIDE DEF refused
  <2> QED
    BY <2>1, <2>2, <2>3, <2>4
<1>2. queue \in Seq(Queued)
  BY DEF IInv, Typed
<1>3. Head(queue) \in Queued /\ queue' \in Seq(Queued)
  BY <1>1, <1>2, HeadTailProperties
<1>4. ClosedIsLast'
  BY <1>1 DEF IInv, ClosedIsLast
<1> DEFINE op == Head(queue)
<1>5. op.op \in {"index", "background", "row", "detail", "classify"}
  BY <1>3 DEF Queued, Reads
<1> HIDE DEF op
<1>6. /\ Starting(op).at \in {"check-path", "scan", "classify-path"}
      /\ DOMAIN Starting(op) = Fields
      /\ Starting(op).seen = Idle.seen /\ Starting(op).cont = Idle.cont
  <2> DEFINE place == CASE op.op \in {"index", "background", "row"} -> "check-path"
                        [] op.op = "detail" -> "scan"
                        [] op.op = "classify" -> "classify-path"
  <2>1. place \in {"check-path", "scan", "classify-path"}
    BY <1>5
  <2>2. Starting(op) = [Idle EXCEPT !.op = op.op, !.ordinal = op.ordinal,
                                    !.then = "scan", !.at = place]
    BY DEF Starting
  <2> HIDE DEF place
  <2> QED
    BY <2>1, <2>2, IdleFields DEF Fields
<1>7. Kept(run') /\ CalmAt(run'.at, run'.cont)
  BY <1>1, <1>6, IdleIsKept, IdleFields DEF Kept, CalmAt, op
<1>8. OnlyDamageIsDestructive'
  BY <1>1, QuietAnswer DEF fileVars
<1> QED
  BY <1>1, <1>3, <1>4, <1>7, <1>8, CalmChange

LEMMA ExecutorKeeps ==
    ASSUME IInv,
           \/ \E op \in Operations : Ask(op)
           \/ StartBackgroundIndexing \/ BackgroundStep \/ Dispose \/ CloseHandle
    PROVE  IInv'
<1>1. queue \in Seq(Queued) /\ ClosedIsLast
  BY DEF IInv, Typed
<1>2. UNCHANGED <<fileVars, engineVars, run, answer>>
  BY DEF Ask, StartBackgroundIndexing, BackgroundStep, Dispose, CloseHandle
<1>3. ASSUME NEW op \in Operations, Ask(op)
      PROVE  queue' \in Seq(Queued) /\ ClosedIsLast'
  <2>1. op \in Queued
    BY OperationsAssumption DEF Queued, Reads
  <2>2. queue' = Append(queue, op) /\ ~closing /\ closed' = closed
    BY <1>3 DEF Ask, Enqueue
  <2> QED
    BY <1>1, <2>1, <2>2, AppendProperties DEF ClosedIsLast
<1>4. ASSUME BackgroundStep
      PROVE  queue' \in Seq(Queued) /\ ClosedIsLast'
  <2>1. [op |-> "background", ordinal |-> 0] \in Queued
    BY DEF Queued, Reads
  <2>2. \/ UNCHANGED queue
        \/ ~closing /\ queue' = Append(queue, [op |-> "background", ordinal |-> 0])
    BY <1>4 DEF BackgroundStep, Enqueue
  <2>3. UNCHANGED <<closing, closed, run>>
    BY <1>4 DEF BackgroundStep
  <2> QED
    BY <1>1, <2>1, <2>2, <2>3, AppendProperties DEF ClosedIsLast
<1>5. ASSUME StartBackgroundIndexing \/ Dispose \/ CloseHandle
      PROVE  queue' \in Seq(Queued) /\ ClosedIsLast'
  BY <1>1, <1>5
     DEF StartBackgroundIndexing, Dispose, CloseHandle, ClosedIsLast
<1> QED
  BY <1>2, <1>3, <1>4, <1>5, QueueKeeps
-----------------------------------------------------------------------------
(* The programs that write the file *)

\* A write has a stamp of its own, so that what was seen is seen no more.
LEMMA WriteKeeps ==
    ASSUME IInv, NEW kind \in Writes, Write(kind)
    PROVE  IInv'
<1>1. /\ writes' = writes + 1
      /\ damaged' = (damaged \/ kind \notin {"append", "touch"})
      /\ UNCHANGED <<snapshot, baseline, run, queue, answer, closed>>
      /\ (WriteSource(kind) /\ path' = path) \/ MovePath(kind)
  BY DEF Write, engineVars, hostVars
<1>2. /\ Typed /\ StampsArePast
      /\ disk \in [Files -> [bytes: Seq(Bytes), stamp: Nat]]
      /\ writes \in Nat /\ Kept(run)
  BY RunIsKept DEF IInv, Typed
<1>3. /\ Source \in Files /\ Other \in Files /\ Source # Other
      /\ Files = {Source, Other}
      /\ Nothing \notin Files /\ Directory \notin Files
  BY DEF Source, Other, Files, Nothing, Directory
<1>4. Content(Source) \in Seq(Bytes) /\ Len(Content(Source)) \in Nat
  <2>1. Content(Source) \in Seq(Bytes)
    BY <1>2, <1>3 DEF Content
  <2> QED
    BY <2>1, LenProperties
<1>5. \A is \in Kinds : Byte(is) \in Bytes
  BY <1>2 DEF Byte, Bytes
<1>6. \A is \in {"x", "lf"} : Byte(is) \in Bytes
  BY <1>5 DEF Kinds
<1>7. ASSUME WriteSource(kind)
      PROVE  /\ \E bytes \in Seq(Bytes) : Written(bytes)
             /\ kind \in {"append", "touch"} =>
                  \/ Written(Content(Source))
                  \/ \E b \in Bytes : Written(Append(Content(Source), b))
  <2> DEFINE old == Content(Source)
  <2>1. CASE \E is \in {"x", "lf"} : Written(Append(old, Byte(is)))
    <3>1. PICK b \in Bytes : Written(Append(old, b))
      BY <1>6, <2>1
    <3>2. Append(old, b) \in Seq(Bytes)
      BY <1>4, AppendProperties
    <3> QED
      BY <3>1, <3>2
  <2>2. CASE kind = "touch" /\ Written(old)
    BY <1>4, <2>2
  <2>3. CASE /\ kind = "rewrite"
             /\ \E i \in DOMAIN old, is \in {"x", "lf"} :
                  Written([old EXCEPT ![i] = Byte(is)])
    <3>1. PICK i \in DOMAIN old, is \in {"x", "lf"} :
            Written([old EXCEPT ![i] = Byte(is)])
      BY <2>3
    <3>2. [old EXCEPT ![i] = Byte(is)] \in Seq(Bytes)
      BY <1>4, <1>6, ExceptSeq
    <3> QED
      BY <2>3, <3>1, <3>2
  <2>4. CASE /\ kind = "truncate"
             /\ \E n \in 0..Len(old) - 1 : Written(SubSeq(old, 1, n))
    <3>1. PICK n \in 0..Len(old) - 1 : Written(SubSeq(old, 1, n))
      BY <2>4
    <3>2. \A i \in 1..n : old[i] \in Bytes
      BY <1>4, ElementOfSeq
    <3>3. SubSeq(old, 1, n) \in Seq(Bytes)
      BY <1>4, <3>2, SubSeqProperties
    <3> QED
      BY <2>4, <3>1, <3>3
  <2> QED
    BY <1>7, <2>1, <2>2, <2>3, <2>4 DEF WriteSource
<1>8. ASSUME NEW bytes \in Seq(Bytes), Written(bytes)
      PROVE  /\ disk' \in [Files -> [bytes: Seq(Bytes), stamp: Nat]]
             /\ disk'[Source] = [bytes |-> bytes, stamp |-> writes + 1]
             /\ disk'[Other] = disk[Other]
  BY <1>2, <1>3, <1>8 DEF Written
<1>9. ASSUME MovePath(kind)
      PROVE  /\ path' \in Files \cup {Directory, Nothing}
             /\ disk' \in [Files -> [bytes: Seq(Bytes), stamp: Nat]]
             /\ \A f \in Files :
                  disk'[f].stamp \in {disk[f].stamp, writes + 1}
             /\ \/ disk'[Source] = disk[Source] /\ path' # Source
                \/ disk'[Source].stamp = writes + 1
             /\ kind \notin {"append", "touch"}
  <2>1. <<Byte("x")>> \in Seq(Bytes)
    BY <1>6
  <2>2. CASE kind \in {"delete", "directory"}
    BY <1>2, <1>3, <1>9, <2>2 DEF MovePath
  <2>3. CASE kind = "replace"
    <3>1. PICK bytes \in Seq(Bytes) :
            disk' = [disk EXCEPT ![Other] = [bytes |-> bytes, stamp |-> writes + 1]]
      BY <1>4, <1>9, <2>1, <2>3 DEF MovePath
    <3>2. path' = Other
      BY <1>9, <2>3 DEF MovePath
    <3>3. [bytes |-> bytes, stamp |-> writes + 1] \in [bytes: Seq(Bytes), stamp: Nat]
      BY <1>2
    <3>4. /\ disk' \in [Files -> [bytes: Seq(Bytes), stamp: Nat]]
          /\ disk'[Source] = disk[Source]
          /\ disk'[Other].stamp = writes + 1
      BY <1>2, <1>3, <3>1, <3>3
    <3>5. \A f \in Files : disk'[f].stamp \in {disk[f].stamp, writes + 1}
      BY <1>3, <3>4
    <3> QED
      BY <1>3, <2>3, <3>2, <3>4, <3>5
  <2>4. CASE kind = "restore"
    BY <1>2, <1>3, <1>9, <2>4 DEF MovePath
  <2> QED
    BY <1>9, <2>2, <2>3, <2>4 DEF MovePath
<1>10. /\ path' \in Files \cup {Directory, Nothing}
       /\ disk' \in [Files -> [bytes: Seq(Bytes), stamp: Nat]]
       /\ \A f \in Files : disk'[f].stamp \in {disk[f].stamp, writes + 1}
       /\ \/ disk'[Source] = disk[Source] /\ path' # Source
          \/ disk'[Source].stamp = writes + 1
  <2>1. CASE WriteSource(kind) /\ path' = path
    <3>1. PICK bytes \in Seq(Bytes) : Written(bytes)
      BY <1>7, <2>1
    <3>2. /\ disk' \in [Files -> [bytes: Seq(Bytes), stamp: Nat]]
          /\ disk'[Source].stamp = writes + 1
          /\ disk'[Other] = disk[Other]
      <4>1. /\ disk' \in [Files -> [bytes: Seq(Bytes), stamp: Nat]]
            /\ disk'[Source] = [bytes |-> bytes, stamp |-> writes + 1]
            /\ disk'[Other] = disk[Other]
        BY <1>8, <3>1
      <4> QED
        BY <4>1
    <3> QED
      BY <1>2, <1>3, <2>1, <3>2 DEF Typed
  <2> QED
    BY <1>1, <1>9, <2>1
<1>11. Typed'
  BY <1>1, <1>2, <1>10 DEF Typed, Size
<1>12. StampsArePast'
  <2>1. ASSUME NEW f \in Files
        PROVE  disk'[f].stamp <= writes'
    <3> DEFINE stamp == disk[f].stamp
    <3>1. stamp \in Nat /\ stamp <= writes
      BY <1>2 DEF StampsArePast
    <3>2. disk'[f].stamp \in {stamp, writes + 1}
      BY <1>10
    <3> HIDE DEF stamp
    <3> QED
      BY <1>1, <1>2, <3>1, <3>2
  <2>2. run'.seen.stamp <= writes'
    BY <1>1, <1>2 DEF Kept, Stats
  <2> QED
    BY <2>1, <2>2 DEF StampsArePast
<1>13. Untouched'
  BY <1>1, <1>2, <1>10 DEF IInv, Untouched, Content
<1>14. BaselineIsOfTheSnapshot'
  BY <1>1 DEF IInv, BaselineIsOfTheSnapshot, Unavailable
<1>15. ~AsSeen'
  BY <1>1, <1>2, <1>10 DEF AsSeen, Kept, Stats
<1>16. (Opened' <=> Opened) /\ Looked'
  BY <1>1, <1>15 DEF IInv, Looked, Opened
<1>17. Undamaged'
  <2> SUFFICES ASSUME ~damaged'
               PROVE  Undamaged'
    BY DEF Undamaged
  <2>1. ~damaged /\ kind \in {"append", "touch"}
    BY <1>1
  <2>2. WriteSource(kind) /\ path' = path
    BY <1>1, <1>9, <2>1
  <2> DEFINE old == Content(Source)
  <2>3. \/ Content(Source)' = old
        \/ \E b \in Bytes : Content(Source)' = Append(old, b)
    <3> HIDE DEF old
    <3>0. Content(Source)' = disk'[Source].bytes /\ old \in Seq(Bytes)
      BY <1>4 DEF Content, old
    <3>1. ASSUME Written(old)
          PROVE  Content(Source)' = old
      <4>1. disk'[Source] = [bytes |-> old, stamp |-> writes + 1]
        BY <1>8, <3>0, <3>1
      <4> QED
        BY <3>0, <4>1
    <3>2. ASSUME NEW b \in Bytes, Written(Append(old, b))
          PROVE  Content(Source)' = Append(old, b)
      <4>1. Append(old, b) \in Seq(Bytes)
        BY <3>0, AppendProperties
      <4>2. disk'[Source] = [bytes |-> Append(old, b), stamp |-> writes + 1]
        BY <1>8, <3>2, <4>1
      <4> QED
        BY <3>0, <4>2
    <3> QED
      BY <1>7, <2>1, <2>2, <3>1, <3>2 DEF old
  <2>4. Size \in Nat /\ Size <= Len(old) /\ Size' = Size
    <3>1. snapshot.bytes \in Seq(Bytes) /\ Size = Len(snapshot.bytes)
      BY <1>2 DEF Typed
    <3> QED
      BY <1>1, <2>1, <3>1, LenProperties DEF IInv, Undamaged, Size
  <2>5. /\ PrefixLength \in Nat /\ PrefixLength <= Size /\ PrefixLength' = PrefixLength
        /\ Size - PrefixLength \in Nat
    BY <2>4, BytesAssumption DEF PrefixLength
  <2> HIDE DEF old
  <2>6. /\ BytesAt(Content(Source)', 0, Size) = BytesAt(old, 0, Size)
        /\ BytesAt(Content(Source)', 0, PrefixLength) = BytesAt(old, 0, PrefixLength)
        /\ BytesAt(Content(Source)', Size - PrefixLength, PrefixLength)
             = BytesAt(old, Size - PrefixLength, PrefixLength)
        /\ Size <= Len(Content(Source)')
    <3>2. ASSUME NEW b \in Bytes
          PROVE  /\ BytesAt(Append(old, b), 0, Size) = BytesAt(old, 0, Size)
                 /\ BytesAt(Append(old, b), 0, PrefixLength)
                      = BytesAt(old, 0, PrefixLength)
                 /\ BytesAt(Append(old, b), Size - PrefixLength, PrefixLength)
                      = BytesAt(old, Size - PrefixLength, PrefixLength)
                 /\ Size <= Len(Append(old, b))
      <4>1. old \in Seq(Bytes) /\ Len(old) \in Nat
        BY <1>4 DEF old
      <4>2. /\ 0 + Size <= Len(old) /\ 0 + PrefixLength <= Len(old)
            /\ (Size - PrefixLength) + PrefixLength <= Len(old)
        BY <2>4, <2>5, <4>1
      <4>3. Len(Append(old, b)) = Len(old) + 1
        BY <4>1, AppendProperties
      <4>4. Size <= Len(Append(old, b))
        BY <2>4, <4>1, <4>3
      <4>5. BytesAt(Append(old, b), 0, Size) = BytesAt(old, 0, Size)
        BY <2>4, <4>1, <4>2, AppendKeepsRange
      <4>6. BytesAt(Append(old, b), 0, PrefixLength) = BytesAt(old, 0, PrefixLength)
        BY <2>5, <4>1, <4>2, AppendKeepsRange
      <4>7. BytesAt(Append(old, b), Size - PrefixLength, PrefixLength)
              = BytesAt(old, Size - PrefixLength, PrefixLength)
        BY <2>5, <4>1, <4>2, AppendKeepsRange
      <4> QED
        BY <4>4, <4>5, <4>6, <4>7
    <3>3. PICK b \in Bytes :
            Content(Source)' = old \/ Content(Source)' = Append(old, b)
      BY <1>6, <2>3 DEF old
    <3> DEFINE new == Content(Source)'
    <3>4. new = old \/ new = Append(old, b)
      BY <3>3
    <3> HIDE DEF new
    <3>5. /\ BytesAt(new, 0, Size) = BytesAt(old, 0, Size)
          /\ BytesAt(new, 0, PrefixLength) = BytesAt(old, 0, PrefixLength)
          /\ BytesAt(new, Size - PrefixLength, PrefixLength)
               = BytesAt(old, Size - PrefixLength, PrefixLength)
          /\ Size <= Len(new)
      <4>1. CASE new = old
        BY <2>4, <4>1
      <4>2. CASE new = Append(old, b)
        BY <3>2, <4>2
      <4> QED
        BY <3>4, <4>1, <4>2
    <3> QED
      BY <3>5 DEF new
  <2>7. /\ OldRange(Source)' = OldRange(Source)
        /\ PrefixOf(Source)' = PrefixOf(Source)
        /\ TailOf(Source)' = TailOf(Source)
    BY <2>4, <2>5, <2>6 DEF OldRange, PrefixOf, TailOf, old
  <2> QED
    BY <1>1, <1>16, <2>1, <2>2, <2>4, <2>6, <2>7 DEF IInv, Undamaged
<1>18. OnlyDamageIsDestructive'
  BY <1>1 DEF IInv, OnlyDamageIsDestructive
<1>19. ClosedIsLast'
  BY <1>1 DEF IInv, ClosedIsLast, Write, hostVars
<1> QED
  BY <1>11, <1>12, <1>13, <1>14, <1>16, <1>17, <1>18, <1>19 DEF IInv
-----------------------------------------------------------------------------
(* The specification *)

LEMMA InitialInvariant == Init => IInv
<1> SUFFICES ASSUME Init
             PROVE  IInv
  OBVIOUS
<1>1. PICK bytes \in Contents :
        /\ disk = [f \in Files |->
                     [bytes |-> IF f = Source THEN bytes ELSE <<>>, stamp |-> 0]]
        /\ snapshot = [bytes |-> bytes, size |-> Len(bytes),
                       prefix |-> <<>>, tail |-> <<>>]
  BY DEF Init
<1>2. bytes \in Seq(Bytes)
  <2>1. bytes \in Seq([is: Kinds, at: {0}])
    BY ContentsAssumption
  <2>2. Len(bytes) \in Nat /\ bytes \in [1..Len(bytes) -> [is: Kinds, at: {0}]]
    BY <2>1, LenProperties
  <2>3. \A b \in [is: Kinds, at: {0}] : b \in Bytes
    BY DEF Bytes
  <2>4. bytes \in [1..Len(bytes) -> Bytes]
    BY <2>2, <2>3
  <2> QED
    BY <2>2, <2>4, IsASeq
<1>3. /\ Source \in Files /\ Other \in Files /\ Source # Other
      /\ Files = {Source, Other}
  BY DEF Source, Other, Files
<1>4. /\ disk[Source] = [bytes |-> bytes, stamp |-> 0]
      /\ disk[Other] = [bytes |-> <<>>, stamp |-> 0]
      /\ disk \in [Files -> [bytes: Seq(Bytes), stamp: Nat]]
  BY <1>1, <1>2, <1>3
<1>5. /\ DOMAIN run = Fields /\ run.at = "open-prefix" /\ run.cont = "idle"
      /\ run.seen \in Stats /\ run.seen.stamp = 0
  BY IdleFields DEF Init, Fields
<1>6. Typed
  <2>1. /\ path = Source /\ writes = 0 /\ damaged = FALSE /\ queue = <<>>
        /\ snapshot = [bytes |-> bytes, size |-> Len(bytes),
                       prefix |-> <<>>, tail |-> <<>>]
    BY <1>1 DEF Init
  <2>2. /\ DOMAIN snapshot = {"bytes", "size", "prefix", "tail"}
        /\ snapshot.bytes = bytes /\ Size = Len(bytes)
    BY <2>1 DEF Size
  <2>3. queue \in Seq(Queued)
    BY <2>1, EmptySeq
  <2>4. path \in Files \cup {Directory, Nothing} /\ writes \in Nat /\ damaged \in BOOLEAN
    BY <1>3, <2>1
  <2> QED
    BY <1>2, <1>4, <1>5, <2>2, <2>3, <2>4 DEF Typed
<1>7. StampsArePast
  BY <1>3, <1>4, <1>5 DEF Init, StampsArePast
<1>8. Untouched
  BY <1>1, <1>4, <1>5 DEF Untouched, Content
<1>9. BaselineIsOfTheSnapshot
  BY <1>5 DEF Init, BaselineIsOfTheSnapshot, Lazy
<1>10. Looked
  BY <1>5 DEF Looked, Opened
<1>11. Undamaged
  <2>1. Size = Len(bytes) /\ Content(Source) = bytes
    BY <1>1, <1>4 DEF Size, Content
  <2>2. OldRange(Source) = bytes /\ Len(bytes) \in Nat
    BY <1>2, <2>1, WholeRange, LenProperties DEF OldRange
  <2> QED
    BY <1>1, <1>5, <2>1, <2>2 DEF Init, Undamaged, Opened
<1>12. OnlyDamageIsDestructive
  BY DEF Init, OnlyDamageIsDestructive, NoAnswer, Destructive
<1>13. ClosedIsLast
  BY DEF Init, ClosedIsLast
<1> QED
  BY <1>6, <1>7, <1>8, <1>9, <1>10, <1>11, <1>12, <1>13 DEF IInv

LEMMA StepInvariant == IInv /\ [Next]_vars => IInv'
<1> SUFFICES ASSUME IInv, [Next]_vars
             PROVE  IInv'
  OBVIOUS
<1>1. CASE OperationStep
  BY <1>1, OpeningKeeps, CheckingKeeps, ReadingKeeps, ClassifyingKeeps
     DEF OperationStep
<1>2. CASE Dequeue
  BY <1>2, DequeueKeeps
<1>3. CASE \/ \E op \in Operations : Ask(op)
           \/ StartBackgroundIndexing \/ BackgroundStep \/ Dispose \/ CloseHandle
  BY <1>3, ExecutorKeeps
<1>4. ASSUME NEW kind \in Writes, Write(kind)
      PROVE  IInv'
  BY <1>4, WriteKeeps
<1>5. CASE UNCHANGED vars
  BY <1>5, QueueKeeps DEF IInv, Typed, ClosedIsLast, vars, fileVars, engineVars
<1> QED
  BY <1>1, <1>2, <1>3, <1>4, <1>5 DEF Next, EngineStep

\* Whatever the host asks for and whatever other programs do to the file
\* between two awaits, the stamps, the baseline and what a classification has
\* compared stay those of the snapshot that the engine was opened on.
THEOREM Invariance == Spec => []IInv
<1>1. Init => IInv
  BY InitialInvariant
<1>2. IInv /\ [Next]_vars => IInv'
  BY StepInvariant
<1> QED
  BY <1>1, <1>2, PTL DEF Spec

\* A source that other programs only append to or touch is never classified
\* as truncated, replaced or deleted, which would end in a full rebuild or a
\* blocked panel (classifyRefresh).
THEOREM OnlyDamageHolds == Spec => []OnlyDamageIsDestructive
<1>1. IInv => OnlyDamageIsDestructive
  BY DEF IInv
<1> QED
  BY <1>1, Invariance, PTL

\* The file handle is closed only after the last operation that may read it
\* has left the executor (dispose).
THEOREM HandleHolds == Spec => []HandleOutlivesOperations
<1>1. IInv => HandleOutlivesOperations
  BY DEF IInv, ClosedIsLast, HandleOutlivesOperations
<1> QED
  BY <1>1, Invariance, PTL
-----------------------------------------------------------------------------
(* "append" and "unchanged" *)

Proofs == {"append", "unchanged"}

\* An operation that goes on, or that ends without having proved anything.
ProvesNothing == answer' = answer \/ answer'.outcome \notin Proofs

LEMMA EndsOutcome ==
    ASSUME NEW kind, Ends(kind)
    PROVE  answer'.outcome = kind
  BY DEF Ends, Settle, NoAnswer

LEMMA EndsProveNothing ==
    /\ Fail \/ LatchAndFail \/ Return => ProvesNothing
    /\ \A next : Continue(next) => ProvesNothing
    /\ \A place : Goto(place) => ProvesNothing
<1>1. Fail \/ LatchAndFail => answer'.outcome = "failed"
  BY EndsOutcome DEF Fail, LatchAndFail
<1>2. \A next : Continue(next) => answer' = answer
  BY DEF Continue, GoesOn
<1>3. \A place : Goto(place) => answer' = answer
  BY DEF Goto, Continue, GoesOn
<1>4. Return => answer' = answer \/ answer'.outcome = "ok"
  BY DEF Return, Continue, GoesOn, Settle
<1> QED
  BY <1>1, <1>2, <1>3, <1>4 DEF ProvesNothing, Proofs

LEMMA ClassifiedProves ==
    ASSUME NEW kind, Classified(kind), kind \notin Proofs
    PROVE  ProvesNothing
  BY EndsOutcome DEF Classified, ProvesNothing

\* Only the last look at the path may end in a proof.
LEMMA OnlyTheLastLookProves ==
    ASSUME [Next]_vars, ~ProvesNothing
    PROVE  ClassifyAgain /\ Classified(GrownOrNot) /\ Stat(path) = run.seen
           /\ path \notin {Nothing, Directory} /\ UNCHANGED fileVars
<1>1. Opening => ProvesNothing
  BY EndsProveNothing
     DEF Opening, OpenPrefix, OpenTail, BaseStat, BaseRead, BaseAgain, BaselineIs,
         GoesOn, ProvesNothing
<1>2. Checking => ProvesNothing
  BY EndsProveNothing
     DEF Checking, CheckPath, CheckHandle, CheckPrefix, CheckTail, CheckWhole,
         CheckAgain
<1>3. Reading => ProvesNothing
  <2>1. \A ref, cache : Found(ref, cache) => ProvesNothing
    <3>1. \A ref, cache : Found(ref, cache) => answer' = answer \/ Ends("failed")
      BY DEF Found, GoesOn
    <3> QED
      BY <3>1, EndsOutcome DEF ProvesNothing, Proofs
  <2>2. \A chunk : ReadChunk(chunk) => ProvesNothing
    BY EndsProveNothing DEF ReadChunk
  <2>3. CheckLast => ProvesNothing
    BY EndsProveNothing DEF CheckLast
  <2>4. Scan => ProvesNothing
    BY <2>2 DEF Scan, GoesOn, ProvesNothing
  <2>5. IndexDone \/ Hydrate => ProvesNothing
    BY <2>3, EndsProveNothing DEF IndexDone, Hydrate
  <2>6. FindRecord => ProvesNothing
    BY <2>1, <2>3, EndsProveNothing DEF FindRecord
  <2>7. LoadSegment => ProvesNothing
    BY <2>1, <2>2, EndsProveNothing DEF LoadSegment
  <2>8. CommitPath \/ CommitHandle => ProvesNothing
    BY EndsProveNothing DEF CommitPath, CommitHandle, GoesOn, ProvesNothing
  <2> QED
    BY <2>4, <2>5, <2>6, <2>7, <2>8 DEF Reading
<1>4. \A kind \in {"delete", "replace", "truncate", "unknown"} : kind \notin Proofs
  BY DEF Proofs
<1>5. ClassifyPath \/ ClassifyOpen \/ ClassifyPrefix \/ ClassifyTail \/ ClassifyWhole
        => ProvesNothing
  BY <1>4, ClassifiedProves, EndsProveNothing
     DEF ClassifyPath, ClassifyOpen, ClassifyPrefix, ClassifyTail, ClassifyWhole
<1>6. Dequeue => ProvesNothing
  <2> DEFINE refused == [NoAnswer EXCEPT !.op = Head(queue).op, !.outcome = "failed"]
  <2>1. refused.outcome = "failed" /\ NoAnswer.outcome = "none"
    BY DEF NoAnswer
  <2>2. Dequeue => answer' \in {refused, NoAnswer}
    BY DEF Dequeue
  <2> HIDE DEF refused
  <2> QED
    BY <2>1, <2>2 DEF ProvesNothing, Proofs
<1>7. \/ \E op \in Operations : Ask(op)
      \/ StartBackgroundIndexing \/ BackgroundStep \/ Dispose \/ CloseHandle
      \/ \E kind \in Writes : Write(kind)
      \/ UNCHANGED vars
      => ProvesNothing
  BY DEF Ask, StartBackgroundIndexing, BackgroundStep, Dispose, CloseHandle, Write,
         vars, ProvesNothing
<1>8. ClassifyAgain /\ UNCHANGED fileVars
  BY <1>1, <1>2, <1>3, <1>5, <1>6, <1>7
     DEF Next, EngineStep, OperationStep, Classifying
<1> QED
  BY <1>4, <1>8, ClassifiedProves DEF ClassifyAgain

\* What the last look compares: the path, the stamp and the length of what was
\* seen, which Looked makes the bytes of the snapshot.
LEMMA LastLookProves ==
    ASSUME IInv, ClassifyAgain, Classified(GrownOrNot), Stat(path) = run.seen,
           path \notin {Nothing, Directory}
    PROVE  /\ path = Source
           /\ OldRange(Source) = snapshot.bytes
           /\ (answer'.outcome = "append") <=> (Len(Content(Source)) > Size)
<1>1. /\ Opened /\ run.at = "classify-again"
      /\ Looked /\ path \in Files
  BY DEF ClassifyAgain, Opened, IInv, Typed
<1>2. Stat(path) = [file |-> path, size |-> Len(disk[path].bytes),
                    stamp |-> disk[path].stamp]
  BY <1>1 DEF Stat
<1>3. path = Source /\ AsSeen
  BY <1>1, <1>2 DEF Looked, AsSeen
<1>4. run.seen.size = Len(Content(Source))
  BY <1>2, <1>3 DEF Content
<1>5. answer'.outcome = GrownOrNot
  BY EndsOutcome DEF Classified
<1> QED
  BY <1>1, <1>3, <1>4, <1>5 DEF Looked, GrownOrNot

\* A refresh is called an append, or no change, only when at that moment the
\* path names the source with every byte of the snapshot in its place, grown
\* or not: the host then keeps its rows, or extends them (classifyRefresh).
THEOREM ClassificationHolds == Spec => ClassificationIsProof
<1>1. IInv /\ [Next]_vars =>
        [answer'.outcome \in {"append", "unchanged"} /\ answer' # answer =>
           /\ path = Source
           /\ OldRange(Source) = snapshot.bytes
           /\ (answer'.outcome = "append") <=> (Len(Content(Source)) > Size)]_vars
  BY OnlyTheLastLookProves, LastLookProves DEF ProvesNothing, Proofs
<1> QED
  BY <1>1, Invariance, PTL DEF Spec, ClassificationIsProof
-----------------------------------------------------------------------------
(* Rows and details: what an operation has read *)

ReadingPlaces == {"scan", "load", "commit-path", "commit-handle", "hydrate"}
LoadingPlaces == {"load", "commit-path", "commit-handle"}
CommitPlaces == {"commit-path", "commit-handle"}

\* The source still holds every byte of the snapshot.
Intact == Size <= Len(Content(Source)) /\ OldRange(Source) = snapshot.bytes

\* The bytes of the snapshot were there before the first write.
SnapshotIsOld == \A i \in 1..Len(snapshot.bytes) : snapshot.bytes[i].at = 0

\* The baseline is read once, and every comparison has it.
BaselineIsReadOnce ==
    /\ run.at \in BasePlaces \cup {"open-prefix", "open-tail"} => baseline.state = "lazy"
    /\ run.at = "check-whole" => baseline.state # "lazy"

\* The last look of the snapshot check is at a source that has its bytes, or
\* one that has been written since.
SeenIntact ==
    run.at = "check-again" => Intact \/ disk[Source].stamp # run.seen.stamp

\* What an operation has in hand at each of its places.
Stages(r) ==
    /\ DOMAIN r = Fields
    /\ r.ordinal \in Nat
    /\ r.then \in {"idle", "scan", "deliver"}
    /\ r.then = "idle" => r.op \notin Reads
    /\ r.at \in ReadingPlaces => r.then = "scan"
    /\ r.then = "scan" /\ r.at # "hydrate" => r.ref = <<>> /\ r.record = <<>>
    /\ r.at \notin LoadingPlaces => r.load = <<>>
    /\ r.at = "load" => r.load # <<>>

\* Bytes of a file, from an offset on.
IsFrom(s, offset, bytes) ==
    /\ s \in Seq(Bytes)
    /\ offset + Len(s) <= Len(bytes)
    /\ \A i \in 1..Len(s) : s[i] = bytes[offset + i]

\* A chunk of them, that was read from an offset and not past an end.
IsChunk(s, offset, end, bytes) ==
    IsFrom(s, offset, bytes) /\ Len(s) # 0 /\ offset + Len(s) <= end

\* The segment that is rebuilt is the one that has the record.
IsLoading(r, ix, bytes) ==
    LET load == r.load[1]
        meta == ix.segments[load.id + 1]
    IN  /\ IsLoad(load, ix, bytes)
        /\ meta.first <= r.ordinal /\ r.ordinal < meta.first + meta.count

\* The record that is read is the one that was asked for, as far as it is read.
IsHydrating(r, bytes) ==
    LET lines == SplitLines(bytes)
        line == lines[r.ordinal + 1]
    IN  /\ r.ordinal < Len(lines)
        /\ r.ref = <<line>>
        /\ IsFrom(r.record, line.start, bytes)

\* What an operation is going to answer.
IsAnswer(ordinal, ref, record, bytes) ==
    LET lines == SplitLines(bytes)
    IN  IF ordinal >= Len(lines) THEN ref = <<>>
        ELSE LET line == lines[ordinal + 1]
             IN  /\ ref = <<line>>
                 /\ record = BytesAt(bytes, line.start, line.end - line.start)

\* What has been read so far is of the snapshot.
Evidence(r, ix, bytes) ==
    /\ IsOf(ix, bytes)
    /\ r.used \in Nat
    /\ r.at \in CommitPlaces /\ r.load = <<>> =>
         ~ix.complete /\ IsChunk(r.read, ix.scanned, Len(bytes), bytes)
    /\ r.at \in LoadingPlaces /\ r.load # <<>> => IsLoading(r, ix, bytes)
    /\ r.at \in CommitPlaces /\ r.load # <<>> =>
         IsChunk(r.read, r.load[1].offset, ix.segments[r.load[1].id + 1].end, bytes)
    /\ r.at = "hydrate" => IsHydrating(r, bytes)
    /\ r.then = "deliver" /\ r.op \in {"row", "detail"} =>
         IsAnswer(r.ordinal, r.ref, r.record, bytes)

\* An operation reads on as if nobody wrote: while the source is intact what it
\* has is right, and once it is not the operation ends without an answer.
Data ==
    /\ SnapshotIsOld
    /\ BaselineIsReadOnce
    /\ Stages(run)
    /\ SeenIntact
    /\ Intact => Evidence(run, index, snapshot.bytes)
    /\ answer.outcome = "ok" => run = Idle
    /\ AnswersAreOfTheSnapshot
    /\ IndexIsOfTheSnapshot
-----------------------------------------------------------------------------
(* Bytes of an intact source *)

LEMMA FromBoth ==
    ASSUME NEW bytes, NEW o \in Nat, NEW s, IsFrom(s, o, bytes), NEW t,
           IsFrom(t, o + Len(s), bytes)
    PROVE  IsFrom(s \o t, o, bytes)
<1>1. s \in Seq(Bytes) /\ t \in Seq(Bytes)
  BY DEF IsFrom
<1> DEFINE m == Len(s)
           n == Len(t)
           u == s \o t
<1>2. /\ m \in Nat /\ n \in Nat
      /\ u \in Seq(Bytes) /\ Len(u) = m + n
      /\ \A i \in 1..m + n : u[i] = IF i <= m THEN s[i] ELSE t[i - m]
  BY <1>1, ConcatProperties, LenProperties
<1>3. /\ \A i \in 1..m : s[i] = bytes[o + i]
      /\ \A i \in 1..n : t[i] = bytes[(o + m) + i]
      /\ (o + m) + n <= Len(bytes)
  BY DEF IsFrom
<1> HIDE DEF m, n, u
<1>4. ASSUME NEW i \in 1..m + n
      PROVE  u[i] = bytes[o + i]
  <2>1. CASE i <= m
    <3>1. i \in 1..m
      BY <1>2, <2>1
    <3> QED
      BY <1>2, <1>3, <2>1, <3>1
  <2>2. CASE ~(i <= m)
    <3>1. i - m \in 1..n /\ (o + m) + (i - m) = o + i
      BY <1>2, <2>2
    <3>2. t[i - m] = bytes[(o + m) + (i - m)]
      BY <1>3, <3>1
    <3> QED
      BY <1>2, <2>2, <3>1, <3>2
  <2> QED
    BY <2>1, <2>2
<1>5. Len(u) = m + n /\ (o + m) + n = o + (m + n)
  BY <1>2
<1>6. IsFrom(u, o, bytes)
  BY <1>2, <1>3, <1>4, <1>5 DEF IsFrom
<1> QED
  BY <1>6 DEF u

LEMMA RangeIsFrom ==
    ASSUME NEW bytes \in Seq(Bytes), NEW o \in Nat, NEW l \in Nat, o + l <= Len(bytes)
    PROVE  /\ BytesAt(bytes, o, l) \in Seq(Bytes)
           /\ Len(BytesAt(bytes, o, l)) = l
           /\ \A i \in 1..l : BytesAt(bytes, o, l)[i] = bytes[o + i]
  BY BytesInRange

LEMMA FromIsRange ==
    ASSUME NEW bytes \in Seq(Bytes), NEW o \in Nat, NEW s, IsFrom(s, o, bytes)
    PROVE  s = BytesAt(bytes, o, Len(s))
<1>1. s \in Seq(Bytes) /\ Len(s) \in Nat /\ o + Len(s) <= Len(bytes)
      /\ \A i \in 1..Len(s) : s[i] = bytes[o + i]
  BY LenProperties DEF IsFrom
<1> DEFINE r == BytesAt(bytes, o, Len(s))
<1>2. /\ r \in Seq(Bytes) /\ Len(r) = Len(s)
      /\ \A i \in 1..Len(s) : r[i] = bytes[o + i]
  BY <1>1, BytesInRange
<1> HIDE DEF r
<1>3. s = r
  BY <1>1, <1>2, SeqEqual
<1> QED
  BY <1>3 DEF r

LEMMA Sizes ==
    ASSUME IInv
    PROVE  /\ snapshot.bytes \in Seq(Bytes) /\ Size = Len(snapshot.bytes) /\ Size \in Nat
           /\ Content(Source) \in Seq(Bytes) /\ Len(Content(Source)) \in Nat
<1>1. /\ snapshot.bytes \in Seq(Bytes) /\ Size = Len(snapshot.bytes)
      /\ Content(Source) \in Seq(Bytes)
  BY DEF IInv, Typed, Content, Files
<1> QED
  BY <1>1, LenProperties

LEMMA IntactBytes ==
    ASSUME IInv, Intact
    PROVE  \A i \in 1..Size : Content(Source)[i] = snapshot.bytes[i]
<1>1. Size \in Nat /\ 0 + Size <= Len(Content(Source)) /\ Content(Source) \in Seq(Bytes)
  BY Sizes DEF Intact
<1>2. \A i \in 1..Size : BytesAt(Content(Source), 0, Size)[i] = Content(Source)[0 + i]
  BY <1>1, BytesInRange
<1>3. BytesAt(Content(Source), 0, Size) = snapshot.bytes
  BY DEF Intact, OldRange
<1>4. \A i \in 1..Size : 0 + i = i
  BY <1>1
<1> QED
  BY <1>2, <1>3, <1>4

\* A range of the length of the snapshot that has its bytes is one.
LEMMA SameBytesAreIntact ==
    ASSUME IInv, NEW s \in Seq(Bytes), Size <= Len(s),
           \A i \in 1..Size : s[i] = snapshot.bytes[i]
    PROVE  BytesAt(s, 0, Size) = snapshot.bytes
<1>1. /\ snapshot.bytes \in Seq(Bytes) /\ Size = Len(snapshot.bytes) /\ Size \in Nat
      /\ Len(s) \in Nat
  BY Sizes, LenProperties
<1> DEFINE r == BytesAt(s, 0, Size)
<1>2. 0 + Size <= Len(s) /\ Size \in Nat /\ 0 \in Nat
  BY <1>1
<1>3. /\ r \in Seq(Bytes) /\ Len(r) = Size
      /\ \A i \in 1..Size : r[i] = s[0 + i]
  BY <1>2, RangeIsFrom
<1>4. \A i \in 1..Size : 0 + i = i
  BY <1>1
<1> HIDE DEF r
<1>5. \A i \in 1..Len(r) : r[i] = snapshot.bytes[i]
  BY <1>3, <1>4
<1>6. r = snapshot.bytes
  BY <1>1, <1>3, <1>5, SeqEqual
<1> QED
  BY <1>6 DEF r

LEMMA EqualIsIntact ==
    ASSUME IInv, OldRange(Source) = snapshot.bytes
    PROVE  Intact
<1> DEFINE s == Content(Source)
           n == Len(s)
<1>1. /\ Size = Len(snapshot.bytes) /\ Size \in Nat /\ s \in Seq(Bytes) /\ n \in Nat
      /\ OldRange(Source) = BytesAt(s, 0, Size)
  BY Sizes DEF OldRange
<1>2. ASSUME n < Size
      PROVE  FALSE
  <2> DEFINE r == SubSeq(s, 1, n)
  <2>1. OldRange(Source) = r
    <3>1. BytesAt(s, 0, Size) = SubSeq(s, 0 + 1, IF 0 + Size < Len(s) THEN 0 + Size ELSE Len(s))
      BY DEF BytesAt
    <3> HIDE DEF s
    <3>2. ~(0 + Size < n) /\ 0 + 1 = 1
      BY <1>1, <1>2
    <3> QED
      BY <1>1, <3>1, <3>2
  <2>2. \A i \in 1..n : s[i] \in Bytes
    BY <1>1, ElementOfSeq
  <2> HIDE DEF s, n
  <2>3. Len(r) = IF 1 <= n THEN n - 1 + 1 ELSE 0
    BY <1>1, <2>2, SubSeqProperties
  <2> HIDE DEF r
  <2>4. Len(r) = n
    BY <1>1, <2>3
  <2> QED
    BY <1>1, <1>2, <2>1, <2>4
<1> QED
  BY <1>1, <1>2 DEF Intact

LEMMA UntouchedIsIntact ==
    ASSUME IInv, disk[Source].stamp = 0
    PROVE  Intact
<1>1. Content(Source) = snapshot.bytes
  BY DEF IInv, Untouched
<1>2. OldRange(Source) = snapshot.bytes
  BY <1>1, Sizes, WholeRange DEF OldRange
<1> QED
  BY <1>2, EqualIsIntact

\* A read of an intact source that finds bytes finds those of the snapshot.
LEMMA ReadIsChunk ==
    ASSUME IInv, Intact, NEW o \in Nat, NEW e \in Int, e <= Size, ReadAt(o, e) # <<>>
    PROVE  IsChunk(ReadAt(o, e), o, e, snapshot.bytes)
<1> DEFINE s == Content(Source)
           n == Len(s)
           l == IF e - o < ChunkBytes THEN e - o ELSE ChunkBytes
           r == BytesAt(s, o, l)
<1>1. /\ snapshot.bytes \in Seq(Bytes) /\ Size = Len(snapshot.bytes) /\ Size \in Nat
      /\ s \in Seq(Bytes) /\ n \in Nat /\ Size <= n
      /\ \A i \in 1..Size : s[i] = snapshot.bytes[i]
  BY Sizes, IntactBytes DEF Intact
<1>2. ReadAt(o, e) = r /\ r # <<>>
  BY DEF ReadAt
<1> HIDE DEF s
<1>3. l \in Int /\ o + l <= e /\ l <= ChunkBytes
  BY BytesAssumption
<1> HIDE DEF l
<1>4. l > 0
  <2> SUFFICES ASSUME ~(l > 0)
               PROVE  FALSE
    OBVIOUS
  <2> DEFINE m == IF o + l < n THEN o + l ELSE n
  <2>1. m \in Int /\ ~(o + 1 <= m)
    BY <1>1, <1>3
  <2>2. r = SubSeq(s, o + 1, m)
    BY DEF BytesAt
  <2> HIDE DEF m, n
  <2>3. \A i \in o + 1..m : s[i] \in Bytes
    BY <2>1
  <2>4. SubSeq(s, o + 1, m) \in Seq(Bytes) /\ Len(SubSeq(s, o + 1, m)) = 0
    BY <2>1, <2>3, SubSeqProperties
  <2> QED
    BY <1>2, <2>2, <2>4, EmptySeq
<1>5. l \in Nat /\ o + l <= n /\ o + l <= Size
  BY <1>1, <1>3, <1>4
<1>6. /\ r \in Seq(Bytes) /\ Len(r) = l /\ \A i \in 1..l : r[i] = s[o + i]
  BY <1>1, <1>5, RangeIsFrom
<1>7. \A i \in 1..l : r[i] = snapshot.bytes[o + i]
  <2>1. \A i \in 1..l : o + i \in 1..Size
    BY <1>1, <1>5
  <2> QED
    BY <1>1, <1>6, <2>1
<1> HIDE DEF r, n
<1>8. IsFrom(r, o, snapshot.bytes)
  BY <1>1, <1>5, <1>6, <1>7 DEF IsFrom
<1>9. IsChunk(r, o, e, snapshot.bytes)
  BY <1>3, <1>4, <1>6, <1>8 DEF IsChunk
<1> QED
  BY <1>2, <1>9
-----------------------------------------------------------------------------
(* Steps of an operation *)

\* An operation that is not done has not answered.
NotAnswered == answer'.outcome # "ok"

LEMMA NotAnsweredKeeps ==
    ASSUME NotAnswered
    PROVE  /\ AnswersAreOfTheSnapshot' /\ IndexIsOfTheSnapshot'
           /\ answer'.outcome = "ok" => run' = Idle
  BY DEF NotAnswered, AnswersAreOfTheSnapshot, IndexIsOfTheSnapshot

LEMMA BusyHasNotAnswered ==
    ASSUME Data, run.at # "idle"
    PROVE  answer.outcome # "ok"
  BY IdleFields DEF Data

SameSource ==
    UNCHANGED disk /\ snapshot'.bytes = snapshot.bytes /\ snapshot'.size = snapshot.size

LEMMA SameSourceKeeps ==
    ASSUME SameSource
    PROVE  /\ Intact' <=> Intact
           /\ SnapshotIsOld' <=> SnapshotIsOld
           /\ OldRange(Source)' = OldRange(Source)
  BY DEF SameSource, Intact, SnapshotIsOld, OldRange, Content, Size

LEMMA StepOn ==
    ASSUME Data, SameSource, NotAnswered, BaselineIsReadOnce', Stages(run'), SeenIntact',
           Intact => Evidence(run', index', snapshot.bytes)
    PROVE  Data'
<1>1. SnapshotIsOld' /\ (Intact' <=> Intact) /\ snapshot'.bytes = snapshot.bytes
  BY SameSourceKeeps DEF Data, SameSource
<1>2. Intact' => Evidence(run', index', snapshot'.bytes)
  BY <1>1
<1> QED
  BY <1>1, <1>2, NotAnsweredKeeps DEF Data

LEMMA IdleHasNothing ==
    /\ Stages(Idle)
    /\ \A ix, bytes : IsOf(ix, bytes) => Evidence(Idle, ix, bytes)
<1>1. /\ DOMAIN Idle = Fields
      /\ Idle.at = "idle" /\ Idle.then = "idle" /\ Idle.op = "none"
      /\ Idle.ordinal = 0 /\ Idle.load = <<>> /\ Idle.used = 0
  BY DEF Idle, Fields
<1>2. "none" \notin Reads
  BY DEF Reads
<1>3. Stages(Idle)
  BY <1>1, <1>2 DEF Stages, ReadingPlaces, LoadingPlaces
<1>4. \A ix, bytes : IsOf(ix, bytes) => Evidence(Idle, ix, bytes)
  BY <1>1 DEF Evidence, CommitPlaces, LoadingPlaces
<1> QED
  BY <1>3, <1>4

LEMMA StepEnds ==
    ASSUME Data, SameSource, NotAnswered, run' = Idle,
           Intact => IsOf(index', snapshot.bytes)
    PROVE  Data'
<1>1. run'.at = "idle"
  BY IdleFields
<1>2. BaselineIsReadOnce' /\ SeenIntact'
  BY <1>1 DEF BaselineIsReadOnce, SeenIntact, BasePlaces
<1>3. Stages(run') /\ (Intact => Evidence(run', index', snapshot.bytes))
  BY IdleHasNothing
<1> QED
  BY <1>2, <1>3, StepOn

LEMMA FailEnds ==
    ASSUME Data, SameSource,
           Fail \/ LatchAndFail \/ \E kind : kind # "ok" /\ Classified(kind)
    PROVE  Data'
<1>1. PICK kind : kind # "ok" /\ Ends(kind) /\ index' = index
  BY DEF Fail, LatchAndFail, Classified, engineVars
<1>2. run' = Idle /\ NotAnswered /\ index' = index
  <2>1. answer'.outcome = kind
    BY <1>1, EndsOutcome
  <2>2. run' = Idle
    BY <1>1 DEF Ends, Settle
  <2> QED
    BY <1>1, <2>1, <2>2 DEF NotAnswered
<1>3. Intact => IsOf(index', snapshot.bytes)
  BY <1>2 DEF Data, Evidence
<1> QED
  BY <1>2, <1>3, StepEnds

\* What a check or a comparison leaves alone of its operation.
Carries(r, s) ==
    /\ DOMAIN s = Fields
    /\ s.op = r.op /\ s.ordinal = r.ordinal /\ s.then = r.then /\ s.used = r.used
    /\ s.load = r.load /\ s.ref = r.ref /\ s.record = r.record

LEMMA CarryOn ==
    ASSUME Data, SameSource, UNCHANGED <<answer, index>>,
           run.at \notin ReadingPlaces, run.at # "idle",
           Carries(run, run'), run'.at \notin ReadingPlaces,
           BaselineIsReadOnce', SeenIntact'
    PROVE  Data'
<1>1. NotAnswered
  BY BusyHasNotAnswered DEF NotAnswered
<1>2. LoadingPlaces \subseteq ReadingPlaces /\ CommitPlaces \subseteq ReadingPlaces
      /\ "hydrate" \in ReadingPlaces /\ "load" \in ReadingPlaces
  BY DEF LoadingPlaces, ReadingPlaces, CommitPlaces
<1>3. Stages(run')
  BY <1>2 DEF Data, Stages, Carries
<1>4. ASSUME Intact
      PROVE  Evidence(run', index', snapshot.bytes)
  <2>1. Evidence(run, index, snapshot.bytes)
    BY <1>4 DEF Data
  <2>2. IsOf(index', snapshot.bytes) /\ run'.used \in Nat
    BY <2>1 DEF Evidence, Carries
  <2>3. run'.then = "deliver" /\ run'.op \in {"row", "detail"} =>
          IsAnswer(run'.ordinal, run'.ref, run'.record, snapshot.bytes)
    BY <2>1 DEF Evidence, Carries
  <2> QED
    BY <1>2, <2>2, <2>3 DEF Evidence
<1> QED
  BY <1>1, <1>3, <1>4, StepOn

\* On to a place that is none of reading, with the same in hand.
LEMMA CheckOn ==
    ASSUME Data, UNCHANGED disk, NEW next, Continue(next),
           run.at \notin ReadingPlaces, run.at # "idle",
           Carries(run, next), next.at \notin ReadingPlaces,
           next.at \in BasePlaces \cup {"open-prefix", "open-tail"} => baseline.state = "lazy",
           next.at = "check-whole" => baseline.state # "lazy",
           next.at = "check-again" => Intact \/ disk[Source].stamp # next.seen.stamp
    PROVE  Data'
<1>1. /\ run' = next /\ UNCHANGED <<answer, index, snapshot, baseline>>
  BY DEF Continue, GoesOn, engineVars
<1>2. SameSource
  BY <1>1 DEF SameSource
<1>3. BaselineIsReadOnce'
  BY <1>1 DEF BaselineIsReadOnce, BasePlaces
<1>4. SeenIntact'
  BY <1>1, <1>2, SameSourceKeeps DEF SeenIntact
<1> QED
  BY <1>1, <1>2, <1>3, <1>4, CarryOn
-----------------------------------------------------------------------------
(* assertSnapshotUnchanged, opening and classifyRefresh *)

\* The answer that was prepared is given at a look that has proved the source
\* intact, or when nothing can be proved.
LEMMA ReturnAnswers ==
    ASSUME Data, Return, UNCHANGED disk, run.at \notin ReadingPlaces, run.at # "idle",
           IInv, Provable => Intact
    PROVE  Data'
<1>1. UNCHANGED <<snapshot, baseline, index>> /\ SameSource
  BY DEF Return, Continue, engineVars, SameSource
<1>2. "hydrate" \in ReadingPlaces /\ LoadingPlaces \subseteq ReadingPlaces
      /\ CommitPlaces \subseteq LoadingPlaces
  BY DEF ReadingPlaces, LoadingPlaces, CommitPlaces
<1>3. /\ DOMAIN run = Fields /\ run.ordinal \in Nat /\ run.load = <<>>
      /\ run.then = "scan" => run.ref = <<>> /\ run.record = <<>>
      /\ run.then \in {"idle", "scan", "deliver"}
      /\ run.then = "idle" => run.op \notin Reads
  BY <1>2 DEF Data, Stages
<1>4. CASE run.then = "scan"
  <2> DEFINE next == [run EXCEPT !.at = "scan", !.seen = Idle.seen, !.read = <<>>]
  <2>1. run' = next /\ UNCHANGED answer
    BY <1>4 DEF Return, Continue, GoesOn
  <2>2. /\ next.at = "scan" /\ Carries(run, next)
    BY <1>3 DEF Fields, Carries
  <2> HIDE DEF next
  <2>3. Stages(next)
    BY <1>3, <1>4, <2>2 DEF Stages, Carries, ReadingPlaces, LoadingPlaces
  <2>4. Intact => Evidence(next, index, snapshot.bytes)
    <3>1. Intact => IsOf(index, snapshot.bytes) /\ next.used \in Nat
      BY <2>2 DEF Data, Evidence, Carries
    <3> QED
      BY <1>3, <1>4, <2>2, <3>1 DEF Evidence, Carries, CommitPlaces, LoadingPlaces
  <2>5. NotAnswered
    BY <2>1, BusyHasNotAnswered DEF NotAnswered
  <2>6. BaselineIsReadOnce' /\ SeenIntact'
    BY <2>1, <2>2 DEF BaselineIsReadOnce, SeenIntact, BasePlaces
  <2> QED
    BY <1>1, <2>1, <2>3, <2>4, <2>5, <2>6, StepOn
<1>5. CASE run.then # "scan"
  <2> DEFINE result == [op |-> run.op, ordinal |-> run.ordinal, outcome |-> "ok",
                        ref |-> run.ref, bytes |-> run.record]
  <2>1. run' = Idle /\ answer' = result
    BY <1>5 DEF Return, Settle
  <2>2. /\ result.op = run.op /\ result.ordinal = run.ordinal
        /\ result.ref = run.ref /\ result.bytes = run.record
    OBVIOUS
  <2> HIDE DEF result
  <2>3. Intact => Evidence(run, index, snapshot.bytes)
    BY DEF Data
  <2>4. Intact' => Evidence(run', index', snapshot'.bytes)
    <3>1. Intact => IsOf(index, snapshot.bytes)
      BY <2>3 DEF Evidence
    <3> QED
      BY <1>1, <2>1, <3>1, IdleHasNothing, SameSourceKeeps
  <2>5. AnswersAreOfTheSnapshot'
    <3> SUFFICES ASSUME Provable, run.op \in {"row", "detail"}
                 PROVE  IsAnswer(run.ordinal, run.ref, run.record, snapshot.bytes)
      BY <1>1, <2>1, <2>2 DEF AnswersAreOfTheSnapshot, IsAnswer, Provable, Unavailable
    <3>1. run.then = "deliver"
      BY <1>3, <1>5 DEF Reads
    <3> QED
      BY <2>3, <3>1 DEF Evidence
  <2>6. IndexIsOfTheSnapshot'
    <3> SUFFICES ASSUME Provable
                 PROVE  IndexAgrees
      BY <1>1 DEF IndexIsOfTheSnapshot, IndexAgrees, Provable, Unavailable
    <3>1. IsOf(index, snapshot.bytes) /\ snapshot.bytes \in Seq(Bytes)
      BY <2>3, Sizes DEF Evidence
    <3> QED
      BY <3>1, IndexListsRecords DEF IndexAgrees
  <2>7. run'.at = "idle"
    BY <2>1, IdleFields
  <2>8. BaselineIsReadOnce' /\ SeenIntact' /\ Stages(run')
    BY <2>1, <2>7, IdleHasNothing DEF BaselineIsReadOnce, SeenIntact, BasePlaces
  <2>9. SnapshotIsOld'
    BY <1>1, SameSourceKeeps DEF Data
  <2> QED
    BY <2>1, <2>4, <2>5, <2>6, <2>8, <2>9 DEF Data
<1> QED
  BY <1>4, <1>5

LEMMA CheckingAnswers ==
    ASSUME IInv, Data, Checking, UNCHANGED fileVars
    PROVE  Data'
<1>1. /\ UNCHANGED disk
      /\ run.at \notin ReadingPlaces /\ run.at # "idle"
      /\ DOMAIN run = Fields
  BY DEF Checking, CheckPath, CheckHandle, CheckPrefix, CheckTail, CheckWhole, CheckAgain,
         ReadingPlaces, fileVars, Data, Stages
<1>2. Fail \/ LatchAndFail => Data'
  <2>1. Fail \/ LatchAndFail => SameSource
    BY <1>1 DEF Fail, LatchAndFail, engineVars, SameSource
  <2> QED
    BY <2>1, FailEnds
<1>3. CASE CheckPath
  <2> DEFINE next == [run EXCEPT !.at = "check-handle"]
  <2>1. Fail \/ LatchAndFail \/ Continue(next)
    BY <1>3 DEF CheckPath, Goto
  <2>2. next.at = "check-handle" /\ Carries(run, next)
    BY <1>1 DEF Fields, Carries
  <2> HIDE DEF next
  <2> QED
    BY <1>1, <1>2, <2>1, <2>2, CheckOn DEF ReadingPlaces, BasePlaces
<1>4. CASE CheckHandle
  <2> DEFINE now == Stat(Source)
             grown == [run EXCEPT !.at = "check-prefix", !.seen = now]
             same == [run EXCEPT !.seen = now]
             based == WithBaseline(same, "check-whole")
  <2>1. \/ Fail \/ LatchAndFail
        \/ now = SnapshotStat /\ Return
        \/ Continue(grown) \/ Continue(based)
    BY <1>4 DEF CheckHandle
  <2>2. now = SnapshotStat => Intact
    <3>1. Stat(Source).stamp = disk[Source].stamp /\ SnapshotStat.stamp = 0
      BY DEF Stat, Files, SnapshotStat
    <3> QED
      BY <3>1, UntouchedIsIntact
  <2> HIDE DEF now
  <2>3. grown.at = "check-prefix" /\ Carries(run, grown)
    BY <1>1 DEF Fields, Carries
  <2>4. /\ Carries(run, based)
        /\ \/ based.at = "base-stat" /\ baseline.state = "lazy"
           \/ based.at = "check-whole" /\ baseline.state # "lazy"
    BY <1>1 DEF Fields, Carries, WithBaseline
  <2> HIDE DEF grown, based
  <2>5. CASE Continue(grown)
    BY <1>1, <2>3, <2>5, CheckOn DEF ReadingPlaces, BasePlaces
  <2>6. CASE Continue(based)
    BY <1>1, <2>4, <2>6, CheckOn DEF ReadingPlaces, BasePlaces
  <2> QED
    BY <1>1, <1>2, <2>1, <2>2, <2>5, <2>6, ReturnAnswers
<1>5. CASE CheckPrefix
  <2> DEFINE next == [run EXCEPT !.at = "check-tail", !.read = PrefixOf(Source)]
  <2>1. Fail \/ Continue(next)
    BY <1>5 DEF CheckPrefix
  <2>2. next.at = "check-tail" /\ Carries(run, next)
    BY <1>1 DEF Fields, Carries
  <2> HIDE DEF next
  <2> QED
    BY <1>1, <1>2, <2>1, <2>2, CheckOn DEF ReadingPlaces, BasePlaces
<1>6. CASE CheckTail
  <2> DEFINE next == WithBaseline([run EXCEPT !.read = <<>>], "check-whole")
  <2>1. Fail \/ LatchAndFail \/ Continue(next)
    BY <1>6 DEF CheckTail
  <2>2. /\ Carries(run, next)
        /\ \/ next.at = "base-stat" /\ baseline.state = "lazy"
           \/ next.at = "check-whole" /\ baseline.state # "lazy"
    BY <1>1 DEF Fields, Carries, WithBaseline
  <2> HIDE DEF next
  <2> QED
    BY <1>1, <1>2, <2>1, <2>2, CheckOn DEF ReadingPlaces, BasePlaces
<1>7. CASE CheckWhole
  <2> DEFINE next == [run EXCEPT !.at = "check-again"]
  <2>1. \/ Fail \/ LatchAndFail
        \/ baseline = Unavailable /\ Return
        \/ /\ baseline # Unavailable /\ OldRange(Source) = baseline.bytes
           /\ Continue(next)
    BY <1>7 DEF CheckWhole, Goto
  <2>2. next.at = "check-again" /\ Carries(run, next)
    BY <1>1 DEF Fields, Carries
  <2> HIDE DEF next
  <2>3. baseline # Unavailable => baseline.bytes = snapshot.bytes
    BY <1>7 DEF CheckWhole, Data, BaselineIsReadOnce, IInv, BaselineIsOfTheSnapshot
  <2>4. CASE baseline = Unavailable /\ Return
    BY <1>1, <2>4, ReturnAnswers DEF Provable
  <2>5. CASE /\ baseline # Unavailable /\ OldRange(Source) = baseline.bytes
             /\ Continue(next)
    <3>1. Intact
      BY <2>3, <2>5, EqualIsIntact
    <3> QED
      BY <1>1, <2>2, <2>5, <3>1, CheckOn DEF ReadingPlaces, BasePlaces
  <2> QED
    BY <1>2, <2>1, <2>4, <2>5
<1>8. CASE CheckAgain
  <2>1. Fail \/ (Stat(Source) = run.seen /\ Return)
    BY <1>8 DEF CheckAgain
  <2>2. Stat(Source).stamp = disk[Source].stamp
    BY DEF Stat, Files
  <2>3. Stat(Source) = run.seen => Intact
    BY <1>8, <2>2 DEF CheckAgain, Data, SeenIntact
  <2> QED
    BY <1>1, <1>2, <2>1, <2>3, ReturnAnswers
<1> QED
  BY <1>3, <1>4, <1>5, <1>6, <1>7, <1>8 DEF Checking

LEMMA BaselineIsAnswers ==
    ASSUME IInv, Data, NEW b, BaselineIs(b), UNCHANGED disk, run.at \in BasePlaces,
           b.state # "lazy"
    PROVE  Data'
<1> DEFINE next == [run EXCEPT !.at = run.cont, !.cont = "idle", !.read = <<>>]
<1>1. /\ UNCHANGED <<snapshot, index, answer>> /\ baseline' = b
      /\ run' = IF run.cont = "idle" THEN Idle ELSE next
      /\ SameSource
  BY DEF BaselineIs, GoesOn, SameSource
<1>2. /\ DOMAIN run = Fields /\ run.at \notin ReadingPlaces /\ run.at # "idle"
      /\ run.cont \in {"idle", "check-whole", "classify-whole"}
  BY DEF Data, Stages, IInv, Typed, BasePlaces, ReadingPlaces
<1>3. next.at = run.cont /\ Carries(run, next)
  BY <1>2 DEF Fields, Carries
<1> HIDE DEF next
<1>4. NotAnswered
  BY <1>1, <1>2, BusyHasNotAnswered DEF NotAnswered
<1>5. CASE run.cont = "idle"
  <2>1. run' = Idle /\ (Intact => IsOf(index', snapshot.bytes))
    BY <1>1, <1>5 DEF Data, Evidence
  <2> QED
    BY <1>1, <1>4, <2>1, StepEnds
<1>6. CASE run.cont # "idle"
  <2>1. /\ run' = next /\ run'.at \in {"check-whole", "classify-whole"}
    BY <1>1, <1>2, <1>3, <1>6
  <2>2. BaselineIsReadOnce' /\ SeenIntact' /\ run'.at \notin ReadingPlaces
    BY <1>1, <2>1 DEF BaselineIsReadOnce, SeenIntact, BasePlaces, ReadingPlaces
  <2> QED
    BY <1>1, <1>2, <1>3, <2>1, <2>2, CarryOn
<1> QED
  BY <1>5, <1>6

LEMMA OpeningAnswers ==
    ASSUME IInv, Data, Opening, UNCHANGED fileVars
    PROVE  Data'
<1>1. /\ UNCHANGED disk
      /\ run.at \in BasePlaces \cup {"open-prefix", "open-tail"}
      /\ run.at \notin ReadingPlaces /\ run.at # "idle"
      /\ DOMAIN run = Fields
      /\ baseline.state = "lazy"
  <2>1. run.at \in BasePlaces \cup {"open-prefix", "open-tail"}
    BY DEF Opening, OpenPrefix, OpenTail, BaseStat, BaseRead, BaseAgain, BasePlaces
  <2> QED
    BY <2>1 DEF BasePlaces, ReadingPlaces, fileVars, Data, Stages, BaselineIsReadOnce
<1>2. Unavailable.state # "lazy" /\ \A bytes : Known(bytes).state # "lazy"
  BY DEF Unavailable, Known
<1>3. DOMAIN snapshot = {"bytes", "size", "prefix", "tail"}
  BY DEF IInv, Typed
<1>4. CASE OpenPrefix
  <2> DEFINE next == [run EXCEPT !.at = "open-tail"]
  <2>1. /\ run' = next /\ UNCHANGED <<answer, baseline, index>>
        /\ snapshot' = [snapshot EXCEPT !.prefix = PrefixOf(Source)]
    BY <1>4 DEF OpenPrefix, GoesOn
  <2>2. next.at = "open-tail" /\ Carries(run, next)
    BY <1>1 DEF Fields, Carries
  <2> HIDE DEF next
  <2>3. SameSource
    BY <1>1, <1>3, <2>1 DEF SameSource
  <2>4. BaselineIsReadOnce' /\ SeenIntact'
    BY <1>1, <2>1, <2>2 DEF BaselineIsReadOnce, SeenIntact, BasePlaces
  <2> QED
    BY <1>1, <2>1, <2>2, <2>3, <2>4, CarryOn DEF ReadingPlaces
<1>5. CASE OpenTail
  <2> DEFINE next == [run EXCEPT !.at = "base-stat", !.cont = "idle"]
  <2>1. /\ run' = next \/ run' = Idle
        /\ UNCHANGED <<answer, baseline, index>>
        /\ snapshot' = [snapshot EXCEPT !.tail = TailOf(Source)]
    BY <1>5 DEF OpenTail, GoesOn
  <2>2. next.at = "base-stat" /\ Carries(run, next)
    BY <1>1 DEF Fields, Carries
  <2> HIDE DEF next
  <2>3. SameSource
    BY <1>1, <1>3, <2>1 DEF SameSource
  <2>4. CASE run' = next
    <3>1. BaselineIsReadOnce' /\ SeenIntact'
      BY <1>1, <2>1, <2>2, <2>4 DEF BaselineIsReadOnce, SeenIntact, BasePlaces
    <3> QED
      BY <1>1, <2>1, <2>2, <2>3, <2>4, <3>1, CarryOn DEF ReadingPlaces
  <2>5. CASE run' = Idle
    <3>1. Intact => IsOf(index', snapshot.bytes)
      BY <2>1 DEF Data, Evidence
    <3>2. NotAnswered
      BY <1>1, <2>1, BusyHasNotAnswered DEF NotAnswered
    <3> QED
      BY <2>3, <2>5, <3>1, <3>2, StepEnds
  <2> QED
    BY <2>1, <2>4, <2>5
<1>6. CASE BaseStat
  <2> DEFINE next == [run EXCEPT !.at = "base-read"]
  <2>1. run.at \in BasePlaces /\ (Continue(next) \/ BaselineIs(Unavailable))
    BY <1>6 DEF BaseStat, Goto, BasePlaces
  <2>2. next.at = "base-read" /\ Carries(run, next)
    BY <1>1 DEF Fields, Carries
  <2> HIDE DEF next
  <2>3. CASE Continue(next)
    BY <1>1, <2>2, <2>3, CheckOn DEF ReadingPlaces
  <2> QED
    BY <1>1, <1>2, <2>1, <2>3, BaselineIsAnswers
<1>7. CASE BaseRead
  <2> DEFINE next == [run EXCEPT !.at = "base-again", !.read = OldRange(Source)]
  <2>1. run.at \in BasePlaces /\ (Continue(next) \/ BaselineIs(Unavailable))
    BY <1>7 DEF BaseRead, BasePlaces
  <2>2. next.at = "base-again" /\ Carries(run, next)
    BY <1>1 DEF Fields, Carries
  <2> HIDE DEF next
  <2>3. CASE Continue(next)
    BY <1>1, <2>2, <2>3, CheckOn DEF ReadingPlaces
  <2> QED
    BY <1>1, <1>2, <2>1, <2>3, BaselineIsAnswers
<1>8. CASE BaseAgain
  <2>1. run.at \in BasePlaces /\ (BaselineIs(Known(run.read)) \/ BaselineIs(Unavailable))
    BY <1>8 DEF BaseAgain, BasePlaces
  <2> QED
    BY <1>1, <1>2, <2>1, BaselineIsAnswers
<1> QED
  BY <1>4, <1>5, <1>6, <1>7, <1>8 DEF Opening

LEMMA ClassifyingAnswers ==
    ASSUME IInv, Data, Classifying, UNCHANGED fileVars
    PROVE  Data'
<1>1. /\ UNCHANGED disk
      /\ run.at \notin ReadingPlaces /\ run.at # "idle"
      /\ DOMAIN run = Fields
  BY DEF Classifying, ClassifyPath, ClassifyOpen, ClassifyPrefix, ClassifyTail,
         ClassifyWhole, ClassifyAgain, ReadingPlaces, fileVars, Data, Stages
<1> DEFINE kinds == {"delete", "replace", "truncate", "unknown", "append", "unchanged"}
           opened == [run EXCEPT !.at = "classify-open", !.seen = Stat(path)]
           held == [run EXCEPT !.at = "classify-prefix", !.file = path]
           tail == [run EXCEPT !.at = "classify-tail"]
           whole == WithBaseline(run, "classify-whole")
           again == [run EXCEPT !.at = "classify-again"]
<1>2. \/ Fail \/ \E kind \in kinds : Classified(kind)
      \/ \E next \in {opened, held, tail, whole, again} : Continue(next)
  BY DEF Classifying, ClassifyPath, ClassifyOpen, ClassifyPrefix, ClassifyTail,
         ClassifyWhole, ClassifyAgain, GrownOrNot, Goto
<1>3. ASSUME NEW next \in {opened, held, tail, whole, again}
      PROVE  /\ Carries(run, next)
             /\ \/ next.at \in {"classify-open", "classify-prefix", "classify-tail",
                                "classify-whole", "classify-again"}
                \/ next.at = "base-stat" /\ baseline.state = "lazy"
  BY <1>1 DEF Fields, Carries, WithBaseline
<1> HIDE DEF opened, held, tail, whole, again
<1>4. ASSUME NEW next \in {opened, held, tail, whole, again}, Continue(next)
      PROVE  Data'
  BY <1>1, <1>3, <1>4, CheckOn DEF ReadingPlaces, BasePlaces
<1>5. ASSUME Fail \/ \E kind \in kinds : Classified(kind)
      PROVE  Data'
  <2>1. SameSource
    BY <1>1, <1>5 DEF Fail, Classified, engineVars, SameSource
  <2>2. Fail \/ \E kind : kind # "ok" /\ Classified(kind)
    BY <1>5
  <2> QED
    BY <2>1, <2>2, FailEnds
<1> QED
  BY <1>2, <1>4, <1>5
-----------------------------------------------------------------------------
(* scanNextChunk, getRecord, loadSegment and hydrate *)

\* An operation that goes on to read.
LEMMA ReadOn ==
    ASSUME Data, UNCHANGED <<disk, snapshot, baseline, answer>>, run.at # "idle",
           run'.at \in ReadingPlaces \cup {"check-path"}, Stages(run'),
           Intact => Evidence(run', index', snapshot.bytes)
    PROVE  Data'
<1>1. SameSource /\ NotAnswered
  BY BusyHasNotAnswered DEF SameSource, NotAnswered
<1>2. BaselineIsReadOnce' /\ SeenIntact'
  BY DEF BaselineIsReadOnce, SeenIntact, BasePlaces, ReadingPlaces
<1> QED
  BY <1>1, <1>2, StepOn

LEMMA FailReads ==
    ASSUME Data, UNCHANGED disk, Fail \/ LatchAndFail
    PROVE  Data'
<1>1. SameSource
  BY DEF Fail, LatchAndFail, engineVars, SameSource
<1> QED
  BY <1>1, FailEnds

\* What an operation has at a place of reading.
LEMMA AtReading ==
    ASSUME Data, run.at \in ReadingPlaces
    PROVE  /\ DOMAIN run = Fields /\ run.at # "idle"
           /\ run.ordinal \in Nat /\ run.then = "scan"
           /\ run.at # "hydrate" => run.ref = <<>> /\ run.record = <<>>
           /\ run.at \notin LoadingPlaces => run.load = <<>>
           /\ run.at = "load" => run.load # <<>>
  BY DEF Data, Stages, ReadingPlaces

\* The chunk that was found waits for the check before it is committed.
LEMMA ReadChunkAnswers ==
    ASSUME Data, UNCHANGED disk, run.at \in {"scan", "load"}, NEW chunk, ReadChunk(chunk),
           Intact /\ chunk # <<>> /\ run.load = <<>> =>
             ~index.complete /\ IsChunk(chunk, index.scanned, Len(snapshot.bytes), snapshot.bytes),
           Intact /\ chunk # <<>> /\ run.load # <<>> =>
             IsChunk(chunk, run.load[1].offset, index.segments[run.load[1].id + 1].end,
                     snapshot.bytes)
    PROVE  Data'
<1> DEFINE next == [run EXCEPT !.at = "commit-path", !.read = chunk]
<1>1. Fail \/ (chunk # <<>> /\ Continue(next))
  BY DEF ReadChunk
<1>2. run.at \in ReadingPlaces /\ "hydrate" \in ReadingPlaces
  BY DEF ReadingPlaces
<1>3. /\ DOMAIN run = Fields /\ run.at # "idle"
      /\ run.ordinal \in Nat /\ run.then = "scan"
      /\ run.ref = <<>> /\ run.record = <<>>
      /\ run.at \notin LoadingPlaces => run.load = <<>>
      /\ run.at = "load" => run.load # <<>>
  BY <1>2, AtReading
<1>4. next.at = "commit-path" /\ Carries(run, next) /\ next.read = chunk
  BY <1>3 DEF Fields, Carries
<1> HIDE DEF next
<1>5. CASE chunk # <<>> /\ Continue(next)
  <2>1. UNCHANGED <<snapshot, baseline, index, answer>> /\ run' = next
    BY <1>5 DEF Continue, GoesOn, engineVars
  <2>2. Stages(next)
    BY <1>3, <1>4 DEF Stages, Carries, LoadingPlaces
  <2>3. ASSUME Intact
        PROVE  Evidence(next, index, snapshot.bytes)
    <3>1. Evidence(run, index, snapshot.bytes)
      BY <2>3 DEF Data
    <3>2. run.load # <<>> => IsLoading(run, index, snapshot.bytes)
      BY <1>3, <3>1 DEF Evidence, LoadingPlaces
    <3>3. run.load # <<>> => IsLoading(next, index, snapshot.bytes)
      BY <1>4, <3>2 DEF IsLoading, Carries
    <3>4. IsOf(index, snapshot.bytes) /\ next.used \in Nat
      BY <1>4, <3>1 DEF Evidence, Carries
    <3>5. /\ next.load = run.load /\ next.then = "scan"
      BY <1>3, <1>4 DEF Carries
    <3> QED
      BY <1>4, <1>5, <2>3, <3>3, <3>4, <3>5 DEF Evidence
  <2> QED
    BY <1>3, <1>4, <2>1, <2>2, <2>3, ReadOn DEF ReadingPlaces
<1> QED
  BY <1>1, <1>5, FailReads

LEMMA ScanAnswers ==
    ASSUME IInv, Data, Scan, UNCHANGED disk
    PROVE  Data'
<1>1. /\ run.at = "scan" /\ run.at \in ReadingPlaces /\ "scan" \notin LoadingPlaces
      /\ ~index.complete
  BY DEF Scan, WantsChunk, ReadingPlaces, LoadingPlaces
<1>2. run.load = <<>> /\ Stages(run)
  BY <1>1, AtReading DEF Data
<1>3. /\ snapshot.bytes \in Seq(Bytes) /\ Size = Len(snapshot.bytes) /\ Size \in Nat
  BY Sizes
<1>4. Intact => /\ Evidence(run, index, snapshot.bytes)
                /\ IsOf(index, snapshot.bytes)
                /\ index.scanned \in 0..Size
                /\ run.used \in Nat
  BY <1>3 DEF Data, Evidence, IsOf
<1>5. CASE index.scanned < Size
  <2> DEFINE chunk == ReadAt(index.scanned, BudgetEnd)
  <2>1. ReadChunk(chunk)
    BY <1>5 DEF Scan
  <2>2. ASSUME Intact, chunk # <<>>
        PROVE  IsChunk(chunk, index.scanned, Len(snapshot.bytes), snapshot.bytes)
    <3>1. index.scanned \in Nat /\ run.used \in Nat
      BY <1>3, <1>4, <2>2
    <3>2. BudgetEnd \in Int /\ BudgetEnd <= Size
      BY <1>3, <3>1, BytesAssumption DEF BudgetEnd
    <3>3. IsChunk(chunk, index.scanned, BudgetEnd, snapshot.bytes)
      BY <2>2, <3>1, <3>2, ReadIsChunk
    <3> QED
      BY <1>3, <3>3 DEF IsChunk, IsFrom
  <2> HIDE DEF chunk
  <2> QED
    BY <1>1, <1>2, <2>1, <2>2, ReadChunkAnswers
<1>6. CASE ~(index.scanned < Size)
  <2>1. /\ index' = FinishAtEof(index, Size)
        /\ UNCHANGED <<run, snapshot, baseline, answer>>
    BY <1>6 DEF Scan, GoesOn
  <2>2. ASSUME Intact
        PROVE  Evidence(run', index', snapshot.bytes)
    <3>1. index.scanned = Len(snapshot.bytes)
      BY <1>3, <1>4, <1>6, <2>2
    <3>2. IsOf(index', snapshot.bytes)
      BY <1>1, <1>3, <1>4, <2>1, <2>2, <3>1, FinishKeeps
    <3>3. Evidence(run, index, snapshot.bytes) /\ run' = run
      BY <1>4, <2>1, <2>2
    <3> QED
      BY <1>1, <1>2, <3>2, <3>3 DEF Evidence, CommitPlaces, LoadingPlaces
  <2> QED
    BY <1>1, <1>2, <2>1, <2>2, ReadOn
<1> QED
  BY <1>5, <1>6

\* The body is done with an answer, or with an index that has gone on.
LEMMA CheckLastAnswers ==
    ASSUME Data, UNCHANGED disk, CheckLast, run.at \in ReadingPlaces,
           Intact /\ run.op \in {"row", "detail"} =>
             IsAnswer(run.ordinal, run.ref, run.record, snapshot.bytes)
    PROVE  Data'
<1> DEFINE next == [run EXCEPT !.at = "check-path", !.then = "deliver",
                               !.load = <<>>, !.read = <<>>]
<1>1. UNCHANGED <<snapshot, baseline, index, answer>> /\ run' = next
  BY DEF CheckLast, Continue, GoesOn, engineVars
<1>2. DOMAIN run = Fields /\ run.at # "idle" /\ run.ordinal \in Nat
  BY AtReading
<1>3. /\ DOMAIN next = Fields /\ next.at = "check-path" /\ next.then = "deliver"
      /\ next.load = <<>> /\ next.ordinal = run.ordinal /\ next.op = run.op
      /\ next.ref = run.ref /\ next.record = run.record /\ next.used = run.used
  BY <1>2 DEF Fields
<1> HIDE DEF next
<1>4. Stages(next)
  BY <1>2, <1>3 DEF Stages, ReadingPlaces
<1>5. ASSUME Intact
      PROVE  Evidence(next, index, snapshot.bytes)
  <2>1. IsOf(index, snapshot.bytes) /\ run.used \in Nat
    BY <1>5 DEF Data, Evidence
  <2> QED
    BY <1>3, <1>5, <2>1 DEF Evidence, CommitPlaces, LoadingPlaces
<1> QED
  BY <1>1, <1>2, <1>3, <1>4, <1>5, ReadOn

\* The record has been found, and is read next.
LEMMA FoundAnswers ==
    ASSUME IInv, Data, UNCHANGED disk, run.at \in {"scan", "load"}, NEW ref, NEW cache,
           Found(ref, cache),
           Intact => /\ IsOf([index EXCEPT !.cache = cache], snapshot.bytes)
                     /\ run.ordinal < Len(SplitLines(snapshot.bytes))
                     /\ ref = SplitLines(snapshot.bytes)[run.ordinal + 1]
    PROVE  Data'
<1> DEFINE next == [run EXCEPT !.at = "hydrate", !.ref = <<ref>>, !.load = <<>>]
           L == SplitLines(snapshot.bytes)
<1>1. /\ index' = [index EXCEPT !.cache = cache]
      /\ UNCHANGED <<snapshot, baseline>> /\ SameSource
      /\ Ends("failed") \/ (run' = next /\ UNCHANGED answer)
  BY DEF Found, GoesOn, SameSource
<1>2. run.at \in ReadingPlaces
  BY DEF ReadingPlaces
<1>3. /\ DOMAIN run = Fields /\ run.at # "idle" /\ run.ordinal \in Nat
      /\ run.then = "scan" /\ run.record = <<>>
  BY <1>2, AtReading
<1>4. /\ DOMAIN next = Fields /\ next.at = "hydrate" /\ next.then = "scan"
      /\ next.ordinal = run.ordinal /\ next.op = run.op /\ next.ref = <<ref>>
      /\ next.load = <<>> /\ next.record = <<>> /\ next.used = run.used
  BY <1>3 DEF Fields
<1> HIDE DEF next
<1>5. CASE Ends("failed")
  <2>1. run' = Idle /\ NotAnswered
    <3>1. answer'.outcome = "failed"
      BY <1>5, EndsOutcome
    <3> QED
      BY <1>5, <3>1 DEF Ends, Settle, NotAnswered
  <2> QED
    BY <1>1, <2>1, StepEnds
<1>6. CASE run' = next /\ UNCHANGED answer
  <2>1. Stages(next)
    BY <1>3, <1>4 DEF Stages, ReadingPlaces, LoadingPlaces
  <2>2. ASSUME Intact
        PROVE  Evidence(next, index', snapshot.bytes)
    <3>1. /\ IsOf(index', snapshot.bytes) /\ run.used \in Nat
          /\ run.ordinal < Len(L) /\ ref = L[run.ordinal + 1]
      BY <1>1, <2>2 DEF Data, Evidence
    <3>2. /\ snapshot.bytes \in Seq(Bytes) /\ Len(snapshot.bytes) \in Nat
          /\ L \in Seq(Refs) /\ Len(L) \in Nat
          /\ \A j \in 1..Len(L) : L[j].start = Boundary(L, j - 1)
      BY Sizes, LinesFollow, LenProperties
    <3> HIDE DEF L
    <3>3. run.ordinal + 1 \in 1..Len(L) /\ (run.ordinal + 1) - 1 = run.ordinal
          /\ run.ordinal \in 0..Len(L)
      BY <1>3, <3>1, <3>2
    <3>4. Boundary(L, run.ordinal) \in 0..Len(snapshot.bytes)
      BY <3>2, <3>3, EndedAtBoundary DEF L
    <3>5. ref.start = Boundary(L, run.ordinal)
      <4>1. L[run.ordinal + 1].start = Boundary(L, (run.ordinal + 1) - 1)
        BY <3>2, <3>3
      <4> QED
        BY <3>1, <3>3, <4>1
    <3>6. IsFrom(<<>>, ref.start, snapshot.bytes)
      <4>1. <<>> \in Seq(Bytes) /\ Len(<<>>) = 0
        BY EmptySeq
      <4>2. ref.start + 0 <= Len(snapshot.bytes)
        BY <3>2, <3>4, <3>5
      <4> QED
        BY <4>1, <4>2 DEF IsFrom
    <3>7. IsHydrating(next, snapshot.bytes)
      BY <1>4, <3>1, <3>6 DEF IsHydrating, L
    <3> QED
      BY <1>4, <3>1, <3>7 DEF Evidence, CommitPlaces, LoadingPlaces
  <2> QED
    BY <1>1, <1>3, <1>4, <1>6, <2>1, <2>2, ReadOn DEF ReadingPlaces
<1> QED
  BY <1>1, <1>5, <1>6

LEMMA FindRecordAnswers ==
    ASSUME IInv, Data, FindRecord, UNCHANGED disk
    PROVE  Data'
<1> DEFINE B == snapshot.bytes
           L == SplitLines(B)
           firstPending == index.records - Len(index.pending)
           loading(id) == [run EXCEPT !.at = "load", !.load = <<StartLoad(index, id)>>]
<1>1. /\ run.at = "scan" /\ run.at \in ReadingPlaces /\ "scan" \notin LoadingPlaces
      /\ run.at # "hydrate"
      /\ run.op \in {"row", "detail"} /\ ~WantsChunk
  <2>1. run.at = "scan" /\ run.op \in {"row", "detail"} /\ ~WantsChunk
    BY Zenon DEF FindRecord
  <2> QED
    BY <2>1 DEF ReadingPlaces, LoadingPlaces
<1>2. /\ DOMAIN run = Fields /\ run.at # "idle" /\ run.ordinal \in Nat
      /\ run.then = "scan" /\ run.ref = <<>> /\ run.record = <<>> /\ run.load = <<>>
  BY <1>1, AtReading
<1>3. B \in Seq(Bytes)
  BY Sizes
<1>4. Intact => Evidence(run, index, B) /\ IsOf(index, B) /\ run.used \in Nat
  BY DEF Data, Evidence
<1>5. \/ run.ordinal >= index.records /\ (Fail \/ CheckLast)
      \/ /\ ~(run.ordinal >= index.records) /\ run.ordinal >= firstPending
         /\ Found(index.pending[run.ordinal - firstPending + 1], index.cache)
      \/ \E id \in SegmentsWith(index, run.ordinal) :
           \/ Continue(loading(id))
           \/ \E n \in Cached(index, id) :
                Found(index.cache[n].refs[run.ordinal - index.segments[id + 1].first + 1],
                      PutCache(index.cache, id, index.cache[n].refs))
  <2> DEFINE InPending == Found(index.pending[run.ordinal - firstPending + 1], index.cache)
             InSegment(id, n) ==
               Found(index.cache[n].refs[run.ordinal - index.segments[id + 1].first + 1],
                     PutCache(index.cache, id, index.cache[n].refs))
  <2>1. IF run.ordinal >= index.records
          THEN IF run.op = "detail" THEN Fail ELSE CheckLast
        ELSE IF run.ordinal >= firstPending THEN InPending
        ELSE \E id \in SegmentsWith(index, run.ordinal) :
               IF Cached(index, id) = {} THEN Continue(loading(id))
               ELSE \E n \in Cached(index, id) : InSegment(id, n)
    BY Zenon DEF FindRecord
  <2> HIDE DEF InPending, InSegment, firstPending, loading
  <2>2. \/ run.ordinal >= index.records /\ (Fail \/ CheckLast)
        \/ /\ ~(run.ordinal >= index.records) /\ run.ordinal >= firstPending
           /\ InPending
        \/ \E id \in SegmentsWith(index, run.ordinal) :
             \/ Continue(loading(id))
             \/ \E n \in Cached(index, id) : InSegment(id, n)
    BY <2>1, Zenon
  <2> QED
    BY <2>2, Zenon DEF InPending, InSegment, firstPending, loading
<1>6. CASE run.ordinal >= index.records /\ (Fail \/ CheckLast)
  <2>1. ASSUME Intact
        PROVE  IsAnswer(run.ordinal, run.ref, run.record, B)
    <3>1. index.complete /\ index.records = Len(L)
      BY <1>1, <1>2, <1>4, <1>6, <2>1 DEF WantsChunk, IsOf
    <3> QED
      BY <1>2, <1>6, <3>1 DEF IsAnswer
  <2> QED
    BY <1>1, <1>6, <2>1, CheckLastAnswers, FailReads
<1>7. CASE /\ ~(run.ordinal >= index.records) /\ run.ordinal >= firstPending
           /\ Found(index.pending[run.ordinal - firstPending + 1], index.cache)
  <2>1. ASSUME Intact
        PROVE  /\ IsOf([index EXCEPT !.cache = index.cache], B)
               /\ run.ordinal < Len(L)
               /\ index.pending[run.ordinal - firstPending + 1] = L[run.ordinal + 1]
    <3>1. IsOf(index, B)
      BY <1>4, <2>1
    <3>2. run.ordinal < index.records
      BY <1>2, <1>7, <3>1 DEF IsOf, Agrees
    <3> QED
      BY <1>2, <1>3, <1>7, <3>1, <3>2, SameCacheKeeps, FoundInPending
  <2> DEFINE ref == index.pending[run.ordinal - firstPending + 1]
  <2>2. Found(ref, index.cache)
    BY <1>7
  <2> HIDE DEF ref
  <2> QED
    BY <1>1, <2>1, <2>2, FoundAnswers DEF ref
<1>8. ASSUME NEW id \in SegmentsWith(index, run.ordinal)
      PROVE  Intact => /\ id \in Nat /\ id + 1 \in 1..Len(index.segments)
                       /\ index.segments[id + 1].first <= run.ordinal
                       /\ run.ordinal < index.segments[id + 1].first
                                          + index.segments[id + 1].count
  <2> SUFFICES ASSUME Intact
               PROVE  /\ id \in Nat /\ id + 1 \in 1..Len(index.segments)
                      /\ index.segments[id + 1].first <= run.ordinal
                      /\ run.ordinal < index.segments[id + 1].first
                                         + index.segments[id + 1].count
    OBVIOUS
  <2>1. /\ id \in 0..Len(index.segments) - 1
        /\ index.segments[id + 1].first <= run.ordinal
        /\ run.ordinal < index.segments[id + 1].first + index.segments[id + 1].count
    BY DEF SegmentsWith
  <2>2. Len(index.segments) \in Nat
    <3>1. IsOf(index, B)
      BY <1>4
    <3>2. index.segments \in Seq(Segments(L, index.records - Len(index.pending)))
      BY <3>1 DEF IsOf, Agrees
    <3> QED
      BY <3>2, LenProperties
  <2> DEFINE n == Len(index.segments)
  <2>3. n \in Nat /\ id \in 0..n - 1
    BY <2>1, <2>2
  <2> HIDE DEF n
  <2>4. id \in Nat /\ id + 1 \in 1..n
    BY <2>3
  <2> QED
    BY <2>1, <2>4 DEF n
<1>9. ASSUME NEW id \in SegmentsWith(index, run.ordinal), Continue(loading(id))
      PROVE  Data'
  <2> DEFINE load == StartLoad(index, id)
             next == loading(id)
  <2>1. UNCHANGED <<snapshot, baseline, index, answer>> /\ run' = next
    BY <1>9 DEF Continue, GoesOn, engineVars
  <2>2. Intact => IsLoad(load, index, B)
    BY <1>3, <1>4, <1>8, LoadStarts
  <2>3. load.id = id
    BY DEF StartLoad
  <2> HIDE DEF load
  <2>4. /\ DOMAIN next = Fields /\ next.at = "load" /\ next.then = "scan"
        /\ next.ordinal = run.ordinal /\ next.op = run.op /\ next.ref = <<>>
        /\ next.load = <<load>> /\ next.record = <<>> /\ next.used = run.used
    BY <1>2 DEF Fields, load
  <2> HIDE DEF next
  <2>5. next.load # <<>> /\ next.load[1] = load
    BY <2>4
  <2>6. Stages(next)
    BY <1>2, <2>4, <2>5 DEF Stages, LoadingPlaces
  <2>7. ASSUME Intact
        PROVE  Evidence(next, index, B)
    <3>1. IsLoading(next, index, B)
      BY <1>8, <2>2, <2>3, <2>4, <2>5, <2>7 DEF IsLoading
    <3> QED
      BY <1>4, <2>4, <2>5, <2>7, <3>1 DEF Evidence, CommitPlaces
  <2> QED
    BY <1>2, <2>1, <2>4, <2>6, <2>7, ReadOn DEF ReadingPlaces
<1>10. ASSUME NEW id \in SegmentsWith(index, run.ordinal), NEW n \in Cached(index, id),
              Found(index.cache[n].refs[run.ordinal - index.segments[id + 1].first + 1],
                    PutCache(index.cache, id, index.cache[n].refs))
       PROVE  Data'
  <2> DEFINE refs == index.cache[n].refs
             ref == refs[run.ordinal - index.segments[id + 1].first + 1]
             put == PutCache(index.cache, id, refs)
  <2>1. ASSUME Intact
        PROVE  /\ IsOf([index EXCEPT !.cache = put], B)
               /\ run.ordinal < Len(L) /\ ref = L[run.ordinal + 1]
    <3>1. IsOf(index, B)
      BY <1>4, <2>1
    <3>2. n \in 1..Len(index.cache) /\ index.cache[n].id = id
      BY DEF Cached
    <3>3. /\ id \in Nat /\ id + 1 \in 1..Len(index.segments)
          /\ index.segments[id + 1].first <= run.ordinal
          /\ run.ordinal < index.segments[id + 1].first + index.segments[id + 1].count
      BY <1>8, <2>1
    <3>4. Lists(refs, L, index.segments[id + 1].first,
                index.segments[id + 1].first + index.segments[id + 1].count)
      BY <1>3, <3>1, <3>2, EntryIsOfLines
    <3> HIDE DEF refs
    <3>5. run.ordinal < Len(L) /\ ref = L[run.ordinal + 1]
      <4>1. PICK k \in 1..Len(index.segments) : k = id + 1
        BY <3>3
      <4>2. /\ index.segments[k].first <= run.ordinal
            /\ run.ordinal < index.segments[k].first + index.segments[k].count
            /\ Lists(refs, L, index.segments[k].first,
                     index.segments[k].first + index.segments[k].count)
        BY <3>3, <3>4, <4>1
      <4>3. /\ run.ordinal < Len(L)
            /\ refs[run.ordinal - index.segments[k].first + 1] = L[run.ordinal + 1]
        BY <1>2, <1>3, <3>1, <4>2, FoundInSegment
      <4> QED
        BY <4>1, <4>3
    <3>6. IsOf([index EXCEPT !.cache = put], B)
      BY <1>3, <3>1, <3>3, <3>4, CachedKeeps
    <3> QED
      BY <3>5, <3>6
  <2>2. Found(ref, put)
    BY <1>10
  <2> HIDE DEF ref, put
  <2> QED
    BY <1>1, <2>1, <2>2, FoundAnswers
<1> HIDE DEF loading
<1> QED
  BY <1>5, <1>6, <1>7, <1>9, <1>10

LEMMA LoadSegmentAnswers ==
    ASSUME IInv, Data, LoadSegment, UNCHANGED disk
    PROVE  Data'
<1> DEFINE B == snapshot.bytes
           L == SplitLines(B)
           load == run.load[1]
           meta == index.segments[load.id + 1]
           refs == LoadedRefs(index, load)
           ref == refs[run.ordinal - meta.first + 1]
           put == PutCache(index.cache, load.id, refs)
           chunk == ReadAt(load.offset, meta.end)
<1>1. /\ run.at = "load" /\ run.at \in ReadingPlaces /\ run.at \in LoadingPlaces
      /\ run.load # <<>> /\ run.ordinal \in Nat
  <2>1. run.at = "load" /\ run.at \in ReadingPlaces /\ run.at \in LoadingPlaces
    BY DEF LoadSegment, ReadingPlaces, LoadingPlaces
  <2> QED
    BY <2>1, AtReading
<1>2. B \in Seq(Bytes) /\ Size = Len(B) /\ Size \in Nat
  BY Sizes
<1>3. ASSUME Intact
      PROVE  /\ IsOf(index, B) /\ IsLoad(load, index, B)
             /\ meta.first <= run.ordinal /\ run.ordinal < meta.first + meta.count
  BY <1>1, <1>3 DEF Data, Evidence, IsLoading
<1>4. \/ load.offset < meta.end /\ ReadChunk(chunk)
      \/ Fail
      \/ ~(load.offset < meta.end) /\ Found(ref, put)
  BY DEF LoadSegment
<1>5. CASE load.offset < meta.end /\ ReadChunk(chunk)
  <2>1. ASSUME Intact, chunk # <<>>
        PROVE  IsChunk(chunk, load.offset, meta.end, B)
    <3>1. /\ load.offset \in 0..Len(B) /\ load.id + 1 \in 1..Len(index.segments)
      BY <1>3, <2>1 DEF IsLoad
    <3>2. /\ meta.first \in Nat /\ meta.count \in Nat
          /\ meta.first + meta.count <= Len(L)
          /\ meta.end = Boundary(L, meta.first + meta.count)
      BY <1>2, <1>3, <2>1, <3>1, SegmentIsOfLines
    <3>3. Len(L) \in Nat
      BY <1>2, LinesFollow, LenProperties
    <3> DEFINE b == meta.first + meta.count
    <3>4. b \in 0..Len(L)
      <4> DEFINE f == meta.first
                 c == meta.count
      <4>1. f \in Nat /\ c \in Nat /\ f + c <= Len(L)
        BY <3>2
      <4> HIDE DEF f, c, L
      <4>2. f + c \in 0..Len(L)
        BY <3>3, <4>1
      <4> QED
        BY <4>2 DEF f, c
    <3> HIDE DEF b
    <3>5. Boundary(L, b) \in 0..Len(B)
      BY <1>2, <3>4, EndedAtBoundary
    <3>6. meta.end \in Int /\ meta.end <= Size /\ load.offset \in Nat
      BY <1>2, <3>1, <3>2, <3>5 DEF b
    <3> QED
      BY <2>1, <3>6, ReadIsChunk
  <2> HIDE DEF chunk
  <2> QED
    BY <1>1, <1>5, <2>1, ReadChunkAnswers
<1>6. CASE ~(load.offset < meta.end) /\ Found(ref, put)
  <2>1. ASSUME Intact
        PROVE  /\ IsOf([index EXCEPT !.cache = put], B)
               /\ run.ordinal < Len(L) /\ ref = L[run.ordinal + 1]
    <3>1. /\ IsOf(index, B) /\ IsLoad(load, index, B)
          /\ load.id \in Nat /\ load.id + 1 \in 1..Len(index.segments)
          /\ meta.first <= run.ordinal /\ run.ordinal < meta.first + meta.count
      BY <1>3, <2>1 DEF IsLoad
    <3>2. Lists(refs, L, meta.first, meta.first + meta.count)
      BY <1>2, <1>6, <3>1, LoadEnds
    <3> HIDE DEF refs, load
    <3>3. run.ordinal < Len(L) /\ ref = L[run.ordinal + 1]
      <4>1. PICK k \in 1..Len(index.segments) : k = load.id + 1
        BY <3>1
      <4>2. /\ index.segments[k].first <= run.ordinal
            /\ run.ordinal < index.segments[k].first + index.segments[k].count
            /\ Lists(refs, L, index.segments[k].first,
                     index.segments[k].first + index.segments[k].count)
        BY <3>1, <3>2, <4>1
      <4>3. /\ run.ordinal < Len(L)
            /\ refs[run.ordinal - index.segments[k].first + 1] = L[run.ordinal + 1]
        BY <1>1, <1>2, <3>1, <4>2, FoundInSegment
      <4> QED
        BY <4>1, <4>3
    <3>4. IsOf([index EXCEPT !.cache = put], B)
      BY <1>2, <3>1, <3>2, CachedKeeps
    <3> QED
      BY <3>3, <3>4
  <2> HIDE DEF ref, put
  <2> QED
    BY <1>1, <1>6, <2>1, FoundAnswers
<1> QED
  BY <1>4, <1>5, <1>6, FailReads

LEMMA CommitPathAnswers ==
    ASSUME IInv, Data, CommitPath, UNCHANGED disk
    PROVE  Data'
<1> DEFINE next == [run EXCEPT !.at = "commit-handle", !.seen = Stat(path)]
<1>1. run.at = "commit-path" /\ (LatchAndFail \/ Continue(next))
  BY DEF CommitPath
<1>2. run.at \in ReadingPlaces /\ run.at # "hydrate"
  BY <1>1 DEF ReadingPlaces
<1>3. /\ DOMAIN run = Fields /\ run.at # "idle" /\ run.ordinal \in Nat
      /\ run.then = "scan" /\ run.ref = <<>> /\ run.record = <<>>
  BY <1>2, AtReading
<1>4. Carries(run, next) /\ next.at = "commit-handle" /\ next.read = run.read
  BY <1>3 DEF Fields, Carries
<1> HIDE DEF next
<1>5. CASE Continue(next)
  <2>1. UNCHANGED <<snapshot, baseline, index, answer>> /\ run' = next
    BY <1>5 DEF Continue, GoesOn, engineVars
  <2>2. Stages(next)
    BY <1>3, <1>4 DEF Stages, Carries, LoadingPlaces
  <2>3. Intact => Evidence(next, index, snapshot.bytes)
    BY <1>1, <1>3, <1>4 DEF Data, Evidence, Carries, CommitPlaces, LoadingPlaces, IsLoading
  <2> QED
    BY <1>3, <1>4, <2>1, <2>2, <2>3, ReadOn DEF ReadingPlaces
<1> QED
  BY <1>1, <1>5, FailReads

LEMMA CommitHandleAnswers ==
    ASSUME IInv, Data, CommitHandle, UNCHANGED disk
    PROVE  Data'
<1> DEFINE B == snapshot.bytes
           load == run.load[1]
           more == LoadChunk(load, run.read)
           loaded == [run EXCEPT !.at = "load", !.read = <<>>, !.seen = Idle.seen,
                                 !.load = <<LoadChunk(@[1], run.read)>>]
           committed == [run EXCEPT !.at = "scan", !.read = <<>>, !.seen = Idle.seen,
                                    !.used = @ + Len(run.read)]
<1>1. /\ run.at = "commit-handle"
      /\ \/ LatchAndFail \/ Fail
         \/ run.load # <<>> /\ Continue(loaded)
         \/ /\ run.load = <<>> /\ run' = committed /\ index' = CommitChunk(index, run.read, Size)
            /\ UNCHANGED <<snapshot, baseline, answer>>
  BY DEF CommitHandle, GoesOn
<1>2. /\ run.at \in ReadingPlaces /\ run.at \in LoadingPlaces /\ run.at \in CommitPlaces
      /\ run.at # "hydrate"
  BY <1>1 DEF ReadingPlaces, LoadingPlaces, CommitPlaces
<1>3. /\ DOMAIN run = Fields /\ run.at # "idle" /\ run.ordinal \in Nat
      /\ run.then = "scan" /\ run.ref = <<>> /\ run.record = <<>>
  BY <1>2, AtReading
<1>4. B \in Seq(Bytes) /\ Size = Len(B)
  BY Sizes
<1>5. Intact => Evidence(run, index, B) /\ IsOf(index, B) /\ run.used \in Nat
  BY DEF Data, Evidence
<1>6. CASE run.load # <<>> /\ Continue(loaded)
  <2>1. UNCHANGED <<snapshot, baseline, index, answer>> /\ run' = loaded
    BY <1>6 DEF Continue, GoesOn, engineVars
  <2> HIDE DEF more
  <2>2. /\ DOMAIN loaded = Fields /\ loaded.at = "load" /\ loaded.then = "scan"
        /\ loaded.ordinal = run.ordinal /\ loaded.op = run.op /\ loaded.ref = <<>>
        /\ loaded.load = <<more>> /\ loaded.record = <<>> /\ loaded.used = run.used
    BY <1>3 DEF Fields, more
  <2> HIDE DEF loaded
  <2>3. loaded.load # <<>> /\ loaded.load[1] = more
    BY <2>2
  <2>4. Stages(loaded)
    BY <1>3, <2>2, <2>3 DEF Stages, LoadingPlaces
  <2>5. ASSUME Intact
        PROVE  Evidence(loaded, index, B)
    <3>1. /\ IsLoad(load, index, B)
          /\ index.segments[load.id + 1].first <= run.ordinal
          /\ run.ordinal < index.segments[load.id + 1].first + index.segments[load.id + 1].count
      BY <1>2, <1>5, <1>6, <2>5 DEF Evidence, IsLoading
    <3>2. /\ Len(run.read) \in Nat \ {0}
          /\ load.offset + Len(run.read) <= index.segments[load.id + 1].end
          /\ \A i \in 1..Len(run.read) : run.read[i] = B[load.offset + i]
      <4>1. IsChunk(run.read, load.offset, index.segments[load.id + 1].end, B)
        BY <1>2, <1>5, <1>6, <2>5 DEF Evidence
      <4> QED
        BY <4>1, LenProperties DEF IsChunk, IsFrom
    <3>3. IsLoad(more, index, B) /\ more.id = load.id
      <4> HIDE DEF load
      <4> QED
        BY <1>4, <1>5, <2>5, <3>1, <3>2, LoadKeeps DEF more
    <3>4. IsLoading(loaded, index, B)
      BY <2>2, <2>3, <3>1, <3>3 DEF IsLoading
    <3> QED
      BY <1>5, <2>2, <2>3, <2>5, <3>4 DEF Evidence, CommitPlaces
  <2> QED
    BY <1>3, <2>1, <2>2, <2>4, <2>5, ReadOn DEF ReadingPlaces
<1>7. CASE /\ run.load = <<>> /\ run' = committed /\ index' = CommitChunk(index, run.read, Size)
           /\ UNCHANGED <<snapshot, baseline, answer>>
  <2>1. /\ DOMAIN committed = Fields /\ committed.at = "scan" /\ committed.then = "scan"
        /\ committed.ordinal = run.ordinal /\ committed.op = run.op /\ committed.ref = <<>>
        /\ committed.load = <<>> /\ committed.record = <<>>
        /\ committed.used = run.used + Len(run.read)
    BY <1>3, <1>7 DEF Fields
  <2> HIDE DEF committed
  <2>2. Stages(committed)
    BY <1>3, <2>1 DEF Stages, LoadingPlaces
  <2>3. ASSUME Intact
        PROVE  Evidence(committed, index', B)
    <3>1. ~index.complete /\ IsChunk(run.read, index.scanned, Len(B), B)
      BY <1>2, <1>5, <1>7, <2>3 DEF Evidence
    <3>2. /\ Len(run.read) \in Nat \ {0}
          /\ index.scanned + Len(run.read) <= Len(B)
          /\ \A i \in 1..Len(run.read) : run.read[i] = B[index.scanned + i]
      BY <3>1, LenProperties DEF IsChunk, IsFrom
    <3>3. IsOf(index', B)
      BY <1>4, <1>5, <1>7, <2>3, <3>1, <3>2, CommitKeeps
    <3>4. committed.used \in Nat
      BY <1>5, <2>1, <2>3, <3>2
    <3> QED
      BY <2>1, <3>3, <3>4 DEF Evidence, CommitPlaces, LoadingPlaces
  <2> QED
    BY <1>3, <1>7, <2>1, <2>2, <2>3, ReadOn DEF ReadingPlaces
<1> QED
  BY <1>1, <1>6, <1>7, FailReads

LEMMA HydrateAnswers ==
    ASSUME IInv, Data, Hydrate, UNCHANGED disk
    PROVE  Data'
<1> DEFINE B == snapshot.bytes
           L == SplitLines(B)
           ref == run.ref[1]
           o == ref.start + Len(run.record)
           chunk == ReadAt(o, ref.end)
           next == [run EXCEPT !.record = @ \o chunk]
<1>1. /\ run.at = "hydrate"
      /\ \/ Fail
         \/ o = ref.end /\ CheckLast
         \/ chunk # <<>> /\ Continue(next)
  <2>1. /\ run.at = "hydrate"
        /\ IF o = ref.end THEN CheckLast
           ELSE IF Aborted \/ chunk = <<>> THEN Fail ELSE Continue(next)
    BY DEF Hydrate
  <2> HIDE DEF o, ref, chunk, next
  <2> QED
    BY <2>1, Zenon
<1>2. run.at \in ReadingPlaces /\ run.at \notin LoadingPlaces /\ run.at \notin CommitPlaces
  BY <1>1 DEF ReadingPlaces, LoadingPlaces, CommitPlaces
<1>3. /\ DOMAIN run = Fields /\ run.at # "idle" /\ run.ordinal \in Nat
      /\ run.then = "scan" /\ run.load = <<>>
  BY <1>2, AtReading
<1>4. B \in Seq(Bytes) /\ Size = Len(B) /\ Size \in Nat
  BY Sizes
<1>5. ASSUME Intact
      PROVE  /\ IsOf(index, B) /\ run.used \in Nat
             /\ run.ordinal < Len(L)
             /\ ref = L[run.ordinal + 1] /\ run.ref = <<ref>>
             /\ IsFrom(run.record, ref.start, B)
             /\ ref \in Refs /\ ref.end <= Size
             /\ Len(run.record) \in Nat
  <2>1. Evidence(run, index, B)
    BY <1>5 DEF Data
  <2>2. /\ IsOf(index, B) /\ run.used \in Nat
        /\ run.ordinal < Len(L) /\ run.ref = <<L[run.ordinal + 1]>>
        /\ IsFrom(run.record, L[run.ordinal + 1].start, B)
    BY <1>1, <2>1 DEF Evidence, IsHydrating
  <2>3. ref = L[run.ordinal + 1] /\ run.ref = <<ref>>
    BY <2>2
  <2>4. /\ L \in Seq(Refs) /\ Len(L) \in Nat
        /\ \A j \in 1..Len(L) : Boundary(L, j) \in 1..Len(B)
    BY <1>4, LinesFollow, LenProperties
  <2> HIDE DEF L, ref
  <2>5. run.ordinal + 1 \in 1..Len(L) /\ run.ordinal + 1 # 0
    BY <1>3, <2>2, <2>4
  <2>6. ref \in Refs
    BY <2>3, <2>4, <2>5, ElementOfSeq
  <2>7. PhysicalEnd(ref) \in 1..Len(B)
    <3>1. Boundary(L, run.ordinal + 1) = PhysicalEnd(ref)
      BY <2>3, <2>5 DEF Boundary
    <3> QED
      BY <2>4, <2>5, <3>1
  <2>8. ref.end <= Size
    <3>1. ref.end \in Nat /\ ref.delimiter \in 0..2
      BY <2>6 DEF Refs
    <3> QED
      BY <1>4, <2>7, <3>1 DEF PhysicalEnd
  <2>9. Len(run.record) \in Nat
    BY <2>2, LenProperties DEF IsFrom
  <2> QED
    BY <2>2, <2>3, <2>6, <2>8, <2>9
<1>6. CASE o = ref.end /\ CheckLast
  <2>1. ASSUME Intact
        PROVE  IsAnswer(run.ordinal, run.ref, run.record, B)
    <3>1. /\ run.ordinal < Len(L) /\ ref = L[run.ordinal + 1] /\ run.ref = <<ref>>
          /\ IsFrom(run.record, ref.start, B) /\ ref \in Refs
          /\ Len(run.record) \in Nat
      BY <1>5, <2>1
    <3>2. ref.start \in Nat /\ ref.end \in Nat
      BY <3>1 DEF Refs
    <3>3. run.record = BytesAt(B, ref.start, Len(run.record))
      BY <1>4, <3>1, <3>2, FromIsRange
    <3>4. o = ref.end
      BY <1>6
    <3> HIDE DEF ref
    <3>5. Len(run.record) = ref.end - ref.start
      BY <3>1, <3>2, <3>4
    <3>6. run.record = BytesAt(B, ref.start, ref.end - ref.start)
      BY <3>3, <3>5
    <3>7. Len(L) \in Nat
      BY <1>4, LinesFollow, LenProperties
    <3> HIDE DEF L
    <3>8. ~(run.ordinal >= Len(L))
      BY <1>3, <3>1, <3>7
    <3> QED
      BY <3>1, <3>6, <3>8 DEF IsAnswer, L
  <2> QED
    BY <1>2, <1>6, <2>1, CheckLastAnswers
<1>7. CASE chunk # <<>> /\ Continue(next)
  <2>1. UNCHANGED <<snapshot, baseline, index, answer>> /\ run' = next
    BY <1>7 DEF Continue, GoesOn, engineVars
  <2> HIDE DEF chunk
  <2>2. /\ DOMAIN next = Fields /\ next.at = "hydrate" /\ next.then = "scan"
        /\ next.ordinal = run.ordinal /\ next.op = run.op /\ next.ref = run.ref
        /\ next.load = <<>> /\ next.record = run.record \o chunk /\ next.used = run.used
    BY <1>1, <1>3 DEF Fields
  <2> HIDE DEF next
  <2>3. Stages(next)
    BY <1>3, <2>2 DEF Stages
  <2>4. ASSUME Intact
        PROVE  Evidence(next, index, B)
    <3>1. /\ IsOf(index, B) /\ run.used \in Nat
          /\ run.ordinal < Len(L) /\ ref = L[run.ordinal + 1] /\ run.ref = <<ref>>
          /\ IsFrom(run.record, ref.start, B) /\ ref \in Refs /\ ref.end <= Size
          /\ Len(run.record) \in Nat
      BY <1>5, <2>4
    <3> HIDE DEF ref
    <3>2. ref.start \in Nat /\ ref.end \in Int /\ o \in Nat
      BY <3>1 DEF Refs
    <3>3. IsChunk(chunk, o, ref.end, B)
      <4> HIDE DEF o
      <4> QED
        BY <1>7, <2>4, <3>1, <3>2, ReadIsChunk DEF chunk
    <3>4. IsFrom(run.record \o chunk, ref.start, B)
      BY <3>1, <3>2, <3>3, FromBoth DEF IsChunk
    <3>5. IsHydrating(next, B)
      BY <2>2, <3>1, <3>4 DEF IsHydrating
    <3> QED
      BY <2>2, <3>1, <3>5 DEF Evidence, CommitPlaces, LoadingPlaces
  <2> QED
    BY <1>3, <2>1, <2>2, <2>3, <2>4, ReadOn DEF ReadingPlaces
<1> QED
  BY <1>1, <1>6, <1>7, FailReads

LEMMA ReadingAnswers ==
    ASSUME IInv, Data, Reading, UNCHANGED fileVars
    PROVE  Data'
<1>1. UNCHANGED disk
  BY DEF fileVars
<1>2. CASE IndexDone
  <2>1. /\ CheckLast /\ run.at \in ReadingPlaces /\ run.op \notin {"row", "detail"}
    BY <1>2 DEF IndexDone, ReadingPlaces
  <2> QED
    BY <1>1, <2>1, CheckLastAnswers
<1> QED
  BY <1>1, <1>2, ScanAnswers, FindRecordAnswers, LoadSegmentAnswers, CommitPathAnswers,
     CommitHandleAnswers, HydrateAnswers DEF Reading
-----------------------------------------------------------------------------
(* The executor *)

LEMMA QuietKeepsData ==
    ASSUME Data, UNCHANGED <<disk, snapshot, baseline, index, run, answer>>
    PROVE  Data'
<1>1. SnapshotIsOld' /\ BaselineIsReadOnce' /\ Stages(run')
  BY DEF Data, SnapshotIsOld, BaselineIsReadOnce
<1>2. SeenIntact' /\ (Intact' <=> Intact)
  BY DEF Data, SeenIntact, Intact, OldRange, Content, Size
<1>3. Intact' => Evidence(run', index', snapshot'.bytes)
  BY <1>2 DEF Data
<1>4. /\ answer'.outcome = "ok" => run' = Idle
      /\ AnswersAreOfTheSnapshot'
  BY DEF Data, AnswersAreOfTheSnapshot, Provable
<1>5. IndexIsOfTheSnapshot'
  BY DEF Data, IndexIsOfTheSnapshot, IndexAgrees, Provable
<1> QED
  BY <1>1, <1>2, <1>3, <1>4, <1>5 DEF Data

LEMMA StartingIsStaged ==
    ASSUME NEW op \in Queued
    PROVE  /\ Stages(Starting(op))
           /\ Starting(op).at \in {"check-path", "scan", "classify-path"}
           /\ Starting(op).then = "scan" /\ Starting(op).used = 0
           /\ Starting(op).load = <<>>
<1> DEFINE r == Starting(op)
<1>1. op.op \in {"index", "background", "row", "detail", "classify"} /\ op.ordinal \in Nat
  BY DEF Queued, Reads
<1>2. /\ DOMAIN Idle = Fields /\ Idle.used = 0 /\ Idle.load = <<>>
      /\ Idle.ref = <<>> /\ Idle.record = <<>>
  BY DEF Idle, Fields
<1>3. /\ DOMAIN r = Fields /\ r.ordinal = op.ordinal /\ r.then = "scan"
      /\ r.used = 0 /\ r.load = <<>> /\ r.ref = <<>> /\ r.record = <<>>
      /\ r.at = CASE op.op \in {"index", "background", "row"} -> "check-path"
                  [] op.op = "detail" -> "scan"
                  [] op.op = "classify" -> "classify-path"
  BY <1>2 DEF Starting, Fields
<1> HIDE DEF r
<1>4. r.at \in {"check-path", "scan", "classify-path"}
  BY <1>1, <1>3
<1>5. Stages(r)
  BY <1>1, <1>3, <1>4 DEF Stages, LoadingPlaces
<1> QED
  BY <1>3, <1>4, <1>5 DEF r

LEMMA DequeueAnswers ==
    ASSUME IInv, Data, Dequeue
    PROVE  Data'
<1>1. /\ UNCHANGED <<disk, snapshot, baseline, index>> /\ SameSource
      /\ run = Idle /\ queue # <<>>
      /\ \/ run' = Idle
            /\ answer' = [NoAnswer EXCEPT !.op = Head(queue).op, !.outcome = "failed"]
         \/ run' = Starting(Head(queue)) /\ answer' = NoAnswer
  BY DEF Dequeue, fileVars, engineVars, SameSource
<1>2. Head(queue) \in Queued
  <2>1. queue \in Seq(Queued)
    BY DEF IInv, Typed
  <2> QED
    BY <1>1, <2>1, HeadTailProperties
<1>3. NotAnswered
  <2> DEFINE refused == [NoAnswer EXCEPT !.op = Head(queue).op, !.outcome = "failed"]
  <2>1. refused.outcome = "failed" /\ NoAnswer.outcome = "none"
    BY DEF NoAnswer
  <2>2. answer' = refused \/ answer' = NoAnswer
    BY <1>1
  <2> HIDE DEF refused
  <2> QED
    BY <2>1, <2>2 DEF NotAnswered
<1>4. /\ Stages(run') /\ run'.at \in {"idle", "check-path", "scan", "classify-path"}
      /\ run'.then \in {"idle", "scan"} /\ run'.used = 0
  BY <1>1, <1>2, StartingIsStaged, IdleHasNothing DEF Idle
<1>5. BaselineIsReadOnce' /\ SeenIntact'
  BY <1>4 DEF BaselineIsReadOnce, SeenIntact, BasePlaces
<1>6. Intact => Evidence(run', index', snapshot.bytes)
  BY <1>1, <1>4 DEF Data, Evidence, CommitPlaces, LoadingPlaces
<1> QED
  BY <1>1, <1>3, <1>4, <1>5, <1>6, StepOn
-----------------------------------------------------------------------------
(* The programs that write the file *)

\* What is not new in a file is where it was.
OldOrNew(new, old, stamp) ==
    \A i \in 1..Len(new) : new[i].at = stamp \/ (i <= Len(old) /\ new[i] = old[i])

LEMMA UnwrittenBytes ==
    ASSUME NEW old \in Seq(Bytes), NEW new \in Seq(Bytes), NEW bytes \in Seq(Bytes),
           \A i \in 1..Len(bytes) : bytes[i].at = 0,
           NEW stamp \in Nat \ {0}, OldOrNew(new, old, stamp),
           Len(bytes) <= Len(new), BytesAt(new, 0, Len(bytes)) = bytes
    PROVE  /\ Len(bytes) <= Len(old)
           /\ \A i \in 1..Len(bytes) : old[i] = bytes[i]
<1> DEFINE n == Len(bytes)
<1>1. n \in Nat /\ Len(old) \in Nat /\ Len(new) \in Nat /\ n <= Len(new)
  BY LenProperties
<1>2. \A i \in 1..n : BytesAt(new, 0, n)[i] = new[0 + i]
  <2> HIDE DEF n
  <2>1. 0 + n <= Len(new)
    BY <1>1
  <2> QED
    BY <1>1, <2>1, RangeIsFrom
<1>3. ASSUME NEW i \in 1..n
      PROVE  i <= Len(old) /\ old[i] = bytes[i]
  <2>1. new[i] = bytes[i]
    <3>1. BytesAt(new, 0, n)[i] = new[0 + i] /\ 0 + i = i
      BY <1>1, <1>2
    <3> QED
      BY <3>1
  <2>2. bytes[i].at = 0 /\ stamp # 0
    OBVIOUS
  <2>3. i \in 1..Len(new)
    BY <1>1
  <2> QED
    BY <2>1, <2>2, <2>3 DEF OldOrNew
<1>4. n <= Len(old)
  <2>1. CASE n = 0
    BY <1>1, <2>1
  <2>2. CASE n # 0
    <3>1. n \in 1..n
      BY <1>1, <2>2
    <3> QED
      BY <1>3, <3>1
  <2> QED
    BY <2>1, <2>2
<1> QED
  BY <1>3, <1>4

LEMMA SourceAfterWrite ==
    ASSUME IInv, NEW kind \in Writes, Write(kind)
    PROVE  /\ writes \in Nat
           /\ disk'[Source] = disk[Source] \/ disk'[Source].stamp = writes + 1
           /\ OldOrNew(Content(Source)', Content(Source), writes + 1)
<1> DEFINE old == Content(Source)
           new == Content(Source)'
<1>1. /\ writes \in Nat /\ disk \in [Files -> [bytes: Seq(Bytes), stamp: Nat]]
      /\ Source \in Files /\ Other \in Files /\ Source # Other
      /\ new = disk'[Source].bytes /\ old = disk[Source].bytes
  BY DEF IInv, Typed, Source, Other, Files, Content
<1>2. old \in Seq(Bytes) /\ Len(old) \in Nat
  BY <1>1, LenProperties
<1>3. \A is : Byte(is).at = writes + 1
  BY DEF Byte
<1>4. ASSUME NEW bytes, Written(bytes)
      PROVE  disk'[Source] = [bytes |-> bytes, stamp |-> writes + 1]
  BY <1>1, <1>4 DEF Written
<1>5. OldOrNew(old, old, writes + 1)
  BY <1>2 DEF OldOrNew
<1> HIDE DEF old
<1>6. ASSUME NEW bytes, Written(bytes), OldOrNew(bytes, old, writes + 1)
      PROVE  disk'[Source].stamp = writes + 1 /\ OldOrNew(new, old, writes + 1)
  <2>1. disk'[Source] = [bytes |-> bytes, stamp |-> writes + 1]
    BY <1>4, <1>6
  <2>2. new = bytes
    BY <1>1, <2>1
  <2> QED
    BY <1>6, <2>1, <2>2
<1>7. ASSUME WriteSource(kind)
      PROVE  \E bytes : Written(bytes) /\ OldOrNew(bytes, old, writes + 1)
  <2>1. ASSUME NEW is \in {"x", "lf"}
        PROVE  OldOrNew(Append(old, Byte(is)), old, writes + 1)
    <3> DEFINE b == Byte(is)
               s == Append(old, b)
    <3>1. b \in Bytes /\ b.at = writes + 1
      BY <1>1, <1>3 DEF Byte, Bytes, Kinds
    <3> HIDE DEF b
    <3>2. /\ Len(s) = Len(old) + 1 /\ s[Len(old) + 1] = b
          /\ \A i \in 1..Len(old) : s[i] = old[i]
      BY <1>2, <3>1, AppendProperties
    <3> HIDE DEF s
    <3>3. ASSUME NEW i \in 1..Len(s)
          PROVE  s[i].at = writes + 1 \/ (i <= Len(old) /\ s[i] = old[i])
      <4>1. CASE i = Len(old) + 1
        BY <3>1, <3>2, <4>1
      <4>2. CASE i # Len(old) + 1
        <5>1. i \in 1..Len(old)
          BY <1>2, <3>2, <4>2
        <5> QED
          BY <3>2, <5>1
      <4> QED
        BY <4>1, <4>2
    <3>4. OldOrNew(s, old, writes + 1)
      BY <3>3 DEF OldOrNew
    <3> QED
      BY <3>4 DEF s, b
  <2>2. ASSUME NEW k \in DOMAIN old, NEW is
        PROVE  OldOrNew([old EXCEPT ![k] = Byte(is)], old, writes + 1)
    <3> DEFINE b == Byte(is)
               s == [old EXCEPT ![k] = b]
    <3>1. b.at = writes + 1
      BY <1>3
    <3> HIDE DEF b
    <3>2. /\ Len(s) = Len(old) /\ DOMAIN old = 1..Len(old)
      BY <1>2, LenProperties, ExceptSeq
    <3>3. \A i \in 1..Len(old) : s[i] = IF i = k THEN b ELSE old[i]
      BY <3>2
    <3> HIDE DEF s
    <3>4. OldOrNew(s, old, writes + 1)
      BY <1>2, <3>1, <3>2, <3>3 DEF OldOrNew
    <3> QED
      BY <3>4 DEF s, b
  <2>3. ASSUME NEW n \in 0..Len(old) - 1
        PROVE  OldOrNew(SubSeq(old, 1, n), old, writes + 1)
    <3> DEFINE s == SubSeq(old, 1, n)
    <3>1. n \in Int /\ n <= Len(old) /\ \A i \in 1..n : old[i] \in Bytes
      BY <1>2, ElementOfSeq
    <3>2. /\ Len(s) = (IF 1 <= n THEN n - 1 + 1 ELSE 0)
          /\ \A i \in 1..n - 1 + 1 : s[i] = old[1 + i - 1]
      BY <3>1, SubSeqProperties
    <3> HIDE DEF s
    <3>3. Len(s) = n /\ n - 1 + 1 = n /\ \A i \in 1..n : 1 + i - 1 = i
      BY <3>1, <3>2
    <3>4. \A i \in 1..n : s[i] = old[i] /\ i <= Len(old)
      BY <1>2, <3>1, <3>2, <3>3
    <3>5. OldOrNew(s, old, writes + 1)
      BY <3>3, <3>4 DEF OldOrNew
    <3> QED
      BY <3>5 DEF s
  <2>4. CASE \E is \in {"x", "lf"} : Written(Append(old, Byte(is)))
    BY <2>1, <2>4
  <2>5. CASE Written(old)
    BY <1>5, <2>5 DEF old
  <2>6. CASE \E i \in DOMAIN old, is \in {"x", "lf"} : Written([old EXCEPT ![i] = Byte(is)])
    BY <2>2, <2>6
  <2>7. CASE \E n \in 0..Len(old) - 1 : Written(SubSeq(old, 1, n))
    BY <2>3, <2>7
  <2> QED
    BY <1>7, <2>4, <2>5, <2>6, <2>7 DEF WriteSource, old
<1>8. ASSUME MovePath(kind)
      PROVE  /\ disk'[Source] = disk[Source] \/ disk'[Source].stamp = writes + 1
             /\ new = old
  <2>1. CASE UNCHANGED disk
    BY <1>1, <2>1
  <2>2. ASSUME NEW entry, disk' = [disk EXCEPT ![Other] = entry]
        PROVE  disk'[Source] = disk[Source]
    BY <1>1, <2>2
  <2>3. CASE disk' = [disk EXCEPT ![Source].stamp = writes + 1]
    <3>1. disk'[Source] = [disk[Source] EXCEPT !.stamp = writes + 1]
      BY <1>1, <2>3
    <3>2. disk[Source] \in [bytes: Seq(Bytes), stamp: Nat]
      BY <1>1
    <3> QED
      BY <1>1, <3>1, <3>2
  <2> QED
    BY <1>1, <1>8, <2>1, <2>2, <2>3 DEF MovePath
<1>9. CASE WriteSource(kind)
  <2>1. PICK bytes : Written(bytes) /\ OldOrNew(bytes, old, writes + 1)
    BY <1>7, <1>9
  <2> QED
    BY <1>1, <1>6, <2>1 DEF old
<1>10. CASE MovePath(kind)
  BY <1>1, <1>5, <1>8, <1>10 DEF old
<1> QED
  BY <1>9, <1>10 DEF Write

\* What is written is never what was there when the engine was opened: a
\* source that has lost a byte of the snapshot does not get it back.
LEMMA WriteAnswers ==
    ASSUME IInv, Data, NEW kind \in Writes, Write(kind)
    PROVE  Data'
<1>1. UNCHANGED <<snapshot, baseline, index, run, answer>>
  BY DEF Write, engineVars
<1> DEFINE old == Content(Source)
           new == Content(Source)'
<1>2. /\ writes \in Nat
      /\ disk'[Source] = disk[Source] \/ disk'[Source].stamp = writes + 1
      /\ OldOrNew(new, old, writes + 1)
  BY SourceAfterWrite
<1>3. /\ snapshot.bytes \in Seq(Bytes) /\ Size = Len(snapshot.bytes) /\ Size \in Nat
      /\ old \in Seq(Bytes) /\ Size' = Size
  BY <1>1, Sizes DEF Size
<1>4. new \in Seq(Bytes)
  <2>1. Typed'
    BY WriteKeeps DEF IInv
  <2> QED
    BY <2>1 DEF Typed, Content, Files, Source
<1>5. SnapshotIsOld
  BY DEF Data
<1>6. Intact' => Intact
  <2> SUFFICES ASSUME Intact'
               PROVE  Intact
    OBVIOUS
  <2>1. Size <= Len(new) /\ BytesAt(new, 0, Size) = snapshot.bytes
    BY <1>1, <1>3 DEF Intact, OldRange
  <2> HIDE DEF old, new
  <2>2. writes + 1 \in Nat \ {0}
    BY <1>2
  <2>3. Size <= Len(old) /\ \A i \in 1..Size : old[i] = snapshot.bytes[i]
    BY <1>2, <1>3, <1>4, <1>5, <2>1, <2>2, UnwrittenBytes DEF SnapshotIsOld
  <2>4. BytesAt(old, 0, Size) = snapshot.bytes
    BY <1>3, <2>3, SameBytesAreIntact
  <2> QED
    BY <2>3, <2>4 DEF Intact, OldRange, old
<1>7. SeenIntact'
  <2> SUFFICES ASSUME run.at = "check-again", disk'[Source].stamp = run.seen.stamp
               PROVE  Intact'
    BY <1>1 DEF SeenIntact
  <2>1. run.seen.stamp \in Nat /\ run.seen.stamp <= writes
    BY DEF IInv, Typed, StampsArePast, Stats
  <2>2. disk'[Source] = disk[Source]
    BY <1>2, <2>1
  <2>3. Intact' <=> Intact
    BY <1>1, <2>2 DEF Intact, OldRange, Content, Size
  <2> QED
    BY <2>2, <2>3 DEF Data, SeenIntact
<1>8. SnapshotIsOld' /\ BaselineIsReadOnce' /\ Stages(run')
  BY <1>1 DEF Data, SnapshotIsOld, BaselineIsReadOnce
<1>9. Intact' => Evidence(run', index', snapshot'.bytes)
  BY <1>1, <1>6 DEF Data
<1>10. /\ answer'.outcome = "ok" => run' = Idle
       /\ AnswersAreOfTheSnapshot'
  BY <1>1 DEF Data, AnswersAreOfTheSnapshot, Provable
<1>11. IndexIsOfTheSnapshot'
  BY <1>1 DEF Data, IndexIsOfTheSnapshot, IndexAgrees, Provable
<1> QED
  BY <1>7, <1>8, <1>9, <1>10, <1>11 DEF Data
-----------------------------------------------------------------------------
(* The specification *)

LEMMA InitialData == Init => Data
<1> SUFFICES ASSUME Init
             PROVE  Data
  OBVIOUS
<1>1. IInv
  BY InitialInvariant
<1>2. PICK bytes \in Contents : snapshot.bytes = bytes
  BY DEF Init
<1>3. SnapshotIsOld
  <2>1. bytes \in Seq([is: Kinds, at: {0}])
    BY ContentsAssumption
  <2>2. \A i \in 1..Len(bytes) : bytes[i] \in [is: Kinds, at: {0}]
    BY <2>1, ElementOfSeq
  <2> QED
    BY <1>2, <2>2 DEF SnapshotIsOld
<1>4. /\ run = [Idle EXCEPT !.op = "open", !.at = "open-prefix"]
      /\ baseline = Lazy /\ index = EmptyIndex /\ answer = NoAnswer
  BY DEF Init
<1>5. /\ DOMAIN run = Fields /\ run.op = "open" /\ run.at = "open-prefix"
      /\ run.ordinal = 0 /\ run.then = "idle" /\ run.load = <<>> /\ run.used = 0
  BY <1>4 DEF Idle, Fields
<1>6. Stages(run)
  BY <1>5 DEF Stages, ReadingPlaces, LoadingPlaces, Reads
<1>7. BaselineIsReadOnce /\ SeenIntact
  BY <1>4, <1>5 DEF BaselineIsReadOnce, SeenIntact, Lazy
<1>8. Evidence(run, index, snapshot.bytes)
  <2>1. IsOf(index, snapshot.bytes)
    BY <1>1, <1>4, Sizes, EmptyIndexIsOf
  <2> QED
    BY <1>5, <2>1 DEF Evidence, CommitPlaces, LoadingPlaces
<1>9. answer.outcome # "ok"
  BY <1>4 DEF NoAnswer
<1>10. AnswersAreOfTheSnapshot /\ IndexIsOfTheSnapshot
  BY <1>9 DEF AnswersAreOfTheSnapshot, IndexIsOfTheSnapshot
<1> QED
  BY <1>3, <1>6, <1>7, <1>8, <1>9, <1>10 DEF Data

LEMMA StepData == IInv /\ Data /\ [Next]_vars => Data'
<1> SUFFICES ASSUME IInv, Data, [Next]_vars
             PROVE  Data'
  OBVIOUS
<1>1. CASE OperationStep
  BY <1>1, OpeningAnswers, CheckingAnswers, ReadingAnswers, ClassifyingAnswers
     DEF OperationStep
<1>2. CASE Dequeue
  BY <1>2, DequeueAnswers
<1>3. CASE \/ \E op \in Operations : Ask(op)
           \/ StartBackgroundIndexing \/ BackgroundStep \/ Dispose \/ CloseHandle
  <2>1. UNCHANGED <<fileVars, engineVars, run, answer>>
    BY <1>3 DEF Ask, StartBackgroundIndexing, BackgroundStep, Dispose, CloseHandle
  <2> QED
    BY <2>1, QuietKeepsData DEF fileVars, engineVars
<1>4. ASSUME NEW kind \in Writes, Write(kind)
      PROVE  Data'
  BY <1>4, WriteAnswers
<1>5. CASE UNCHANGED vars
  BY <1>5, QuietKeepsData DEF vars
<1> QED
  BY <1>1, <1>2, <1>3, <1>4, <1>5 DEF Next, EngineStep

THEOREM DataInvariance == Spec => []Data
<1>1. Init => Data
  BY InitialData
<1>2. IInv /\ Data /\ [Next]_vars => Data'
  BY StepData
<1> QED
  BY <1>1, <1>2, Invariance, PTL DEF Spec

\* Whatever other programs write while a row or a detail is looked up in the
\* index, rebuilt from its segment and read from the file chunk by chunk, what
\* is answered is the record of the snapshot with that ordinal, of any content
\* and with any size of a chunk, a segment and the cache (getRows, getDetail).
THEOREM AnswersHold == Spec => []AnswersAreOfTheSnapshot
<1>1. Data => AnswersAreOfTheSnapshot
  BY DEF Data
<1> QED
  BY <1>1, DataInvariance, PTL

\* The index that an operation has answered from has the records of the
\* snapshot's bytes, each once and whole, in its count, its unfinished segment
\* and every segment in its cache, wherever the chunks of the file ended and
\* whatever was written after the last snapshot check (scanNextChunk).
THEOREM IndexHolds == Spec => []IndexIsOfTheSnapshot
<1>1. Data => IndexIsOfTheSnapshot
  BY DEF Data
<1> QED
  BY <1>1, DataInvariance, PTL
=============================================================================
