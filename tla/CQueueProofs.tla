---------------------------- MODULE CQueueProofs ----------------------------
(***************************************************************************)
(* Proofs about CQueue, for every size of the buffer and however far the   *)
(* count may be off.  Both ways to move the indices keep something that    *)
(* lies in the buffer from head on, round the end and up to tail (Lies):   *)
(* its length is the count of the indices, and it stands where a read      *)
(* looks for it, save what is torn.  What was accepted and not given out   *)
(* again is that count and a multiple of Size (Laps).                      *)
(***************************************************************************)
EXTENDS CQueue, DataLemmas, TLAPS

\* Where an index that has moved by at most Size comes to stand.
Wrap(x) == IF x < Size THEN x ELSE x - Size

LEMMA ModIsWrap ==
  ASSUME NEW x \in Nat, x < 2 * Size
  PROVE  x % Size = Wrap(x)
<1>1. Size \in Nat /\ Size > 0
  BY SizeAssumption
<1>2. CASE x < Size
  <2>1. x % Size = x
    BY <1>1, <1>2, SMT
  <2> QED BY <1>2, <2>1 DEF Wrap
<1>3. CASE x >= Size
  <2>1. x - Size \in 0..Size - 1
    BY <1>1, <1>3
  <2>2. x % Size = x - Size
    BY <1>1, <1>3, <2>1, SMT
  <2> QED BY <1>1, <1>3, <2>2 DEF Wrap
<1> QED BY <1>1, <1>2, <1>3

-----------------------------------------------------------------------------
(* The inductive invariant. *)

Cell == [elem : Elem, torn : BOOLEAN]

\* The elements of c stand in b from h on, save the torn ones.
Kept(b, h, c) ==
  \A i \in 1..Len(c) : c[i].torn \/ b[Wrap(h + i - 1)] = c[i].elem

\* A queue that holds c lies in b between h and t.
Lies(h, t, b, c) ==
  /\ h \in Index /\ t \in Index
  /\ b \in [Index -> Elem]
  /\ c \in Seq(Cell) /\ Len(c) < Size
  /\ t = Wrap(h + Len(c))
  /\ Kept(b, h, c)

\* k more than n elements, k a multiple of Size, were accepted and not given out.
Laps(k, n) == k \in Int /\ \E laps \in -MaxLaps..MaxLaps : k = laps * Size + n

IInv ==
  /\ Lies(head, tail, buf, content)
  /\ next \in Elem
  /\ Laps(held, Len(content))

\* What the functions that only look at the indices find.
LEMMA CountAndRoom ==
  ASSUME NEW n \in Nat, n < Size, head \in Index, tail \in Index, tail = Wrap(head + n)
  PROVE  /\ GetCount = n
         /\ GetRoom = (Size - 1) - n
         /\ IsEmpty <=> n = 0
         /\ IsFull <=> n = Size - 1
<1>1. Size \in Nat /\ Size > 0
  BY SizeAssumption
<1>2. tail + 1 \in Nat /\ tail + 1 < 2 * Size
  BY <1>1 DEF Index
<1>3. (tail + 1) % Size = Wrap(tail + 1)
  BY <1>2, ModIsWrap
<1> QED BY <1>1, <1>3 DEF Wrap, Index, GetCount, GetRoom, IsEmpty, IsFull

LEMMA InvCounts ==
  ASSUME IInv
  PROVE  CountAndRoomAgree
<1>1. /\ head \in Index /\ tail \in Index /\ tail = Wrap(head + Len(content))
      /\ content \in Seq(Cell) /\ Len(content) < Size
  BY DEF IInv, Lies
<1>2. Len(content) \in Nat /\ (content = <<>> <=> Len(content) = 0)
  BY <1>1, EmptySeq, LenProperties
<1>3. Size \in Nat
  BY SizeAssumption
<1>4. \E laps \in -MaxLaps..MaxLaps : held = laps * Size + Len(content)
  BY DEF IInv, Laps
<1> HIDE DEF Index
<1>5. /\ GetCount = Len(content)
      /\ GetRoom = (Size - 1) - Len(content)
      /\ IsEmpty <=> Len(content) = 0
      /\ IsFull <=> Len(content) = Size - 1
  BY <1>1, <1>2, CountAndRoom
<1> QED BY <1>1, <1>2, <1>3, <1>4, <1>5 DEF CountAndRoomAgree

-----------------------------------------------------------------------------
(* Writing. *)

\* Copied to the end of what is queued, a segment leaves that alone, and stands
\* where it belongs save what is marked as torn.
LEMMA SegmentLies ==
  ASSUME NEW t, NEW b, NEW c, Lies(head, t, b, c),
         NEW seg \in Seq(Elem), Len(c) + Len(seg) < Size
  PROVE  Lies(head, Wrap(t + Len(seg)), CopySegment(b, t, seg), c \o Queued(seg, t))
<1> DEFINE L     == Len(c)
           n     == Len(seg)
           q     == Queued(seg, t)
           room  == Size - t
           wraps == ~(t < head) /\ n > room
           d     == CopySegment(b, t, seg)
<1>1. /\ Size \in Nat /\ Size > 0
      /\ head \in 0..Size - 1 /\ t \in 0..Size - 1
      /\ b \in [Index -> Elem] /\ c \in Seq(Cell)
      /\ t = Wrap(head + L) /\ Kept(b, head, c)
  BY SizeAssumption DEF Lies, Index
<1>2. L \in Nat /\ n \in Nat /\ L + n < Size
  BY <1>1, LenProperties
<1>3. \A j \in 1..n : seg[j] \in Elem
  BY ElementOfSeq
<1>4. q = [i \in 1..n |-> [elem |-> seg[i], torn |-> ~(t < head) /\ i > room]]
  BY LenProperties DEF Queued
<1>5. q \in Seq(Cell) /\ Len(q) = n
  <2>1. \A i \in 1..n : [elem |-> seg[i], torn |-> ~(t < head) /\ i > room] \in Cell
    BY <1>3 DEF Cell
  <2>2. q \in [1..n -> Cell]
    BY <1>4, <2>1
  <2> HIDE DEF q, n
  <2> QED BY <1>2, <2>2
<1>6. \A i \in 1..n : q[i].elem = seg[i] /\ (q[i].torn <=> ~(t < head) /\ i > room)
  <2> HIDE DEF q, n, room
  <2> QED BY <1>4, Zenon
<1>7. d = [i \in Index |->
             IF ~wraps THEN IF i \in t .. t + n - 1 THEN seg[i - t + 1] ELSE b[i]
             ELSE IF i >= t THEN seg[i - t + 1]
             ELSE IF i < n - room THEN seg[i + 1]
             ELSE b[i]]
  BY DEF CopySegment
<1>8. d \in [Index -> Elem]
  <2>1. ASSUME NEW i \in 0..Size - 1
        PROVE  /\ i \in t .. t + n - 1 => i - t + 1 \in 1..n
               /\ wraps /\ i >= t => i - t + 1 \in 1..n
               /\ wraps /\ i < n - room => i + 1 \in 1..n
    BY <1>1, <1>2
  <2> HIDE DEF n, d, wraps, room
  <2>2. ASSUME NEW i \in Index PROVE b[i] \in Elem
    BY <1>1
  <2> QED BY <1>3, <1>7, <2>1, <2>2 DEF Index
<1>9. /\ c \o q \in Seq(Cell) /\ Len(c \o q) = L + n
      /\ \A i \in 1..L + n : (c \o q)[i] = IF i <= L THEN c[i] ELSE q[i - L]
  <2>1. c \in Seq(Cell)
    BY <1>1
  <2> HIDE DEF q, L, n
  <2>2. /\ c \o q \in Seq(Cell) /\ Len(c \o q) = Len(c) + Len(q)
        /\ \A i \in 1..Len(c) + Len(q) : (c \o q)[i] = IF i <= Len(c) THEN c[i] ELSE q[i - Len(c)]
    BY <1>5, <2>1, ConcatProperties
  <2> QED BY <1>5, <2>2 DEF L
<1>10. Wrap(t + n) \in Index /\ Wrap(t + n) = Wrap(head + (L + n))
  <2> HIDE DEF L, n
  <2> QED BY <1>1, <1>2 DEF Index, Wrap
<1>11. Kept(d, head, c \o q)
  <2> SUFFICES ASSUME NEW i \in 1..L + n
               PROVE  (c \o q)[i].torn \/ d[Wrap(head + i - 1)] = (c \o q)[i].elem
    BY <1>9 DEF Kept
  <2> DEFINE x == Wrap(head + i - 1)
             e == (c \o q)[i]
  <2> SUFFICES e.torn \/ d[x] = e.elem
    OBVIOUS
  <2>1. x \in Index /\ x \in 0..Size - 1
    <3> HIDE DEF L, n
    <3> QED BY <1>1, <1>2 DEF Wrap, Index
  <2>2. CASE i <= L
    <3>1. e = c[i] /\ (c[i].torn \/ b[x] = c[i].elem)
      BY <1>1, <1>2, <1>9, <2>2 DEF Kept
    <3>2. ~(x \in t .. t + n - 1) /\ (wraps => x < t /\ ~(x < n - room))
      <4> HIDE DEF L, n
      <4> QED BY <1>1, <1>2, <2>2 DEF Wrap
    <3> HIDE DEF x, d, n, wraps, room, e
    <3>3. d[x] = b[x]
      BY <1>1, <1>7, <2>1, <3>2
    <3> QED BY <3>1, <3>3
  <2>3. CASE i > L
    <3> DEFINE j == i - L
    <3>1. j \in 1..n /\ e = q[j]
      <4> HIDE DEF q
      <4> QED BY <1>2, <1>9, <2>3
    <3>2. CASE ~(t < head) /\ j > room
      BY <1>6, <3>1, <3>2
    <3>3. CASE ~(~(t < head) /\ j > room)
      <4>1. x = (t + j) - 1 /\ (x - t) + 1 = j /\ x \in t .. t + n - 1
        <5> HIDE DEF L, n
        <5> QED BY <1>1, <1>2, <2>3, <3>1, <3>3 DEF Wrap
      <4>2. x >= t
        BY <1>1, <2>1, <4>1
      <4> HIDE DEF x, d, n, wraps, room, j, e
      <4>3. d[x] = seg[j]
        BY <1>1, <1>7, <2>1, <4>1, <4>2
      <4> QED BY <1>6, <3>1, <4>3
    <3> QED BY <3>2, <3>3
  <2>4. i <= L \/ i > L
    BY <1>2
  <2> QED BY <2>2, <2>3, <2>4
<1> HIDE DEF L, n, q, d
<1>12. Lies(head, Wrap(t + n), d, c \o q)
  BY <1>1, <1>2, <1>8, <1>9, <1>10, <1>11 DEF Lies, Index
<1> QED BY <1>12 DEF n, q, d

\* The elements that cqueueEn's user puts from the end of the queue on, round the end
\* of the buffer: all of them and the queue, or as many of them as the indices reach.
LEMMA ElementsLie ==
  ASSUME NEW h, NEW t, NEW b, NEW c, Lies(h, t, b, c),
         NEW seg \in Seq(Elem), Len(seg) \in 1..Size
  PROVE  LET d == [i \in Index |-> IF Behind(i, t) < Len(seg) THEN seg[Behind(i, t) + 1]
                                   ELSE b[i]]
             r == Newest(c \o Whole(seg))
         IN  /\ Lies(h, Wrap(t + Len(seg)), d, r)
             /\ Len(r) = Wrap(Len(c) + Len(seg))
<1> DEFINE L == Len(c)
           n == Len(seg)
           q == Whole(seg)
           a == c \o q
           r == Newest(a)
           d == [i \in Index |-> IF Behind(i, t) < n THEN seg[Behind(i, t) + 1] ELSE b[i]]
<1>1. /\ Size \in Nat /\ Size > 0
      /\ h \in 0..Size - 1 /\ t \in 0..Size - 1
      /\ b \in [Index -> Elem] /\ c \in Seq(Cell)
      /\ t = Wrap(h + L) /\ Kept(b, h, c)
  BY SizeAssumption DEF Lies, Index
<1>2. L \in Nat /\ L < Size /\ n \in Nat /\ n > 0 /\ n <= Size
  BY <1>1, LenProperties DEF Lies
<1>3. \A j \in 1..n : seg[j] \in Elem
  BY ElementOfSeq
<1>4. q = [i \in 1..n |-> [elem |-> seg[i], torn |-> FALSE]]
  BY LenProperties DEF Whole
<1>5. q \in Seq(Cell) /\ Len(q) = n /\ \A i \in 1..n : q[i].elem = seg[i]
  <2>1. \A i \in 1..n : [elem |-> seg[i], torn |-> FALSE] \in Cell
    BY <1>3 DEF Cell
  <2>2. q \in [1..n -> Cell] /\ \A i \in 1..n : q[i] = [elem |-> seg[i], torn |-> FALSE]
    BY <1>4, <2>1
  <2> HIDE DEF q, n
  <2> QED BY <1>2, <2>2
<1>6. ASSUME NEW i \in Index
      PROVE  /\ Behind(i, t) \in 0..Size - 1
             /\ d[i] = IF Behind(i, t) < n THEN seg[Behind(i, t) + 1] ELSE b[i]
  BY <1>1 DEF Behind, Index
<1>7. d \in [Index -> Elem]
  <2> SUFFICES ASSUME NEW i \in Index
               PROVE  (IF Behind(i, t) < n THEN seg[Behind(i, t) + 1] ELSE b[i]) \in Elem
    OBVIOUS
  <2>1. b[i] \in Elem /\ (Behind(i, t) < n => Behind(i, t) + 1 \in 1..n)
    <3> HIDE DEF n
    <3> QED BY <1>1, <1>2, <1>6
  <2> QED BY <1>3, <2>1
<1> HIDE DEF q, d
<1>8. /\ a \in Seq(Cell) /\ Len(a) = L + n
      /\ \A i \in 1..L + n : a[i] = IF i <= L THEN c[i] ELSE q[i - L]
  <2>1. c \in Seq(Cell)
    BY <1>1
  <2> HIDE DEF L, n
  <2> QED BY <1>5, <2>1, ConcatProperties DEF L
<1> HIDE DEF a
<1>9. ASSUME L + n < Size
      PROVE  Lies(h, Wrap(t + n), d, r) /\ Len(r) = Wrap(L + n)
  <2>1. r = a
    BY <1>8, <1>9 DEF Newest
  <2>2. Kept(d, h, a)
    <3> SUFFICES ASSUME NEW i \in 1..L + n
                 PROVE  a[i].torn \/ d[Wrap(h + i - 1)] = a[i].elem
      BY <1>8 DEF Kept
    <3> DEFINE x == Wrap(h + i - 1)
    <3>1. CASE i <= L
      <4>1. a[i] = c[i] /\ (c[i].torn \/ b[x] = c[i].elem)
        BY <1>1, <1>2, <1>8, <3>1 DEF Kept
      <4>2. x \in Index /\ ~(Behind(x, t) < n)
        <5> HIDE DEF L, n
        <5> QED BY <1>1, <1>2, <1>9, <3>1 DEF Wrap, Behind, Index
      <4> HIDE DEF x
      <4>3. d[x] = b[x]
        BY <1>6, <4>2
      <4> QED BY <4>1, <4>3 DEF x
    <3>2. CASE i > L
      <4>1. a[i] = q[i - L] /\ i - L \in 1..n
        <5> HIDE DEF L, n
        <5> QED BY <1>2, <1>8, <3>2
      <4>2. x \in Index /\ Behind(x, t) < n /\ Behind(x, t) + 1 = i - L
        <5> HIDE DEF L, n
        <5> QED BY <1>1, <1>2, <1>9, <3>2 DEF Wrap, Behind, Index
      <4> HIDE DEF x
      <4>3. d[x] = seg[i - L]
        BY <1>6, <4>2
      <4> QED BY <1>5, <4>1, <4>3 DEF x
    <3> QED BY <1>2, <3>1, <3>2
  <2>3. /\ h \in Index /\ Wrap(t + n) \in Index
        /\ Wrap(t + n) = Wrap(h + (L + n)) /\ Wrap(L + n) = L + n
    <3> HIDE DEF L, n
    <3> QED BY <1>1, <1>2, <1>9 DEF Wrap, Index
  <2> HIDE DEF L, n
  <2> QED BY <1>7, <1>8, <1>9, <2>1, <2>2, <2>3 DEF Lies
<1>10. ASSUME L + n >= Size
       PROVE  Lies(h, Wrap(t + n), d, r) /\ Len(r) = Wrap(L + n)
  <2> DEFINE k == (L + n) - Size
  <2>1. k \in Nat /\ k < Size /\ Size \in 0..L + n
    <3> HIDE DEF L, n
    <3> QED BY <1>1, <1>2, <1>10
  <2>2. r = SubSeq(a, Size + 1, Len(a))
    BY <1>1, <1>2, <1>8, <1>10 DEF Newest
  <2> HIDE DEF r
  <2>3. r \in Seq(Cell) /\ Len(r) = k /\ \A i \in 1..k : r[i] = a[Size + i]
    <3>1. Size \in 0..Len(a)
      BY <1>8, <2>1
    <3> HIDE DEF L, n
    <3> QED BY <1>8, <2>2, <3>1, SuffixSeq
  <2>4. Kept(d, h, r)
    <3> SUFFICES ASSUME NEW i \in 1..k
                 PROVE  r[i].torn \/ d[Wrap(h + i - 1)] = r[i].elem
      BY <2>3 DEF Kept
    <3> DEFINE x == Wrap(h + i - 1)
               j == (Size - L) + i
    <3>1. Size + i \in 1..L + n /\ ~(Size + i <= L) /\ (Size + i) - L = j /\ j \in 1..n
      <4> HIDE DEF L, n
      <4> QED BY <1>1, <1>2, <1>10, <2>1
    <3>2. r[i] = q[j]
      <4> HIDE DEF k, j
      <4> QED BY <1>8, <2>3, <3>1
    <3>3. x \in Index /\ Behind(x, t) < n /\ Behind(x, t) + 1 = j
      <4> HIDE DEF L, n
      <4> QED BY <1>1, <1>2, <1>10, <2>1 DEF Wrap, Behind, Index
    <3> HIDE DEF x, j
    <3>4. d[x] = seg[j]
      BY <1>6, <3>3
    <3> QED BY <1>5, <3>1, <3>2, <3>4 DEF x
  <2>5. /\ h \in Index /\ Wrap(t + n) \in Index
        /\ Wrap(t + n) = Wrap(h + k) /\ Wrap(L + n) = k
    <3> HIDE DEF L, n
    <3> QED BY <1>1, <1>2, <1>10, <2>1 DEF Wrap, Index
  <2> HIDE DEF L, n, k
  <2> QED BY <1>7, <2>1, <2>3, <2>4, <2>5 DEF Lies
<1>11. L + n < Size \/ L + n >= Size
  BY <1>1, <1>2
<1> HIDE DEF L, n, r
<1> QED BY <1>9, <1>10, <1>11 DEF L, n, r, d, a, q

\* What cqueueDe leaves when it goes past tail: the way to the end of the buffer and
\* round it, where nothing stands, and then once more what it has given out.
LEMMA StaleLies ==
  ASSUME NEW h, NEW t, NEW b, NEW c, Lies(h, t, b, c), NEW k \in 1..Size, k > Len(c)
  PROVE  LET r == [i \in 1..Size - k |-> Stale] \o c
         IN  Lies(Wrap(h + k), t, b, r) /\ Len(r) = Size - k + Len(c)
<1> DEFINE L == Len(c)
           n == Size - k
           q == [i \in 1..n |-> Stale]
           r == q \o c
<1>1. /\ Size \in Nat /\ Size > 0
      /\ h \in 0..Size - 1 /\ t \in 0..Size - 1
      /\ b \in [Index -> Elem] /\ c \in Seq(Cell)
      /\ t = Wrap(h + L) /\ Kept(b, h, c)
  BY SizeAssumption DEF Lies, Index
<1>2. L \in Nat /\ n \in Nat /\ n + L < Size
  BY <1>1, LenProperties
<1>3. Stale \in Cell /\ Stale.torn
  BY <1>1 DEF Stale, Cell, Elem
<1>4. q \in Seq(Cell) /\ Len(q) = n /\ \A i \in 1..n : q[i] = Stale
  <2>1. q \in [1..n -> Cell] /\ \A i \in 1..n : q[i] = Stale
    BY <1>3
  <2> HIDE DEF q, n
  <2> QED BY <1>2, <2>1
<1> HIDE DEF q
<1>5. /\ r \in Seq(Cell) /\ Len(r) = n + L
      /\ \A i \in 1..n + L : r[i] = IF i <= n THEN q[i] ELSE c[i - n]
  <2>1. c \in Seq(Cell)
    BY <1>1
  <2> HIDE DEF n
  <2> QED BY <1>4, <2>1, ConcatProperties
<1> HIDE DEF r
<1>6. Kept(b, Wrap(h + k), r)
  <2> SUFFICES ASSUME NEW i \in 1..n + L
               PROVE  r[i].torn \/ b[Wrap(Wrap(h + k) + i - 1)] = r[i].elem
    BY <1>5 DEF Kept
  <2>1. CASE i <= n
    <3>1. i \in 1..n
      BY <2>1
    <3> HIDE DEF n
    <3> QED BY <1>3, <1>4, <1>5, <2>1, <3>1
  <2>2. CASE i > n
    <3>1. i - n \in 1..L /\ Wrap(Wrap(h + k) + i - 1) = Wrap(h + (i - n) - 1)
      <4> HIDE DEF L
      <4> QED BY <1>1, <1>2, <2>2 DEF Wrap
    <3>2. c[i - n].torn \/ b[Wrap(h + (i - n) - 1)] = c[i - n].elem
      BY <1>1, <3>1 DEF Kept
    <3> QED BY <1>2, <1>5, <2>2, <3>1, <3>2
  <2> QED BY <1>2, <2>1, <2>2
<1>7. Wrap(h + k) \in Index /\ t \in Index /\ t = Wrap(Wrap(h + k) + (n + L))
  <2> HIDE DEF L
  <2> QED BY <1>1, <1>2 DEF Wrap, Index
<1> HIDE DEF L, n
<1> QED BY <1>1, <1>2, <1>5, <1>6, <1>7 DEF Lies, L, n, q, r

\* What cqueueRead and cqueueDe leave.
LEMMA RestLies ==
  ASSUME NEW h, NEW t, NEW b, NEW c, Lies(h, t, b, c), NEW k \in 0..Len(c)
  PROVE  LET r == SubSeq(c, k + 1, Len(c))
         IN  Lies(Wrap(h + k), t, b, r) /\ Len(r) = Len(c) - k
<1> DEFINE L == Len(c)
           r == SubSeq(c, k + 1, Len(c))
<1>1. /\ Size \in Nat /\ Size > 0
      /\ h \in 0..Size - 1 /\ t \in 0..Size - 1
      /\ b \in [Index -> Elem] /\ c \in Seq(Cell)
      /\ t = Wrap(h + L) /\ Kept(b, h, c)
  BY SizeAssumption DEF Lies, Index
<1>2. L \in Nat /\ L < Size /\ k \in 0..L
  BY <1>1, LenProperties DEF Lies
<1>3. r \in Seq(Cell) /\ Len(r) = L - k /\ \A i \in 1..L - k : r[i] = c[k + i]
  BY <1>1, SuffixSeq
<1> HIDE DEF r
<1>4. Kept(b, Wrap(h + k), r)
  <2> SUFFICES ASSUME NEW i \in 1..L - k
               PROVE  r[i].torn \/ b[Wrap(Wrap(h + k) + i - 1)] = r[i].elem
    BY <1>3 DEF Kept
  <2>1. k + i \in 1..L /\ Wrap(Wrap(h + k) + i - 1) = Wrap(h + (k + i) - 1)
    <3> HIDE DEF L
    <3> QED BY <1>1, <1>2 DEF Wrap
  <2>2. c[k + i].torn \/ b[Wrap(h + (k + i) - 1)] = c[k + i].elem
    BY <1>1, <2>1 DEF Kept
  <2> QED BY <1>3, <2>1, <2>2
<1>5. /\ Wrap(h + k) \in Index /\ t = Wrap(Wrap(h + k) + (L - k)) /\ L - k < Size
      /\ t \in Index
  <2> HIDE DEF L
  <2> QED BY <1>1, <1>2 DEF Wrap, Index
<1> HIDE DEF L
<1>6. Lies(Wrap(h + k), t, b, r)
  BY <1>1, <1>3, <1>4, <1>5 DEF Lies
<1> QED BY <1>3, <1>6 DEF r, L

-----------------------------------------------------------------------------
(* The steps. *)

\* The elements a writer gives, and the two segments it gives them in.
LEMMA SegmentsOf ==
  ASSUME next \in Elem, NEW n \in Nat, NEW m \in Nat
  PROVE  LET all == Fresh(n + m)
         IN  /\ Take(all, 0, n) \in Seq(Elem) /\ Len(Take(all, 0, n)) = n
             /\ Take(all, n, m) \in Seq(Elem) /\ Len(Take(all, n, m)) = m
<1> DEFINE all == Fresh(n + m)
<1>1. Size \in Nat /\ next \in Nat /\ n + m \in Nat
  BY SizeAssumption DEF Elem
<1>2. \A i \in 1..n + m : (next + i - 1) % (Size + 1) \in Elem
  <2> SUFFICES ASSUME NEW i \in 1..n + m PROVE (next + i - 1) % (Size + 1) \in Elem
    OBVIOUS
  <2>1. next + i - 1 \in Nat /\ Size + 1 \in Nat /\ Size + 1 > 0
    BY <1>1
  <2> QED BY <1>1, <2>1 DEF Elem
<1>3. all = [i \in 1..n + m |-> (next + i - 1) % (Size + 1)]
  BY DEF Fresh
<1>4. \A i \in 1..n + m : all[i] \in Elem
  BY <1>2, <1>3
<1> HIDE DEF all
<1>5. \A from, k \in Nat : from + k <= n + m =>
        Take(all, from, k) \in Seq(Elem) /\ Len(Take(all, from, k)) = k
  <2> SUFFICES ASSUME NEW from \in Nat, NEW k \in Nat, from + k <= n + m
               PROVE  Take(all, from, k) \in Seq(Elem) /\ Len(Take(all, from, k)) = k
    OBVIOUS
  <2> DEFINE a == from + 1
             z == from + k
  <2>1. /\ a \in Int /\ z \in Int /\ \A i \in a..z : all[i] \in Elem
        /\ (a <= z => z - a + 1 = k) /\ (~(a <= z) => k = 0)
    BY <1>1, <1>4
  <2>2. Take(all, from, k) = SubSeq(all, a, z)
    BY DEF Take
  <2> HIDE DEF a, z
  <2>3. /\ SubSeq(all, a, z) \in Seq(Elem)
        /\ Len(SubSeq(all, a, z)) = IF a <= z THEN z - a + 1 ELSE 0
    BY <2>1, SubSeqProperties
  <2> QED BY <2>1, <2>2, <2>3
<1>6. 0 \in Nat /\ 0 + n <= n + m /\ n + m <= n + m
  OBVIOUS
<1> QED BY <1>5, <1>6 DEF all

LEMMA LenOfQueued ==
  ASSUME NEW c \in Seq(Cell), NEW seg \in Seq(Elem), NEW pos \in Nat
  PROVE  Len(c \o Queued(seg, pos)) = Len(c) + Len(seg)
<1> DEFINE q == Queued(seg, pos)
           n == Len(seg)
<1>1. n \in Nat /\ \A i \in 1..n : seg[i] \in Elem
  BY LenProperties
<1>2. q = [i \in 1..n |-> [elem |-> seg[i], torn |-> ~(pos < head) /\ i > Size - pos]]
  BY LenProperties DEF Queued
<1>3. \A i \in 1..n : [elem |-> seg[i], torn |-> ~(pos < head) /\ i > Size - pos] \in Cell
  BY <1>1 DEF Cell
<1>4. q \in [1..n -> Cell]
  BY <1>2, <1>3
<1> HIDE DEF q, n
<1>5. q \in Seq(Cell) /\ Len(q) = n
  BY <1>1, <1>4
<1>6. Len(c \o q) = Len(c) + Len(q)
  BY <1>5, ConcatProperties
<1> QED BY <1>5, <1>6 DEF q, n

\* The elements of cqueueEn's user.
LEMMA FreshSeq ==
  ASSUME next \in Elem, NEW n \in Nat
  PROVE  Fresh(n) \in Seq(Elem) /\ Len(Fresh(n)) = n
<1>1. Size \in Nat /\ next \in Nat
  BY SizeAssumption DEF Elem
<1>2. \A i \in 1..n : (next + i - 1) % (Size + 1) \in Elem
  <2> SUFFICES ASSUME NEW i \in 1..n PROVE (next + i - 1) % (Size + 1) \in Elem
    OBVIOUS
  <2>1. next + i - 1 \in Nat /\ Size + 1 \in Nat /\ Size + 1 > 0
    BY <1>1
  <2> QED BY <1>1, <2>1 DEF Elem
<1>3. Fresh(n) \in [1..n -> Elem]
  BY <1>2 DEF Fresh
<1> QED BY <1>3

\* Only whole laps keep a multiple of Size below another.
LEMMA LapsBelow ==
  ASSUME NEW x \in Int, NEW y \in Int, x * Size < y * Size
  PROVE  x < y
<1> SUFFICES ASSUME x >= y PROVE FALSE
  OBVIOUS
<1> DEFINE d == x - y
<1>1. Size \in Nat /\ d \in Nat /\ x = y + d
  BY SizeAssumption
<1> HIDE DEF d
<1>2. (y + d) * Size = y * Size + d * Size
  BY <1>1
<1>3. d * Size \in Nat
  BY <1>1
<1>4. y * Size \in Int
  BY <1>1
<1> QED BY <1>1, <1>2, <1>3, <1>4

\* Accepting what is room for, or giving out what is there, changes no lap.
LEMMA SameLap ==
  ASSUME NEW k \in Int, NEW n \in Nat, Laps(k, n), NEW x \in Int
  PROVE  Laps(k + x, n + x)
<1>1. PICK laps \in -MaxLaps..MaxLaps : k = laps * Size + n
  BY DEF Laps
<1>2. Size \in Nat /\ MaxLaps \in Nat /\ k \in Int
  BY SizeAssumption, MaxLapsAssumption DEF Laps
<1>3. laps * Size \in Int
  BY <1>2
<1>4. k + x = laps * Size + (n + x)
  BY <1>1, <1>3
<1> QED BY <1>2, <1>4 DEF Laps

\* Accepting more than that begins another lap; the model stops at MaxLaps of them.
LEMMA LapMore ==
  ASSUME NEW k \in Int, NEW n \in Nat, Laps(k, n), NEW x \in Int,
         n + x >= Size, k + x < (MaxLaps + 1) * Size
  PROVE  Laps(k + x, (n + x) - Size)
<1>1. PICK laps \in -MaxLaps..MaxLaps : k = laps * Size + n
  BY DEF Laps
<1>2. Size \in Nat /\ MaxLaps \in Nat /\ k \in Int
  BY SizeAssumption, MaxLapsAssumption DEF Laps
<1>3. laps * Size \in Int /\ (laps + 1) * Size = laps * Size + Size
  BY <1>2
<1>4. k + x = (laps + 1) * Size + ((n + x) - Size)
  BY <1>1, <1>2, <1>3
<1>5. (laps + 1) * Size < (MaxLaps + 1) * Size
  <2>1. (laps + 1) * Size <= k + x /\ (MaxLaps + 1) * Size \in Int
    BY <1>1, <1>2, <1>3
  <2>2. (laps + 1) * Size \in Int
    BY <1>2
  <2> QED BY <1>2, <2>1, <2>2
<1>6. laps + 1 < MaxLaps + 1
  BY <1>2, <1>5, LapsBelow
<1>7. laps + 1 \in -MaxLaps..MaxLaps
  BY <1>2, <1>6
<1> QED BY <1>2, <1>4, <1>7 DEF Laps

\* So does giving out more, in the other direction.
LEMMA LapLess ==
  ASSUME NEW k \in Int, NEW n \in Nat, Laps(k, n), NEW x \in Int,
         x > n, x <= Size, n < Size, k - x >= -MaxLaps * Size
  PROVE  Laps(k - x, Size - x + n)
<1>1. PICK laps \in -MaxLaps..MaxLaps : k = laps * Size + n
  BY DEF Laps
<1>2. Size \in Nat /\ MaxLaps \in Nat /\ k \in Int
  BY SizeAssumption, MaxLapsAssumption DEF Laps
<1>3. laps * Size \in Int /\ (laps - 1) * Size = laps * Size - Size
  BY <1>2
<1>4. k - x = (laps - 1) * Size + (Size - x + n)
  BY <1>1, <1>2, <1>3
<1>5. (-MaxLaps - 1) * Size < (laps - 1) * Size
  <2>1. (-MaxLaps - 1) * Size = -MaxLaps * Size - Size /\ -MaxLaps * Size \in Int
    BY <1>2
  <2> QED BY <1>1, <1>2, <1>3, <2>1
<1>6. -MaxLaps - 1 < laps - 1
  BY <1>2, <1>5, LapsBelow
<1>7. laps - 1 \in -MaxLaps..MaxLaps
  BY <1>2, <1>6
<1> QED BY <1>2, <1>4, <1>7 DEF Laps

LEMMA InitIInv == Init => IInv
<1> SUFFICES ASSUME Init PROVE IInv
  OBVIOUS
<1>1. Size \in Nat /\ Size > 0 /\ MaxLaps \in Nat
  BY SizeAssumption, MaxLapsAssumption
<1>2. content = <<>> /\ content \in Seq(Cell) /\ Len(content) = 0
  BY EmptySeq DEF Init
<1>3. head \in Index /\ tail \in Index /\ tail = Wrap(head + 0) /\ next \in Elem
  BY <1>1 DEF Init, Index, Elem, Wrap
<1>4. buf \in [Index -> Elem]
  BY <1>1 DEF Init, Elem
<1>5. Kept(buf, head, content)
  BY <1>2 DEF Kept
<1>6. Laps(0, 0)
  <2>1. 0 \in -MaxLaps..MaxLaps /\ 0 = 0 * Size + 0
    BY <1>1
  <2> QED BY <2>1 DEF Laps
<1>7. held = 0
  BY DEF Init
<1> QED BY <1>1, <1>2, <1>3, <1>4, <1>5, <1>6, <1>7 DEF IInv, Lies

LEMMA NextIInv == IInv /\ [Next]_vars => IInv'
<1> SUFFICES ASSUME IInv, [Next]_vars PROVE IInv'
  OBVIOUS
<1>1. /\ Lies(head, tail, buf, content)
      /\ next \in Elem /\ head \in Index /\ tail \in Index
      /\ buf \in [Index -> Elem]
      /\ content \in Seq(Cell) /\ Len(content) < Size
      /\ Laps(held, Len(content)) /\ held \in Int
  BY DEF IInv, Lies, Laps
<1>2. /\ Size \in Nat /\ Size > 0 /\ head \in Nat /\ head < Size /\ tail \in Nat /\ tail < Size
      /\ Len(content) \in Nat /\ next \in Nat
  BY <1>1, SizeAssumption, LenProperties DEF Index, Elem
<1>3. GetCount = Len(content) /\ GetRoom = Size - 1 - Len(content)
  BY InvCounts DEF CountAndRoomAgree
<1>4. ASSUME NEW n \in 0..Size, NEW m \in 0..Size, Write(n, m)
      PROVE  IInv'
  <2> DEFINE all  == Fresh(n + m)
             mid  == (tail + n) % Size
             seg1 == Take(all, 0, n)
             seg2 == Take(all, n, m)
             b1   == CopySegment(buf, tail, seg1)
             c1   == content \o Queued(seg1, tail)
             b2   == CopySegment(b1, mid, seg2)
             c2   == c1 \o Queued(seg2, mid)
  <2>1. /\ n + m > 0 /\ n + m <= GetRoom
        /\ buf' = b2 /\ content' = c2
        /\ tail' = (mid + m) % Size
        /\ held' = held + n + m
        /\ next' = (next + n + m) % (Size + 1)
        /\ head' = head
    BY <1>4 DEF Write
  <2>2. /\ seg1 \in Seq(Elem) /\ Len(seg1) = n
        /\ seg2 \in Seq(Elem) /\ Len(seg2) = m
    BY <1>1, SegmentsOf
  <2>3. /\ n \in Nat /\ m \in Nat /\ Len(content) + n < Size /\ (Len(content) + n) + m < Size
    BY <1>2, <1>3, <2>1
  <2>4. mid = Wrap(tail + n) /\ mid \in 0..Size - 1
    <3>1. tail + n \in Nat /\ tail + n < 2 * Size
      BY <1>2, <2>3
    <3>2. mid = Wrap(tail + n)
      BY <3>1, ModIsWrap
    <3> QED BY <1>2, <3>1, <3>2 DEF Wrap
  <2>5. (mid + m) % Size = Wrap(mid + m)
    <3>1. mid + m \in Nat /\ mid + m < 2 * Size
      BY <1>2, <2>3, <2>4
    <3> QED BY <3>1, ModIsWrap
  <2>6. next' \in Elem
    BY <1>2, <2>1, <2>3 DEF Elem
  <2> HIDE DEF all, mid, seg1, seg2
  <2>7. Lies(head, mid, b1, c1)
    BY <1>1, <2>2, <2>3, <2>4, SegmentLies
  <2>8. c1 \in Seq(Cell) /\ Len(c1) = Len(content) + n
    BY <1>1, <1>2, <2>2, <2>7, LenOfQueued DEF Lies
  <2> HIDE DEF b1, c1
  <2>9. Lies(head, Wrap(mid + m), b2, c2)
    BY <2>2, <2>3, <2>7, <2>8, SegmentLies
  <2>10. Len(c2) = Len(content) + (n + m)
    <3>1. Len(c2) = Len(c1) + m
      <4>1. mid \in Nat
        BY <1>2, <2>4
      <4> HIDE DEF c1
      <4> QED BY <2>2, <2>8, <4>1, LenOfQueued
    <3> QED BY <1>2, <2>3, <2>8, <3>1
  <2> HIDE DEF b2, c2
  <2>11. Laps(held + (n + m), Len(content) + (n + m))
    <3>1. n + m \in Int
      BY <2>3
    <3> QED BY <1>1, <1>2, <3>1, SameLap
  <2>12. held' = held + (n + m)
    BY <1>1, <2>1, <2>3
  <2> QED BY <2>1, <2>5, <2>6, <2>9, <2>10, <2>11, <2>12 DEF IInv
<1>5. ASSUME NEW k \in 1..Size, Read(k)
      PROVE  IInv'
  <2> DEFINE r == SubSeq(content, k + 1, Len(content))
  <2>1. /\ k <= GetCount
        /\ head' = (head + k) % Size
        /\ content' = r
        /\ held' = held - k
        /\ UNCHANGED <<tail, buf, next>>
    BY <1>5 DEF Read
  <2>2. k \in 0..Len(content) /\ head + k \in Nat /\ head + k < 2 * Size
    BY <1>2, <1>3, <2>1
  <2>3. head' = Wrap(head + k)
    BY <2>1, <2>2, ModIsWrap
  <2>4. Lies(Wrap(head + k), tail, buf, r) /\ Len(r) = Len(content) - k
    BY <1>1, <2>2, RestLies
  <2> HIDE DEF r
  <2>5. Laps(held + (-k), Len(content) + (-k))
    <3>1. -k \in Int
      OBVIOUS
    <3> QED BY <1>1, <1>2, <3>1, SameLap
  <2>6. held' = held + (-k) /\ Len(r) = Len(content) + (-k)
    BY <1>1, <1>2, <2>1, <2>4
  <2> QED BY <1>1, <2>1, <2>3, <2>4, <2>5, <2>6 DEF IInv
<1>6. ASSUME NEW cnt \in 1..Size, En(cnt)
      PROVE  IInv'
  <2> DEFINE seg == Fresh(cnt)
             d   == [i \in Index |-> IF Behind(i, tail) < cnt THEN seg[Behind(i, tail) + 1]
                                     ELSE buf[i]]
             r   == Newest(content \o Whole(seg))
  <2>1. /\ held + cnt < (MaxLaps + 1) * Size
        /\ buf' = d /\ content' = r
        /\ tail' = (tail + cnt) % Size
        /\ held' = held + cnt
        /\ next' = (next + cnt) % (Size + 1)
        /\ head' = head
    BY <1>6 DEF En
  <2>2. cnt \in Nat /\ tail + cnt \in Nat /\ tail + cnt < 2 * Size
    BY <1>2
  <2>3. tail' = Wrap(tail + cnt)
    BY <2>1, <2>2, ModIsWrap
  <2>4. next' \in Elem
    BY <1>2, <2>1 DEF Elem
  <2>5. seg \in Seq(Elem) /\ Len(seg) = cnt
    BY <1>1, <2>2, FreshSeq
  <2> HIDE DEF seg
  <2>6. Lies(head, Wrap(tail + cnt), d, r) /\ Len(r) = Wrap(Len(content) + cnt)
    BY <1>1, <2>5, ElementsLie
  <2> HIDE DEF d, r
  <2>7. Laps(held + cnt, Wrap(Len(content) + cnt))
    <3>1. CASE Len(content) + cnt < Size
      BY <1>1, <1>2, <2>2, <3>1, SameLap DEF Wrap
    <3>2. CASE Len(content) + cnt >= Size
      <4>1. Laps(held + cnt, (Len(content) + cnt) - Size)
        BY <1>1, <1>2, <2>1, <2>2, <3>2, LapMore
      <4> QED BY <1>2, <3>2, <4>1 DEF Wrap
    <3> QED BY <1>2, <2>2, <3>1, <3>2
  <2> QED BY <2>1, <2>3, <2>4, <2>6, <2>7 DEF IInv
<1>7. ASSUME NEW cnt \in 1..Size, De(cnt)
      PROVE  IInv'
  <2>1. /\ held - cnt >= -MaxLaps * Size
        /\ head' = (head + cnt) % Size
        /\ content' = IF cnt <= Len(content) THEN SubSeq(content, cnt + 1, Len(content))
                      ELSE [i \in 1..Size - cnt |-> Stale] \o content
        /\ held' = held - cnt
        /\ UNCHANGED <<tail, buf, next>>
    BY <1>7 DEF De
  <2>2. cnt \in Nat /\ head + cnt \in Nat /\ head + cnt < 2 * Size
    BY <1>2
  <2>3. head' = Wrap(head + cnt)
    BY <2>1, <2>2, ModIsWrap
  <2>4. CASE cnt <= Len(content)
    <3> DEFINE r == SubSeq(content, cnt + 1, Len(content))
    <3>1. cnt \in 0..Len(content) /\ content' = r
      BY <1>2, <2>1, <2>2, <2>4
    <3>2. Lies(Wrap(head + cnt), tail, buf, r) /\ Len(r) = Len(content) - cnt
      BY <1>1, <3>1, RestLies
    <3> HIDE DEF r
    <3>3. Laps(held + (-cnt), Len(content) + (-cnt))
      BY <1>1, <1>2, <2>2, SameLap
    <3>4. held' = held + (-cnt) /\ Len(r) = Len(content) + (-cnt)
      BY <1>1, <1>2, <2>1, <3>2
    <3> QED BY <1>1, <2>1, <2>3, <3>1, <3>2, <3>3, <3>4 DEF IInv
  <2>5. CASE cnt > Len(content)
    <3> DEFINE r == [i \in 1..Size - cnt |-> Stale] \o content
    <3>1. content' = r
      BY <1>2, <2>1, <2>5
    <3>2. Lies(Wrap(head + cnt), tail, buf, r) /\ Len(r) = Size - cnt + Len(content)
      BY <1>1, <2>5, StaleLies
    <3> HIDE DEF r
    <3>3. Laps(held - cnt, Size - cnt + Len(content))
      BY <1>1, <1>2, <2>1, <2>2, <2>5, LapLess
    <3> QED BY <1>1, <2>1, <2>3, <3>1, <3>2, <3>3 DEF IInv
  <2> QED BY <1>2, <2>2, <2>4, <2>5
<1>8. CASE Reset
  <2>1. head' = 0 /\ tail' = 0 /\ content' = <<>> /\ buf' = buf /\ held' = 0 /\ next' = next
    BY <1>8 DEF Reset
  <2>2. content' \in Seq(Cell) /\ Len(content') = 0
    BY <2>1, EmptySeq
  <2>3. 0 \in Index /\ 0 = Wrap(0 + 0)
    BY <1>2 DEF Index, Wrap
  <2>4. Kept(buf, 0, content')
    BY <2>2 DEF Kept
  <2>5. Laps(0, 0)
    <3>1. MaxLaps \in Nat
      BY MaxLapsAssumption
    <3>2. 0 \in -MaxLaps..MaxLaps /\ 0 = 0 * Size + 0
      BY <1>2, <3>1
    <3> QED BY <3>2 DEF Laps
  <2> QED BY <1>1, <1>2, <2>1, <2>2, <2>3, <2>4, <2>5 DEF IInv, Lies
<1>9. CASE UNCHANGED vars
  BY <1>1, <1>9 DEF IInv, vars
<1> QED BY <1>4, <1>5, <1>6, <1>7, <1>8, <1>9 DEF Next

LEMMA IInvHolds == Spec => []IInv
  BY InitIInv, NextIInv, PTL DEF Spec

-----------------------------------------------------------------------------
(* The properties. *)

\* For every size and in every order of calls, those included that cqueueEn and
\* cqueueDe wrongly accept: count and room (cqueueGetCount, cqueueGetRoom) are those
\* of what stands between the indices, empty is told from full, and the count differs
\* from what was accepted and not given out by a multiple of Size.
THEOREM CountsAreRight == Spec => []CountAndRoomAgree
  BY IInvHolds, InvCounts, PTL

\* cqueueEn and cqueueDe decide as room and count say in exactly these states.
THEOREM EnDeRightExactly == Spec => []EnDeRightOnlyIf
<1>1. ASSUME IInv PROVE EnDeRightOnlyIf
  <2> SUFFICES ASSUME NEW cnt \in 1..Size
               PROVE  /\ (EnAccepts(cnt) <=> cnt <= GetRoom) <=> (tail < head <=> tail + cnt < Size)
                      /\ (DeAccepts(cnt) <=> cnt <= GetCount) <=> (tail < head <=> head + cnt >= Size)
    BY DEF EnDeRightOnlyIf
  <2>1. head \in 0..Size - 1 /\ tail \in 0..Size - 1 /\ Size \in Nat
    BY <1>1, SizeAssumption DEF IInv, Lies, Index
  <2>2. /\ tail + cnt \in Nat /\ tail + cnt < 2 * Size
        /\ head + cnt \in Nat /\ head + cnt < 2 * Size
    BY <2>1
  <2>3. (tail + cnt) % Size = Wrap(tail + cnt) /\ (head + cnt) % Size = Wrap(head + cnt)
    BY <2>2, ModIsWrap
  <2>4. EnAccepts(cnt) <=> head > Wrap(tail + cnt)
    BY <2>3 DEF EnAccepts
  <2>5. DeAccepts(cnt) <=> tail >= Wrap(head + cnt)
    BY <2>3 DEF DeAccepts
  <2>6. (head > Wrap(tail + cnt) <=> cnt <= GetRoom) <=> (tail < head <=> tail + cnt < Size)
    BY <2>1 DEF GetRoom, Wrap
  <2>7. (tail >= Wrap(head + cnt) <=> cnt <= GetCount) <=> (tail < head <=> head + cnt >= Size)
    BY <2>1 DEF GetCount, Wrap
  <2> QED BY <2>4, <2>5, <2>6, <2>7
<1> QED BY <1>1, IInvHolds, PTL

\* The elements cqueueRead hands out, where they stand in the buffer.
LEMMA HandedOutElements ==
  ASSUME IInv, NEW rlen \in 1..GetCount
  PROVE  /\ Segments(rlen)[1].pos + Segments(rlen)[1].len <= Size
         /\ \A i \in 1..rlen : HandedOut(rlen)[i] = buf[Wrap(head + i - 1)]
<1>1. /\ head \in 0..Size - 1 /\ tail \in 0..Size - 1 /\ Size \in Nat
      /\ buf \in [Index -> Elem] /\ GetCount \in Nat
  BY SizeAssumption DEF IInv, Lies, Index, GetCount
<1>2. rlen \in Nat /\ rlen > 0 /\ (head < tail => head + rlen <= tail) /\ rlen < Size
  BY <1>1 DEF GetCount
<1> DEFINE straight == head < tail \/ rlen <= Size - head
           n == IF straight THEN rlen ELSE Size - head
           m == rlen - n
           s1 == [pos |-> head, len |-> n]
           s2 == [pos |-> 0, len |-> m]
           e1 == [i \in 1..n |-> buf[head + i - 1]]
           e2 == [i \in 1..m |-> buf[0 + i - 1]]
<1>3. /\ n \in Nat /\ m \in Nat /\ n + m = rlen /\ head + n <= Size /\ m <= Size
      /\ m > 0 => head + n = Size
  BY <1>1, <1>2
<1>4. Segments(rlen) = <<s1, s2>>
  <2>1. CASE straight
    <3>1. n = rlen /\ m = 0
      BY <1>2, <2>1
    <3> HIDE DEF n, m
    <3> QED BY <2>1, <3>1 DEF Segments
  <2>2. CASE ~straight
    <3>1. n = Size - head /\ m = rlen - (Size - head)
      BY <2>2
    <3> HIDE DEF n, m
    <3> QED BY <2>2, <3>1 DEF Segments
  <2> QED BY <2>1, <2>2
<1> HIDE DEF n, m
<1>5. Segments(rlen)[1] = s1 /\ Segments(rlen)[2] = s2
  BY <1>4
<1>6. HandedOut(rlen) = e1 \o e2
  <2> DEFINE Elems(s) == [i \in 1..s.len |-> buf[s.pos + i - 1]]
  <2>1. HandedOut(rlen) = Elems(Segments(rlen)[1]) \o Elems(Segments(rlen)[2])
    BY DEF HandedOut
  <2>2. Elems(s1) = e1 /\ Elems(s2) = e2
    OBVIOUS
  <2> QED BY <1>5, <2>1, <2>2
<1>7. /\ e1 \in Seq(Elem) /\ Len(e1) = n
      /\ e2 \in Seq(Elem) /\ Len(e2) = m
  <2>1. /\ \A i \in 1..n : head + i - 1 \in Index
        /\ \A i \in 1..m : 0 + i - 1 \in Index
    BY <1>1, <1>3 DEF Index
  <2>2. /\ \A i \in 1..n : buf[head + i - 1] \in Elem
        /\ \A i \in 1..m : buf[0 + i - 1] \in Elem
    BY <1>1, <2>1
  <2>3. e1 \in [1..n -> Elem] /\ e2 \in [1..m -> Elem]
    BY <2>2
  <2> HIDE DEF e1, e2
  <2> QED BY <1>3, <2>3
<1>8. ASSUME NEW i \in 1..rlen
      PROVE  HandedOut(rlen)[i] = buf[Wrap(head + i - 1)]
  <2>1. /\ i <= n => e1[i] = buf[head + i - 1]
        /\ ~(i <= n) => e2[i - n] = buf[0 + (i - n) - 1]
    BY <1>2, <1>3
  <2>2. (e1 \o e2)[i] = IF i <= n THEN e1[i] ELSE e2[i - n]
    <3> HIDE DEF e1, e2
    <3>1. \A k \in 1..Len(e1) + Len(e2) : (e1 \o e2)[k] = IF k <= Len(e1) THEN e1[k] ELSE e2[k - Len(e1)]
      BY <1>7, ConcatProperties
    <3> QED BY <1>3, <1>7, <3>1
  <2>3. /\ i <= n => Wrap(head + i - 1) = head + i - 1
        /\ ~(i <= n) => Wrap(head + i - 1) = 0 + (i - n) - 1
    BY <1>1, <1>2, <1>3 DEF Wrap
  <2> HIDE DEF e1, e2
  <2> QED BY <1>6, <2>1, <2>2, <2>3
<1> QED BY <1>3, <1>5, <1>8

\* A read of any length takes its first segment from inside the buffer and hands
\* out the oldest elements between the indices in order, save those that a segment
\* tore which cqueueWrite copied round the end (cqueue.c:143) and those that cqueueDe
\* went to past tail.
THEOREM ReadsAreInOrder == Spec => []ReadsBackInOrder
<1>1. ASSUME IInv PROVE ReadsBackInOrder
  <2> SUFFICES ASSUME NEW rlen \in 1..GetCount
               PROVE  /\ Segments(rlen)[1].pos + Segments(rlen)[1].len <= Size
                      /\ \A i \in 1..rlen : content[i].torn \/ HandedOut(rlen)[i] = content[i].elem
    BY DEF ReadsBackInOrder
  <2>1. GetCount = Len(content) /\ Len(content) \in Nat
    BY <1>1, InvCounts, LenProperties DEF CountAndRoomAgree, IInv, Lies
  <2>2. \A i \in 1..rlen : i \in 1..Len(content)
    BY <2>1
  <2>3. \A i \in 1..rlen : content[i].torn \/ buf[Wrap(head + i - 1)] = content[i].elem
    BY <1>1, <2>2 DEF IInv, Lies, Kept
  <2>4. /\ Segments(rlen)[1].pos + Segments(rlen)[1].len <= Size
        /\ \A i \in 1..rlen : HandedOut(rlen)[i] = buf[Wrap(head + i - 1)]
    BY <1>1, HandedOutElements
  <2> QED BY <2>3, <2>4
<1> QED BY <1>1, IInvHolds, PTL

=============================================================================
