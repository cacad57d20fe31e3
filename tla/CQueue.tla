------------------------------- MODULE CQueue -------------------------------
(***************************************************************************)
(* The circular queue of cqueue.c: two indices into a buffer of Size       *)
(* elements, one of which stays free.  The library calls none of it yet;   *)
(* its user would keep head and tail, and copy with Write and Read or move *)
(* the indices alone with En and De, in any order and with any count.      *)
(***************************************************************************)
EXTENDS Integers, Sequences

CONSTANTS
  Size,    \* the parameter size of every function
  MaxLaps  \* bound of the model: how many times Size the count may be off

ASSUME SizeAssumption    == Size \in Nat \ {0}
ASSUME MaxLapsAssumption == MaxLaps \in Nat

VARIABLES
  head, tail,  \* the two indices
  buf,         \* the buffer
  content,     \* what stands in the buffer from head to tail, and what of it is torn
  held,        \* how many elements the functions accepted and did not give out again
  next         \* the next element to write, so that all that is queued differs

vars == <<head, tail, buf, content, held, next>>

Index == 0 .. Size - 1
Elem  == 0 .. Size

-----------------------------------------------------------------------------
(* The functions; each is called with the same size. *)

GetCount == IF tail < head THEN (Size - head) + tail ELSE tail - head

GetRoomAll ==   \* mutant: counts the element that stays free
  IF tail < head THEN head - tail ELSE (Size - tail) + head

GetRoom == IF tail < head THEN head - tail - 1 ELSE (Size - tail) + head - 1

IsEmpty == head = tail

IsFull == (tail + 1) % Size = head

EnAcceptsEqual(cnt) == head >= (tail + cnt) % Size   \* mutant: allows to fill the free one

EnAccepts(cnt) == head > (tail + cnt) % Size

DeAccepts(cnt) == tail >= (head + cnt) % Size

\* Copies one segment to position pos of b.  When it does not fit before the end,
\* the second memcpy takes the segment from its beginning again.
CopySegment(b, pos, seg) ==
  LET tailroom == Size - pos
      wraps    == ~(pos < head) /\ Len(seg) > tailroom
  IN  [i \in Index |->
         IF ~wraps THEN IF i \in pos .. pos + Len(seg) - 1 THEN seg[i - pos + 1] ELSE b[i]
         ELSE IF i >= pos THEN seg[i - pos + 1]
         ELSE IF i < Len(seg) - tailroom THEN seg[i + 1]
         ELSE b[i]]

\* Where cqueueRead finds rlen elements: one segment, or two.
SegmentsStraight(rlen) ==   \* mutant: never two
  <<[pos |-> head, len |-> rlen], [pos |-> 0, len |-> 0]>>

Segments(rlen) ==
  LET tailcnt == Size - head
  IN  IF head < tail \/ rlen <= tailcnt
      THEN <<[pos |-> head, len |-> rlen], [pos |-> 0, len |-> 0]>>
      ELSE <<[pos |-> head, len |-> tailcnt], [pos |-> 0, len |-> rlen - tailcnt]>>

-----------------------------------------------------------------------------

Init ==
  /\ head = 0 /\ tail = 0
  /\ buf = [i \in Index |-> 0]
  /\ content = <<>>
  /\ held = 0
  /\ next = 0

\* The next n elements, and how the queue remembers those of one segment at pos.
Fresh(n)         == [i \in 1..n |-> (next + i - 1) % (Size + 1)]
Queued(seg, pos) ==
  [i \in DOMAIN seg |-> [elem |-> seg[i], torn |-> ~(pos < head) /\ i > Size - pos]]

Take(s, from, n) == SubSeq(s, from + 1, from + n)

\* cqueueWrite with segments of n and m elements; without room it refuses.
Write(n, m) ==
  LET all  == Fresh(n + m)
      mid  == (tail + n) % Size
      seg1 == Take(all, 0, n)
      seg2 == Take(all, n, m)
  IN  /\ n + m > 0 /\ n + m <= GetRoom
      /\ buf' = CopySegment(CopySegment(buf, tail, seg1), mid, seg2)
      /\ tail' = (mid + m) % Size
      /\ content' = content \o Queued(seg1, tail) \o Queued(seg2, mid)
      /\ held' = held + n + m
      /\ next' = (next + n + m) % (Size + 1)
      /\ UNCHANGED head

\* cqueueRead; with less in the queue it refuses.
Read(rlen) ==
  /\ rlen <= GetCount
  /\ head' = (head + rlen) % Size
  /\ content' = SubSeq(content, rlen + 1, Len(content))
  /\ held' = held - rlen
  /\ UNCHANGED <<tail, buf, next>>

\* How far an index is behind pos, round the end.
Behind(i, pos) == IF i < pos THEN (i - pos) + Size ELSE i - pos

Whole(seg) == [i \in DOMAIN seg |-> [elem |-> seg[i], torn |-> FALSE]]

\* More than fits between head and tail: the indices reach the newest of it only.
Newest(c) == IF Len(c) < Size THEN c ELSE SubSeq(c, Size + 1, Len(c))

\* cqueueEn, which only compares and moves tail; its user puts the elements from
\* tail on, round the end.  More of them than Size fit in no buffer.
En(cnt) ==
  /\ EnAccepts(cnt)
  /\ held + cnt < (MaxLaps + 1) * Size
  /\ buf' = [i \in Index |-> IF Behind(i, tail) < cnt THEN Fresh(cnt)[Behind(i, tail) + 1]
                             ELSE buf[i]]
  /\ tail' = (tail + cnt) % Size
  /\ content' = Newest(content \o Whole(Fresh(cnt)))
  /\ held' = held + cnt
  /\ next' = (next + cnt) % (Size + 1)
  /\ UNCHANGED head

\* An element nobody has put there, or that was given out long ago.
Stale == [elem |-> 0, torn |-> TRUE]

\* cqueueDe, which only compares and moves head.  Past tail it goes on round the
\* end, to stale elements with what it has just given out behind them.
De(cnt) ==
  /\ DeAccepts(cnt)
  /\ held - cnt >= -MaxLaps * Size
  /\ head' = (head + cnt) % Size
  /\ content' = IF cnt <= Len(content) THEN SubSeq(content, cnt + 1, Len(content))
                ELSE [i \in 1..Size - cnt |-> Stale] \o content
  /\ held' = held - cnt
  /\ UNCHANGED <<tail, buf, next>>

Reset ==
  /\ head' = 0 /\ tail' = 0
  /\ content' = <<>>
  /\ held' = 0
  /\ UNCHANGED <<buf, next>>

Next ==
  \/ \E n, m \in 0..Size : Write(n, m)
  \/ \E rlen \in 1..Size : Read(rlen)
  \/ \E cnt \in 1..Size : En(cnt) \/ De(cnt)
  \/ Reset

Spec == Init /\ [][Next]_vars

-----------------------------------------------------------------------------
(* Properties. *)

\* Count, room, empty and full (cqueue.c:41-99) agree with each other and with what
\* stands between the indices.  They are right about what was accepted and not given
\* out again as long as that is less than Size; cqueueEn and cqueueDe may accept what
\* makes it more, or less than none, and then the count is off by a multiple of Size.
CountAndRoomAgree ==
  /\ head \in Index /\ tail \in Index
  /\ GetCount = Len(content)
  /\ GetRoom = Size - 1 - Len(content)
  /\ IsEmpty <=> content = <<>>
  /\ IsFull <=> GetRoom = 0
  /\ \E laps \in -MaxLaps..MaxLaps : held = laps * Size + GetCount

\* Where the elements are that cqueueRead hands out.
HandedOut(rlen) ==
  LET segs == Segments(rlen)
      Elems(s) == [i \in 1..s.len |-> buf[s.pos + i - 1]]
  IN  Elems(segs[1]) \o Elems(segs[2])

\* A read of any length inside the buffer gives the oldest elements between the
\* indices in order, save those of a segment that went round the end (cqueue.c:143)
\* and those that cqueueDe went to past tail: these, and no others, may be wrong.
ReadsBackInOrder ==
  \A rlen \in 1..GetCount :
    /\ Segments(rlen)[1].pos + Segments(rlen)[1].len <= Size
    /\ \A i \in 1..rlen : content[i].torn \/ HandedOut(rlen)[i] = content[i].elem

\* cqueueEn and cqueueDe compare indices that have wrapped (cqueue.c:14, :31).
\* cqueueEn decides as GetRoom says if either the queue or the moved tail goes round
\* the end, and wrongly if both do or neither; cqueueDe as GetCount says if both do
\* or neither, and wrongly if one does.  So a queue that begins at 0 takes nothing,
\* and one that is full may take more.
EnDeRightOnlyIf ==
  \A cnt \in 1..Size :
    /\ (EnAccepts(cnt) <=> cnt <= GetRoom) <=> (tail < head <=> tail + cnt < Size)
    /\ (DeAccepts(cnt) <=> cnt <= GetCount) <=> (tail < head <=> head + cnt >= Size)

=============================================================================
