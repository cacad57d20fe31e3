------------------------------- MODULE MemPool -------------------------------
(***************************************************************************)
(* The block pool of mempool.c.  One contiguous area holds BlockNum blocks *)
(* whose headers thread two lists through it: the available blocks (singly *)
(* linked) and the used blocks (doubly linked).  The same code keeps the   *)
(* message blocks (joyblock.c) and the connection nodes (joynet.c).        *)
(*                                                                         *)
(* The pool is one record: the fields of MemPoolHead, and those of every   *)
(* MemBlockHead as functions of the block's position.                      *)
(***************************************************************************)
EXTENDS Integers, Sequences, FiniteSets

CONSTANT BlockNum   \* MemPoolHead.blockNum

ASSUME BlockNumAssumption == BlockNum \in Nat \ {0}

VARIABLES
  pool,    \* MemPoolHead and the MemBlockHead of every block
  owned    \* the positions the callers hold: blocks in a chain, open nodes

vars == <<pool, owned>>

Pos  == 0 .. BlockNum - 1
None == -1
Link == Pos \cup {None}

PoolType ==
  [firstAvailPos : Link, lastAvailPos : Link,
   firstUsedPos  : Link, lastUsedPos  : Link,
   isused        : [Pos -> BOOLEAN],
   nextAvailPos  : [Pos -> Link],
   nextUsedPos   : [Pos -> Link],
   prevUsedPos   : [Pos -> Link]]

-----------------------------------------------------------------------------
(* The operations, as functions from pool to pool. *)

LinkAll(pos) == pos + 1   \* mutant: the last block links past the pool

NextBlock(pos) == IF pos < BlockNum - 1 THEN pos + 1 ELSE None

MemPoolInit ==
  [firstAvailPos |-> 0,
   lastAvailPos  |-> BlockNum - 1,
   firstUsedPos  |-> None,
   lastUsedPos   |-> None,
   isused        |-> [pos \in Pos |-> FALSE],
   nextAvailPos  |-> [pos \in Pos |-> NextBlock(pos)],
   nextUsedPos   |-> [pos \in Pos |-> None],
   prevUsedPos   |-> [pos \in Pos |-> None]]

MemPoolAvailable(p) == 0 <= p.firstAvailPos

\* Takes the first available block off the available list.
TakeAvailStale(p) == [p EXCEPT !.firstAvailPos = p.nextAvailPos[@]]   \* mutant: keeps lastAvailPos

TakeAvail(p) ==
  LET exhausted == p.firstAvailPos = p.lastAvailPos
  IN  [p EXCEPT
         !.firstAvailPos = IF exhausted THEN None ELSE p.nextAvailPos[@],
         !.lastAvailPos  = IF exhausted THEN None ELSE @]

\* Puts pos at the end of the used list.
AppendUsed(p, pos) ==
  [p EXCEPT
     !.isused       = [@ EXCEPT ![pos] = TRUE],
     !.firstUsedPos = IF @ < 0 THEN pos ELSE @,
     !.nextUsedPos  = [q \in Pos |-> IF q = pos THEN None
                                     ELSE IF q = p.lastUsedPos THEN pos
                                     ELSE p.nextUsedPos[q]],
     !.prevUsedPos  = [@ EXCEPT ![pos] = p.lastUsedPos],
     !.lastUsedPos  = pos]

MemPoolAllocBlock(p) == AppendUsed(TakeAvail(p), p.firstAvailPos)

\* memPoolReleaseBlock accepts a position whose isused flag is set; the flag
\* is never cleared again.
Releasable(p, pos) == p.isused[pos]

\* Puts pos at the end of the available list.
AppendAvailFront(p, pos) ==   \* mutant: reuses the released block first
  [p EXCEPT
     !.firstAvailPos = pos,
     !.lastAvailPos  = IF @ = None THEN pos ELSE @,
     !.nextAvailPos  = [@ EXCEPT ![pos] = p.firstAvailPos]]

AppendAvailLate(p, pos) ==    \* mutant: ends the list before linking pos to it
  [p EXCEPT
     !.firstAvailPos = IF p.lastAvailPos = None THEN pos ELSE @,
     !.lastAvailPos  = pos,
     !.nextAvailPos  = [q \in Pos |-> IF q = p.lastAvailPos THEN pos
                                      ELSE IF q = pos THEN None
                                      ELSE p.nextAvailPos[q]]]

AppendAvail(p, pos) ==
  [p EXCEPT
     !.firstAvailPos = IF p.lastAvailPos = None THEN pos ELSE @,
     !.lastAvailPos  = pos,
     !.nextAvailPos  = [q \in Pos |-> IF q = pos THEN None
                                      ELSE IF q = p.lastAvailPos THEN pos
                                      ELSE p.nextAvailPos[q]]]

\* Unlinks pos from the used list; its own links keep their values.
UnlinkUsedOneWay(p, pos) ==   \* mutant: forgets the back link of the next block
  LET prev == p.prevUsedPos[pos]
      next == p.nextUsedPos[pos]
  IN  [p EXCEPT
         !.firstUsedPos = IF @ = pos THEN next ELSE @,
         !.lastUsedPos  = IF @ = pos THEN prev ELSE @,
         !.nextUsedPos  = [q \in Pos |-> IF q = prev THEN next ELSE p.nextUsedPos[q]]]

UnlinkUsed(p, pos) ==
  LET prev == p.prevUsedPos[pos]
      next == p.nextUsedPos[pos]
  IN  [p EXCEPT
         !.firstUsedPos = IF @ = pos THEN next ELSE @,
         !.lastUsedPos  = IF @ = pos THEN prev ELSE @,
         !.nextUsedPos  = [q \in Pos |-> IF q = prev THEN next ELSE p.nextUsedPos[q]],
         !.prevUsedPos  = [q \in Pos |-> IF q = next THEN prev ELSE p.prevUsedPos[q]]]

MemPoolReleaseBlock(p, pos) == UnlinkUsed(AppendAvail(p, pos), pos)

-----------------------------------------------------------------------------
(* Walking a list from its first block, as memPoolGetUsedNum and           *)
(* memPoolCheck do.  The walk gives up after one block more than the pool  *)
(* holds, so that a cycle shows as a list that is too long.                *)

Walk(first, link) ==
  LET step[n \in 0..BlockNum] ==
        IF n = 0 THEN IF first < 0 THEN <<>> ELSE <<first>>
        ELSE LET s == step[n - 1]
             IN  IF Len(s) < n \/ link[s[n]] < 0 THEN s ELSE Append(s, link[s[n]])
  IN  step[BlockNum]

AvailWalk(p)    == Walk(p.firstAvailPos, p.nextAvailPos)
UsedWalk(p)     == Walk(p.firstUsedPos, p.nextUsedPos)
BackwardWalk(p) == Walk(p.lastUsedPos, p.prevUsedPos)

MemPoolGetUsedNum(p) == Len(UsedWalk(p))

\* memPoolCheck has nothing to complain of.  (It logs a wrong total, but returns an
\* error only for the first of these.)
MemPoolCheck(p) ==
  /\ Len(BackwardWalk(p)) = Len(UsedWalk(p))
  /\ Len(AvailWalk(p)) + Len(UsedWalk(p)) = BlockNum

-----------------------------------------------------------------------------
(* joynetTraverseNode, with a callback that closes the nodes in closing,   *)
(* each when it is called for it.  The next position is read before that.  *)

JoynetGetNextUsedPos(p, pos) ==
  IF pos < 0 THEN p.firstUsedPos ELSE p.nextUsedPos[pos]

JoynetTraverseNode(p, closing) ==
  LET step[n \in 0..BlockNum] ==
        IF n = 0 THEN [tmppos |-> JoynetGetNextUsedPos(p, None), visited |-> <<>>, pool |-> p]
        ELSE LET s == step[n - 1]
             IN  IF s.tmppos < 0 THEN s
                 ELSE [tmppos  |-> JoynetGetNextUsedPos(s.pool, s.tmppos),
                       visited |-> Append(s.visited, s.tmppos),
                       pool    |-> IF s.tmppos \in closing
                                   THEN MemPoolReleaseBlock(s.pool, s.tmppos) ELSE s.pool]
  IN  step[BlockNum]

-----------------------------------------------------------------------------

Init ==
  /\ pool = MemPoolInit
  /\ owned = {}

Alloc ==
  /\ MemPoolAvailable(pool)
  /\ pool' = MemPoolAllocBlock(pool)
  /\ owned' = owned \cup {pool.firstAvailPos}

Release(pos) ==
  /\ pos \in owned
  /\ Releasable(pool, pos)
  /\ pool' = MemPoolReleaseBlock(pool, pos)
  /\ owned' = owned \ {pos}

\* joyClientShakeHand_ closes the node when its send fails, and
\* joyClientConnectTcp closes the same node again before anything else runs.
ReleaseTwice(pos) ==
  LET once == MemPoolReleaseBlock(pool, pos)
  IN  /\ pos \in owned
      /\ Releasable(pool, pos)
      /\ pool' = IF Releasable(once, pos) THEN MemPoolReleaseBlock(once, pos) ELSE once
      /\ owned' = owned \ {pos}

Next ==
  \/ Alloc
  \/ \E pos \in Pos : Release(pos) \/ ReleaseTwice(pos)

Spec == Init /\ [][Next]_vars

-----------------------------------------------------------------------------
(* Properties. *)

\* The links stay positions of the pool or None: no walk of mempool.c reads
\* outside the area.
TypeOK ==
  /\ pool \in PoolType
  /\ owned \subseteq Pos

\* s lists the blocks reached from first by following link, ending in last.
IsList(s, first, last, link) ==
  /\ first = IF Len(s) = 0 THEN None ELSE s[1]
  /\ last = IF Len(s) = 0 THEN None ELSE s[Len(s)]
  /\ \A i \in 1..Len(s) : link[s[i]] = IF i = Len(s) THEN None ELSE s[i + 1]
  /\ \A i, j \in 1..Len(s) : s[i] = s[j] => i = j

IsAvailList(p, s) == IsList(s, p.firstAvailPos, p.lastAvailPos, p.nextAvailPos)

IsUsedList(p, s) ==
  /\ IsList(s, p.firstUsedPos, p.lastUsedPos, p.nextUsedPos)
  /\ \A i \in 1..Len(s) :
       /\ p.prevUsedPos[s[i]] = IF i = 1 THEN None ELSE s[i - 1]
       /\ p.isused[s[i]]

\* Finite lists of positions, none longer than the pool.
PosLists == UNION {[1..n -> Pos] : n \in 0..BlockNum}

\* The two lists are well formed, share no block, lose no block, and the used
\* list holds exactly what the callers hold.  A wrong link anywhere makes a
\* block unreachable or handed out twice, possibly many calls later.
ListsIntact ==
  \E avail \in PosLists :
    /\ IsAvailList(pool, avail)
    /\ \A i \in 1..Len(avail) : avail[i] \notin owned
    /\ \E used \in PosLists :
         /\ IsUsedList(pool, used)
         /\ owned = {used[i] : i \in 1..Len(used)}
         /\ Len(avail) + Len(used) = BlockNum

\* list without the positions in closing.
Remaining(list, closing) ==
  LET upto[n \in 0..Len(list)] ==
        IF n = 0 THEN <<>>
        ELSE IF list[n] \in closing THEN upto[n - 1] ELSE Append(upto[n - 1], list[n])
  IN  upto[Len(list)]

\* memPoolCheck, the pool's own check, finds nothing to report.
MemPoolCheckPasses == MemPoolCheck(pool)

\* The guard on isused does not stop a second release of the same block, yet
\* an immediate one changes nothing: the double close of joyclient.c is safe.
SecondReleaseHarmless ==
  \A pos \in owned :
    LET once == MemPoolReleaseBlock(pool, pos)
    IN  MemPoolReleaseBlock(once, pos) = once

\* A traversal calls back for every open node once, in the order of the used list,
\* whichever nodes close themselves on the way, and leaves the others listed in
\* their order: the list changes under the walk of joynet.c:539.
TraversalVisitsAll ==
  \A closing \in SUBSET owned :
    LET walk == JoynetTraverseNode(pool, closing)
    IN  /\ walk.tmppos = None
        /\ walk.visited = UsedWalk(pool)
        /\ UsedWalk(walk.pool) = Remaining(UsedWalk(pool), closing)

\* The linked lists implement the FIFO pool the callers are written against.
Abstract == INSTANCE PoolSpec
              WITH abstractPool <- [avail |-> AvailWalk(pool), used |-> UsedWalk(pool)]

ImplementsPool == Abstract!Spec

\* What the comment on MemBlockHead.isused says: the flag tells whether the
\* block is in use.  It does not, see Releasable.
IsUsedTellsUse == \A pos \in Pos : pool.isused[pos] <=> pos \in owned

=============================================================================
