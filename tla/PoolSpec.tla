------------------------------ MODULE PoolSpec ------------------------------
(***************************************************************************)
(* What mempool.c promises the code above it: a fixed set of positions,    *)
(* handed out first-in first-out, and the positions in use listed in the   *)
(* order they were handed out.  JoyBlock is built on this interface;       *)
(* MemPool shows that the linked lists of mempool.c implement it.          *)
(***************************************************************************)
EXTENDS Integers, Sequences

CONSTANT BlockNum   \* MemPoolHead.blockNum: how many blocks the pool holds

VARIABLE abstractPool   \* [avail, used]: the two lists of positions

Pos == 0 .. BlockNum - 1

Listed(list) == {list[i] : i \in 1..Len(list)}

InitPool == [avail |-> [i \in 1..BlockNum |-> i - 1], used |-> <<>>]

Available(p) == p.avail # <<>>

AllocPos(p) == Head(p.avail)

AllocBlock(p) ==
  [avail |-> Tail(p.avail), used |-> Append(p.used, Head(p.avail))]

\* list without its k-th element.
Without(list, k) ==
  [i \in 1..Len(list) - 1 |-> IF i < k THEN list[i] ELSE list[i + 1]]

IndexOf(list, pos) == CHOOSE k \in 1..Len(list) : list[k] = pos

\* A released position queues up behind every other one that is available.
ReleaseBlock(p, pos) ==
  [avail |-> Append(p.avail, pos),
   used  |-> Without(p.used, IndexOf(p.used, pos))]

-----------------------------------------------------------------------------

Init == abstractPool = InitPool

Alloc ==
  /\ Available(abstractPool)
  /\ abstractPool' = AllocBlock(abstractPool)

Release ==
  \E pos \in Listed(abstractPool.used) :
    abstractPool' = ReleaseBlock(abstractPool, pos)

Next == Alloc \/ Release

Spec == Init /\ [][Next]_abstractPool

=============================================================================
