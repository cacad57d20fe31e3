---------------------------- MODULE MemPoolProofs ----------------------------
(***************************************************************************)
(* Proofs about MemPool, for every number of blocks.                       *)
(***************************************************************************)
EXTENDS MemPool, DataLemmas

USE DEF Link, None

-----------------------------------------------------------------------------
(* What the two operations do to each field of a well-typed pool. *)

LEMMA AllocType ==
  ASSUME NEW p \in PoolType, MemPoolAvailable(p)
  PROVE  MemPoolAllocBlock(p) \in PoolType
<1>1. p.firstAvailPos \in Pos
  BY DEF MemPoolAvailable, PoolType, Pos
<1>2. TakeAvail(p) \in PoolType
  BY <1>1 DEF TakeAvail, PoolType
<1>3. ASSUME NEW q \in PoolType, NEW pos \in Pos
      PROVE  AppendUsed(q, pos) \in PoolType
  BY DEF AppendUsed, PoolType
<1> QED BY <1>1, <1>2, <1>3 DEF MemPoolAllocBlock

LEMMA ReleaseType ==
  ASSUME NEW p \in PoolType, NEW pos \in Pos
  PROVE  MemPoolReleaseBlock(p, pos) \in PoolType
<1>1. AppendAvail(p, pos) \in PoolType
  BY DEF AppendAvail, PoolType
<1>2. ASSUME NEW q \in PoolType
      PROVE  UnlinkUsed(q, pos) \in PoolType
  BY DEF UnlinkUsed, PoolType
<1> QED BY <1>1, <1>2 DEF MemPoolReleaseBlock

LEMMA AllocFields ==
  ASSUME NEW p \in PoolType, MemPoolAvailable(p)
  PROVE  LET q   == MemPoolAllocBlock(p)
             pos == p.firstAvailPos
             exhausted == pos = p.lastAvailPos
         IN  /\ q.firstAvailPos = IF exhausted THEN None ELSE p.nextAvailPos[pos]
             /\ q.lastAvailPos = IF exhausted THEN None ELSE p.lastAvailPos
             /\ q.nextAvailPos = p.nextAvailPos
             /\ q.firstUsedPos = IF p.firstUsedPos < 0 THEN pos ELSE p.firstUsedPos
             /\ q.lastUsedPos = pos
             /\ q.isused[pos]
             /\ \A b \in Pos : b # pos => q.isused[b] = p.isused[b]
             /\ q.nextUsedPos[pos] = None
             /\ \A b \in Pos : b # pos =>
                  q.nextUsedPos[b] = IF b = p.lastUsedPos THEN pos ELSE p.nextUsedPos[b]
             /\ q.prevUsedPos[pos] = p.lastUsedPos
             /\ \A b \in Pos : b # pos => q.prevUsedPos[b] = p.prevUsedPos[b]
<1>1. p.firstAvailPos \in Pos
  BY DEF MemPoolAvailable, PoolType, Pos
<1> QED BY <1>1 DEF MemPoolAllocBlock, TakeAvail, AppendUsed, PoolType

LEMMA ReleaseFields ==
  ASSUME NEW p \in PoolType, NEW pos \in Pos
  PROVE  LET q    == MemPoolReleaseBlock(p, pos)
             prev == p.prevUsedPos[pos]
             next == p.nextUsedPos[pos]
         IN  /\ q.firstAvailPos = IF p.lastAvailPos = None THEN pos ELSE p.firstAvailPos
             /\ q.lastAvailPos = pos
             /\ q.nextAvailPos[pos] = None
             /\ \A b \in Pos : b # pos =>
                  q.nextAvailPos[b] = IF b = p.lastAvailPos THEN pos ELSE p.nextAvailPos[b]
             /\ q.firstUsedPos = IF p.firstUsedPos = pos THEN next ELSE p.firstUsedPos
             /\ q.lastUsedPos = IF p.lastUsedPos = pos THEN prev ELSE p.lastUsedPos
             /\ q.isused = p.isused
             /\ \A b \in Pos :
                  q.nextUsedPos[b] = IF b = prev THEN next ELSE p.nextUsedPos[b]
             /\ \A b \in Pos :
                  q.prevUsedPos[b] = IF b = next THEN prev ELSE p.prevUsedPos[b]
BY DEF MemPoolReleaseBlock, AppendAvail, UnlinkUsed, PoolType

-----------------------------------------------------------------------------
(* Type correctness. *)

LEMMA NextType == TypeOK /\ [Next]_vars => TypeOK'
<1> SUFFICES ASSUME TypeOK, [Next]_vars PROVE TypeOK'
  OBVIOUS
<1>1. CASE Alloc
  BY <1>1, AllocType DEF Alloc, TypeOK, MemPoolAvailable, PoolType
<1>2. ASSUME NEW pos \in Pos, Release(pos) PROVE TypeOK'
  BY <1>2, ReleaseType DEF Release, TypeOK
<1>3. ASSUME NEW pos \in Pos, ReleaseTwice(pos) PROVE TypeOK'
  BY <1>3, ReleaseType DEF ReleaseTwice, TypeOK
<1>4. CASE UNCHANGED vars
  BY <1>4 DEF vars, TypeOK
<1> QED BY <1>1, <1>2, <1>3, <1>4 DEF Next

LEMMA InitType == Init => TypeOK
BY BlockNumAssumption DEF Init, TypeOK, MemPoolInit, NextBlock, PoolType, Pos

\* Every link of the pool stays inside the pool.
THEOREM TypeCorrect == Spec => []TypeOK
BY InitType, NextType, PTL DEF Spec

-----------------------------------------------------------------------------
(* The lists. *)

\* avail and used are the two lists threaded through p, and used lists own.
Represents(p, avail, used, own) ==
  /\ avail \in PosLists
  /\ used \in PosLists
  /\ IsAvailList(p, avail)
  /\ \A i \in 1..Len(avail) : avail[i] \notin own
  /\ IsUsedList(p, used)
  /\ own = {used[i] : i \in 1..Len(used)}
  /\ Len(avail) + Len(used) = BlockNum

LEMMA PosListsType ==
  ASSUME NEW s \in PosLists
  PROVE  /\ Len(s) \in 0..BlockNum
         /\ s \in [1..Len(s) -> Pos]
<1>1. PICK n \in 0..BlockNum : s \in [1..n -> Pos]
  BY DEF PosLists
<1> QED BY <1>1, BlockNumAssumption

LEMMA PosListsMake ==
  ASSUME NEW n \in 0..BlockNum, NEW s \in [1..n -> Pos]
  PROVE  s \in PosLists /\ Len(s) = n
BY BlockNumAssumption DEF PosLists

LEMMA ListsIntactDef ==
  ListsIntact <=> \E avail, used \in PosLists : Represents(pool, avail, used, owned)
BY DEF ListsIntact, Represents

LEMMA InitRepresents ==
  ASSUME Init
  PROVE  Represents(pool, Abstract!InitPool.avail, Abstract!InitPool.used, owned)
<1> DEFINE avail == [i \in 1..BlockNum |-> i - 1]
           used  == <<>>
<1>1. /\ avail \in PosLists
      /\ Len(avail) = BlockNum
  <2>1. avail \in [1..BlockNum -> Pos]
    BY BlockNumAssumption DEF Pos
  <2> QED BY <2>1, PosListsMake, BlockNumAssumption
<1>2. used \in PosLists /\ Len(used) = 0
  BY PosListsMake, BlockNumAssumption DEF PosLists
<1>3. IsAvailList(pool, avail)
  BY <1>1, BlockNumAssumption
     DEF Init, MemPoolInit, NextBlock, IsAvailList, IsList, Pos
<1>4. IsUsedList(pool, used)
  BY <1>2 DEF Init, MemPoolInit, IsUsedList, IsList
<1>5. Represents(pool, avail, used, owned)
  BY <1>1, <1>2, <1>3, <1>4, BlockNumAssumption DEF Represents, Init
<1> QED BY <1>5 DEF Abstract!InitPool

-----------------------------------------------------------------------------
(* Lists under the three changes the pool makes to them. *)

LEMMA TailPosList ==
  ASSUME NEW s \in PosLists, Len(s) # 0
  PROVE  /\ Tail(s) \in PosLists
         /\ Len(Tail(s)) = Len(s) - 1
         /\ \A i \in 1..Len(s)-1 : Tail(s)[i] = s[i + 1]
<1>1. s \in Seq(Pos) /\ Len(s) \in 1..BlockNum /\ s # <<>>
  BY PosListsType, BlockNumAssumption
<1>2. /\ Tail(s) \in Seq(Pos)
      /\ Len(Tail(s)) = Len(s) - 1
      /\ \A i \in 1..Len(s)-1 : Tail(s)[i] = s[i + 1]
  BY <1>1
<1>3. Tail(s) \in [1..Len(s)-1 -> Pos] /\ Len(s) - 1 \in 0..BlockNum
  <2>1. Tail(s) \in [1..Len(Tail(s)) -> Pos]
    BY <1>2, LenProperties
  <2>2. Len(s) - 1 \in 0..BlockNum
    BY <1>1, BlockNumAssumption
  <2> QED BY <1>2, <2>1, <2>2
<1> QED BY <1>2, <1>3, PosListsMake

LEMMA AppendPosList ==
  ASSUME NEW s \in PosLists, Len(s) < BlockNum, NEW pos \in Pos
  PROVE  /\ Append(s, pos) \in PosLists
         /\ Len(Append(s, pos)) = Len(s) + 1
         /\ \A i \in 1..Len(s) : Append(s, pos)[i] = s[i]
         /\ Append(s, pos)[Len(s) + 1] = pos
<1>1. s \in Seq(Pos) /\ Len(s) \in 0..BlockNum-1
  BY PosListsType, BlockNumAssumption
<1>2. /\ Append(s, pos) \in Seq(Pos)
      /\ Len(Append(s, pos)) = Len(s) + 1
      /\ \A i \in 1..Len(s) : Append(s, pos)[i] = s[i]
      /\ Append(s, pos)[Len(s) + 1] = pos
  BY <1>1
<1>3. Append(s, pos) \in [1..Len(s)+1 -> Pos] /\ Len(s) + 1 \in 0..BlockNum
  <2>1. Append(s, pos) \in [1..Len(Append(s, pos)) -> Pos]
    BY <1>2, LenProperties
  <2>2. Len(s) + 1 \in 0..BlockNum
    BY <1>1, BlockNumAssumption
  <2> QED BY <1>2, <2>1, <2>2
<1> QED BY <1>2, <1>3, PosListsMake

\* The definition of IsList for a list that is not empty.
LEMMA ListFacts ==
  ASSUME NEW s \in PosLists, Len(s) # 0, NEW first, NEW last, NEW link,
         IsList(s, first, last, link)
  PROVE  /\ first = s[1]
         /\ last = s[Len(s)]
         /\ \A i \in 1..Len(s) : link[s[i]] = IF i = Len(s) THEN None ELSE s[i + 1]
         /\ \A i, j \in 1..Len(s) : s[i] = s[j] => i = j
BY DEF IsList

LEMMA DropFirstList ==
  ASSUME NEW s \in PosLists, Len(s) # 0, NEW first, NEW last, NEW link,
         IsList(s, first, last, link)
  PROVE  LET t == Tail(s) IN
         /\ t \in PosLists
         /\ Len(t) = Len(s) - 1
         /\ IsList(t, IF first = last THEN None ELSE link[first],
                      IF first = last THEN None ELSE last, link)
<1> DEFINE n == Len(s)
           t == Tail(s)
<1>1. n \in 1..BlockNum /\ s \in [1..n -> Pos]
  BY PosListsType, BlockNumAssumption
<1>2. t \in PosLists /\ Len(t) = n - 1
  BY TailPosList
<1>3. \A i \in 1..n-1 : t[i] = s[i + 1]
  BY TailPosList
<1>4. /\ first = s[1]
      /\ last = s[n]
      /\ \A i \in 1..n : link[s[i]] = IF i = n THEN None ELSE s[i + 1]
      /\ \A i, j \in 1..n : s[i] = s[j] => i = j
  BY <1>1 DEF IsList
<1> HIDE DEF t, n
<1>5. first = last <=> n = 1
  BY <1>1, <1>4
<1>6. ASSUME NEW i \in 1..n-1
      PROVE  link[t[i]] = IF i = n - 1 THEN None ELSE t[i + 1]
  <2>1. i + 1 \in 1..n /\ link[s[i + 1]] = IF i + 1 = n THEN None ELSE s[i + 2]
    BY <1>1, <1>4
  <2>2. i # n - 1 => t[i + 1] = s[i + 2]
    BY <1>1, <1>3
  <2> QED BY <1>1, <1>3, <2>1, <2>2
<1>7. ASSUME NEW i \in 1..n-1, NEW j \in 1..n-1, t[i] = t[j]
      PROVE  i = j
  <2>1. s[i + 1] = s[j + 1] /\ i + 1 \in 1..n /\ j + 1 \in 1..n
    BY <1>1, <1>3, <1>7
  <2>2. i + 1 = j + 1
    BY <1>4, <2>1
  <2> QED BY <1>1, <2>2
<1>8. n # 1 => t[1] = link[first] /\ t[n - 1] = last
  BY <1>1, <1>3, <1>4
<1>9. IsList(t, IF first = last THEN None ELSE link[first],
                IF first = last THEN None ELSE last, link)
  BY <1>1, <1>2, <1>5, <1>6, <1>7, <1>8 DEF IsList
<1> QED BY <1>2, <1>9 DEF t, n

LEMMA AddLastList ==
  ASSUME NEW s \in PosLists, Len(s) < BlockNum, NEW first, NEW last,
         NEW link, IsList(s, first, last, link),
         NEW pos \in Pos, \A i \in 1..Len(s) : s[i] # pos,
         NEW link2, link2[pos] = None,
         \A b \in Pos : b # pos => link2[b] = IF b = last THEN pos ELSE link[b]
  PROVE  LET t == Append(s, pos) IN
         /\ t \in PosLists
         /\ Len(t) = Len(s) + 1
         /\ IsList(t, IF last = None THEN pos ELSE first, pos, link2)
<1> DEFINE n == Len(s)
           t == Append(s, pos)
<1>1. n \in 0..BlockNum-1 /\ s \in [1..n -> Pos]
  BY PosListsType, BlockNumAssumption
<1>2. t \in PosLists /\ Len(t) = n + 1
  BY AppendPosList
<1>3. /\ \A i \in 1..n : t[i] = s[i] /\ s[i] \in Pos /\ s[i] # pos
      /\ t[n + 1] = pos
  BY <1>1, AppendPosList
<1>4. /\ n = 0 => first = None /\ last = None
      /\ n # 0 => first = s[1] /\ last = s[n]
      /\ \A i \in 1..n : link[s[i]] = IF i = n THEN None ELSE s[i + 1]
      /\ \A i, j \in 1..n : s[i] = s[j] => i = j
  BY <1>1 DEF IsList
<1> HIDE DEF t, n
<1>5. ASSUME NEW i \in 1..n+1
      PROVE  link2[t[i]] = IF i = n + 1 THEN None ELSE t[i + 1]
  <2>1. CASE i = n + 1
    BY <2>1, <1>3
  <2>2. CASE i \in 1..n /\ i = n
    BY <2>2, <1>1, <1>3, <1>4
  <2>3. CASE i \in 1..n /\ i # n
    <3>1. t[i] = s[i] /\ s[i] # last /\ t[i + 1] = s[i + 1]
      BY <2>3, <1>1, <1>3, <1>4
    <3> QED BY <3>1, <2>3, <1>1, <1>3, <1>4
  <2> QED BY <1>1, <2>1, <2>2, <2>3
<1>6. ASSUME NEW i \in 1..n+1, NEW j \in 1..n+1, t[i] = t[j]
      PROVE  i = j
  <2>1. CASE i \in 1..n /\ j \in 1..n
    BY <2>1, <1>3, <1>4, <1>6
  <2>2. CASE i \in 1..n /\ j = n + 1
    BY <2>2, <1>3, <1>6
  <2>3. CASE i = n + 1 /\ j \in 1..n
    BY <2>3, <1>3, <1>6
  <2> QED BY <1>1, <2>1, <2>2, <2>3
<1>7. t[1] = IF last = None THEN pos ELSE first
  <2>1. last = None <=> n = 0
    BY <1>1, <1>3, <1>4 DEF Pos
  <2> QED BY <1>1, <1>2, <1>3, <1>4, <2>1
<1>8. IsList(t, IF last = None THEN pos ELSE first, pos, link2)
  BY <1>1, <1>2, <1>3, <1>5, <1>6, <1>7 DEF IsList
<1> QED BY <1>2, <1>8 DEF t, n

\* prv links each position of s back to the one before it.
BackLinks(s, prv) ==
  \A i \in 1..Len(s) : prv[s[i]] = IF i = 1 THEN None ELSE s[i - 1]

\* nxt2 and prv2 are nxt and prv with pos taken out.
Unlinked(pos, nxt, prv, nxt2, prv2) ==
  /\ \A b \in Pos : nxt2[b] = IF b = prv[pos] THEN nxt[pos] ELSE nxt[b]
  /\ \A b \in Pos : prv2[b] = IF b = nxt[pos] THEN prv[pos] ELSE prv[b]

LEMMA RemoveList ==
  ASSUME NEW s \in PosLists, NEW k \in 1..Len(s), NEW first, NEW last,
         NEW nxt, NEW prv, IsList(s, first, last, nxt), BackLinks(s, prv),
         NEW nxt2, NEW prv2, Unlinked(s[k], nxt, prv, nxt2, prv2)
  PROVE  LET t == Abstract!Without(s, k) IN
         /\ t \in PosLists
         /\ Len(t) = Len(s) - 1
         /\ IsList(t, IF first = s[k] THEN nxt[s[k]] ELSE first,
                      IF last = s[k] THEN prv[s[k]] ELSE last, nxt2)
         /\ BackLinks(t, prv2)
         /\ {t[i] : i \in 1..Len(t)} = {s[i] : i \in 1..Len(s)} \ {s[k]}
<1> DEFINE n == Len(s)
           t == Abstract!Without(s, k)
<1>1. n \in 1..BlockNum /\ s \in [1..n -> Pos] /\ k \in 1..n
  BY PosListsType, BlockNumAssumption
<1>2. t \in PosLists /\ Len(t) = n - 1
  <2>1. n - 1 \in 0..BlockNum /\ t \in [1..n-1 -> Pos]
    BY <1>1, BlockNumAssumption DEF Abstract!Without
  <2> QED BY <2>1, PosListsMake
<1>3. \A i \in 1..n-1 : t[i] = IF i < k THEN s[i] ELSE s[i + 1]
  BY <1>1 DEF Abstract!Without
<1>4. /\ first = s[1]
      /\ last = s[n]
      /\ \A i \in 1..n : nxt[s[i]] = IF i = n THEN None ELSE s[i + 1]
      /\ \A i \in 1..n : prv[s[i]] = IF i = 1 THEN None ELSE s[i - 1]
      /\ \A i, j \in 1..n : s[i] = s[j] => i = j
      /\ \A i \in 1..n : s[i] \in Pos /\ s[i] # None
  <2>1. \A i \in 1..n : s[i] \in Pos /\ s[i] # None
    BY <1>1 DEF Pos
  <2>2. /\ first = s[1]
        /\ last = s[n]
        /\ \A i \in 1..n : nxt[s[i]] = IF i = n THEN None ELSE s[i + 1]
        /\ \A i, j \in 1..n : s[i] = s[j] => i = j
    <3>1. s \in PosLists /\ Len(s) # 0 /\ IsList(s, first, last, nxt)
      BY <1>1
    <3> HIDE DEF n
    <3> QED BY ONLY <3>1, ListFacts DEF n
  <2> QED BY <2>1, <2>2 DEF BackLinks
<1> HIDE DEF t, n
<1>5. /\ \A i \in 1..n : s[i] = prv[s[k]] <=> i = k - 1
      /\ \A i \in 1..n : s[i] = nxt[s[k]] <=> i = k + 1
  BY <1>1, <1>4
<1>6. /\ \A i \in 1..n : nxt2[s[i]] = IF i = k - 1 THEN nxt[s[k]] ELSE nxt[s[i]]
      /\ \A i \in 1..n : prv2[s[i]] = IF i = k + 1 THEN prv[s[k]] ELSE prv[s[i]]
  BY <1>4, <1>5 DEF Unlinked
<1>7. ASSUME NEW i \in 1..n-1
      PROVE  /\ nxt2[t[i]] = IF i = n - 1 THEN None ELSE t[i + 1]
             /\ prv2[t[i]] = IF i = 1 THEN None ELSE t[i - 1]
  <2>1. i \in 1..n /\ i + 1 \in 1..n
    BY <1>1
  <2>2. i # n - 1 => t[i + 1] = IF i + 1 < k THEN s[i + 1] ELSE s[i + 2]
    BY <1>1, <1>3
  <2>3. i # 1 => t[i - 1] = IF i - 1 < k THEN s[i - 1] ELSE s[i]
    BY <1>1, <1>3
  <2>4. CASE i < k
    <3>1. t[i] = s[i]
      BY <2>4, <1>3
    <3>2. nxt2[s[i]] = IF i = k - 1 THEN nxt[s[k]] ELSE s[i + 1]
      BY <1>1, <1>4, <1>6, <2>1, <2>4
    <3>3. nxt[s[k]] = IF k = n THEN None ELSE s[k + 1]
      BY <1>1, <1>4
    <3>4. prv2[s[i]] = IF i = 1 THEN None ELSE s[i - 1]
      BY <1>1, <1>4, <1>6, <2>1, <2>4
    <3> QED BY <1>1, <2>2, <2>3, <2>4, <3>1, <3>2, <3>3, <3>4
  <2>5. CASE i >= k
    <3>1. t[i] = s[i + 1]
      BY <2>5, <1>1, <1>3
    <3>2. nxt2[s[i + 1]] = IF i + 1 = n THEN None ELSE s[i + 2]
      BY <1>1, <1>4, <1>6, <2>1, <2>5
    <3>3. prv2[s[i + 1]] = IF i = k THEN prv[s[k]] ELSE s[i]
      BY <1>1, <1>4, <1>6, <2>1, <2>5
    <3>4. prv[s[k]] = IF k = 1 THEN None ELSE s[k - 1]
      BY <1>1, <1>4
    <3> QED BY <1>1, <2>2, <2>3, <2>5, <3>1, <3>2, <3>3, <3>4
  <2> QED BY <1>1, <2>4, <2>5
<1>8. ASSUME NEW i \in 1..n-1, NEW j \in 1..n-1, t[i] = t[j]
      PROVE  i = j
  <2>1. i \in 1..n /\ i + 1 \in 1..n /\ j \in 1..n /\ j + 1 \in 1..n
    BY <1>1
  <2>2. CASE i < k /\ j < k
    BY <2>1, <2>2, <1>3, <1>4, <1>8
  <2>3. CASE i < k /\ j >= k
    BY <2>1, <2>3, <1>1, <1>3, <1>4, <1>8
  <2>4. CASE i >= k /\ j < k
    BY <2>1, <2>4, <1>1, <1>3, <1>4, <1>8
  <2>5. CASE i >= k /\ j >= k
    BY <2>1, <2>5, <1>1, <1>3, <1>4, <1>8
  <2> QED BY <1>1, <2>2, <2>3, <2>4, <2>5
<1>9. n - 1 = 0 => nxt[s[k]] = None /\ prv[s[k]] = None /\ first = s[k] /\ last = s[k]
  BY <1>1, <1>4
<1>10. n - 1 # 0 => t[1] = IF first = s[k] THEN nxt[s[k]] ELSE first
  <2>1. first = s[k] <=> k = 1
    BY <1>1, <1>4
  <2>2. nxt[s[k]] = IF k = n THEN None ELSE s[k + 1]
    BY <1>1, <1>4
  <2> QED BY <1>1, <1>3, <1>4, <2>1, <2>2
<1>11. n - 1 # 0 => t[n - 1] = IF last = s[k] THEN prv[s[k]] ELSE last
  <2>1. last = s[k] <=> k = n
    BY <1>1, <1>4
  <2>2. prv[s[k]] = IF k = 1 THEN None ELSE s[k - 1]
    BY <1>1, <1>4
  <2> QED BY <1>1, <1>3, <1>4, <2>1, <2>2
<1>12. IsList(t, IF first = s[k] THEN nxt[s[k]] ELSE first,
                 IF last = s[k] THEN prv[s[k]] ELSE last, nxt2)
  BY <1>1, <1>2, <1>7, <1>8, <1>9, <1>10, <1>11 DEF IsList
<1>13. {t[i] : i \in 1..n-1} = {s[i] : i \in 1..n} \ {s[k]}
  <2>1. ASSUME NEW i \in 1..n-1
        PROVE  \E j \in 1..n : t[i] = s[j] /\ j # k
    <3>1. CASE i < k
      BY <3>1, <1>1, <1>3
    <3>2. CASE i >= k
      <4>1. i + 1 \in 1..n /\ i + 1 # k /\ t[i] = s[i + 1]
        BY <3>2, <1>1, <1>3
      <4> QED BY <4>1
    <3> QED BY <1>1, <3>1, <3>2
  <2>2. ASSUME NEW j \in 1..n, j # k
        PROVE  \E i \in 1..n-1 : t[i] = s[j]
    <3>1. CASE j < k
      <4>1. j \in 1..n-1 /\ t[j] = s[j]
        BY <3>1, <1>1, <1>3
      <4> QED BY <4>1
    <3>2. CASE j > k
      <4>1. j - 1 \in 1..n-1 /\ t[j - 1] = s[j]
        BY <3>2, <1>1, <1>3
      <4> QED BY <4>1
    <3> QED BY <2>2, <1>1, <3>1, <3>2
  <2>3. \A j \in 1..n : s[j] = s[k] <=> j = k
    BY <1>1, <1>4
  <2> DEFINE T == {t[i] : i \in 1..n-1}
             S == {s[i] : i \in 1..n}
  <2>4. ASSUME NEW x \in T PROVE x \in S \ {s[k]}
    BY <2>1, <2>3
  <2>5. ASSUME NEW x \in S \ {s[k]} PROVE x \in T
    BY <2>2
  <2> HIDE DEF T, S
  <2>6. T = S \ {s[k]}
    BY <2>4, <2>5
  <2> QED BY <2>6 DEF T, S
<1>14. BackLinks(t, prv2)
  BY <1>2, <1>7 DEF BackLinks
<1> QED BY <1>2, <1>12, <1>13, <1>14 DEF t, n

-----------------------------------------------------------------------------
(* A step of the pool is a step on the lists it represents. *)

LEMMA AllocRepresents ==
  ASSUME NEW p \in PoolType, MemPoolAvailable(p),
         NEW avail, NEW used, NEW own, Represents(p, avail, used, own)
  PROVE  LET pos == p.firstAvailPos IN
         /\ avail # <<>> /\ pos = Head(avail)
         /\ Represents(MemPoolAllocBlock(p), Tail(avail), Append(used, pos),
                       own \cup {pos})
<1> DEFINE pos == p.firstAvailPos
           q   == MemPoolAllocBlock(p)
           t   == Tail(avail)
           u   == Append(used, pos)
<1>1. pos \in Pos
  BY DEF MemPoolAvailable, PoolType, Pos
<1>2. /\ avail \in PosLists /\ used \in PosLists
      /\ Len(avail) \in 0..BlockNum /\ Len(used) \in 0..BlockNum
      /\ Len(avail) + Len(used) = BlockNum
  BY PosListsType DEF Represents
<1>3. /\ IsList(avail, pos, p.lastAvailPos, p.nextAvailPos)
      /\ IsList(used, p.firstUsedPos, p.lastUsedPos, p.nextUsedPos)
  BY DEF Represents, IsAvailList, IsUsedList
<1>4. Len(avail) # 0
  BY <1>1, <1>3 DEF IsList, Pos
<1>5. pos = avail[1] /\ 1 \in 1..Len(avail)
  BY <1>2, <1>3, <1>4, ListFacts
<1>6. \A i \in 1..Len(used) : used[i] # pos
  BY <1>5 DEF Represents
<1>7. Len(used) < BlockNum
  BY <1>2, <1>4
<1>8. /\ t \in PosLists
      /\ Len(t) = Len(avail) - 1
      /\ IsAvailList(q, t)
  <2>1. /\ t \in PosLists
        /\ Len(t) = Len(avail) - 1
        /\ IsList(t, IF pos = p.lastAvailPos THEN None ELSE p.nextAvailPos[pos],
                     IF pos = p.lastAvailPos THEN None ELSE p.lastAvailPos,
                     p.nextAvailPos)
    BY <1>2, <1>3, <1>4, DropFirstList
  <2>2. /\ q.firstAvailPos = IF pos = p.lastAvailPos THEN None ELSE p.nextAvailPos[pos]
        /\ q.lastAvailPos = IF pos = p.lastAvailPos THEN None ELSE p.lastAvailPos
        /\ q.nextAvailPos = p.nextAvailPos
    BY AllocFields
  <2> QED BY <2>1, <2>2 DEF IsAvailList
<1>9. /\ u \in PosLists
      /\ Len(u) = Len(used) + 1
      /\ \A i \in 1..Len(used) : u[i] = used[i]
      /\ u[Len(used) + 1] = pos
  BY <1>1, <1>2, <1>7, AppendPosList
<1>10. /\ q.nextUsedPos[pos] = None
       /\ \A b \in Pos : b # pos =>
            q.nextUsedPos[b] = IF b = p.lastUsedPos THEN pos ELSE p.nextUsedPos[b]
       /\ q.firstUsedPos = IF p.firstUsedPos < 0 THEN pos ELSE p.firstUsedPos
       /\ q.lastUsedPos = pos
       /\ q.prevUsedPos[pos] = p.lastUsedPos
       /\ \A b \in Pos : b # pos => q.prevUsedPos[b] = p.prevUsedPos[b]
       /\ q.isused[pos]
       /\ \A b \in Pos : b # pos => q.isused[b] = p.isused[b]
  BY AllocFields
<1> HIDE DEF pos, q, t, u
<1>11. \A i \in 1..Len(used) : used[i] \in Pos
  BY <1>2, PosListsType
<1>12. p.firstUsedPos < 0 <=> p.lastUsedPos = None
  BY <1>2, <1>3, <1>11 DEF IsList, Pos
<1>13. IsList(u, q.firstUsedPos, q.lastUsedPos, q.nextUsedPos)
  <2>1. IsList(u, IF p.lastUsedPos = None THEN pos ELSE p.firstUsedPos, pos, q.nextUsedPos)
    BY <1>1, <1>2, <1>3, <1>6, <1>7, <1>10, AddLastList DEF u
  <2> QED BY <2>1, <1>10, <1>12
<1>14. ASSUME NEW i \in 1..Len(u)
       PROVE  q.prevUsedPos[u[i]] = (IF i = 1 THEN None ELSE u[i - 1]) /\ q.isused[u[i]]
  <2>1. p.lastUsedPos = IF Len(used) = 0 THEN None ELSE used[Len(used)]
    BY <1>3 DEF IsList
  <2>2. CASE i = Len(used) + 1
    BY <2>1, <2>2, <1>2, <1>9, <1>10
  <2>3. CASE i \in 1..Len(used)
    <3>1. p.prevUsedPos[used[i]] = (IF i = 1 THEN None ELSE used[i - 1]) /\ p.isused[used[i]]
      BY <2>3 DEF Represents, IsUsedList
    <3>2. used[i] \in Pos /\ used[i] # pos /\ u[i] = used[i]
      BY <2>3, <1>6, <1>9, <1>11
    <3>3. i # 1 => u[i - 1] = used[i - 1]
      BY <2>3, <1>2, <1>9
    <3> QED BY <3>1, <3>2, <3>3, <1>10
  <2> QED BY <2>2, <2>3, <1>2, <1>9
<1>15. \A i \in 1..Len(t) : t[i] \notin own \cup {pos}
  <2> SUFFICES ASSUME NEW i \in 1..Len(t) PROVE t[i] \notin own \cup {pos}
    OBVIOUS
  <2>1. t[i] = avail[i + 1] /\ i + 1 \in 1..Len(avail) /\ i + 1 # 1
    BY <1>2, <1>4, <1>8, TailPosList DEF t
  <2>2. avail[i + 1] # avail[1]
    BY <2>1, <1>2, <1>3, <1>4, <1>5, ListFacts
  <2> QED BY <2>1, <2>2, <1>5 DEF Represents
<1>16. own \cup {pos} = {u[i] : i \in 1..Len(u)}
  <2>1. own = {used[i] : i \in 1..Len(used)}
    BY DEF Represents
  <2>2. \A i \in 1..Len(u) : u[i] \in own \cup {pos}
    BY <2>1, <1>2, <1>9
  <2>3. \A i \in 1..Len(used) : i \in 1..Len(u) /\ used[i] = u[i]
    BY <1>2, <1>9
  <2>4. Len(used) + 1 \in 1..Len(u)
    BY <1>2, <1>9
  <2> QED BY <2>1, <2>2, <2>3, <2>4, <1>9
<1>17. Represents(q, t, u, own \cup {pos})
  BY <1>2, <1>8, <1>9, <1>13, <1>14, <1>15, <1>16 DEF Represents, IsUsedList
<1>18. avail # <<>> /\ pos = Head(avail)
  <2>1. avail \in Seq(Pos)
    BY <1>2, PosListsType
  <2> QED BY <2>1, <1>4, <1>5
<1> QED BY <1>17, <1>18 DEF pos, q, t, u

LEMMA ReleaseRepresents ==
  ASSUME NEW p \in PoolType, NEW avail, NEW used, NEW own,
         Represents(p, avail, used, own), NEW k \in 1..Len(used)
  PROVE  Represents(MemPoolReleaseBlock(p, used[k]), Append(avail, used[k]),
                    Abstract!Without(used, k), own \ {used[k]})
<1> DEFINE pos == used[k]
           q   == MemPoolReleaseBlock(p, pos)
           t   == Append(avail, pos)
           u   == Abstract!Without(used, k)
<1>1. /\ avail \in PosLists /\ used \in PosLists
      /\ Len(avail) \in 0..BlockNum /\ Len(used) \in 0..BlockNum
      /\ Len(avail) + Len(used) = BlockNum
      /\ \A i \in 1..Len(used) : used[i] \in Pos
      /\ \A i \in 1..Len(avail) : avail[i] \in Pos
  BY PosListsType DEF Represents
<1>2. pos \in Pos
  BY <1>1
<1>3. /\ IsList(avail, p.firstAvailPos, p.lastAvailPos, p.nextAvailPos)
      /\ IsList(used, p.firstUsedPos, p.lastUsedPos, p.nextUsedPos)
      /\ \A i \in 1..Len(used) : p.prevUsedPos[used[i]] = IF i = 1 THEN None ELSE used[i - 1]
      /\ \A i \in 1..Len(used) : p.isused[used[i]]
  BY DEF Represents, IsAvailList, IsUsedList
<1>4. own = {used[i] : i \in 1..Len(used)}
  BY DEF Represents
<1>5. Len(avail) < BlockNum
  BY <1>1
<1>6. \A i \in 1..Len(avail) : avail[i] # pos /\ avail[i] \notin own
  BY <1>4 DEF Represents
<1>7. /\ q.firstAvailPos = IF p.lastAvailPos = None THEN pos ELSE p.firstAvailPos
      /\ q.lastAvailPos = pos
      /\ q.nextAvailPos[pos] = None
      /\ \A b \in Pos : b # pos =>
           q.nextAvailPos[b] = IF b = p.lastAvailPos THEN pos ELSE p.nextAvailPos[b]
      /\ q.firstUsedPos = IF p.firstUsedPos = pos THEN p.nextUsedPos[pos] ELSE p.firstUsedPos
      /\ q.lastUsedPos = IF p.lastUsedPos = pos THEN p.prevUsedPos[pos] ELSE p.lastUsedPos
      /\ q.isused = p.isused
      /\ \A b \in Pos : q.nextUsedPos[b] =
           IF b = p.prevUsedPos[pos] THEN p.nextUsedPos[pos] ELSE p.nextUsedPos[b]
      /\ \A b \in Pos : q.prevUsedPos[b] =
           IF b = p.nextUsedPos[pos] THEN p.prevUsedPos[pos] ELSE p.prevUsedPos[b]
  BY <1>2, ReleaseFields
<1> HIDE DEF q
<1>8. /\ t \in PosLists
      /\ Len(t) = Len(avail) + 1
      /\ IsAvailList(q, t)
  <2>1. /\ t \in PosLists
        /\ Len(t) = Len(avail) + 1
        /\ IsList(t, IF p.lastAvailPos = None THEN pos ELSE p.firstAvailPos, pos,
                     q.nextAvailPos)
    <3>1. /\ avail \in PosLists /\ Len(avail) < BlockNum /\ pos \in Pos
          /\ IsList(avail, p.firstAvailPos, p.lastAvailPos, p.nextAvailPos)
          /\ \A i \in 1..Len(avail) : avail[i] # pos
          /\ q.nextAvailPos[pos] = None
          /\ \A b \in Pos : b # pos =>
               q.nextAvailPos[b] = IF b = p.lastAvailPos THEN pos ELSE p.nextAvailPos[b]
      BY <1>1, <1>2, <1>3, <1>5, <1>6, <1>7
    <3> HIDE DEF pos
    <3> QED BY ONLY <3>1, AddLastList
  <2> QED BY <2>1, <1>7 DEF IsAvailList
<1>9. /\ u \in PosLists
      /\ Len(u) = Len(used) - 1
      /\ IsList(u, q.firstUsedPos, q.lastUsedPos, q.nextUsedPos)
      /\ \A i \in 1..Len(u) : q.prevUsedPos[u[i]] = IF i = 1 THEN None ELSE u[i - 1]
      /\ {u[i] : i \in 1..Len(u)} = {used[i] : i \in 1..Len(used)} \ {pos}
  <2>1. /\ u \in PosLists
        /\ Len(u) = Len(used) - 1
        /\ IsList(u, IF p.firstUsedPos = pos THEN p.nextUsedPos[pos] ELSE p.firstUsedPos,
                     IF p.lastUsedPos = pos THEN p.prevUsedPos[pos] ELSE p.lastUsedPos,
                     q.nextUsedPos)
        /\ BackLinks(u, q.prevUsedPos)
        /\ {u[i] : i \in 1..Len(u)} = {used[i] : i \in 1..Len(used)} \ {pos}
    <3>1. /\ used \in PosLists /\ k \in 1..Len(used)
          /\ IsList(used, p.firstUsedPos, p.lastUsedPos, p.nextUsedPos)
          /\ BackLinks(used, p.prevUsedPos)
          /\ Unlinked(used[k], p.nextUsedPos, p.prevUsedPos, q.nextUsedPos, q.prevUsedPos)
      BY <1>1, <1>3, <1>7 DEF BackLinks, Unlinked
    <3> QED BY ONLY <3>1, RemoveList
  <2> QED BY <2>1, <1>7 DEF BackLinks
<1>10. \A i \in 1..Len(u) : q.isused[u[i]]
  <2> SUFFICES ASSUME NEW i \in 1..Len(u) PROVE q.isused[u[i]]
    OBVIOUS
  <2>1. u[i] \in {used[j] : j \in 1..Len(used)}
    BY <1>9
  <2> QED BY <2>1, <1>3, <1>7
<1>11. \A i \in 1..Len(t) : t[i] \notin own \ {pos}
  <2>1. /\ \A i \in 1..Len(avail) : t[i] = avail[i]
        /\ t[Len(avail) + 1] = pos
    BY <1>1, <1>2, <1>5, AppendPosList
  <2> QED BY <2>1, <1>1, <1>6, <1>8
<1>12. Len(t) + Len(u) = BlockNum
  BY <1>1, <1>8, <1>9
<1>13. own \ {pos} = {u[i] : i \in 1..Len(u)}
  BY <1>4, <1>9
<1> HIDE DEF pos, t, u
<1>14. Represents(q, t, u, own \ {pos})
  BY <1>8, <1>9, <1>10, <1>11, <1>12, <1>13 DEF Represents, IsUsedList
<1> QED BY <1>14 DEF pos, q, t, u

\* Two pools with the same fields are the same pool.
LEMMA PoolExtensionality ==
  ASSUME NEW p \in PoolType, NEW q \in PoolType,
         p.firstAvailPos = q.firstAvailPos, p.lastAvailPos = q.lastAvailPos,
         p.firstUsedPos = q.firstUsedPos, p.lastUsedPos = q.lastUsedPos,
         p.isused = q.isused,
         \A b \in Pos : p.nextAvailPos[b] = q.nextAvailPos[b],
         \A b \in Pos : p.nextUsedPos[b] = q.nextUsedPos[b],
         \A b \in Pos : p.prevUsedPos[b] = q.prevUsedPos[b]
  PROVE  p = q
<1>1. p.nextAvailPos = q.nextAvailPos
  BY DEF PoolType
<1>2. p.nextUsedPos = q.nextUsedPos
  BY DEF PoolType
<1>3. p.prevUsedPos = q.prevUsedPos
  BY DEF PoolType
<1> QED BY <1>1, <1>2, <1>3 DEF PoolType

\* No used block is its own neighbour, so releasing it again finds every link
\* already where it would put it.
LEMMA ReleaseAgain ==
  ASSUME NEW p \in PoolType, NEW avail, NEW used, NEW own,
         Represents(p, avail, used, own), NEW pos \in own
  PROVE  LET once == MemPoolReleaseBlock(p, pos)
         IN  MemPoolReleaseBlock(once, pos) = once
<1> DEFINE q == MemPoolReleaseBlock(p, pos)
           r == MemPoolReleaseBlock(q, pos)
           prev == p.prevUsedPos[pos]
           next == p.nextUsedPos[pos]
<1>1. PICK k \in 1..Len(used) : pos = used[k]
  BY DEF Represents
<1>2. used \in PosLists /\ Len(used) \in 1..BlockNum /\ k \in 1..Len(used) /\ pos \in Pos
  BY <1>1, PosListsType DEF Represents
<1>3. pos # prev /\ pos # next
  <2>1. /\ \A i \in 1..Len(used) : p.nextUsedPos[used[i]] =
             IF i = Len(used) THEN None ELSE used[i + 1]
        /\ \A i, j \in 1..Len(used) : used[i] = used[j] => i = j
    BY <1>2, ListFacts DEF Represents, IsUsedList
  <2>2. prev = IF k = 1 THEN None ELSE used[k - 1]
    BY <1>1, <1>2 DEF Represents, IsUsedList
  <2>3. pos # None
    BY <1>2 DEF Pos
  <2>4. next = IF k = Len(used) THEN None ELSE used[k + 1]
    BY <2>1, <1>1
  <2>5. k # 1 => used[k - 1] # used[k]
    BY <2>1, <1>2
  <2>6. k # Len(used) => used[k + 1] # used[k]
    BY <2>1, <1>2
  <2> QED BY <2>2, <2>3, <2>4, <2>5, <2>6, <1>1
<1>4. q \in PoolType /\ r \in PoolType
  BY <1>2, ReleaseType
<1>5. /\ q.firstAvailPos = IF p.lastAvailPos = None THEN pos ELSE p.firstAvailPos
      /\ q.lastAvailPos = pos
      /\ q.nextAvailPos[pos] = None
      /\ q.firstUsedPos = IF p.firstUsedPos = pos THEN next ELSE p.firstUsedPos
      /\ q.lastUsedPos = IF p.lastUsedPos = pos THEN prev ELSE p.lastUsedPos
      /\ \A b \in Pos : q.nextUsedPos[b] = IF b = prev THEN next ELSE p.nextUsedPos[b]
      /\ \A b \in Pos : q.prevUsedPos[b] = IF b = next THEN prev ELSE p.prevUsedPos[b]
  BY <1>2, ReleaseFields
<1>6. q.prevUsedPos[pos] = prev /\ q.nextUsedPos[pos] = next
  BY <1>2, <1>3, <1>5
<1> HIDE DEF q, prev, next
<1>7. /\ r.firstAvailPos = IF q.lastAvailPos = None THEN pos ELSE q.firstAvailPos
      /\ r.lastAvailPos = pos
      /\ r.nextAvailPos[pos] = None
      /\ \A b \in Pos : b # pos =>
           r.nextAvailPos[b] = IF b = q.lastAvailPos THEN pos ELSE q.nextAvailPos[b]
      /\ r.firstUsedPos = IF q.firstUsedPos = pos THEN q.nextUsedPos[pos] ELSE q.firstUsedPos
      /\ r.lastUsedPos = IF q.lastUsedPos = pos THEN q.prevUsedPos[pos] ELSE q.lastUsedPos
      /\ r.isused = q.isused
      /\ \A b \in Pos : r.nextUsedPos[b] =
           IF b = q.prevUsedPos[pos] THEN q.nextUsedPos[pos] ELSE q.nextUsedPos[b]
      /\ \A b \in Pos : r.prevUsedPos[b] =
           IF b = q.nextUsedPos[pos] THEN q.prevUsedPos[pos] ELSE q.prevUsedPos[b]
  BY <1>2, <1>4, ReleaseFields
<1> HIDE DEF r
<1>8. /\ r.firstAvailPos = q.firstAvailPos /\ r.lastAvailPos = q.lastAvailPos
      /\ r.firstUsedPos = q.firstUsedPos /\ r.lastUsedPos = q.lastUsedPos
      /\ r.isused = q.isused
  BY <1>2, <1>3, <1>5, <1>7 DEF Pos
<1>9. \A b \in Pos : r.nextAvailPos[b] = q.nextAvailPos[b]
  BY <1>5, <1>7
<1>10. \A b \in Pos : r.nextUsedPos[b] = q.nextUsedPos[b]
  BY <1>5, <1>6, <1>7
<1>11. \A b \in Pos : r.prevUsedPos[b] = q.prevUsedPos[b]
  BY <1>5, <1>6, <1>7
<1> QED BY <1>4, <1>8, <1>9, <1>10, <1>11, PoolExtensionality DEF q, r

-----------------------------------------------------------------------------
(* The theorems. *)

\* a is a state of PoolSpec that the pool's links spell out.
Simulates(p, own, a) == Represents(p, a.avail, a.used, own)

LEMMA AllocSimulates ==
  ASSUME NEW p \in PoolType, MemPoolAvailable(p), NEW own, NEW a, Simulates(p, own, a)
  PROVE  /\ Abstract!Available(a)
         /\ Abstract!AllocPos(a) = p.firstAvailPos
         /\ Simulates(MemPoolAllocBlock(p), own \cup {p.firstAvailPos}, Abstract!AllocBlock(a))
BY AllocRepresents
   DEF Simulates, Abstract!Available, Abstract!AllocPos, Abstract!AllocBlock

LEMMA ReleaseSimulates ==
  ASSUME NEW p \in PoolType, NEW own, NEW a, Simulates(p, own, a), NEW pos \in own
  PROVE  /\ pos \in Abstract!Listed(a.used)
         /\ Simulates(MemPoolReleaseBlock(p, pos), own \ {pos}, Abstract!ReleaseBlock(a, pos))
<1>1. own = {a.used[i] : i \in 1..Len(a.used)}
  BY DEF Simulates, Represents
<1>2. \E k \in 1..Len(a.used) : a.used[k] = pos
  BY <1>1
<1> DEFINE k == Abstract!IndexOf(a.used, pos)
<1>3. k \in 1..Len(a.used) /\ a.used[k] = pos
  BY <1>2 DEF Abstract!IndexOf
<1>4. Represents(MemPoolReleaseBlock(p, a.used[k]), Append(a.avail, a.used[k]),
                 Abstract!Without(a.used, k), own \ {a.used[k]})
  <2> HIDE DEF k
  <2> QED BY <1>3, ReleaseRepresents DEF Simulates
<1> QED BY <1>1, <1>3, <1>4 DEF Simulates, Abstract!ReleaseBlock, Abstract!Listed

LEMMA SimulatesIntact ==
  ListsIntact <=> \E a : Simulates(pool, owned, a)
<1>1. ASSUME NEW avail \in PosLists, NEW used \in PosLists,
             Represents(pool, avail, used, owned)
      PROVE  Simulates(pool, owned, [avail |-> avail, used |-> used])
  BY <1>1 DEF Simulates
<1>2. ASSUME NEW a, Simulates(pool, owned, a)
      PROVE  /\ a.avail \in PosLists /\ a.used \in PosLists
             /\ Represents(pool, a.avail, a.used, owned)
  BY <1>2 DEF Simulates, Represents
<1> QED BY <1>1, <1>2, ListsIntactDef

\* One step of mempool.c, seen on the queues a its links spell out: the code
\* hands out the block at the front of the available queue, queues a released
\* block up behind the others, or leaves both queues alone.
THEOREM StepsFollowQueues ==
  ASSUME TypeOK, Next, NEW a, Simulates(pool, owned, a)
  PROVE  \/ /\ Abstract!Available(a)
            /\ Simulates(pool', owned', Abstract!AllocBlock(a))
         \/ \E pos \in Abstract!Listed(a.used) :
              Simulates(pool', owned', Abstract!ReleaseBlock(a, pos))
<1>1. CASE Alloc
  BY <1>1, AllocSimulates DEF Alloc, TypeOK
<1>2. ASSUME NEW pos \in Pos, Release(pos)
      PROVE  /\ pos \in Abstract!Listed(a.used)
             /\ Simulates(pool', owned', Abstract!ReleaseBlock(a, pos))
  BY <1>2, ReleaseSimulates DEF Release, TypeOK
<1>3. ASSUME NEW pos \in Pos, ReleaseTwice(pos)
      PROVE  /\ pos \in Abstract!Listed(a.used)
             /\ Simulates(pool', owned', Abstract!ReleaseBlock(a, pos))
  <2>1. pool' = MemPoolReleaseBlock(pool, pos)
    <3>1. pos \in owned
      BY <1>3 DEF ReleaseTwice
    <3>2. Represents(pool, a.avail, a.used, owned) /\ pool \in PoolType
      BY DEF Simulates, TypeOK
    <3>3. MemPoolReleaseBlock(MemPoolReleaseBlock(pool, pos), pos) = MemPoolReleaseBlock(pool, pos)
      BY <3>1, <3>2, ReleaseAgain
    <3> QED BY <1>3, <3>3 DEF ReleaseTwice
  <2> QED BY <1>3, <2>1, ReleaseSimulates DEF ReleaseTwice, TypeOK
<1> QED BY <1>1, <1>2, <1>3 DEF Next

\* The inductive invariant: the links are positions and form the two lists.
IInv == TypeOK /\ ListsIntact

LEMMA IInvHolds == Spec => []IInv
<1>1. Init => IInv
  <2> SUFFICES ASSUME Init PROVE ListsIntact
    BY InitType DEF IInv
  <2> QED BY InitRepresents, ListsIntactDef DEF Represents
<1>2. IInv /\ [Next]_vars => IInv'
  <2> SUFFICES ASSUME IInv, [Next]_vars PROVE IInv'
    OBVIOUS
  <2>1. TypeOK'
    BY NextType DEF IInv
  <2>2. CASE Next
    <3>1. PICK a : Simulates(pool, owned, a)
      BY SimulatesIntact DEF IInv
    <3>2. \E b : Simulates(pool', owned', b)
      BY <2>2, <3>1, StepsFollowQueues DEF IInv
    <3>3. ListsIntact'
      BY <3>2 DEF ListsIntact, Simulates, Represents
    <3> QED BY <2>1, <3>3 DEF IInv
  <2>3. CASE UNCHANGED vars
    BY <2>1, <2>3 DEF vars, IInv, ListsIntact
  <2> QED BY <2>2, <2>3
<1> QED BY <1>1, <1>2, PTL DEF Spec

\* No block is ever lost, shared or handed out twice, and the callers hold
\* exactly the used list.
THEOREM ListsStayIntact == Spec => []ListsIntact
<1>1. IInv => ListsIntact
  BY DEF IInv
<1> QED BY <1>1, IInvHolds, PTL

\* The double close of joyclient.c, at once after the first, is a no-op in every
\* reachable pool.
THEOREM SecondReleaseChangesNothing == Spec => []SecondReleaseHarmless
<1>1. IInv => SecondReleaseHarmless
  <2> SUFFICES ASSUME IInv, NEW pos \in owned
               PROVE  LET once == MemPoolReleaseBlock(pool, pos)
                      IN  MemPoolReleaseBlock(once, pos) = once
    BY DEF SecondReleaseHarmless
  <2>1. PICK avail, used \in PosLists : Represents(pool, avail, used, owned)
    BY ListsIntactDef DEF IInv
  <2> QED BY <2>1, ReleaseAgain DEF IInv, TypeOK
<1> QED BY <1>1, IInvHolds, PTL

-----------------------------------------------------------------------------
(* Walking along the lists. *)

\* The walk along the links of a list visits the list.
LEMMA WalkIsList ==
  ASSUME NEW s \in PosLists, NEW first, NEW last, NEW link, IsList(s, first, last, link)
  PROVE  Walk(first, link) = s
<1> DEFINE start == IF first < 0 THEN <<>> ELSE <<first>>
           after(t, n) == IF Len(t) < n \/ link[t[n]] < 0 THEN t ELSE Append(t, link[t[n]])
           Step(f) == [n \in 0..BlockNum |-> IF n = 0 THEN start ELSE after(f[n - 1], n)]
           len(n) == IF n < Len(s) THEN n + 1 ELSE Len(s)
           visited == [n \in 0..BlockNum |-> SubSeq(s, 1, len(n))]
           step == CHOOSE f : f = Step(f)
<1>1. s \in Seq(Pos) /\ Len(s) \in 0..BlockNum /\ BlockNum \in Nat
  BY PosListsType, BlockNumAssumption
<1>2. \A i \in 1..Len(s) : link[s[i]] = IF i = Len(s) THEN None ELSE s[i + 1]
  BY DEF IsList
<1>3. first = IF Len(s) = 0 THEN None ELSE s[1]
  BY DEF IsList
<1>4. \A i \in 1..Len(s) : s[i] \in Pos /\ ~(s[i] < 0)
  BY <1>1 DEF Pos
<1>5. ASSUME NEW n \in 1..BlockNum, NEW t, t = SubSeq(s, 1, len(n - 1))
      PROVE  SubSeq(s, 1, len(n)) = after(t, n)
  <2>1. CASE n > Len(s)
    <3>1. len(n) = Len(s) /\ len(n - 1) = Len(s) /\ Len(s) \in 0..Len(s)
      BY <1>1, <1>5, <2>1
    <3>2. Len(t) = Len(s)
      BY <1>1, <1>5, <3>1, PrefixSeq
    <3> QED BY <1>1, <1>5, <2>1, <3>1, <3>2
  <2>2. CASE n <= Len(s)
    <3>1. len(n - 1) = n /\ n \in 0..Len(s) /\ n \in 1..Len(s) /\ n \in 1..n
      BY <1>1, <1>5, <2>2
    <3> HIDE DEF len
    <3>2. Len(t) = n /\ t[n] = s[n]
      BY <1>1, <1>5, <3>1, PrefixSeq
    <3>3. CASE n = Len(s)
      <4>1. link[t[n]] < 0
        BY <1>2, <3>1, <3>2, <3>3 DEF None
      <4>2. len(n) = n
        BY <3>3 DEF len
      <4> QED BY <1>5, <3>1, <4>1, <4>2
    <3>4. CASE n < Len(s)
      <4>1. link[t[n]] = s[n + 1] /\ ~(s[n + 1] < 0)
        BY <1>1, <1>2, <1>4, <3>1, <3>2, <3>4
      <4>2. len(n) = n + 1 /\ ~(Len(t) < n)
        BY <1>1, <3>1, <3>2, <3>4 DEF len
      <4>3. SubSeq(s, 1, n + 1) = Append(SubSeq(s, 1, n), s[n + 1])
        BY <1>1, <3>1, <3>4, PrefixSeq
      <4>4. t = SubSeq(s, 1, n)
        BY <1>5, <3>1
      <4>5. after(t, n) = Append(t, link[t[n]])
        BY ONLY <4>1, <4>2
      <4> HIDE DEF after
      <4> QED BY <4>1, <4>2, <4>3, <4>4, <4>5
    <3> HIDE DEF after
    <3> QED BY <1>1, <2>2, <3>1, <3>3, <3>4
  <2> HIDE DEF after, len
  <2> QED BY <1>1, <1>5, <2>1, <2>2
<1>6. SubSeq(s, 1, len(0)) = start
  <2>1. CASE Len(s) = 0
    <3>1. first < 0 /\ len(0) = 0
      BY <1>3, <2>1 DEF None
    <3> QED BY <3>1, SubSeqEmpty
  <2>2. CASE Len(s) # 0
    <3>1. ~(first < 0) /\ first = s[1] /\ len(0) = 1 /\ 0 \in 0..Len(s) /\ 0 < Len(s)
      BY <1>1, <1>3, <1>4, <2>2
    <3>2. SubSeq(s, 1, 0 + 1) = Append(SubSeq(s, 1, 0), s[0 + 1])
      BY <1>1, <3>1, PrefixSeq
    <3>3. SubSeq(s, 1, 0) = <<>>
      BY SubSeqEmpty
    <3>4. Append(<<>>, s[1]) = <<s[1]>>
      OBVIOUS
    <3>5. 0 + 1 = 1
      OBVIOUS
    <3>6. SubSeq(s, 1, 1) = <<s[1]>>
      BY <3>2, <3>3, <3>4, <3>5, Zenon
    <3> QED BY <3>1, <3>6
  <2> QED BY <2>1, <2>2
<1> HIDE DEF len, after, start
<1>7. visited = Step(visited)
  <2>1. ASSUME NEW n \in 0..BlockNum
        PROVE  visited[n] = Step(visited)[n]
    <3>1. CASE n = 0
      BY <3>1, <1>6
    <3>2. CASE n # 0
      <4>1. n - 1 \in 0..BlockNum
        BY <3>2, <1>1
      <4>2. visited[n - 1] = SubSeq(s, 1, len(n - 1)) /\ visited[n] = SubSeq(s, 1, len(n))
        BY <4>1
      <4>3. n \in 1..BlockNum
        BY <3>2, <1>1
      <4> HIDE DEF visited
      <4> QED BY <1>5, <3>2, <4>2, <4>3
    <3> QED BY <3>1, <3>2
  <2>2. visited = [n \in 0..BlockNum |-> visited[n]]
    OBVIOUS
  <2>3. Step(visited) = [n \in 0..BlockNum |-> Step(visited)[n]]
    <3> HIDE DEF visited
    <3> QED OBVIOUS
  <2> HIDE DEF visited, Step
  <2> QED BY <2>1, <2>2, <2>3, Zenon
<1>8. step = Step(step)
  <2> HIDE DEF visited, Step
  <2> QED BY <1>7
<1>9. Walk(first, link) = step[BlockNum]
  BY DEF Walk, after, start
<1>13. ASSUME NEW f, f = Step(f), NEW n \in 0..BlockNum-1
      PROVE  n + 1 \in 0..BlockNum /\ f[n + 1] = after(f[n], n + 1)
  <2>1. n + 1 \in 0..BlockNum /\ n + 1 # 0 /\ n + 1 - 1 = n
    BY <1>1
  <2>2. Step(f)[n + 1] = after(f[n + 1 - 1], n + 1)
    BY <2>1
  <2> HIDE DEF Step
  <2> QED BY <1>13, <2>1, <2>2, Zenon
<1> HIDE DEF step
<1>10. 0..BlockNum \subseteq {n \in 0..BlockNum : step[n] = visited[n]}
  <2> DEFINE T == {n \in 0..BlockNum : step[n] = visited[n]}
  <2>1. 0 \in T
    <3>1. step[0] = start
      BY <1>8, <1>1
    <3>2. visited[0] = start
      BY <1>6, <1>1
    <3> HIDE DEF visited
    <3> QED BY <3>1, <3>2, <1>1
  <2>2. ASSUME NEW n \in 0..BlockNum-1, n \in T
        PROVE  n + 1 \in T
    <3> HIDE DEF visited, Step
    <3> QED BY <1>7, <1>8, <1>13, <2>2
  <2> HIDE DEF T
  <2>3. 0 \in Int /\ BlockNum \in Int
    BY <1>1
  <2> QED BY <2>1, <2>2, <2>3, IntervalInduction DEF T
<1>11. step[BlockNum] = visited[BlockNum]
  BY <1>1, <1>10
<1>12. len(BlockNum) = Len(s)
  BY <1>1 DEF len
<1> QED BY <1>1, <1>9, <1>11, <1>12, SubSeqFull

\* The used list from its other end, along the back links.
LEMMA BackwardList ==
  ASSUME NEW p, NEW s \in PosLists, IsUsedList(p, s)
  PROVE  /\ BackwardWalk(p) \in PosLists
         /\ Len(BackwardWalk(p)) = Len(s)
<1> DEFINE n == Len(s)
           t == [i \in 1..n |-> s[n + 1 - i]]
<1>1. n \in 0..BlockNum /\ n \in Nat /\ s \in [1..n -> Pos]
  BY PosListsType, BlockNumAssumption
<1>2. t \in PosLists /\ Len(t) = n
  <2>1. t \in [1..n -> Pos]
    BY <1>1
  <2> HIDE DEF t, n
  <2> QED BY <1>1, <2>1, PosListsMake
<1>3. /\ IsList(s, p.firstUsedPos, p.lastUsedPos, p.nextUsedPos)
      /\ \A i \in 1..n : p.prevUsedPos[s[i]] = IF i = 1 THEN None ELSE s[i - 1]
  BY DEF IsUsedList
<1>4. ASSUME NEW i \in 1..n
      PROVE  /\ t[i] = s[n + 1 - i] /\ n + 1 - i \in 1..n
             /\ p.prevUsedPos[t[i]] = IF i = n THEN None ELSE t[i + 1]
  <2>1. t[i] = s[n + 1 - i] /\ n + 1 - i \in 1..n
    BY <1>1
  <2>2. p.prevUsedPos[t[i]] = IF n + 1 - i = 1 THEN None ELSE s[(n + 1 - i) - 1]
    BY <1>3, <2>1
  <2>3. i # n => t[i + 1] = s[(n + 1 - i) - 1]
    <3>1. i # n => i + 1 \in 1..n /\ n + 1 - (i + 1) = (n + 1 - i) - 1
      <4> HIDE DEF n, t
      <4> QED BY <1>1
    <3> QED BY <3>1
  <2>4. n + 1 - i = 1 <=> i = n
    <3> HIDE DEF n, t
    <3> QED BY <1>1
  <2> QED BY <2>1, <2>2, <2>3, <2>4
<1>5. ASSUME NEW i \in 1..n, NEW j \in 1..n, t[i] = t[j]
      PROVE  i = j
  <2>1. n + 1 - i = n + 1 - j
    BY <1>3, <1>4, <1>5 DEF IsList
  <2> QED BY <1>1, <2>1
<1>6. p.lastUsedPos = IF n = 0 THEN None ELSE t[1]
  <2>1. p.lastUsedPos = IF n = 0 THEN None ELSE s[n]
    BY <1>3 DEF IsList
  <2>2. n # 0 => 1 \in 1..n /\ n + 1 - 1 = n
    BY <1>1
  <2> QED BY <1>4, <2>1, <2>2
<1>7. p.firstUsedPos = IF n = 0 THEN None ELSE t[n]
  <2>1. p.firstUsedPos = IF n = 0 THEN None ELSE s[1]
    BY <1>3 DEF IsList
  <2>2. n # 0 => n \in 1..n /\ n + 1 - n = 1
    BY <1>1
  <2> QED BY <1>4, <2>1, <2>2
<1> HIDE DEF t, n
<1>8. IsList(t, p.lastUsedPos, p.firstUsedPos, p.prevUsedPos)
  BY <1>2, <1>4, <1>5, <1>6, <1>7 DEF IsList
<1>9. BackwardWalk(p) = t
  BY <1>2, <1>8, WalkIsList DEF BackwardWalk
<1> QED BY <1>2, <1>9 DEF n

\* The walks of a pool whose links spell out avail and used visit avail and used.
LEMMA WalksOfLists ==
  ASSUME NEW p, NEW avail, NEW used, NEW own, Represents(p, avail, used, own)
  PROVE  /\ AvailWalk(p) = avail
         /\ UsedWalk(p) = used
         /\ MemPoolCheck(p)
<1>1. AvailWalk(p) = avail
  BY WalkIsList DEF Represents, IsAvailList, AvailWalk
<1>2. UsedWalk(p) = used
  BY WalkIsList DEF Represents, IsUsedList, UsedWalk
<1>3. Len(BackwardWalk(p)) = Len(used)
  BY BackwardList DEF Represents
<1> QED BY <1>1, <1>2, <1>3 DEF Represents, MemPoolCheck

\* The pool's own check finds nothing to report in any reachable pool: the walk
\* along the back links is as long as the one along the forward links, and the
\* two lists together hold every block.
THEOREM MemPoolCheckAlwaysPasses == Spec => []MemPoolCheckPasses
<1>1. IInv => MemPoolCheckPasses
  BY WalksOfLists, ListsIntactDef DEF IInv, MemPoolCheckPasses
<1> QED BY <1>1, IInvHolds, PTL

\* The state of PoolSpec that the walks read off the links.
WalkedPool == [avail |-> AvailWalk(pool), used |-> UsedWalk(pool)]

LEMMA SimulatesWalked ==
  /\ ListsIntact => Simulates(pool, owned, WalkedPool)
  /\ \A avail, used : Simulates(pool, owned, [avail |-> avail, used |-> used])
       => WalkedPool = [avail |-> avail, used |-> used]
<1>1. ASSUME ListsIntact
      PROVE  Simulates(pool, owned, WalkedPool)
  <2>1. PICK avail, used \in PosLists : Represents(pool, avail, used, owned)
    BY <1>1, ListsIntactDef
  <2>2. AvailWalk(pool) = avail /\ UsedWalk(pool) = used
    BY <2>1, WalksOfLists
  <2> QED BY <2>1, <2>2 DEF Simulates, WalkedPool
<1>2. ASSUME NEW avail, NEW used, Simulates(pool, owned, [avail |-> avail, used |-> used])
      PROVE  WalkedPool = [avail |-> avail, used |-> used]
  <2>1. Represents(pool, avail, used, owned)
    BY <1>2 DEF Simulates
  <2> QED BY <2>1, WalksOfLists DEF WalkedPool
<1> QED BY <1>1, <1>2

\* The linked lists implement the FIFO pool of PoolSpec, on which joyblock.c is
\* modelled: with the queues the walks read off the links, the pool starts as
\* PoolSpec does, and every call of mempool.c is a step of PoolSpec or none.
THEOREM PoolIsFIFO == Spec => ImplementsPool
<1>1. Init => Abstract!Init
  <2> SUFFICES ASSUME Init PROVE Abstract!Init
    OBVIOUS
  <2>1. Simulates(pool, owned, Abstract!InitPool)
    BY InitRepresents DEF Simulates, Abstract!InitPool
  <2>2. WalkedPool = Abstract!InitPool
    BY <2>1, SimulatesWalked DEF Abstract!InitPool
  <2> QED BY <2>2 DEF Abstract!Init, WalkedPool
<1>2. IInv /\ IInv' /\ [Next]_vars => [Abstract!Next]_WalkedPool
  <2> SUFFICES ASSUME IInv, IInv', Next \/ UNCHANGED vars
               PROVE  Abstract!Next \/ UNCHANGED WalkedPool
    OBVIOUS
  <2>1. CASE UNCHANGED vars
    BY <2>1 DEF vars, WalkedPool
  <2>2. CASE Next
    <3>1. Simulates(pool, owned, WalkedPool)
      BY SimulatesWalked DEF IInv
    <3>2. \/ /\ Abstract!Available(WalkedPool)
             /\ Simulates(pool', owned', Abstract!AllocBlock(WalkedPool))
          \/ \E pos \in Abstract!Listed(WalkedPool.used) :
               Simulates(pool', owned', Abstract!ReleaseBlock(WalkedPool, pos))
      BY <2>2, <3>1, StepsFollowQueues DEF IInv
    <3>3. ASSUME NEW avail, NEW used, Simulates(pool', owned', [avail |-> avail, used |-> used])
          PROVE  WalkedPool' = [avail |-> avail, used |-> used]
      BY <3>3, WalksOfLists DEF Simulates, WalkedPool, AvailWalk, UsedWalk
    <3> HIDE DEF WalkedPool
    <3> QED BY <3>2, <3>3
            DEF Abstract!Next, Abstract!Alloc, Abstract!Release, WalkedPool,
                Abstract!AllocBlock, Abstract!ReleaseBlock
  <2> QED BY <2>1, <2>2
<1> QED BY <1>1, <1>2, IInvHolds, PTL DEF Spec, ImplementsPool, Abstract!Spec, WalkedPool

-----------------------------------------------------------------------------
(* The traversal of the used list, which changes under the walk. *)

\* Remaining, element by element.
LEMMA RemainingSteps ==
  ASSUME NEW s \in Seq(Pos), NEW closing
  PROVE  \E upto \in [0..Len(s) -> Seq(Pos)] :
           /\ upto[0] = <<>>
           /\ \A n \in 0..Len(s)-1 :
                upto[n + 1] = IF s[n + 1] \in closing THEN upto[n] ELSE Append(upto[n], s[n + 1])
           /\ Remaining(s, closing) = upto[Len(s)]
<1> DEFINE N == Len(s)
           after(t, n) == IF s[n] \in closing THEN t ELSE Append(t, s[n])
           Step(f) == [n \in 0..N |-> IF n = 0 THEN <<>> ELSE after(f[n - 1], n)]
           g == [n \in 1..N |-> [t \in Seq(Pos) |-> after(t, n)]]
           upto == CHOOSE f : f = Step(f)
<1>1. N \in Nat /\ <<>> \in Seq(Pos)
  BY LenProperties
<1>2. ASSUME NEW n \in 1..N, NEW t \in Seq(Pos)
      PROVE  after(t, n) \in Seq(Pos)
  BY <1>1, ElementOfSeq, AppendProperties
<1>3. Remaining(s, closing) = upto[N]
  BY DEF Remaining
<1> HIDE DEF N, after
<1>4. g \in [1..N -> [Seq(Pos) -> Seq(Pos)]]
  BY <1>2
<1>5. PICK f : IsRecursion(f, N, Seq(Pos), <<>>, g)
  <2> HIDE DEF g
  <2> QED BY <1>1, <1>4, RecursionExists
<1>6. /\ f \in [0..N -> Seq(Pos)]
      /\ f[0] = <<>>
      /\ \A n \in 1..N : f[n] = after(f[n - 1], n)
  <2>1. \A n \in 1..N : n - 1 \in 0..N
    BY <1>1
  <2> QED BY <1>5, <2>1 DEF IsRecursion
<1>7. f = Step(f)
  <2>1. \A n \in 0..N : n # 0 => n \in 1..N
    BY <1>1
  <2> QED BY <1>6, <2>1
<1>8. upto = Step(upto)
  <2> HIDE DEF Step
  <2> QED BY <1>7
<1> HIDE DEF upto
<1>9. upto[0] = <<>> /\ \A n \in 1..N : upto[n] = after(upto[n - 1], n)
  BY <1>1, <1>8
<1>10. \A n \in 0..N : upto[n] = f[n]
  <2> DEFINE T == {n \in 0..N : upto[n] = f[n]}
  <2>1. 0 \in T
    BY <1>1, <1>6, <1>9
  <2>2. ASSUME NEW n \in 0..N-1, n \in T
        PROVE  n + 1 \in T
    <3>1. n + 1 \in 1..N /\ n + 1 \in 0..N /\ n + 1 - 1 = n
      BY <1>1
    <3> QED BY <1>6, <1>9, <2>2, <3>1
  <2> HIDE DEF T
  <2>3. 0 \in Int /\ N \in Int
    BY <1>1
  <2>4. 0..N \subseteq T
    BY <2>1, <2>2, <2>3, IntervalInduction
  <2> QED BY <2>4 DEF T
<1>11. upto \in [0..N -> Seq(Pos)]
  <2>1. upto = [n \in 0..N |-> upto[n]]
    BY <1>8
  <2> QED BY <1>6, <1>10, <2>1
<1>12. ASSUME NEW n \in 0..N-1
       PROVE  upto[n + 1] = IF s[n + 1] \in closing THEN upto[n] ELSE Append(upto[n], s[n + 1])
  <2>1. n + 1 \in 1..N /\ n + 1 - 1 = n
    BY <1>1
  <2> QED BY <1>9, <2>1 DEF after
<1> QED BY <1>3, <1>9, <1>11, <1>12 DEF N

\* joynetTraverseNode, node by node.
IsTraversal(step, p, closing) ==
  /\ step[0] = [tmppos |-> p.firstUsedPos, visited |-> <<>>, pool |-> p]
  /\ \A n \in 0..BlockNum-1 :
       LET s == step[n]
       IN  step[n + 1] = IF s.tmppos < 0 THEN s
                         ELSE [tmppos  |-> s.pool.nextUsedPos[s.tmppos],
                               visited |-> Append(s.visited, s.tmppos),
                               pool    |-> IF s.tmppos \in closing
                                           THEN MemPoolReleaseBlock(s.pool, s.tmppos)
                                           ELSE s.pool]
  /\ JoynetTraverseNode(p, closing) = step[BlockNum]

LEMMA TraversalSteps ==
  ASSUME NEW p \in PoolType, NEW closing
  PROVE  \E step : IsTraversal(step, p, closing)
<1> DEFINE N == BlockNum
           S == [tmppos : Link, visited : Seq(Pos), pool : PoolType]
           start == [tmppos |-> JoynetGetNextUsedPos(p, None), visited |-> <<>>, pool |-> p]
           after(s) == IF s.tmppos < 0 THEN s
                       ELSE [tmppos  |-> JoynetGetNextUsedPos(s.pool, s.tmppos),
                             visited |-> Append(s.visited, s.tmppos),
                             pool    |-> IF s.tmppos \in closing
                                         THEN MemPoolReleaseBlock(s.pool, s.tmppos) ELSE s.pool]
           Step(f) == [n \in 0..N |-> IF n = 0 THEN start ELSE after(f[n - 1])]
           g == [n \in 1..N |-> [s \in S |-> after(s)]]
           step == CHOOSE f : f = Step(f)
<1>1. N \in Nat
  BY BlockNumAssumption
<1>2. start = [tmppos |-> p.firstUsedPos, visited |-> <<>>, pool |-> p] /\ start \in S
  BY DEF JoynetGetNextUsedPos, PoolType
<1>3. ASSUME NEW s \in S
      PROVE  after(s) \in S
  <2>1. CASE s.tmppos < 0
    BY <2>1
  <2>2. CASE ~(s.tmppos < 0)
    <3>1. s.tmppos \in Pos /\ s.visited \in Seq(Pos) /\ s.pool \in PoolType
      BY <2>2 DEF Pos
    <3>2. JoynetGetNextUsedPos(s.pool, s.tmppos) \in Link
      BY <2>2, <3>1 DEF JoynetGetNextUsedPos, PoolType
    <3>3. Append(s.visited, s.tmppos) \in Seq(Pos)
      BY <3>1, AppendProperties
    <3>4. MemPoolReleaseBlock(s.pool, s.tmppos) \in PoolType
      BY <3>1, ReleaseType
    <3> QED BY <2>2, <3>1, <3>2, <3>3, <3>4
  <2> QED BY <2>1, <2>2
<1>4. ASSUME NEW s
      PROVE  after(s) = IF s.tmppos < 0 THEN s
                        ELSE [tmppos  |-> s.pool.nextUsedPos[s.tmppos],
                              visited |-> Append(s.visited, s.tmppos),
                              pool    |-> IF s.tmppos \in closing
                                          THEN MemPoolReleaseBlock(s.pool, s.tmppos)
                                          ELSE s.pool]
  BY DEF JoynetGetNextUsedPos
<1>5. JoynetTraverseNode(p, closing) = step[N]
  BY DEF JoynetTraverseNode
<1> HIDE DEF N, S, start, after
<1>6. g \in [1..N -> [S -> S]]
  BY <1>3
<1>7. PICK f : IsRecursion(f, N, S, start, g)
  <2> HIDE DEF g
  <2> QED BY <1>1, <1>2, <1>6, RecursionExists
<1>8. /\ f \in [0..N -> S]
      /\ f[0] = start
      /\ \A n \in 1..N : f[n] = after(f[n - 1])
  <2>1. \A n \in 1..N : n - 1 \in 0..N
    BY <1>1
  <2> QED BY <1>7, <2>1 DEF IsRecursion
<1>9. f = Step(f)
  <2>1. \A n \in 0..N : n # 0 => n \in 1..N
    BY <1>1
  <2> QED BY <1>8, <2>1
<1>10. step = Step(step)
  <2> HIDE DEF Step
  <2> QED BY <1>9
<1> HIDE DEF step
<1>11. step[0] = start /\ \A n \in 1..N : step[n] = after(step[n - 1])
  BY <1>1, <1>10
<1>12. ASSUME NEW n \in 0..N-1
       PROVE  step[n + 1] = after(step[n])
  <2>1. n + 1 \in 1..N /\ n + 1 - 1 = n
    BY <1>1
  <2> QED BY <1>11, <2>1
<1>13. \A n \in 0..BlockNum-1 :
         LET s == step[n]
         IN  step[n + 1] = IF s.tmppos < 0 THEN s
                           ELSE [tmppos  |-> s.pool.nextUsedPos[s.tmppos],
                                 visited |-> Append(s.visited, s.tmppos),
                                 pool    |-> IF s.tmppos \in closing
                                             THEN MemPoolReleaseBlock(s.pool, s.tmppos)
                                             ELSE s.pool]
  BY <1>4, <1>12 DEF N
<1>14. IsTraversal(step, p, closing)
  BY <1>2, <1>5, <1>11, <1>13 DEF N, IsTraversal
<1> QED BY <1>14

\* A traversal of a pool whose links spell out used.
LEMMA TraversalOfLists ==
  ASSUME NEW p \in PoolType, NEW avail, NEW used, NEW own,
         Represents(p, avail, used, own), NEW closing
  PROVE  LET walk == JoynetTraverseNode(p, closing)
         IN  /\ walk.tmppos = None
             /\ walk.visited = used
             /\ UsedWalk(walk.pool) = Remaining(used, closing)
<1> DEFINE K == Len(used)
           rest(n) == SubSeq(used, n + 1, K)
<1>1. /\ used \in Seq(Pos) /\ K \in 0..BlockNum /\ K \in Nat /\ BlockNum \in Nat
      /\ \A i \in 1..K : used[i] \in Pos
  BY PosListsType, BlockNumAssumption DEF Represents
<1>2. PICK kept \in [0..K -> Seq(Pos)] :
        /\ kept[0] = <<>>
        /\ \A n \in 0..K-1 :
             kept[n + 1] = IF used[n + 1] \in closing THEN kept[n] ELSE Append(kept[n], used[n + 1])
        /\ Remaining(used, closing) = kept[K]
  BY <1>1, RemainingSteps
<1>13. PICK step : IsTraversal(step, p, closing)
  BY TraversalSteps
<1>3. /\ step[0] = [tmppos |-> p.firstUsedPos, visited |-> <<>>, pool |-> p]
      /\ \A n \in 0..BlockNum-1 :
           LET s == step[n]
           IN  step[n + 1] = IF s.tmppos < 0 THEN s
                             ELSE [tmppos  |-> s.pool.nextUsedPos[s.tmppos],
                                   visited |-> Append(s.visited, s.tmppos),
                                   pool    |-> IF s.tmppos \in closing
                                               THEN MemPoolReleaseBlock(s.pool, s.tmppos)
                                               ELSE s.pool]
      /\ JoynetTraverseNode(p, closing) = step[BlockNum]
  BY <1>13 DEF IsTraversal
<1> HIDE DEF K
<1> DEFINE Inv(m, s) ==
             /\ s.tmppos = IF m < K THEN used[m + 1] ELSE None
             /\ s.visited = SubSeq(used, 1, m)
             /\ s.pool \in PoolType
             /\ \E av, ow : Represents(s.pool, av, kept[m] \o rest(m), ow)
           done(n) == IF n < K THEN n ELSE K
           T == {n \in 0..BlockNum : Inv(done(n), step[n])}
<1>4. Inv(0, step[0])
  <2>1. kept[0] \o rest(0) = used
    <3>1. rest(0) = used
      BY <1>1, SubSeqFull DEF K
    <3> QED BY <1>1, <1>2, <3>1, ConcatEmptySeq
  <2>2. p.firstUsedPos = IF 0 < K THEN used[1] ELSE None
    <3>1. p.firstUsedPos = IF K = 0 THEN None ELSE used[1]
      BY DEF Represents, IsUsedList, IsList, K
    <3> QED BY <1>1, <3>1
  <2>3. SubSeq(used, 1, 0) = <<>>
    BY SubSeqEmpty
  <2>4. 0 + 1 = 1
    OBVIOUS
  <2>5. Represents(p, avail, kept[0] \o rest(0), own)
    BY <2>1
  <2>6. step[0].tmppos = p.firstUsedPos /\ step[0].visited = <<>> /\ step[0].pool = p
    BY <1>3
  <2> HIDE DEF rest
  <2> QED BY <2>2, <2>3, <2>4, <2>5, <2>6
<1>5. ASSUME NEW n \in 0..K-1, NEW s, Inv(n, s)
      PROVE  Inv(n + 1, [tmppos  |-> s.pool.nextUsedPos[s.tmppos],
                         visited |-> Append(s.visited, s.tmppos),
                         pool    |-> IF s.tmppos \in closing
                                     THEN MemPoolReleaseBlock(s.pool, s.tmppos)
                                     ELSE s.pool])
  <2> DEFINE x == used[n + 1]
             a == kept[n]
             A == Len(a)
             u == a \o rest(n)
             v == a \o rest(n + 1)
             q == IF x \in closing THEN MemPoolReleaseBlock(s.pool, x) ELSE s.pool
  <2>1. n \in 0..K /\ n + 1 \in 0..K /\ n + 1 \in 1..K /\ n + 1 - 1 = n /\ n \in Nat /\ n < K
        /\ n + 1 + 1 = n + 2
    BY <1>1
  <2>2. s.tmppos = x /\ x \in Pos
    BY <1>1, <1>5, <2>1
  <2>3. a \in Seq(Pos) /\ A \in Nat
    BY <1>2, <2>1, LenProperties
  <2>4. /\ u \in Seq(Pos) /\ v \in Seq(Pos)
        /\ A + 1 \in 1..Len(u)
        /\ Len(u) = A + K - n
        /\ Len(v) = Len(u) - 1
        /\ u[A + 1] = x
        /\ n + 1 < K => u[A + 1 + 1] = used[n + 2]
        /\ \A i \in 1..Len(v) : v[i] = IF i < A + 1 THEN u[i] ELSE u[i + 1]
        /\ Append(a, x) \o rest(n + 1) = u
    <3>1. n \in 0..Len(used)-1
      BY DEF K
    <3>2. rest(n + 1) = SubSeq(used, n + 2, Len(used))
      BY <2>1 DEF K
    <3>3. u = a \o SubSeq(used, n + 1, Len(used)) /\ v = a \o SubSeq(used, n + 2, Len(used))
      BY <3>2 DEF K
    <3>4. SpliceFacts(Pos, a, used, n, u, v)
      BY <1>1, <2>3, <3>1, <3>2, SpliceSeq DEF K
    <3> HIDE DEF a, u, v, rest
    <3> QED BY <3>2, <3>4, Zenon DEF K, SpliceFacts
  <2>5. PICK av, ow : Represents(s.pool, av, u, ow)
    BY <1>5
  <2>6. s.pool \in PoolType
    BY <1>5
  <2>7. s.visited = SubSeq(used, 1, n)
    BY <1>5
  <2> HIDE DEF a, A, u, v, rest, Inv
  <2>9. s.pool.nextUsedPos[x] = IF n + 1 < K THEN used[n + 2] ELSE None
    <3>1. s.pool.nextUsedPos[u[A + 1]] = IF A + 1 = Len(u) THEN None ELSE u[A + 1 + 1]
      BY <2>4, <2>5 DEF Represents, IsUsedList, IsList
    <3>2. A + 1 = Len(u) <=> ~(n + 1 < K)
      BY <1>1, <2>1, <2>3, <2>4
    <3> QED BY <2>4, <3>1, <3>2
  <2>10. Append(s.visited, x) = SubSeq(used, 1, n + 1)
    BY <1>1, <2>1, <2>7, PrefixSeq DEF x, K
  <2>11. /\ q \in PoolType
         /\ \E av2, ow2 : Represents(q, av2, kept[n + 1] \o rest(n + 1), ow2)
    <3>1. CASE x \in closing
      <4>1. q \in PoolType
        BY <2>2, <2>6, <3>1, ReleaseType
      <4>2. Represents(q, Append(av, x), Abstract!Without(u, A + 1), ow \ {x})
        <5>1. Represents(MemPoolReleaseBlock(s.pool, u[A + 1]), Append(av, u[A + 1]),
                         Abstract!Without(u, A + 1), ow \ {u[A + 1]})
          BY <2>4, <2>5, <2>6, ReleaseRepresents
        <5> QED BY <2>4, <3>1, <5>1
      <4>3. Abstract!Without(u, A + 1) = v
        <5> DEFINE t == Abstract!Without(u, A + 1)
        <5>1. t = [i \in 1..Len(u)-1 |-> IF i < A + 1 THEN u[i] ELSE u[i + 1]]
          BY DEF Abstract!Without
        <5>2. v \in [1..Len(v) -> Pos] /\ Len(v) = Len(u) - 1 /\ Len(u) \in Nat
          BY <1>1, <2>1, <2>3, <2>4, LenProperties
        <5> HIDE DEF t
        <5> QED BY <2>4, <5>1, <5>2 DEF t
      <4>4. kept[n + 1] = a
        BY <1>2, <2>1, <3>1 DEF a
      <4> HIDE DEF q, x
      <4> QED BY <4>1, <4>2, <4>3, <4>4 DEF v
    <3>2. CASE x \notin closing
      <4>1. kept[n + 1] = Append(a, x)
        BY <1>2, <2>1, <3>2 DEF a
      <4>2. q = s.pool
        BY <3>2
      <4> HIDE DEF q, x
      <4> QED BY <2>4, <2>5, <2>6, <4>1, <4>2
    <3> QED BY <3>1, <3>2
  <2> HIDE DEF x, q
  <2>12. Inv(n + 1, [tmppos |-> s.pool.nextUsedPos[x], visited |-> Append(s.visited, x), pool |-> q])
    BY <2>1, <2>9, <2>10, <2>11 DEF Inv
  <2> QED BY <2>2, <2>12 DEF q
<1>6. ASSUME NEW n \in 0..BlockNum-1, n \in T
      PROVE  n + 1 \in T
  <2>1. n + 1 \in 1..BlockNum /\ n + 1 \in 0..BlockNum /\ n + 1 - 1 = n /\ n \in Nat
    BY <1>1
  <2>2. Inv(done(n), step[n])
    BY <1>6
  <2>3. CASE n < K
    <3>1. done(n) = n /\ done(n + 1) = n + 1 /\ n \in 0..K-1
      BY <1>1, <2>1, <2>3
    <3>2. ~(step[n].tmppos < 0)
      <4>1. step[n].tmppos = used[n + 1] /\ n + 1 \in 1..K
        BY <1>1, <2>1, <2>2, <2>3, <3>1
      <4> QED BY <1>1, <4>1 DEF Pos
    <3> HIDE DEF Inv, done
    <3>3. step[n + 1] = [tmppos  |-> step[n].pool.nextUsedPos[step[n].tmppos],
                         visited |-> Append(step[n].visited, step[n].tmppos),
                         pool    |-> IF step[n].tmppos \in closing
                                     THEN MemPoolReleaseBlock(step[n].pool, step[n].tmppos)
                                     ELSE step[n].pool]
      BY <1>3, <3>2
    <3>4. Inv(n, step[n])
      BY <2>2, <3>1
    <3>5. Inv(n + 1, step[n + 1])
      BY <1>5, <3>1, <3>3, <3>4, Zenon
    <3> QED BY <2>1, <3>1, <3>5
  <2>4. CASE ~(n < K)
    <3>1. done(n) = K /\ done(n + 1) = K /\ ~(K < K)
      BY <1>1, <2>1, <2>4
    <3>2. step[n].tmppos < 0
      BY <2>2, <3>1
    <3>3. step[n + 1] = step[n]
      BY <1>3, <2>1, <3>2
    <3> HIDE DEF Inv, done
    <3> QED BY <2>1, <2>2, <3>1, <3>3
  <2> QED BY <2>3, <2>4
<1>7. 0 \in T
  <2>1. done(0) = 0 /\ 0 \in 0..BlockNum
    BY <1>1
  <2> HIDE DEF Inv, done
  <2> QED BY <1>4, <2>1
<1>8. BlockNum \in T
  <2>1. 0 \in Int /\ BlockNum \in Int /\ BlockNum \in 0..BlockNum
    BY <1>1
  <2> HIDE DEF T
  <2>2. 0..BlockNum \subseteq T
    BY <1>6, <1>7, <2>1, IntervalInduction
  <2> QED BY <2>1, <2>2
<1>9. Inv(K, step[BlockNum])
  <2>1. done(BlockNum) = K
    BY <1>1
  <2> HIDE DEF Inv, done
  <2> QED BY <1>8, <2>1
<1>10. SubSeq(used, 1, K) = used
  BY <1>1, SubSeqFull DEF K
<1>11. kept[K] \o rest(K) = kept[K]
  <2>1. rest(K) = <<>>
    BY <1>1, SubSeqEmpty
  <2>2. kept[K] \in Seq(Pos)
    BY <1>1, <1>2 DEF K
  <2> QED BY <2>1, <2>2, ConcatEmptySeq
<1>12. UsedWalk(step[BlockNum].pool) = kept[K]
  BY <1>9, <1>11, WalksOfLists
<1> QED BY <1>2, <1>3, <1>9, <1>10, <1>12, ~(K < K) DEF K

\* A traversal calls back for every open node once, whichever nodes close
\* themselves on the way: in every reachable pool joynetTraverseNode visits the
\* whole used list in order, and leaves the nodes that stayed open listed.
THEOREM TraversalAlwaysComplete == Spec => []TraversalVisitsAll
<1>1. IInv => TraversalVisitsAll
  <2> SUFFICES ASSUME IInv, NEW closing \in SUBSET owned
               PROVE  LET walk == JoynetTraverseNode(pool, closing)
                      IN  /\ walk.tmppos = None
                          /\ walk.visited = UsedWalk(pool)
                          /\ UsedWalk(walk.pool) = Remaining(UsedWalk(pool), closing)
    BY DEF TraversalVisitsAll
  <2>1. PICK avail, used \in PosLists : Represents(pool, avail, used, owned)
    BY ListsIntactDef DEF IInv
  <2>2. UsedWalk(pool) = used
    BY <2>1, WalksOfLists
  <2> QED BY <2>1, <2>2, TraversalOfLists DEF IInv, TypeOK
<1> QED BY <1>1, IInvHolds, PTL

=============================================================================
