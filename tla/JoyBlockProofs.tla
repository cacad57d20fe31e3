--------------------------- MODULE JoyBlockProofs ---------------------------
(***************************************************************************)
(* Proofs about JoyBlock, for every number and size of blocks, every set   *)
(* of chains and every set of packages.                                    *)
(***************************************************************************)
EXTENDS JoyBlock, DataLemmas, FiniteSetTheorems

-----------------------------------------------------------------------------
(* The inductive invariant. *)

MemType ==
  [pool  : [avail : Seq(Pos), used : Seq(Pos)],
   chain : [Chain -> ChainType],
   block : [Pos -> BlockType]]

\* Every position is in one of the pool's two lists, once.
PoolOK(p) ==
  /\ Len(p.avail) + Len(p.used) = BlockNum
  /\ \A i, j \in 1..Len(p.avail) : p.avail[i] = p.avail[j] => i = j
  /\ \A i, j \in 1..Len(p.used) : p.used[i] = p.used[j] => i = j
  /\ \A i \in 1..Len(p.avail), j \in 1..Len(p.used) : p.avail[i] # p.used[j]
  /\ Pool!Listed(p.avail) \cup Pool!Listed(p.used) = Pos

\* The bytes of a block from dataHead to dataTail are whole packages, at least
\* one, and no package begins behind them.
Tiled(b) ==
  /\ b.dataHead < b.dataTail
  /\ b.data[b.dataHead] # NoPkg
  /\ \A o \in Offset : b.dataHead <= o /\ o < b.dataTail /\ b.data[o] # NoPkg =>
       LET end == o + PkgLen[b.data[o]]
       IN  /\ end <= b.dataTail
           /\ end < b.dataTail => b.data[end] # NoPkg
           /\ \A x \in o + 1 .. end - 1 : b.data[x] = NoPkg
  /\ \A o \in Offset : b.dataTail <= o => b.data[o] = NoPkg

\* The blocks of chain c are those of s.
IsChain(m, c, s) ==
  /\ m.chain[c].head = IF Len(s) = 0 THEN None ELSE s[1]
  /\ m.chain[c].tail = IF Len(s) = 0 THEN None ELSE s[Len(s)]
  /\ m.chain[c].len = Len(s)
  /\ Len(s) <= ChainLimit(c)
  /\ \A i \in 1..Len(s) :
       /\ m.block[s[i]].nextUsedPos = IF i = Len(s) THEN None ELSE s[i + 1]
       /\ s[i] \in Pool!Listed(m.pool.used)
  /\ \A i, j \in 1..Len(s) : s[i] = s[j] => i = j

\* The used blocks are those of the chains, and no chain has a block of another.
Linked(m, bs) ==
  /\ \A c \in Chain : IsChain(m, c, bs[c])
  /\ \A c, d \in Chain : \A i \in 1..Len(bs[c]), j \in 1..Len(bs[d]) : bs[c][i] = bs[d][j] => c = d
  /\ \A pos \in Pool!Listed(m.pool.used) : \E c \in Chain : \E i \in 1..Len(bs[c]) : bs[c][i] = pos

\* Every used block holds packages.
AllTiled(m) == \A pos \in Pool!Listed(m.pool.used) : Tiled(m.block[pos])

\* A read that is out would find the same again.
ReadOK(m, rb) == rb # NoRead => rb.chain \in Chain /\ ReadPkg(m, rb.chain) = rb

\* The chains' blocks are bs.
InOrder(m, bs) ==
  /\ m \in MemType
  /\ PoolOK(m.pool)
  /\ bs \in [Chain -> Seq(Pos)]
  /\ Linked(m, bs)
  /\ AllTiled(m)

IInv ==
  /\ \E bs : InOrder(mem, bs)
  /\ ReadOK(mem, rbuf)

-----------------------------------------------------------------------------
(* The pool's two operations. *)

LEMMA PosFacts == BlockNum \in Nat /\ BlockNum > 0 /\ 0 \in Pos /\ None \notin Pos
BY BlockAssumption DEF Pos, None

LEMMA AllocPool ==
  ASSUME NEW p \in [avail : Seq(Pos), used : Seq(Pos)], PoolOK(p), Pool!Available(p)
  PROVE  LET q == Pool!AllocBlock(p)
             pos == Pool!AllocPos(p)
         IN  /\ q \in [avail : Seq(Pos), used : Seq(Pos)]
             /\ PoolOK(q)
             /\ pos \in Pos
             /\ pos \notin Pool!Listed(p.used)
             /\ Pool!Listed(q.used) = Pool!Listed(p.used) \cup {pos}
<1> DEFINE a == p.avail
           u == p.used
           pos == Head(a)
           t == Tail(a)
           v == Append(u, pos)
<1>1. a \in Seq(Pos) /\ u \in Seq(Pos) /\ a # <<>>
  BY DEF Pool!Available
<1>2. /\ Len(a) \in Nat /\ Len(u) \in Nat /\ Len(a) >= 1
      /\ pos = a[1] /\ pos \in Pos
  BY <1>1, EmptySeq, LenProperties
<1>3. /\ t \in Seq(Pos) /\ Len(t) = Len(a) - 1
      /\ \A i \in 1..Len(t) : t[i] = a[i + 1]
  BY <1>1, HeadTailProperties
<1>4. /\ v \in Seq(Pos) /\ Len(v) = Len(u) + 1
      /\ \A i \in 1..Len(v) : \/ i \in 1..Len(u) /\ v[i] = u[i]
                              \/ i = Len(u) + 1 /\ v[i] = pos
      /\ {v[i] : i \in 1..Len(v)} = {u[i] : i \in 1..Len(u)} \cup {pos}
  BY <1>1, <1>2, AppendElements
<1>5. /\ Len(a) + Len(u) = BlockNum
      /\ \A i, j \in 1..Len(a) : a[i] = a[j] => i = j
      /\ \A i, j \in 1..Len(u) : u[i] = u[j] => i = j
      /\ \A i \in 1..Len(a), j \in 1..Len(u) : a[i] # u[j]
      /\ Pool!Listed(a) \cup Pool!Listed(u) = Pos
  BY DEF PoolOK
<1> HIDE DEF a, u, pos, t, v
<1>6. \A i \in 1..Len(t) : t[i] = a[i + 1] /\ i + 1 \in 1..Len(a) /\ i + 1 # 1
  BY <1>2, <1>3
<1>8. Len(t) + Len(v) = BlockNum
  BY <1>2, <1>3, <1>4, <1>5
<1>9. \A i, j \in 1..Len(t) : t[i] = t[j] => i = j
  <2> TAKE i, j \in 1..Len(t)
  <2> HAVE t[i] = t[j]
  <2>1. i + 1 = j + 1
    BY <1>5, <1>6
  <2> QED BY <1>2, <1>3, <2>1
<1>10. \A j \in 1..Len(u) : u[j] # pos
  BY <1>2, <1>5
<1>11. \A i, j \in 1..Len(v) : v[i] = v[j] => i = j
  BY <1>4, <1>5, <1>10
<1>12. \A i \in 1..Len(t), j \in 1..Len(v) : t[i] # v[j]
  <2> TAKE i \in 1..Len(t), j \in 1..Len(v)
  <2>2. t[i] # pos
    BY <1>2, <1>5, <1>6
  <2>3. \A k \in 1..Len(u) : t[i] # u[k]
    <3>1. t[i] = a[i + 1] /\ i + 1 \in 1..Len(a)
      BY <1>6
    <3>2. \A k \in 1..Len(u) : a[i + 1] # u[k]
      BY <1>5, <3>1
    <3> QED BY <3>1, <3>2
  <2> QED BY <1>4, <2>2, <2>3
<1>13. Pool!Listed(v) = Pool!Listed(u) \cup {pos}
  BY <1>4 DEF Pool!Listed
<1>14. Pool!Listed(a) \subseteq Pool!Listed(t) \cup {pos}
  <2> SUFFICES ASSUME NEW i \in 1..Len(a), i # 1
               PROVE  a[i] \in Pool!Listed(t)
    BY <1>2 DEF Pool!Listed
  <2>1. i - 1 \in 1..Len(t) /\ i - 1 + 1 = i
    BY <1>2, <1>3
  <2>2. t[i - 1] = a[i]
    BY <1>3, <2>1
  <2> QED BY <2>1, <2>2 DEF Pool!Listed
<1>15. Pool!Listed(t) \cup Pool!Listed(v) = Pos
  <2>1. Pool!Listed(t) \subseteq Pos
    BY <1>3, LenProperties DEF Pool!Listed
  <2> QED BY <1>2, <1>5, <1>13, <1>14, <2>1
<1>16. Pool!AllocBlock(p) = [avail |-> t, used |-> v] /\ Pool!AllocPos(p) = pos
  BY DEF Pool!AllocBlock, Pool!AllocPos, a, u, t, v, pos
<1>17. PoolOK([avail |-> t, used |-> v])
  BY <1>8, <1>9, <1>11, <1>12, <1>15 DEF PoolOK
<1>18. pos \notin Pool!Listed(u)
  BY <1>10 DEF Pool!Listed
<1> QED BY <1>2, <1>3, <1>4, <1>13, <1>16, <1>17, <1>18 DEF u

LEMMA ReleasePool ==
  ASSUME NEW p \in [avail : Seq(Pos), used : Seq(Pos)], PoolOK(p),
         NEW pos \in Pool!Listed(p.used)
  PROVE  LET q == Pool!ReleaseBlock(p, pos)
         IN  /\ q \in [avail : Seq(Pos), used : Seq(Pos)]
             /\ PoolOK(q)
             /\ Pool!Listed(q.used) = Pool!Listed(p.used) \ {pos}
<1> DEFINE a == p.avail
           u == p.used
           k == Pool!IndexOf(u, pos)
           t == Append(a, pos)
           v == Pool!Without(u, k)
<1>1. a \in Seq(Pos) /\ u \in Seq(Pos) /\ Len(a) \in Nat /\ Len(u) \in Nat
  BY LenProperties
<1>2. k \in 1..Len(u) /\ u[k] = pos /\ pos \in Pos
  <2>1. \E i \in 1..Len(u) : u[i] = pos
    BY DEF Pool!Listed
  <2>2. k \in 1..Len(u) /\ u[k] = pos
    BY <2>1 DEF Pool!IndexOf
  <2> QED BY <1>1, <2>2, ElementOfSeq
<1>3. /\ Len(a) + Len(u) = BlockNum
      /\ \A i, j \in 1..Len(a) : a[i] = a[j] => i = j
      /\ \A i, j \in 1..Len(u) : u[i] = u[j] => i = j
      /\ \A i \in 1..Len(a), j \in 1..Len(u) : a[i] # u[j]
      /\ Pool!Listed(a) \cup Pool!Listed(u) = Pos
  BY DEF PoolOK
<1>4. /\ t \in Seq(Pos) /\ Len(t) = Len(a) + 1
      /\ \A i \in 1..Len(t) : \/ i \in 1..Len(a) /\ t[i] = a[i]
                              \/ i = Len(a) + 1 /\ t[i] = pos
      /\ {t[i] : i \in 1..Len(t)} = {a[i] : i \in 1..Len(a)} \cup {pos}
  BY <1>1, <1>2, AppendElements
<1>5. v = [i \in 1..Len(u)-1 |-> IF i < k THEN u[i] ELSE u[i + 1]]
  BY DEF Pool!Without
<1> HIDE DEF a, u, k, t, v
<1> DEFINE old(i) == IF i < k THEN i ELSE i + 1
<1>6. \A i \in 1..Len(u)-1 : old(i) \in 1..Len(u) /\ old(i) # k
  BY <1>1, <1>2
<1>7. \A i, j \in 1..Len(u)-1 : old(i) = old(j) => i = j
  BY <1>1, <1>2
<1>8. \A j \in 1..Len(u) : j # k => \E i \in 1..Len(u)-1 : old(i) = j
  <2> TAKE j \in 1..Len(u)
  <2>1. CASE j < k
    <3>1. j \in 1..Len(u)-1 /\ old(j) = j
      BY <1>1, <1>2, <2>1
    <3> QED BY <3>1
  <2>2. CASE j > k
    <3>1. j - 1 \in 1..Len(u)-1 /\ old(j - 1) = j
      BY <1>1, <1>2, <2>2
    <3> QED BY <3>1
  <2> QED BY <1>1, <1>2, <2>1, <2>2
<1>9. v = [i \in 1..Len(u)-1 |-> u[old(i)]]
  BY <1>5
<1> HIDE DEF old
<1>10. v \in Seq(Pos) /\ Len(v) = Len(u) - 1 /\ \A i \in 1..Len(v) : v[i] = u[old(i)]
  <2>1. v \in [1..Len(u)-1 -> Pos]
    BY <1>1, <1>6, <1>9, LenProperties
  <2>2. Len(u) - 1 \in Nat
    BY <1>1, <1>2
  <2>3. v \in Seq(Pos) /\ Len(v) = Len(u) - 1
    BY <2>1, <2>2, SeqDef
  <2> QED BY <1>9, <2>3
<1>11. Len(t) + Len(v) = BlockNum
  BY <1>1, <1>3, <1>4, <1>10
<1>13. \A i, j \in 1..Len(t) : t[i] = t[j] => i = j
  <2>1. \A j \in 1..Len(a) : a[j] # pos
    BY <1>2, <1>3
  <2> QED BY <1>3, <1>4, <2>1
<1>14. \A i, j \in 1..Len(v) : v[i] = v[j] => i = j
  BY <1>3, <1>6, <1>7, <1>10
<1>15. \A i \in 1..Len(t), j \in 1..Len(v) : t[i] # v[j]
  <2> TAKE i \in 1..Len(t), j \in 1..Len(v)
  <2>2. v[j] = u[old(j)] /\ old(j) \in 1..Len(u) /\ old(j) # k
    BY <1>6, <1>10
  <2> QED BY <1>2, <1>3, <1>4, <2>2
<1>16. Pool!Listed(v) = Pool!Listed(u) \ {pos}
  <2>1. ASSUME NEW i \in 1..Len(v)
        PROVE  v[i] \in Pool!Listed(u) \ {pos}
    <3>1. v[i] = u[old(i)] /\ old(i) \in 1..Len(u) /\ old(i) # k
      BY <1>6, <1>10
    <3> QED BY <1>2, <1>3, <3>1 DEF Pool!Listed
  <2>2. ASSUME NEW j \in 1..Len(u), u[j] # pos
        PROVE  u[j] \in Pool!Listed(v)
    <3>1. PICK i \in 1..Len(u)-1 : old(i) = j
      BY <1>2, <1>8, <2>2
    <3> QED BY <1>10, <3>1 DEF Pool!Listed
  <2> QED BY <2>1, <2>2 DEF Pool!Listed
<1>17. Pool!Listed(t) = Pool!Listed(a) \cup {pos}
  BY <1>4 DEF Pool!Listed
<1>18. Pool!Listed(t) \cup Pool!Listed(v) = Pos
  BY <1>2, <1>3, <1>16, <1>17
<1>19. Pool!ReleaseBlock(p, pos) = [avail |-> t, used |-> v]
  BY DEF Pool!ReleaseBlock, a, u, t, v, k
<1>20. PoolOK([avail |-> t, used |-> v])
  BY <1>11, <1>13, <1>14, <1>15, <1>18 DEF PoolOK
<1> QED BY <1>4, <1>10, <1>16, <1>19, <1>20 DEF u

-----------------------------------------------------------------------------
(* The chains' links under the changes the code makes to them. *)

\* A list of distinct positions is no longer than the pool.
LEMMA LenBound ==
  ASSUME NEW s \in Seq(Pos), \A i, j \in 1..Len(s) : s[i] = s[j] => i = j
  PROVE  Len(s) \in 0..BlockNum
<1>1. Len(s) \in Nat /\ s \in [1..Len(s) -> Pos]
  BY LenProperties
<1>2. IsFiniteSet(Pos) /\ Cardinality(Pos) = BlockNum
  <2>1. 0 \in Int /\ BlockNum - 1 \in Int /\ BlockNum > 0 /\ BlockNum \in Nat
    BY PosFacts
  <2>2. /\ IsFiniteSet(0..BlockNum-1)
        /\ Cardinality(0..BlockNum-1) = IF 0 > BlockNum - 1 THEN 0 ELSE BlockNum - 1 - 0 + 1
    BY <2>1, FS_Interval
  <2> QED BY <2>1, <2>2 DEF Pos
<1>3. IsFiniteSet(1..Len(s)) /\ Cardinality(1..Len(s)) = Len(s)
  <2>1. 1 \in Int /\ Len(s) \in Int
    BY <1>1
  <2>2. /\ IsFiniteSet(1..Len(s))
        /\ Cardinality(1..Len(s)) = IF 1 > Len(s) THEN 0 ELSE Len(s) - 1 + 1
    BY <2>1, FS_Interval
  <2> QED BY <1>1, <2>2
<1>4. ~(Cardinality(Pos) < Cardinality(1..Len(s)))
  BY <1>1, <1>2, <1>3, FS_PigeonHole
<1> QED BY <1>1, <1>2, <1>3, <1>4, PosFacts

\* The fields of a memory of the right type.
LEMMA MemFields ==
  ASSUME NEW m \in MemType, NEW c \in Chain, NEW pos \in Pos
  PROVE  /\ m.chain[c].head \in Pos \cup {None}
         /\ m.chain[c].tail \in Pos \cup {None}
         /\ m.chain[c].len \in 0..BlockNum
         /\ m.block[pos] \in BlockType
         /\ m.block[pos].nextUsedPos \in Pos \cup {None}
         /\ m.block[pos].dataHead \in 0..BlockSize
         /\ m.block[pos].dataTail \in 0..BlockSize
         /\ m.block[pos].data \in [Offset -> Pkg \cup {NoPkg}]
BY DEF MemType, ChainType, BlockType

LEMMA ListedType ==
  ASSUME NEW s \in Seq(Pos)
  PROVE  Pool!Listed(s) \subseteq Pos
BY ElementOfSeq DEF Pool!Listed

\* The links see no change of the blocks' data.
LEMMA LinkedSame ==
  ASSUME NEW m, NEW bs \in [Chain -> Seq(Pos)], Linked(m, bs), NEW n,
         n.chain = m.chain, n.pool = m.pool,
         \A pos \in Pos : n.block[pos].nextUsedPos = m.block[pos].nextUsedPos
  PROVE  Linked(n, bs)
<1>1. ASSUME NEW c \in Chain, NEW i \in 1..Len(bs[c])
      PROVE  bs[c][i] \in Pos
  BY <1>1, ElementOfSeq
<1>2. ASSUME NEW c \in Chain
      PROVE  IsChain(n, c, bs[c])
  <2>1. IsChain(m, c, bs[c])
    BY DEF Linked
  <2> QED BY <1>1, <2>1 DEF IsChain
<1> QED BY <1>2 DEF Linked

\* What AllocToChain does to the blocks.
LEMMA AllocBlocks ==
  ASSUME NEW m \in MemType, PoolOK(m.pool), Pool!Available(m.pool), NEW c \in Chain,
         m.chain[c].head # None => m.chain[c].tail \in Pos
  PROVE  LET n   == AllocToChain(m, c)
             pos == Pool!AllocPos(m.pool)
         IN  /\ n.block \in [Pos -> BlockType]
             /\ n.block[pos] = FreshBlock
             /\ \A q \in Pos : q # pos =>
                  /\ n.block[q].data = m.block[q].data
                  /\ n.block[q].dataHead = m.block[q].dataHead
                  /\ n.block[q].dataTail = m.block[q].dataTail
                  /\ n.block[q].nextUsedPos =
                       IF q = m.chain[c].tail /\ m.chain[c].head # None THEN pos
                       ELSE m.block[q].nextUsedPos
<1> DEFINE pos == Pool!AllocPos(m.pool)
           ch  == m.chain[c]
           lk  == IF ch.head = None THEN m.block ELSE [m.block EXCEPT ![ch.tail].nextUsedPos = pos]
<1>1. pos \in Pos
  BY AllocPool DEF MemType
<1>2. m.block \in [Pos -> BlockType]
  BY DEF MemType
<1>3. FreshBlock \in BlockType
  BY BlockAssumption DEF FreshBlock, BlockType
<1>4. /\ lk \in [Pos -> BlockType]
      /\ \A q \in Pos :
           /\ lk[q].data = m.block[q].data
           /\ lk[q].dataHead = m.block[q].dataHead
           /\ lk[q].dataTail = m.block[q].dataTail
           /\ lk[q].nextUsedPos = IF q = ch.tail /\ ch.head # None THEN pos
                                  ELSE m.block[q].nextUsedPos
  <2> HIDE DEF ch, pos
  <2>1. CASE ch.head = None
    BY <1>2, <2>1
  <2>2. CASE ch.head # None
    <3>1. ch.tail \in Pos
      BY <2>2 DEF ch
    <3>2. [m.block[ch.tail] EXCEPT !.nextUsedPos = pos] \in BlockType
      BY <1>1, <1>2, <3>1 DEF BlockType
    <3>3. lk \in [Pos -> BlockType]
      BY <1>2, <2>2, <3>1, <3>2
    <3>4. lk[ch.tail] = [m.block[ch.tail] EXCEPT !.nextUsedPos = pos]
      BY <1>2, <2>2, <3>1
    <3>5. \A q \in Pos : q # ch.tail => lk[q] = m.block[q]
      BY <1>2, <2>2, <3>1
    <3>6. /\ lk[ch.tail].data = m.block[ch.tail].data
          /\ lk[ch.tail].dataHead = m.block[ch.tail].dataHead
          /\ lk[ch.tail].dataTail = m.block[ch.tail].dataTail
          /\ lk[ch.tail].nextUsedPos = pos
      <4>1. m.block[ch.tail] \in BlockType
        BY <1>2, <3>1
      <4> HIDE DEF lk
      <4> QED BY <3>4, <4>1 DEF BlockType
    <3> HIDE DEF lk
    <3> QED BY <2>2, <3>3, <3>5, <3>6
  <2> QED BY <2>1, <2>2
<1>5. AllocToChain(m, c).block = [lk EXCEPT ![pos] = FreshBlock]
  BY DEF AllocToChain
<1> HIDE DEF lk, pos
<1>6. /\ [lk EXCEPT ![pos] = FreshBlock] \in [Pos -> BlockType]
      /\ [lk EXCEPT ![pos] = FreshBlock][pos] = FreshBlock
      /\ \A q \in Pos : q # pos => [lk EXCEPT ![pos] = FreshBlock][q] = lk[q]
  BY <1>1, <1>3, <1>4
<1> QED BY <1>4, <1>5, <1>6 DEF pos

\* What Linked says, for a list s and one of its elements.
LEMMA ChainFacts ==
  ASSUME NEW m, NEW bs \in [Chain -> Seq(Pos)], Linked(m, bs), NEW c \in Chain
  PROVE  /\ Len(bs[c]) \in Nat
         /\ m.chain[c].head = IF Len(bs[c]) = 0 THEN None ELSE bs[c][1]
         /\ m.chain[c].tail = IF Len(bs[c]) = 0 THEN None ELSE bs[c][Len(bs[c])]
         /\ m.chain[c].len = Len(bs[c])
         /\ Len(bs[c]) <= ChainLimit(c)
         /\ \A i \in 1..Len(bs[c]) :
              /\ m.block[bs[c][i]].nextUsedPos = IF i = Len(bs[c]) THEN None ELSE bs[c][i + 1]
              /\ bs[c][i] \in Pool!Listed(m.pool.used)
              /\ bs[c][i] \in Pos
         /\ \A i, j \in 1..Len(bs[c]) : bs[c][i] = bs[c][j] => i = j
         /\ m.chain[c].head # None <=> Len(bs[c]) # 0
         /\ m.chain[c].head # None => 1 \in 1..Len(bs[c]) /\ Len(bs[c]) \in 1..Len(bs[c])
<1>1. Len(bs[c]) \in Nat /\ \A i \in 1..Len(bs[c]) : bs[c][i] \in Pos
  BY LenProperties
<1>2. IsChain(m, c, bs[c])
  BY DEF Linked
<1>3. Len(bs[c]) # 0 => 1 \in 1..Len(bs[c]) /\ Len(bs[c]) \in 1..Len(bs[c])
  BY <1>1
<1>4. m.chain[c].head # None <=> Len(bs[c]) # 0
  BY <1>1, <1>2, <1>3, PosFacts DEF IsChain
<1> QED BY <1>1, <1>2, <1>3, <1>4 DEF IsChain

LEMMA HeadFacts ==
  ASSUME NEW m, NEW bs \in [Chain -> Seq(Pos)], Linked(m, bs), NEW c \in Chain
  PROVE  /\ m.chain[c].head = IF Len(bs[c]) = 0 THEN None ELSE bs[c][1]
         /\ m.chain[c].head # None <=> Len(bs[c]) # 0
         /\ Len(bs[c]) # 0 => 1 \in 1..Len(bs[c]) /\ Len(bs[c]) \in 1..Len(bs[c])
BY ChainFacts

LEMMA ChainElements ==
  ASSUME NEW m, NEW bs \in [Chain -> Seq(Pos)], Linked(m, bs), NEW c \in Chain
  PROVE  /\ \A i \in 1..Len(bs[c]) : bs[c][i] \in Pool!Listed(m.pool.used) /\ bs[c][i] \in Pos
         /\ \A i, j \in 1..Len(bs[c]) : bs[c][i] = bs[c][j] => i = j
BY ChainFacts

LEMMA TailFacts ==
  ASSUME NEW m, NEW bs \in [Chain -> Seq(Pos)], Linked(m, bs), NEW c \in Chain
  PROVE  m.chain[c].tail = IF Len(bs[c]) = 0 THEN None ELSE bs[c][Len(bs[c])]
BY ChainFacts

LEMMA AllocLinked ==
  ASSUME NEW m \in MemType, PoolOK(m.pool), Pool!Available(m.pool), NEW c \in Chain,
         NEW bs \in [Chain -> Seq(Pos)], Linked(m, bs),
         m.chain[c].len = 0 \/ m.chain[c].len < ChainLimit(c)
  PROVE  LET n   == AllocToChain(m, c)
             pos == Pool!AllocPos(m.pool)
             bs2 == [bs EXCEPT ![c] = Append(bs[c], pos)]
         IN  /\ n \in MemType
             /\ PoolOK(n.pool)
             /\ bs2 \in [Chain -> Seq(Pos)]
             /\ Linked(n, bs2)
             /\ Pool!Listed(n.pool.used) = Pool!Listed(m.pool.used) \cup {pos}
             /\ pos \in Pos /\ pos \notin Pool!Listed(m.pool.used)
<1> DEFINE n   == AllocToChain(m, c)
           pos == Pool!AllocPos(m.pool)
           s   == bs[c]
           t   == Append(s, pos)
           bs2 == [bs EXCEPT ![c] = t]
           ch  == m.chain[c]
<1>1. /\ n.pool = Pool!AllocBlock(m.pool)
      /\ n.chain = [m.chain EXCEPT ![c] = [head |-> IF ch.head = None THEN pos ELSE ch.head,
                                           tail |-> pos, len |-> ch.len + 1]]
      /\ n = [pool |-> n.pool, chain |-> n.chain, block |-> n.block]
  BY DEF AllocToChain
<1>2. /\ n.pool \in [avail : Seq(Pos), used : Seq(Pos)]
      /\ PoolOK(n.pool)
      /\ pos \in Pos
      /\ pos \notin Pool!Listed(m.pool.used)
      /\ Pool!Listed(n.pool.used) = Pool!Listed(m.pool.used) \cup {pos}
  BY <1>1, AllocPool DEF MemType
<1>3. /\ Len(s) \in Nat
      /\ ch.head = IF Len(s) = 0 THEN None ELSE s[1]
      /\ ch.tail = IF Len(s) = 0 THEN None ELSE s[Len(s)]
      /\ ch.len = Len(s)
      /\ Len(s) <= ChainLimit(c)
      /\ \A i \in 1..Len(s) :
           /\ m.block[s[i]].nextUsedPos = IF i = Len(s) THEN None ELSE s[i + 1]
           /\ s[i] \in Pool!Listed(m.pool.used)
           /\ s[i] \in Pos
      /\ \A i, j \in 1..Len(s) : s[i] = s[j] => i = j
      /\ ch.head # None <=> Len(s) # 0
      /\ ch.head # None => 1 \in 1..Len(s) /\ Len(s) \in 1..Len(s)
  BY ChainFacts
<1>4. /\ n.block \in [Pos -> BlockType]
      /\ n.block[pos] = FreshBlock
      /\ \A q \in Pos : q # pos =>
           /\ n.block[q].nextUsedPos = IF q = ch.tail /\ ch.head # None THEN pos
                                       ELSE m.block[q].nextUsedPos
  BY <1>3, AllocBlocks
<1>5. /\ t \in Seq(Pos) /\ Len(t) = Len(s) + 1
      /\ \A i \in 1..Len(s) : i \in 1..Len(t) /\ t[i] = s[i] /\ i # Len(s) + 1
      /\ Len(s) + 1 \in 1..Len(t) /\ t[Len(s) + 1] = pos
      /\ \A i \in 1..Len(t) : \/ i \in 1..Len(s) /\ t[i] = s[i]
                              \/ i = Len(s) + 1 /\ t[i] = pos
  BY <1>2, AppendElements
<1>6. bs2 \in [Chain -> Seq(Pos)] /\ bs2[c] = t /\ \A d \in Chain : d # c => bs2[d] = bs[d]
  BY <1>5
<1>7. /\ n.chain[c].head = IF ch.head = None THEN pos ELSE ch.head
      /\ n.chain[c].tail = pos
      /\ n.chain[c].len = ch.len + 1
      /\ \A d \in Chain : d # c => n.chain[d] = m.chain[d]
  BY <1>1 DEF MemType
<1> HIDE DEF n, pos, s, t, bs2, ch
<1>8. \A i, j \in 1..Len(t) : t[i] = t[j] => i = j
  <2>1. \A i \in 1..Len(s) : s[i] # pos
    BY <1>2, <1>3
  <2> QED BY <1>3, <1>5, <2>1
<1>9. Len(s) + 1 <= ChainLimit(c) /\ Len(s) + 1 \in 0..BlockNum
  <2>1. Len(t) \in 0..BlockNum
    BY <1>5, <1>8, LenBound
  <2>2. ChainLimit(c) \in Nat /\ ChainLimit(c) >= 1
    BY BlockAssumption DEF ChainLimit
  <2> QED BY <1>3, <1>5, <2>1, <2>2 DEF ch
<1>10. n.chain \in [Chain -> ChainType]
  <2>1. [head |-> IF ch.head = None THEN pos ELSE ch.head, tail |-> pos, len |-> ch.len + 1]
          \in ChainType
    BY <1>2, <1>3, <1>9, MemFields DEF ChainType, ch
  <2> QED BY <1>1, <2>1 DEF MemType
<1>11. n \in MemType
  BY <1>1, <1>2, <1>4, <1>10 DEF MemType
<1>12. IsChain(n, c, t)
  <2>1. n.chain[c].head = IF Len(t) = 0 THEN None ELSE t[1]
    <3>1. Len(t) # 0
      BY <1>3, <1>5
    <3>2. CASE Len(s) = 0
      <4>1. t[1] = pos
        BY <1>5, <3>2
      <4> QED BY <1>3, <1>7, <3>1, <3>2, <4>1
    <3>3. CASE Len(s) # 0
      <4>1. t[1] = s[1]
        BY <1>3, <1>5, <3>3
      <4> QED BY <1>3, <1>7, <3>1, <3>3, <4>1
    <3> QED BY <3>2, <3>3
  <2>2. n.chain[c].tail = IF Len(t) = 0 THEN None ELSE t[Len(t)]
    <3>1. Len(t) # 0
      BY <1>3, <1>5
    <3> QED BY <1>5, <1>7, <3>1
  <2>3. n.chain[c].len = Len(t) /\ Len(t) <= ChainLimit(c)
    BY <1>3, <1>5, <1>7, <1>9
  <2>4. ASSUME NEW i \in 1..Len(t)
        PROVE  /\ n.block[t[i]].nextUsedPos = IF i = Len(t) THEN None ELSE t[i + 1]
               /\ t[i] \in Pool!Listed(n.pool.used)
    <3>1. CASE i \in 1..Len(s) /\ t[i] = s[i]
      <4>1. s[i] # pos /\ s[i] \in Pos
        BY <1>2, <1>3, <3>1
      <4>2. i # Len(t)
        BY <1>3, <1>5, <3>1
      <4>3. CASE i = Len(s)
        <5>1. s[i] = ch.tail /\ ch.head # None
          BY <1>3, <3>1, <4>3
        <5>2. n.block[s[i]].nextUsedPos = pos /\ t[i + 1] = pos
          BY <1>4, <1>5, <4>1, <4>3, <5>1
        <5> QED BY <1>2, <1>3, <3>1, <4>2, <5>2
      <4>4. CASE i # Len(s)
        <5>1. ~(s[i] = ch.tail /\ ch.head # None)
          BY <1>3, <3>1, <4>4
        <5>2. n.block[s[i]].nextUsedPos = s[i + 1]
          BY <1>3, <1>4, <3>1, <4>1, <4>4, <5>1
        <5>3. i + 1 \in 1..Len(s)
          BY <1>3, <3>1, <4>4
        <5>4. t[i + 1] = s[i + 1]
          BY <1>5, <5>3
        <5> QED BY <1>2, <1>3, <3>1, <4>2, <5>2, <5>4
      <4> QED BY <4>3, <4>4
    <3>2. CASE i = Len(s) + 1 /\ t[i] = pos
      <4>1. n.block[pos].nextUsedPos = None
        BY <1>4 DEF FreshBlock
      <4> QED BY <1>2, <1>5, <3>2, <4>1
    <3> QED BY <1>5, <3>1, <3>2
  <2> QED BY <1>8, <2>1, <2>2, <2>3, <2>4 DEF IsChain
<1>13. ASSUME NEW d \in Chain, d # c
       PROVE  IsChain(n, d, bs[d])
  <2>1. IsChain(m, d, bs[d])
    BY DEF Linked
  <2>2. ASSUME NEW i \in 1..Len(bs[d])
        PROVE  /\ n.block[bs[d][i]].nextUsedPos = m.block[bs[d][i]].nextUsedPos
               /\ bs[d][i] \in Pool!Listed(n.pool.used)
    <3>1. bs[d][i] \in Pos /\ bs[d][i] \in Pool!Listed(m.pool.used)
      BY ChainFacts
    <3>2. bs[d][i] # pos
      BY <1>2, <3>1
    <3>3. ~(bs[d][i] = ch.tail /\ ch.head # None)
      <4>1. \A j \in 1..Len(bs[c]) : bs[d][i] # bs[c][j]
        BY <1>13 DEF Linked
      <4> QED BY <1>3, <4>1 DEF s
    <3> QED BY <1>2, <1>4, <3>1, <3>2, <3>3
  <2> QED BY <1>7, <1>13, <2>1, <2>2 DEF IsChain
<1>14. Linked(n, bs2)
  <2>1. \A d \in Chain : IsChain(n, d, bs2[d])
    BY <1>6, <1>12, <1>13
  <2>2. ASSUME NEW d \in Chain, NEW i \in 1..Len(bs2[d])
        PROVE  \/ i \in 1..Len(bs[d]) /\ bs2[d][i] = bs[d][i]
                  /\ bs[d][i] \in Pool!Listed(m.pool.used) /\ bs[d][i] # pos
               \/ d = c /\ bs2[d][i] = pos
    <3>1. \A j \in 1..Len(bs[d]) : bs[d][j] \in Pool!Listed(m.pool.used) /\ bs[d][j] # pos
      BY <1>2, ChainFacts
    <3> QED BY <1>5, <1>6, <2>2, <3>1 DEF s
  <2>3. ASSUME NEW d \in Chain, NEW e \in Chain, NEW i \in 1..Len(bs2[d]), NEW j \in 1..Len(bs2[e]),
               bs2[d][i] = bs2[e][j]
        PROVE  d = e
    <3>1. \/ i \in 1..Len(bs[d]) /\ bs2[d][i] = bs[d][i] /\ bs[d][i] # pos
          \/ d = c /\ bs2[d][i] = pos
      BY <2>2
    <3>2. \/ j \in 1..Len(bs[e]) /\ bs2[e][j] = bs[e][j] /\ bs[e][j] # pos
          \/ e = c /\ bs2[e][j] = pos
      BY <2>2
    <3>3. (i \in 1..Len(bs[d]) /\ j \in 1..Len(bs[e]) /\ bs[d][i] = bs[e][j]) => d = e
      BY DEF Linked
    <3> QED BY <2>3, <3>1, <3>2, <3>3
  <2>4. ASSUME NEW q \in Pool!Listed(n.pool.used)
        PROVE  \E d \in Chain : \E i \in 1..Len(bs2[d]) : bs2[d][i] = q
    <3>1. CASE q = pos
      <4>1. PICK i \in 1..Len(t) : i = Len(s) + 1
        BY <1>5
      <4> QED BY <1>5, <1>6, <3>1, <4>1
    <3>2. CASE q # pos
      <4>1. q \in Pool!Listed(m.pool.used)
        BY <1>2, <3>2
      <4>2. PICK d \in Chain : \E i \in 1..Len(bs[d]) : bs[d][i] = q
        BY <4>1 DEF Linked
      <4>3. PICK i \in 1..Len(bs[d]) : bs[d][i] = q
        BY <4>2
      <4>4. i \in 1..Len(bs2[d]) /\ bs2[d][i] = q
        BY <1>5, <1>6, <4>3 DEF s
      <4> QED BY <4>4
    <3> QED BY <3>1, <3>2
  <2> QED BY <2>1, <2>3, <2>4 DEF Linked
<1> QED BY <1>2, <1>6, <1>11, <1>14 DEF n, pos, bs2, s, t

-----------------------------------------------------------------------------
(* Writing a package into a block. *)

\* b2 is b with pkg behind its last byte.
Written(b, b2, pkg) ==
  /\ b2.dataHead = b.dataHead
  /\ b.dataTail \in Offset
  /\ b2.dataTail = b.dataTail + PkgLen[pkg]
  /\ b2.dataTail <= BlockSize
  /\ b2.data = [b.data EXCEPT ![b.dataTail] = pkg]

LEMMA PkgFacts ==
  ASSUME NEW pkg \in Pkg
  PROVE  PkgLen[pkg] \in Nat /\ PkgLen[pkg] >= HeadSize /\ PkgLen[pkg] >= 1 /\ pkg # NoPkg
BY BlockAssumption

LEMMA FreshFacts ==
  /\ FreshBlock \in BlockType
  /\ FreshBlock.dataHead = 0 /\ FreshBlock.dataTail = 0 /\ FreshBlock.nextUsedPos = None
  /\ \A o \in Offset : FreshBlock.data[o] = NoPkg
BY BlockAssumption DEF FreshBlock, BlockType

LEMMA PutFields ==
  ASSUME NEW m \in MemType, NEW pos \in Pos, NEW pkg \in Pkg,
         m.block[pos].dataTail + PkgLen[pkg] <= BlockSize
  PROVE  LET n == PutPkg(m, pos, pkg)
         IN  /\ n \in MemType
             /\ n.pool = m.pool /\ n.chain = m.chain
             /\ n.block[pos].nextUsedPos = m.block[pos].nextUsedPos
             /\ Written(m.block[pos], n.block[pos], pkg)
             /\ \A q \in Pos : q # pos => n.block[q] = m.block[q]
<1> DEFINE b  == m.block[pos]
           d2 == [b.data EXCEPT ![b.dataTail] = pkg]
           b2 == [b EXCEPT !.data = d2, !.dataTail = b.dataTail + PkgLen[pkg]]
           k2 == [m.block EXCEPT ![pos] = b2]
           n  == PutPkg(m, pos, pkg)
<1>1. /\ m.block \in [Pos -> BlockType] /\ b \in BlockType
      /\ b.dataTail \in 0..BlockSize /\ b.data \in [Offset -> Pkg \cup {NoPkg}]
      /\ b.dataTail + PkgLen[pkg] <= BlockSize
  <2>1. m.block \in [Pos -> BlockType]
    BY DEF MemType
  <2>2. b \in BlockType
    BY <2>1
  <2> QED BY <2>1, <2>2 DEF BlockType
<1>2. PkgLen[pkg] \in Nat /\ PkgLen[pkg] >= 1 /\ BlockSize \in Nat
  BY PkgFacts, BlockAssumption
<1>3. n = [m EXCEPT !.block = k2]
  BY Zenon DEF PutPkg
<1> HIDE DEF n
<1>4. n.pool = m.pool /\ n.chain = m.chain /\ n.block = k2
  BY <1>3 DEF MemType
<1> HIDE DEF b
<1>5. b.dataTail \in Offset /\ b.dataTail + PkgLen[pkg] \in 0..BlockSize
  BY <1>1, <1>2 DEF Offset
<1>6. d2 \in [Offset -> Pkg \cup {NoPkg}]
  BY <1>1, <1>5
<1> HIDE DEF d2
<1>7. /\ b2 \in BlockType /\ b2.nextUsedPos = b.nextUsedPos /\ b2.dataHead = b.dataHead
      /\ b2.dataTail = b.dataTail + PkgLen[pkg] /\ b2.data = d2
  BY <1>1, <1>5, <1>6 DEF BlockType
<1> HIDE DEF b2
<1>8. k2 \in [Pos -> BlockType] /\ k2[pos] = b2 /\ \A q \in Pos : q # pos => k2[q] = m.block[q]
  BY <1>1, <1>7
<1> HIDE DEF k2
<1>9. n \in MemType
  BY <1>3, <1>8 DEF MemType
<1>10. Written(b, b2, pkg)
  BY <1>1, <1>5, <1>7 DEF Written, d2
<1> QED BY <1>4, <1>7, <1>8, <1>9, <1>10 DEF b, n

\* The bytes of a block stay whole packages.
LEMMA WrittenTiled ==
  ASSUME NEW b \in BlockType, NEW b2 \in BlockType, NEW pkg \in Pkg, Written(b, b2, pkg),
         Tiled(b) \/ b = FreshBlock
  PROVE  Tiled(b2)
<1>1. /\ b.dataHead \in 0..BlockSize /\ b.dataTail \in 0..BlockSize
      /\ b.data \in [Offset -> Pkg \cup {NoPkg}]
      /\ b.dataTail \in Offset
      /\ b2.dataHead = b.dataHead
      /\ b2.dataTail = b.dataTail + PkgLen[pkg]
      /\ b2.dataTail <= BlockSize
      /\ b2.data[b.dataTail] = pkg
      /\ \A o \in Offset : o # b.dataTail => b2.data[o] = b.data[o]
      /\ \A o \in Offset : b2.data[o] # NoPkg => b2.data[o] \in Pkg
  BY DEF Written, BlockType
<1>2. PkgLen[pkg] \in Nat /\ PkgLen[pkg] >= 1 /\ BlockSize \in Nat /\ pkg # NoPkg
  BY PkgFacts, BlockAssumption
<1>3. \A o \in Offset : b.dataTail <= o => b.data[o] = NoPkg
  BY FreshFacts DEF Tiled
<1>4. \A o \in Offset : b.dataHead <= o /\ o < b.dataTail /\ b.data[o] # NoPkg =>
        LET end == o + PkgLen[b.data[o]]
        IN  /\ end <= b.dataTail
            /\ end < b.dataTail => b.data[end] # NoPkg
            /\ \A x \in o + 1 .. end - 1 : b.data[x] = NoPkg
  <2>1. CASE Tiled(b)
    BY <2>1 DEF Tiled
  <2>2. CASE b = FreshBlock
    BY <2>2, FreshFacts
  <2> QED BY <2>1, <2>2
<1>5. b.dataHead <= b.dataTail /\ b2.dataHead < b2.dataTail
  BY <1>1, <1>2, FreshFacts DEF Tiled
<1>6. b2.data[b2.dataHead] # NoPkg
  <2>1. CASE Tiled(b)
    <3>1. b.dataHead \in Offset /\ b.dataHead # b.dataTail /\ b.data[b.dataHead] # NoPkg
      BY <1>1, <1>2, <2>1 DEF Tiled, Offset
    <3> QED BY <1>1, <3>1
  <2>2. CASE b = FreshBlock
    <3>1. b.dataHead = b.dataTail
      BY <2>2, FreshFacts
    <3> QED BY <1>1, <1>2, <3>1
  <2> QED BY <2>1, <2>2
<1>7. ASSUME NEW o \in Offset, b2.dataHead <= o, o < b2.dataTail, b2.data[o] # NoPkg,
             NEW end, end = o + PkgLen[b2.data[o]]
      PROVE  /\ end <= b2.dataTail
             /\ end < b2.dataTail => b2.data[end] # NoPkg
             /\ \A x \in o + 1 .. end - 1 : b2.data[x] = NoPkg
  <2>0. PkgLen[b2.data[o]] \in Nat /\ o \in Nat /\ end \in Nat /\ end > o
    BY <1>1, <1>7, PkgFacts DEF Offset
  <2>1. CASE o < b.dataTail
    <3>1. b2.data[o] = b.data[o] /\ b.dataHead <= o
      BY <1>1, <1>7, <2>0, <2>1
    <3>2. /\ end <= b.dataTail
          /\ end < b.dataTail => b.data[end] # NoPkg
          /\ \A x \in o + 1 .. end - 1 : b.data[x] = NoPkg
      BY <1>4, <1>7, <2>1, <3>1
    <3>3. \A x \in o + 1 .. end - 1 : x \in Offset /\ x # b.dataTail
      BY <1>1, <1>2, <2>0, <3>2 DEF Offset
    <3>4. \A x \in o + 1 .. end - 1 : b2.data[x] = NoPkg
      BY <1>1, <3>2, <3>3
    <3>5. end <= b2.dataTail
      BY <1>1, <1>2, <2>0, <3>2
    <3>6. b2.data[end] # NoPkg
      <4>1. CASE end = b.dataTail
        BY <1>1, <1>2, <4>1
      <4>2. CASE end < b.dataTail
        <5>1. end \in Offset /\ end # b.dataTail
          BY <1>1, <1>2, <2>0, <4>2 DEF Offset
        <5> QED BY <1>1, <3>2, <4>2, <5>1
      <4> QED BY <1>1, <2>0, <3>2, <4>1, <4>2
    <3> QED BY <3>4, <3>5, <3>6
  <2>2. CASE o = b.dataTail
    <3>1. end = b2.dataTail
      BY <1>1, <1>7, <2>2
    <3>2. ASSUME NEW x \in o + 1 .. end - 1
          PROVE  b2.data[x] = NoPkg
      <4>1. x \in Offset /\ x # b.dataTail /\ b.dataTail <= x
        BY <1>1, <1>2, <2>0, <2>2, <3>1 DEF Offset
      <4> QED BY <1>1, <1>3, <4>1
    <3> QED BY <2>0, <3>1, <3>2
  <2>3. CASE o > b.dataTail
    <3>1. b2.data[o] = b.data[o] /\ b.dataTail <= o /\ o # b.dataTail
      BY <1>1, <2>0, <2>3
    <3> QED BY <1>3, <1>7, <3>1
  <2> QED BY <1>1, <2>0, <2>1, <2>2, <2>3
<1>8. ASSUME NEW o \in Offset, b2.dataTail <= o
      PROVE  b2.data[o] = NoPkg
  <2>1. o # b.dataTail /\ b.dataTail <= o
    BY <1>1, <1>2, <1>8 DEF Offset
  <2> QED BY <1>1, <1>3, <2>1
<1> QED BY <1>5, <1>6, <1>7, <1>8 DEF Tiled

-----------------------------------------------------------------------------
(* What the operations do to a memory whose chains and blocks are in order. *)

\* A write puts the package behind the tail block's last one, or into a new
\* block behind it, and touches no other block's bytes.
WriteEffect(m, bs, c, pkg, n, cs) ==
  LET pos == n.chain[c].tail IN
  /\ InOrder(n, cs)
  /\ pos \in Pool!Listed(n.pool.used)
  /\ Pool!Listed(m.pool.used) \subseteq Pool!Listed(n.pool.used)
  /\ \A q \in Pool!Listed(m.pool.used) : q # pos =>
       /\ n.block[q].data = m.block[q].data
       /\ n.block[q].dataHead = m.block[q].dataHead
       /\ n.block[q].dataTail = m.block[q].dataTail
  /\ \/ /\ cs = [bs EXCEPT ![c] = Append(bs[c], pos)]
        /\ pos \notin Pool!Listed(m.pool.used)
        /\ Written(FreshBlock, n.block[pos], pkg)
     \/ /\ cs = bs
        /\ Len(bs[c]) # 0 /\ pos = bs[c][Len(bs[c])]
        /\ Written(m.block[pos], n.block[pos], pkg)

LEMMA Writing ==
  ASSUME NEW m, NEW bs, InOrder(m, bs), NEW c \in Chain, NEW pkg \in Pkg, Writable(m, c, pkg)
  PROVE  \E cs : WriteEffect(m, bs, c, pkg, WritePkg(m, c, pkg), cs)
<1>1. /\ m \in MemType
      /\ PoolOK(m.pool)
      /\ bs \in [Chain -> Seq(Pos)]
      /\ Linked(m, bs)
      /\ AllTiled(m)
  BY DEF InOrder
<1>2. PkgLen[pkg] \in Nat /\ BlockSize \in Nat /\ PkgLen[pkg] <= BlockSize
  BY PkgFacts, BlockAssumption DEF Writable
<1>3. CASE NeedsBlock(m, c, pkg)
  <2> DEFINE a   == AllocToChain(m, c)
             pos == Pool!AllocPos(m.pool)
             n   == PutPkg(a, pos, pkg)
             cs  == [bs EXCEPT ![c] = Append(bs[c], pos)]
  <2>1. Pool!Available(m.pool) /\ (m.chain[c].len = 0 \/ m.chain[c].len < ChainLimit(c))
    BY <1>3 DEF Writable
  <2>2. /\ a \in MemType
        /\ PoolOK(a.pool)
        /\ cs \in [Chain -> Seq(Pos)]
        /\ Linked(a, cs)
        /\ Pool!Listed(a.pool.used) = Pool!Listed(m.pool.used) \cup {pos}
        /\ pos \in Pos /\ pos \notin Pool!Listed(m.pool.used)
    BY <1>1, <2>1, AllocLinked
  <2>3. m.chain[c].head # None => m.chain[c].tail \in Pos
    BY <1>1, ChainFacts
  <2>4. /\ a.block \in [Pos -> BlockType]
        /\ a.block[pos] = FreshBlock
        /\ \A q \in Pos : q # pos =>
             /\ a.block[q].data = m.block[q].data
             /\ a.block[q].dataHead = m.block[q].dataHead
             /\ a.block[q].dataTail = m.block[q].dataTail
    BY <1>1, <2>1, <2>3, AllocBlocks
  <2>5. a.chain[c].tail = pos
    BY <1>1 DEF AllocToChain, MemType
  <2>6. WritePkg(m, c, pkg) = n
    BY <1>3, <2>5 DEF WritePkg
  <2> HIDE DEF a, pos, cs
  <2>7. a.block[pos].dataTail + PkgLen[pkg] <= BlockSize
    BY <1>2, <2>4, FreshFacts
  <2>8. /\ n \in MemType
        /\ n.pool = a.pool /\ n.chain = a.chain
        /\ n.block[pos].nextUsedPos = a.block[pos].nextUsedPos
        /\ Written(a.block[pos], n.block[pos], pkg)
        /\ \A q \in Pos : q # pos => n.block[q] = a.block[q]
    BY <2>2, <2>7, PutFields
  <2> HIDE DEF n
  <2>9. Linked(n, cs)
    BY <2>2, <2>8, LinkedSame
  <2>10. n.block[pos] \in BlockType
    BY <2>2, <2>8 DEF MemType
  <2>11. Tiled(n.block[pos])
    BY <2>4, <2>8, <2>10, FreshFacts, WrittenTiled
  <2>12. Pool!Listed(m.pool.used) \subseteq Pos /\ Pool!Listed(n.pool.used) \subseteq Pos
    BY <1>1, <2>8, ListedType DEF MemType
  <2>13. ASSUME NEW q \in Pool!Listed(m.pool.used)
         PROVE  /\ q # pos
                /\ n.block[q].data = m.block[q].data
                /\ n.block[q].dataHead = m.block[q].dataHead
                /\ n.block[q].dataTail = m.block[q].dataTail
    BY <2>2, <2>4, <2>8, <2>12
  <2>14. AllTiled(n)
    <3> SUFFICES ASSUME NEW q \in Pool!Listed(m.pool.used)
                 PROVE  Tiled(n.block[q])
      BY <2>2, <2>8, <2>11 DEF AllTiled
    <3>1. Tiled(m.block[q])
      BY <1>1 DEF AllTiled
    <3> QED BY <2>13, <3>1 DEF Tiled
  <2>15. InOrder(n, cs)
    BY <2>2, <2>8, <2>9, <2>14 DEF InOrder
  <2>16. n.chain[c].tail = pos
    BY <2>5, <2>8
  <2>17. WriteEffect(m, bs, c, pkg, n, cs)
    BY <2>2, <2>4, <2>8, <2>13, <2>15, <2>16 DEF WriteEffect, cs
  <2> QED BY <2>6, <2>17
<1>4. CASE ~NeedsBlock(m, c, pkg)
  <2> DEFINE pos == m.chain[c].tail
             n   == PutPkg(m, pos, pkg)
  <2>1. WritePkg(m, c, pkg) = n
    BY <1>4 DEF WritePkg
  <2>2. m.chain[c].len # 0 /\ ~(BlockSize - m.block[pos].dataTail < PkgLen[pkg])
    BY <1>4 DEF NeedsBlock, LeftRoom
  <2>3. /\ Len(bs[c]) # 0 /\ pos = bs[c][Len(bs[c])]
        /\ pos \in Pos /\ pos \in Pool!Listed(m.pool.used)
    BY <1>1, <2>2, ChainFacts
  <2> HIDE DEF pos
  <2>4. m.block[pos].dataTail \in 0..BlockSize
    BY <1>1, <2>3, MemFields
  <2>5. m.block[pos].dataTail + PkgLen[pkg] <= BlockSize
    BY <1>2, <2>2, <2>4
  <2>6. /\ n \in MemType
        /\ n.pool = m.pool /\ n.chain = m.chain
        /\ n.block[pos].nextUsedPos = m.block[pos].nextUsedPos
        /\ Written(m.block[pos], n.block[pos], pkg)
        /\ \A q \in Pos : q # pos => n.block[q] = m.block[q]
    BY <1>1, <2>3, <2>5, PutFields
  <2> HIDE DEF n
  <2>7. Linked(n, bs)
    BY <1>1, <2>6, LinkedSame
  <2>8. n.block[pos] \in BlockType /\ m.block[pos] \in BlockType
    BY <1>1, <2>3, <2>6 DEF MemType
  <2>9. Tiled(n.block[pos])
    <3>1. Tiled(m.block[pos])
      BY <1>1, <2>3 DEF AllTiled
    <3> QED BY <2>6, <2>8, <3>1, WrittenTiled
  <2>10. Pool!Listed(m.pool.used) \subseteq Pos
    BY <1>1, ListedType DEF MemType
  <2>11. AllTiled(n)
    BY <1>1, <2>6, <2>9, <2>10 DEF AllTiled
  <2>12. InOrder(n, bs)
    BY <1>1, <2>6, <2>7, <2>11 DEF InOrder
  <2>13. n.chain[c].tail = pos
    BY <2>6 DEF pos
  <2>14. WriteEffect(m, bs, c, pkg, n, bs)
    BY <2>3, <2>6, <2>10, <2>12, <2>13 DEF WriteEffect
  <2> QED BY <2>1, <2>14
<1> QED BY <1>3, <1>4

\* A chain that has a head hands out the first package of its head block, in
\* one piece; a chain that has none hands out nothing.
LEMMA Reading ==
  ASSUME NEW m, NEW bs, InOrder(m, bs), NEW c \in Chain
  PROVE  LET pos == m.chain[c].head
             b   == m.block[pos]
             pkg == b.data[b.dataHead]
             rb  == ReadPkg(m, c)
         IN  /\ pos = None => rb = NoRead
             /\ pos # None =>
                  /\ pos \in Pos /\ pos \in Pool!Listed(m.pool.used)
                  /\ pkg \in Pkg
                  /\ b.dataHead \in Offset
                  /\ b.dataHead + PkgLen[pkg] <= b.dataTail
                  /\ rb = [chain |-> c, pkg |-> pkg, pos |-> pos, offset |-> b.dataHead,
                           len |-> <<PkgLen[pkg], 0>>]
                  /\ rb # NoRead
<1> DEFINE pos == m.chain[c].head
           b   == m.block[pos]
           pkg == b.data[b.dataHead]
           rb  == ReadPkg(m, c)
<1>1. pos = None => rb = NoRead
  BY DEF ReadPkg
<1>2. ASSUME pos # None
      PROVE  /\ pos \in Pos /\ pos \in Pool!Listed(m.pool.used)
             /\ pkg \in Pkg
             /\ b.dataHead \in Offset
             /\ b.dataHead + PkgLen[pkg] <= b.dataTail
             /\ rb = [chain |-> c, pkg |-> pkg, pos |-> pos, offset |-> b.dataHead,
                      len |-> <<PkgLen[pkg], 0>>]
             /\ rb # NoRead
  <2>1. pos \in Pos /\ pos \in Pool!Listed(m.pool.used)
    BY <1>2, ChainFacts DEF InOrder
  <2>2. Tiled(b)
    BY <2>1 DEF InOrder, AllTiled
  <2>3. /\ b.dataHead \in 0..BlockSize /\ b.dataTail \in 0..BlockSize
        /\ b.data \in [Offset -> Pkg \cup {NoPkg}]
    BY <2>1, MemFields DEF InOrder
  <2> HIDE DEF b
  <2>4. b.dataHead < b.dataTail /\ pkg # NoPkg /\ BlockSize \in Nat
    BY <2>2, BlockAssumption DEF Tiled
  <2>5. b.dataHead \in Offset
    BY <2>3, <2>4 DEF Offset
  <2>6. pkg \in Pkg
    BY <2>3, <2>4, <2>5
  <2>7. b.dataHead + PkgLen[pkg] <= b.dataTail
    <3>1. b.dataHead <= b.dataHead
      BY <2>3
    <3> QED BY <2>2, <2>4, <2>5, <3>1 DEF Tiled
  <2>8. PkgLen[pkg] \in Nat /\ PkgLen[pkg] >= HeadSize /\ HeadSize \in Nat /\ HeadSize > 0
    BY <2>6, PkgFacts, BlockAssumption
  <2>9. ~(DataLen(b) < HeadSize) /\ DataLen(b) > 0 /\ PkgLen[pkg] - DataLen(b) <= 0
        /\ ~(PkgLen[pkg] - DataLen(b) > 0)
    BY <2>3, <2>7, <2>8 DEF DataLen
  <2>10. rb = [chain |-> c, pkg |-> pkg, pos |-> pos, offset |-> b.dataHead,
               len |-> <<PkgLen[pkg], 0>>]
    <3> DEFINE n     == m.block[b.nextUsedPos]
               short == DataLen(b) < HeadSize
               p     == IF DataLen(b) > 0 THEN b.data[b.dataHead] ELSE n.data[n.dataHead]
               rest  == PkgLen[p] - DataLen(b)
               found(lens) == [chain |-> c, pkg |-> p, pos |-> pos, offset |-> b.dataHead,
                               len |-> lens]
    <3>1. rb = IF \/ pos = None
                  \/ short /\ (b.nextUsedPos = None \/ n.dataTail < HeadSize - DataLen(b))
                  \/ p = NoPkg
                  \/ rest > 0 /\ (b.nextUsedPos = None \/ n.dataTail < rest)
               THEN NoRead
               ELSE found(IF rest <= 0 THEN <<PkgLen[p], 0>> ELSE <<DataLen(b), rest>>)
      BY Zenon DEF ReadPkg, b
    <3>2. p = pkg
      BY <2>9
    <3>3. ~short /\ rest <= 0 /\ ~(rest > 0) /\ p # NoPkg /\ pos # None
      BY <1>2, <2>4, <2>9, <3>2
    <3> HIDE DEF rest, short, p, n, rb, pos
    <3>4. rb = found(<<PkgLen[p], 0>>)
      BY <3>1, <3>3, Zenon
    <3> QED BY <3>2, <3>4
  <2>11. rb # NoRead
    BY <2>4, <2>10 DEF NoRead
  <2> QED BY <2>1, <2>5, <2>6, <2>7, <2>10, <2>11 DEF b
<1> QED BY <1>1, <1>2

LEMMA ReadChain ==
  ASSUME NEW m, NEW bs, InOrder(m, bs), NEW c \in Chain, ReadPkg(m, c) # NoRead
  PROVE  ReadPkg(m, c).chain = c
<1> DEFINE pos == m.chain[c].head
           b   == m.block[pos]
           pkg == b.data[b.dataHead]
<1>1. ReadPkg(m, c) = [chain |-> c, pkg |-> pkg, pos |-> pos, offset |-> b.dataHead,
                       len |-> <<PkgLen[pkg], 0>>]
  BY Reading
<1> HIDE DEF pos, b, pkg
<1> QED BY <1>1

-----------------------------------------------------------------------------
(* Giving a package back. *)

\* What ReleaseHead does to the links.
LEMMA ReleaseLinked ==
  ASSUME NEW m \in MemType, PoolOK(m.pool), NEW bs \in [Chain -> Seq(Pos)], Linked(m, bs),
         NEW c \in Chain, m.chain[c].head # None
  PROVE  LET n  == ReleaseHead(m, c)
             cs == [bs EXCEPT ![c] = Tail(bs[c])]
         IN  /\ n \in MemType
             /\ PoolOK(n.pool)
             /\ cs \in [Chain -> Seq(Pos)]
             /\ Linked(n, cs)
             /\ Pool!Listed(n.pool.used) = Pool!Listed(m.pool.used) \ {m.chain[c].head}
             /\ n.block = m.block
<1> DEFINE n   == ReleaseHead(m, c)
           s   == bs[c]
           t   == Tail(s)
           cs  == [bs EXCEPT ![c] = t]
           ch  == m.chain[c]
           pos == ch.head
           nch == [head |-> IF ch.head = ch.tail THEN None ELSE m.block[ch.head].nextUsedPos,
                   tail |-> IF ch.head = ch.tail THEN None ELSE ch.tail,
                   len  |-> ch.len - 1]
<1>1. n = [m EXCEPT !.pool = Pool!ReleaseBlock(m.pool, pos), !.chain[c] = nch]
  BY DEF ReleaseHead
<1>2. /\ Len(s) \in Nat
      /\ ch.head = IF Len(s) = 0 THEN None ELSE s[1]
      /\ ch.tail = IF Len(s) = 0 THEN None ELSE s[Len(s)]
      /\ ch.len = Len(s)
      /\ Len(s) <= ChainLimit(c)
      /\ \A i \in 1..Len(s) :
           /\ m.block[s[i]].nextUsedPos = IF i = Len(s) THEN None ELSE s[i + 1]
           /\ s[i] \in Pool!Listed(m.pool.used)
           /\ s[i] \in Pos
      /\ \A i, j \in 1..Len(s) : s[i] = s[j] => i = j
      /\ Len(s) # 0 /\ 1 \in 1..Len(s) /\ Len(s) \in 1..Len(s)
  BY ChainFacts
<1>3. pos = s[1] /\ pos \in Pool!Listed(m.pool.used) /\ pos \in Pos
  BY <1>2
<1>4. /\ t \in Seq(Pos) /\ Len(t) = Len(s) - 1
      /\ \A i \in 1..Len(t) : t[i] = s[i + 1]
  <2>1. s \in Seq(Pos) /\ s # <<>>
    BY <1>2
  <2> QED BY <2>1, HeadTailProperties
<1>5. /\ n.pool = Pool!ReleaseBlock(m.pool, pos) /\ n.block = m.block
      /\ n.chain = [m.chain EXCEPT ![c] = nch]
  BY <1>1 DEF MemType
<1>6. /\ n.pool \in [avail : Seq(Pos), used : Seq(Pos)]
      /\ PoolOK(n.pool)
      /\ Pool!Listed(n.pool.used) = Pool!Listed(m.pool.used) \ {pos}
  <2>1. m.pool \in [avail : Seq(Pos), used : Seq(Pos)]
    BY DEF MemType
  <2> HIDE DEF pos, n
  <2>2. LET q == Pool!ReleaseBlock(m.pool, pos)
        IN  /\ q \in [avail : Seq(Pos), used : Seq(Pos)]
            /\ PoolOK(q)
            /\ Pool!Listed(q.used) = Pool!Listed(m.pool.used) \ {pos}
    BY <1>3, <2>1, ReleasePool
  <2> QED BY <1>5, <2>2
<1>7. cs \in [Chain -> Seq(Pos)] /\ cs[c] = t /\ \A d \in Chain : d # c => cs[d] = bs[d]
  BY <1>4
<1> HIDE DEF n, s, t, cs, ch, pos
<1>8. ch.head = ch.tail <=> Len(s) = 1
  BY <1>2
<1>9. nch.head = (IF Len(t) = 0 THEN None ELSE t[1]) /\ nch.tail = IF Len(t) = 0 THEN None ELSE t[Len(t)]
  <2>1. CASE Len(s) = 1
    BY <1>4, <1>8, <2>1
  <2>2. CASE Len(s) # 1
    <3>1. Len(t) # 0 /\ 1 \in 1..Len(t) /\ Len(t) \in 1..Len(t) /\ Len(t) + 1 = Len(s) /\ 1 + 1 = 2
      BY <1>2, <1>4, <2>2
    <3>2. t[1] = s[2] /\ t[Len(t)] = s[Len(s)]
      <4>1. t[1] = s[1 + 1] /\ t[Len(t)] = s[Len(t) + 1]
        BY <1>4, <3>1
      <4> QED BY <3>1, <4>1
    <3>3. m.block[ch.head].nextUsedPos = s[2]
      <4>1. m.block[s[1]].nextUsedPos = s[1 + 1]
        BY <1>2, <2>2
      <4> QED BY <1>3, <3>1, <4>1 DEF pos
    <3>4. ch.head # ch.tail /\ ch.tail = s[Len(s)]
      BY <1>2, <1>8, <2>2
    <3> QED BY <3>1, <3>2, <3>3, <3>4
  <2> QED BY <2>1, <2>2
<1>10. nch.len = Len(t)
  BY <1>2, <1>4
<1>11. \A i \in 1..Len(t) : t[i] = s[i + 1] /\ i + 1 \in 1..Len(s) /\ i + 1 # 1
  BY <1>2, <1>4
<1>12. \A i, j \in 1..Len(t) : t[i] = t[j] => i = j
  <2> TAKE i, j \in 1..Len(t)
  <2> HAVE t[i] = t[j]
  <2>1. i + 1 = j + 1
    BY <1>2, <1>11
  <2> QED BY <1>2, <1>4, <2>1
<1>13. n.chain \in [Chain -> ChainType]
  <2>1. Len(t) \in 0..BlockNum
    BY <1>4, <1>12, LenBound
  <2>2. nch.head \in Pos \cup {None} /\ nch.tail \in Pos \cup {None}
    BY <1>2, <1>4, <1>9, <1>11
  <2>3. nch \in ChainType
    <3> HIDE DEF nch
    <3>1. nch = [head |-> nch.head, tail |-> nch.tail, len |-> nch.len]
      BY DEF nch
    <3> QED BY <1>10, <2>1, <2>2, <3>1 DEF ChainType
  <2> HIDE DEF nch
  <2> QED BY <1>5, <2>3 DEF MemType
<1>14. n.chain[c] = nch /\ \A d \in Chain : d # c => n.chain[d] = m.chain[d]
  BY <1>5 DEF MemType
<1> HIDE DEF nch
<1>15. n \in MemType
  BY <1>1, <1>5, <1>6, <1>13 DEF MemType
<1>16. IsChain(n, c, t)
  <2>1. n.chain[c].head = IF Len(t) = 0 THEN None ELSE t[1]
    BY <1>9, <1>14
  <2>2. n.chain[c].tail = IF Len(t) = 0 THEN None ELSE t[Len(t)]
    BY <1>9, <1>14
  <2>3. n.chain[c].len = Len(t) /\ Len(t) <= ChainLimit(c)
    <3>1. ChainLimit(c) \in Nat
      BY BlockAssumption DEF ChainLimit
    <3> QED BY <1>2, <1>4, <1>10, <1>14, <3>1
  <2>4. ASSUME NEW i \in 1..Len(t)
        PROVE  /\ n.block[t[i]].nextUsedPos = IF i = Len(t) THEN None ELSE t[i + 1]
               /\ t[i] \in Pool!Listed(n.pool.used)
    <3>1. t[i] = s[i + 1] /\ i + 1 \in 1..Len(s) /\ s[i + 1] # s[1]
      BY <1>2, <1>11
    <3>2. t[i] \in Pool!Listed(n.pool.used)
      BY <1>2, <1>3, <1>6, <3>1
    <3>3. n.block[t[i]].nextUsedPos = IF i + 1 = Len(s) THEN None ELSE s[(i + 1) + 1]
      BY <1>2, <1>5, <3>1
    <3>4. i + 1 = Len(s) <=> i = Len(t)
      BY <1>2, <1>4
    <3>5. i # Len(t) => t[i + 1] = s[(i + 1) + 1]
      <4>1. i # Len(t) => i + 1 \in 1..Len(t)
        BY <1>2, <1>4
      <4> QED BY <1>4, <4>1
    <3> QED BY <3>2, <3>3, <3>4, <3>5
  <2> QED BY <1>12, <2>1, <2>2, <2>3, <2>4 DEF IsChain
<1>17. ASSUME NEW d \in Chain, d # c, NEW i \in 1..Len(bs[d])
       PROVE  bs[d][i] # pos
  BY <1>2, <1>3, <1>17 DEF Linked, s
<1>18. ASSUME NEW d \in Chain, d # c
       PROVE  IsChain(n, d, bs[d])
  <2>1. IsChain(m, d, bs[d])
    BY DEF Linked
  <2> QED BY <1>5, <1>6, <1>14, <1>17, <1>18, <2>1 DEF IsChain
<1>19. Linked(n, cs)
  <2>1. \A d \in Chain : IsChain(n, d, cs[d])
    BY <1>7, <1>16, <1>18
  <2>2. ASSUME NEW d \in Chain, NEW i \in 1..Len(cs[d])
        PROVE  \E k \in 1..Len(bs[d]) : cs[d][i] = bs[d][k]
    <3>1. CASE d = c
      <4>1. t[i] = s[i + 1] /\ i + 1 \in 1..Len(s)
        BY <1>7, <1>11, <2>2, <3>1
      <4> QED BY <1>7, <3>1, <4>1 DEF s
    <3>2. CASE d # c
      BY <1>7, <2>2, <3>2
    <3> QED BY <3>1, <3>2
  <2>3. ASSUME NEW d \in Chain, NEW e \in Chain, NEW i \in 1..Len(cs[d]), NEW j \in 1..Len(cs[e]),
               cs[d][i] = cs[e][j]
        PROVE  d = e
    <3>1. PICK k \in 1..Len(bs[d]) : cs[d][i] = bs[d][k]
      BY <2>2
    <3>2. PICK l \in 1..Len(bs[e]) : cs[e][j] = bs[e][l]
      BY <2>2
    <3>3. bs[d][k] = bs[e][l]
      BY <2>3, <3>1, <3>2
    <3> QED BY <3>3 DEF Linked
  <2>4. ASSUME NEW q \in Pool!Listed(n.pool.used)
        PROVE  \E d \in Chain : \E i \in 1..Len(cs[d]) : cs[d][i] = q
    <3>1. q \in Pool!Listed(m.pool.used) /\ q # pos
      BY <1>6
    <3>2. PICK d \in Chain : \E i \in 1..Len(bs[d]) : bs[d][i] = q
      BY <3>1 DEF Linked
    <3>3. PICK i \in 1..Len(bs[d]) : bs[d][i] = q
      BY <3>2
    <3>4. CASE d = c
      <4>1. s[i] = q /\ i # 1 /\ i \in 1..Len(s)
        BY <1>3, <3>1, <3>3, <3>4 DEF s
      <4>2. i - 1 \in 1..Len(t) /\ (i - 1) + 1 = i
        BY <1>2, <1>4, <4>1
      <4>3. t[i - 1] = q
        BY <1>11, <4>1, <4>2
      <4> QED BY <1>7, <4>2, <4>3
    <3>5. CASE d # c
      BY <1>7, <3>3, <3>5
    <3> QED BY <3>4, <3>5
  <2> QED BY <2>1, <2>3, <2>4 DEF Linked
<1> QED BY <1>5, <1>6, <1>7, <1>15, <1>19 DEF n, cs, s, t, pos, ch

\* b2 is b without its first package, pkg.
Advanced(b, b2, pkg) ==
  /\ b2.dataHead = b.dataHead + PkgLen[pkg]
  /\ b2.dataTail = b.dataTail
  /\ b2.data = b.data

LEMMA AdvancedTiled ==
  ASSUME NEW b \in BlockType, NEW b2 \in BlockType, NEW pkg \in Pkg, Advanced(b, b2, pkg),
         Tiled(b), pkg = b.data[b.dataHead], b2.dataHead # b.dataTail
  PROVE  Tiled(b2)
<1>1. /\ b.dataHead \in 0..BlockSize /\ b.dataTail \in 0..BlockSize
      /\ b2.dataHead = b.dataHead + PkgLen[pkg]
      /\ b2.dataTail = b.dataTail /\ b2.data = b.data
  BY DEF Advanced, BlockType
<1>2. PkgLen[pkg] \in Nat /\ PkgLen[pkg] >= 1 /\ BlockSize \in Nat /\ pkg # NoPkg
  BY PkgFacts, BlockAssumption
<1>3. b.dataHead < b.dataTail /\ b.dataHead \in Offset /\ b.dataHead <= b.dataHead
  BY <1>1, <1>2 DEF Tiled, Offset
<1>4. /\ b2.dataHead <= b.dataTail
      /\ b2.dataHead < b.dataTail => b.data[b2.dataHead] # NoPkg
  BY <1>1, <1>2, <1>3 DEF Tiled
<1>5. b2.dataHead < b2.dataTail /\ b2.data[b2.dataHead] # NoPkg
  BY <1>1, <1>2, <1>4
<1>6. ASSUME NEW o \in Offset, b2.dataHead <= o, o < b2.dataTail, b2.data[o] # NoPkg
      PROVE  b.dataHead <= o /\ o < b.dataTail /\ b.data[o] # NoPkg
  BY <1>1, <1>2, <1>6 DEF Offset
<1> QED BY <1>1, <1>5, <1>6 DEF Tiled

\* Giving back the package a read found takes it from its block, and the block
\* from its chain when there is no other.
ReleaseEffect(m, bs, c, pkg, n, cs) ==
  LET pos == m.chain[c].head IN
  /\ InOrder(n, cs)
  /\ \A q \in Pos : q # pos => n.block[q] = m.block[q]
  /\ Advanced(m.block[pos], n.block[pos], pkg)
  /\ n.block[pos] \in BlockType
  /\ IF n.block[pos].dataHead = n.block[pos].dataTail THEN cs = [bs EXCEPT ![c] = Tail(bs[c])]
     ELSE cs = bs

LEMMA Releasing ==
  ASSUME NEW m, NEW bs, InOrder(m, bs), NEW c \in Chain, NEW rb, rb = ReadPkg(m, c), rb # NoRead
  PROVE  \E cs : ReleaseEffect(m, bs, c, rb.pkg, ReleaseReadBuf(m, rb), cs)
<1> DEFINE pos == m.chain[c].head
           b   == m.block[pos]
           pkg == b.data[b.dataHead]
           len == PkgLen[pkg]
           n   == [m EXCEPT !.block[pos].dataHead = m.block[pos].dataHead + len]
<1>1. /\ m \in MemType
      /\ PoolOK(m.pool)
      /\ bs \in [Chain -> Seq(Pos)]
      /\ Linked(m, bs)
      /\ AllTiled(m)
  BY DEF InOrder
<1>2. /\ pos # None
      /\ pos \in Pos /\ pos \in Pool!Listed(m.pool.used)
      /\ pkg \in Pkg
      /\ b.dataHead \in Offset
      /\ b.dataHead + len <= b.dataTail
      /\ rb = [chain |-> c, pkg |-> pkg, pos |-> pos, offset |-> b.dataHead, len |-> <<len, 0>>]
  BY Reading
<1>3. len \in Nat /\ len >= 1
  BY <1>2, PkgFacts
<1> HIDE DEF n, len, pkg
<1>4. rb.chain = c /\ rb.pkg = pkg /\ rb.len[1] = len /\ rb.len[2] = 0
  <2>1. rb.chain = c /\ rb.pkg = pkg /\ rb.len = <<len, 0>>
    <3> HIDE DEF b, pos
    <3> QED BY <1>2
  <2> QED BY <2>1
<1>5. /\ b \in BlockType /\ m.block \in [Pos -> BlockType]
      /\ b.dataHead \in 0..BlockSize /\ b.dataTail \in 0..BlockSize
  BY <1>1, <1>2, MemFields DEF MemType
<1>6. DataLen(b) >= len /\ b.dataHead + len \in 0..BlockSize
  <2> HIDE DEF b
  <2> QED BY <1>2, <1>3, <1>5, BlockAssumption DEF DataLen
<1>7. /\ n \in MemType /\ n.pool = m.pool /\ n.chain = m.chain
      /\ n.block[pos] = [b EXCEPT !.dataHead = b.dataHead + len]
      /\ \A q \in Pos : q # pos => n.block[q] = m.block[q]
  <2> DEFINE b2 == [b EXCEPT !.dataHead = b.dataHead + len]
             k2 == [m.block EXCEPT ![pos] = b2]
  <2>1. n = [m EXCEPT !.block = k2]
    BY DEF n
  <2> HIDE DEF pos, b
  <2>2. b2 \in BlockType
    BY <1>5, <1>6 DEF BlockType
  <2>3. k2 \in [Pos -> BlockType] /\ k2[pos] = b2 /\ \A q \in Pos : q # pos => k2[q] = m.block[q]
    BY <1>2, <1>5, <2>2
  <2> HIDE DEF k2, b2
  <2>4. n \in MemType /\ n.pool = m.pool /\ n.chain = m.chain /\ n.block = k2
    BY <1>1, <2>1, <2>3 DEF MemType
  <2> QED BY <2>3, <2>4 DEF b2
<1>8. /\ n.block[pos] \in BlockType
      /\ n.block[pos].dataHead = b.dataHead + len /\ n.block[pos].dataTail = b.dataTail
      /\ n.block[pos].data = b.data /\ n.block[pos].nextUsedPos = b.nextUsedPos
  <2>1. n.block[pos] \in BlockType
    BY <1>2, <1>7 DEF MemType
  <2> HIDE DEF n
  <2> QED BY <1>5, <1>7, <2>1 DEF BlockType
<1>9. Advanced(b, n.block[pos], pkg)
  BY <1>8 DEF Advanced, len
<1> USE DEF n
<1>10. ReleaseBytes(m, c, len) = IF DataLen(n.block[pos]) = 0 THEN ReleaseHead(n, c) ELSE n
  <2>1. ~(len <= 0 \/ pos = None) /\ ~(len > DataLen(b))
    BY <1>2, <1>3, <1>5, <1>6 DEF DataLen
  <2> QED BY <2>1 DEF ReleaseBytes
<1>11. ReleaseReadBuf(m, rb) = ReleaseBytes(m, c, len)
  <2>1. \A x : ReleaseBytes(x, c, 0) = x
    BY DEF ReleaseBytes
  <2>2. len > 0 /\ HeadHas(m, c, len)
    BY <1>2, <1>3, <1>5, <1>6 DEF HeadHas, DataLen
  <2> HIDE DEF len, pos, b, pkg
  <2>3. ReleaseReadBuf(m, rb) = ReleaseBytes(ReleaseBytes(m, c, len), c, 0)
    <3>1. rb.chain = c /\ rb.len[1] = len /\ rb.len[2] = 0
      BY <1>4
    <3>2. ~(rb.len[1] <= 0 \/ ~HeadHas(m, rb.chain, rb.len[1]))
      BY <1>3, <2>2, <3>1
    <3> QED BY <3>1, <3>2 DEF ReleaseReadBuf
  <2> QED BY <2>1, <2>3
<1> HIDE DEF n
<1>12. Linked(n, bs)
  <2>1. \A q \in Pos : n.block[q].nextUsedPos = m.block[q].nextUsedPos
    BY <1>7, <1>8
  <2> QED BY <2>1, <1>1, <1>2, <1>7, <1>8, LinkedSame
<1>13. Tiled(b)
  BY <1>1, <1>2 DEF AllTiled
<1>14. Pool!Listed(m.pool.used) \subseteq Pos
  BY <1>1, ListedType DEF MemType
<1>15. DataLen(n.block[pos]) = 0 <=> n.block[pos].dataHead = n.block[pos].dataTail
  BY <1>3, <1>5, <1>8 DEF DataLen
<1>16. CASE DataLen(n.block[pos]) = 0
  <2> DEFINE r == ReleaseHead(n, c)
             cs == [bs EXCEPT ![c] = Tail(bs[c])]
  <2>1. /\ r \in MemType
        /\ PoolOK(r.pool)
        /\ cs \in [Chain -> Seq(Pos)]
        /\ Linked(r, cs)
        /\ Pool!Listed(r.pool.used) = Pool!Listed(m.pool.used) \ {pos}
        /\ r.block = n.block
    <3>1. n.chain[c].head = pos /\ n.chain[c].head # None /\ n.pool = m.pool /\ PoolOK(n.pool)
      BY <1>1, <1>2, <1>7
    <3> HIDE DEF pos, b
    <3>2. n \in MemType /\ n.chain[c].head \in {pos} /\ bs \in [Chain -> Seq(Pos)]
      BY <1>1, <1>7, <3>1
    <3>3. /\ r \in MemType
          /\ PoolOK(r.pool)
          /\ cs \in [Chain -> Seq(Pos)]
          /\ Linked(r, cs)
          /\ Pool!Listed(r.pool.used) = Pool!Listed(n.pool.used) \ {n.chain[c].head}
          /\ r.block = n.block
      BY <1>12, <3>1, <3>2, ReleaseLinked
    <3> HIDE DEF r, cs
    <3> QED BY <3>1, <3>3
  <2>2. ReleaseReadBuf(m, rb) = r
    BY <1>10, <1>11, <1>16
  <2> HIDE DEF r, cs, pos, b
  <2>3. AllTiled(r)
    BY <1>1, <1>7, <1>14, <2>1 DEF AllTiled
  <2>4. InOrder(r, cs)
    BY <2>1, <2>3 DEF InOrder
  <2>5. ReleaseEffect(m, bs, c, rb.pkg, r, cs)
    BY <1>4, <1>7, <1>8, <1>9, <1>15, <1>16, <2>1, <2>4 DEF ReleaseEffect, cs, pos, b
  <2> QED BY <2>2, <2>5
<1>17. CASE DataLen(n.block[pos]) # 0
  <2>1. ReleaseReadBuf(m, rb) = n
    BY <1>10, <1>11, <1>17
  <2>2. Tiled(n.block[pos])
    <3>1. n.block[pos].dataHead # b.dataTail /\ pkg = b.data[b.dataHead]
      BY <1>8, <1>15, <1>17 DEF pkg
    <3> HIDE DEF b
    <3> QED BY <1>2, <1>5, <1>8, <1>9, <1>13, <3>1, AdvancedTiled
  <2> HIDE DEF pos, b
  <2>3. AllTiled(n)
    BY <1>1, <1>7, <1>14, <2>2 DEF AllTiled
  <2>4. InOrder(n, bs)
    BY <1>1, <1>7, <1>12, <2>3 DEF InOrder
  <2>5. ReleaseEffect(m, bs, c, rb.pkg, n, bs)
    BY <1>4, <1>7, <1>8, <1>9, <1>15, <1>17, <2>4 DEF ReleaseEffect, pos, b
  <2> QED BY <2>1, <2>5
<1> QED BY <1>16, <1>17

-----------------------------------------------------------------------------
(* The invariant. *)

\* A write does not disturb the read that is out.
LEMMA WriteKeepsReads ==
  ASSUME NEW m, NEW bs, InOrder(m, bs), NEW c \in Chain, NEW pkg \in Pkg, NEW n, NEW cs,
         WriteEffect(m, bs, c, pkg, n, cs), NEW rb, ReadOK(m, rb)
  PROVE  ReadOK(n, rb)
<1> SUFFICES ASSUME rb # NoRead
             PROVE  rb.chain \in Chain /\ ReadPkg(n, rb.chain) = rb
  BY DEF ReadOK
<1> DEFINE d    == rb.chain
           pos  == m.chain[d].head
           b    == m.block[pos]
           tail == n.chain[c].tail
<1>1. d \in Chain /\ ReadPkg(m, d) = rb
  BY DEF ReadOK
<1> HIDE DEF d
<1>2. /\ pos # None /\ pos \in Pos /\ pos \in Pool!Listed(m.pool.used)
      /\ b.dataHead \in Offset /\ b.data[b.dataHead] \in Pkg
      /\ rb = [chain |-> d, pkg |-> b.data[b.dataHead], pos |-> pos, offset |-> b.dataHead,
               len |-> <<PkgLen[b.data[b.dataHead]], 0>>]
  BY <1>1, Reading
<1>3. bs \in [Chain -> Seq(Pos)] /\ Linked(m, bs) /\ cs \in [Chain -> Seq(Pos)] /\ Linked(n, cs)
  BY DEF WriteEffect, InOrder
<1>4. Len(bs[d]) # 0 /\ pos = bs[d][1] /\ 1 \in 1..Len(bs[d])
  <2> HIDE DEF b
  <2> QED BY <1>1, <1>2, <1>3, HeadFacts
<1>5. Len(cs[d]) # 0 /\ cs[d][1] = pos
  <2>1. CASE cs[d] = bs[d]
    BY <1>4, <2>1
  <2>2. CASE d = c /\ cs = [bs EXCEPT ![c] = Append(bs[c], tail)] /\ tail \in Pos
    <3>1. cs[d] = Append(bs[d], tail) /\ bs[d] \in Seq(Pos)
      BY <1>1, <1>3, <2>2
    <3> HIDE DEF tail
    <3>2. 1 \in 1..Len(cs[d]) /\ cs[d][1] = bs[d][1]
      BY <1>4, <2>2, <3>1, AppendElements
    <3>3. Len(cs[d]) \in Nat
      BY <1>1, <1>3, LenProperties
    <3> QED BY <1>4, <3>2, <3>3
  <2>3. cs = bs \/ (cs = [bs EXCEPT ![c] = Append(bs[c], tail)] /\ tail \in Pos)
    <3>1. tail \in Pool!Listed(n.pool.used) /\ n \in MemType
      BY DEF WriteEffect, InOrder
    <3>2. tail \in Pos
      BY <3>1, ListedType DEF MemType
    <3> QED BY <3>2 DEF WriteEffect
  <2> QED BY <1>1, <1>3, <2>1, <2>2, <2>3
<1>6. n.chain[d].head = pos
  <2> HIDE DEF b, pos
  <2> QED BY <1>1, <1>3, <1>5, HeadFacts
<1>7. /\ n.block[pos].dataHead = b.dataHead
      /\ n.block[pos].data[b.dataHead] = b.data[b.dataHead]
  <2>1. CASE pos # tail
    BY <1>2, <2>1 DEF WriteEffect
  <2>2. CASE pos = tail
    <3>1. Written(b, n.block[pos], pkg)
      BY <1>2, <2>2 DEF WriteEffect
    <3>2. b.dataHead # b.dataTail
      <4>1. Tiled(b)
        BY <1>2 DEF InOrder, AllTiled
      <4>2. b.dataHead \in 0..BlockSize /\ b.dataTail \in 0..BlockSize
        BY <1>2, MemFields DEF InOrder
      <4> HIDE DEF b
      <4> QED BY <4>1, <4>2 DEF Tiled
    <3>3. b.data \in [Offset -> Pkg \cup {NoPkg}]
      BY <1>2, MemFields DEF InOrder
    <3> HIDE DEF b
    <3> QED BY <1>2, <3>1, <3>2, <3>3 DEF Written
  <2> QED BY <2>1, <2>2
<1>8. ReadPkg(n, d) = [chain |-> d, pkg |-> b.data[b.dataHead], pos |-> pos, offset |-> b.dataHead,
                       len |-> <<PkgLen[b.data[b.dataHead]], 0>>]
  <2>1. InOrder(n, cs)
    BY DEF WriteEffect
  <2> HIDE DEF b, pos
  <2> QED BY <1>1, <1>2, <1>6, <1>7, <2>1, Reading
<1> QED BY <1>1, <1>2, <1>8 DEF d

LEMMA InitInOrder == Init => InOrder(mem, [c \in Chain |-> <<>>])
<1> SUFFICES ASSUME Init PROVE InOrder(mem, [c \in Chain |-> <<>>])
  OBVIOUS
<1> DEFINE bs == [c \in Chain |-> <<>>]
           a  == [i \in 1..BlockNum |-> i - 1]
<1>1. /\ mem = [pool  |-> [avail |-> a, used |-> <<>>],
                chain |-> [c \in Chain |-> [head |-> None, tail |-> None, len |-> 0]],
                block |-> [pos \in Pos |-> FreshBlock]]
  BY DEF Init, JoyBlockInit, Pool!InitPool
<1>2. BlockNum \in Nat /\ Len(<<>>) = 0
  BY PosFacts
<1>3. a \in Seq(Pos) /\ Len(a) = BlockNum
  <2>1. a \in [1..BlockNum -> Pos]
    BY <1>2 DEF Pos
  <2> QED BY <1>2, <2>1, SeqDef
<1>4. mem \in MemType
  BY <1>1, <1>2, <1>3, FreshFacts DEF MemType, ChainType
<1>5. PoolOK(mem.pool)
  <2>1. Pool!Listed(<<>>) = {}
    BY DEF Pool!Listed
  <2>2. Pool!Listed(a) = Pos
    <3>1. \A pos \in Pos : pos + 1 \in 1..BlockNum /\ (pos + 1) - 1 = pos
      BY <1>2 DEF Pos
    <3>2. \A pos \in Pos : a[pos + 1] = pos
      BY <3>1
    <3>3. \A i \in 1..BlockNum : a[i] \in Pos
      BY <1>2 DEF Pos
    <3> HIDE DEF a
    <3> QED BY <1>3, <3>1, <3>2, <3>3 DEF Pool!Listed
  <2>3. \A i, j \in 1..BlockNum : a[i] = a[j] => i = j
    BY <1>2
  <2> HIDE DEF a
  <2> QED BY <1>1, <1>2, <1>3, <2>1, <2>2, <2>3 DEF PoolOK
<1>6. Linked(mem, bs)
  <2>1. \A c \in Chain : ChainLimit(c) \in Nat
    BY BlockAssumption DEF ChainLimit
  <2>2. Pool!Listed(mem.pool.used) = {}
    BY <1>1 DEF Pool!Listed
  <2>3. \A c \in Chain : bs[c] = <<>>
    OBVIOUS
  <2> HIDE DEF bs
  <2>4. \A c \in Chain : IsChain(mem, c, bs[c])
    BY <1>1, <1>2, <2>1, <2>3 DEF IsChain
  <2> QED BY <1>2, <2>2, <2>3, <2>4 DEF Linked
<1>7. AllTiled(mem)
  BY <1>1 DEF AllTiled, Pool!Listed
<1>8. bs \in [Chain -> Seq(Pos)]
  OBVIOUS
<1> QED BY <1>4, <1>5, <1>6, <1>7, <1>8 DEF InOrder

LEMMA NextIInv == IInv /\ [Next]_vars => IInv'
<1> SUFFICES ASSUME IInv, [Next]_vars PROVE IInv'
  OBVIOUS
<1>1. PICK bs : InOrder(mem, bs)
  BY DEF IInv
<1>2. ReadOK(mem, rbuf)
  BY DEF IInv
<1>3. ASSUME NEW c \in Chain, Read(c)
      PROVE  IInv'
  <2>1. mem' = mem /\ rbuf' = ReadPkg(mem, c)
    BY <1>3 DEF Read
  <2>2. rbuf' # NoRead => rbuf'.chain = c
    BY <1>1, <2>1, ReadChain
  <2>3. ReadOK(mem', rbuf')
    BY <2>1, <2>2 DEF ReadOK
  <2> QED BY <1>1, <2>1, <2>3 DEF IInv
<1>4. ASSUME NEW c \in Chain, NEW pkg \in Pkg, Write(c, pkg)
      PROVE  IInv'
  <2>1. mem' = WritePkg(mem, c, pkg) /\ rbuf' = rbuf /\ Writable(mem, c, pkg)
    BY <1>4 DEF Write
  <2>2. PICK cs : WriteEffect(mem, bs, c, pkg, mem', cs)
    BY <1>1, <2>1, Writing
  <2>3. ReadOK(mem', rbuf)
    BY <1>1, <1>2, <2>2, WriteKeepsReads
  <2>4. InOrder(mem', cs)
    BY <2>2 DEF WriteEffect
  <2> QED BY <2>1, <2>3, <2>4 DEF IInv
<1>5. CASE Release
  <2>1. rbuf # NoRead /\ mem' = ReleaseReadBuf(mem, rbuf) /\ rbuf' = NoRead
    BY <1>5 DEF Release
  <2>2. rbuf.chain \in Chain /\ rbuf = ReadPkg(mem, rbuf.chain)
    BY <1>2, <2>1 DEF ReadOK
  <2>3. PICK cs : ReleaseEffect(mem, bs, rbuf.chain, rbuf.pkg, mem', cs)
    BY <1>1, <2>1, <2>2, Releasing
  <2>4. InOrder(mem', cs)
    BY <2>3 DEF ReleaseEffect
  <2> QED BY <2>1, <2>4 DEF IInv, ReadOK
<1>6. CASE PutBack
  BY <1>1, <1>6 DEF PutBack, IInv, ReadOK
<1>7. CASE UNCHANGED vars
  BY <1>1, <1>2, <1>7 DEF vars, IInv
<1> QED BY <1>3, <1>4, <1>5, <1>6, <1>7 DEF Next

LEMMA IInvHolds == Spec => []IInv
<1>1. Init => IInv
  <2> SUFFICES ASSUME Init PROVE IInv
    OBVIOUS
  <2>1. rbuf = NoRead
    BY DEF Init
  <2> QED BY <2>1, InitInOrder DEF IInv, ReadOK
<1> QED BY <1>1, NextIInv, PTL DEF Spec

\* A chain that holds anything hands out a whole package in one piece, so that
\* the code that puts a package together from two blocks is never needed: for
\* every mix of package lengths, block sizes and chain limits.
THEOREM PackagesComeWhole == Spec => []HeadPackageWhole
<1>1. IInv => HeadPackageWhole
  <2> SUFFICES ASSUME IInv, NEW c \in Chain, mem.chain[c].head # None
               PROVE  ReadPkg(mem, c) # NoRead /\ ReadPkg(mem, c).len[2] = 0
    BY DEF HeadPackageWhole
  <2>1. PICK bs : InOrder(mem, bs)
    BY DEF IInv
  <2> DEFINE b == mem.block[mem.chain[c].head]
             len == PkgLen[b.data[b.dataHead]]
  <2>2. /\ ReadPkg(mem, c) # NoRead
        /\ ReadPkg(mem, c) = [chain |-> c, pkg |-> b.data[b.dataHead], pos |-> mem.chain[c].head,
                              offset |-> b.dataHead, len |-> <<len, 0>>]
    BY <2>1, Reading
  <2> HIDE DEF len, b
  <2>3. ReadPkg(mem, c).len = <<len, 0>>
    BY <2>2
  <2> QED BY <2>2, <2>3
<1> QED BY <1>1, IInvHolds, PTL

\* The pointer a read handed out points at its package until it is given back,
\* whatever is written in the meantime, to its own chain or to another.
THEOREM ReadBufAlwaysValid == Spec => []ReadBufStaysValid
<1>1. IInv => ReadBufStaysValid
  <2> SUFFICES ASSUME IInv, rbuf # NoRead
               PROVE  /\ rbuf.pos \in Pool!Listed(mem.pool.used)
                      /\ mem.block[rbuf.pos].data[rbuf.offset] = rbuf.pkg
                      /\ ReadPkg(mem, rbuf.chain) = rbuf
    BY DEF ReadBufStaysValid
  <2>1. PICK bs : InOrder(mem, bs)
    BY DEF IInv
  <2>2. rbuf.chain \in Chain /\ ReadPkg(mem, rbuf.chain) = rbuf
    BY DEF IInv, ReadOK
  <2> DEFINE pos == mem.chain[rbuf.chain].head
             b == mem.block[pos]
  <2>3. /\ pos \in Pool!Listed(mem.pool.used)
        /\ rbuf = [chain |-> rbuf.chain, pkg |-> b.data[b.dataHead], pos |-> pos,
                   offset |-> b.dataHead, len |-> <<PkgLen[b.data[b.dataHead]], 0>>]
    BY <2>1, <2>2, Reading
  <2>4. rbuf.pos = pos /\ rbuf.offset = b.dataHead /\ rbuf.pkg = b.data[b.dataHead]
    <3> HIDE DEF b, pos
    <3> QED BY <2>3
  <2> QED BY <2>2, <2>3, <2>4
<1> QED BY <1>1, IInvHolds, PTL

-----------------------------------------------------------------------------
(* The walk over a chain's links, and what the chains make of the pool. *)

\* The blocks the walk finds are those of the invariant.
LEMMA BlocksWalk ==
  ASSUME NEW m, NEW bs \in [Chain -> Seq(Pos)], Linked(m, bs), NEW c \in Chain
  PROVE  Blocks(m, c) = bs[c]
<1> DEFINE s == bs[c]
           first == m.chain[c].head
           link(q) == m.block[q].nextUsedPos
           start == IF first = None THEN <<>> ELSE <<first>>
           after(t, n) == IF Len(t) < n \/ link(t[n]) = None THEN t ELSE Append(t, link(t[n]))
           Step(f) == [n \in 0..BlockNum |-> IF n = 0 THEN start ELSE after(f[n - 1], n)]
           len(n) == IF n < Len(s) THEN n + 1 ELSE Len(s)
           visited == [n \in 0..BlockNum |-> SubSeq(s, 1, len(n))]
           step == CHOOSE f : f = Step(f)
<1>1. s \in Seq(Pos) /\ Len(s) \in 0..BlockNum /\ BlockNum \in Nat
  BY ChainFacts, LenBound, PosFacts
<1>2. \A i \in 1..Len(s) : link(s[i]) = IF i = Len(s) THEN None ELSE s[i + 1]
  BY ChainFacts
<1>3. first = IF Len(s) = 0 THEN None ELSE s[1]
  BY HeadFacts
<1>4. \A i \in 1..Len(s) : s[i] \in Pos /\ ~(s[i] = None)
  BY <1>1, PosFacts, ElementOfSeq
<1>14. Blocks(m, c) = step[BlockNum]
  BY Zenon DEF Blocks
<1> HIDE DEF link, s, first
<1>5. ASSUME NEW n \in 1..BlockNum, NEW t, t = SubSeq(s, 1, len(n - 1))
      PROVE  SubSeq(s, 1, len(n)) = after(t, n)
  <2>1. CASE n > Len(s)
    <3>1. len(n) = Len(s) /\ len(n - 1) = Len(s) /\ Len(s) \in 0..Len(s)
      BY <1>1, <1>5, <2>1
    <3>2. Len(t) = Len(s)
      BY <1>1, <1>5, <3>1, PrefixSeq
    <3> QED BY <1>1, <1>5, <2>1, <3>1, <3>2
  <2>2. CASE n <= Len(s)
    <3>1. len(n - 1) = n /\ n \in 0..Len(s) /\ n \in 1..Len(s) /\ n \in 1..n
      BY <1>1, <1>5, <2>2
    <3> HIDE DEF len
    <3>2. Len(t) = n /\ t[n] = s[n]
      BY <1>1, <1>5, <3>1, PrefixSeq
    <3>3. CASE n = Len(s)
      <4>1. link(t[n]) = None
        BY <1>2, <3>1, <3>2, <3>3
      <4>2. len(n) = n
        BY <3>3 DEF len
      <4> QED BY <1>5, <3>1, <4>1, <4>2
    <3>4. CASE n < Len(s)
      <4>1. link(t[n]) = s[n + 1] /\ ~(s[n + 1] = None)
        BY <1>1, <1>2, <1>4, <3>1, <3>2, <3>4
      <4>2. len(n) = n + 1 /\ ~(Len(t) < n)
        BY <1>1, <3>1, <3>2, <3>4 DEF len
      <4>3. SubSeq(s, 1, n + 1) = Append(SubSeq(s, 1, n), s[n + 1])
        BY <1>1, <3>1, <3>4, PrefixSeq
      <4>4. t = SubSeq(s, 1, n)
        BY <1>5, <3>1
      <4>5. after(t, n) = Append(t, link(t[n]))
        BY ONLY <4>1, <4>2
      <4> HIDE DEF after
      <4> QED BY <4>1, <4>2, <4>3, <4>4, <4>5
    <3> HIDE DEF after
    <3> QED BY <1>1, <2>2, <3>1, <3>3, <3>4
  <2> HIDE DEF after, len
  <2> QED BY <1>1, <1>5, <2>1, <2>2
<1>6. SubSeq(s, 1, len(0)) = start
  <2>1. CASE Len(s) = 0
    <3>1. first = None /\ len(0) = 0
      BY <1>3, <2>1
    <3> QED BY <3>1, SubSeqEmpty
  <2>2. CASE Len(s) # 0
    <3>1. ~(first = None) /\ first = s[1] /\ len(0) = 1 /\ 0 \in 0..Len(s) /\ 0 < Len(s)
      BY <1>1, <1>3, <1>4, <2>2
    <3>2. SubSeq(s, 1, 0 + 1) = Append(SubSeq(s, 1, 0), s[0 + 1])
      BY <1>1, <3>1, PrefixSeq
    <3>3. SubSeq(s, 1, 0) = <<>>
      BY SubSeqEmpty
    <3>4. Append(<<>>, s[1]) = <<s[1]>>
      OBVIOUS
    <3>5. 0 + 1 = 1
      OBVIOUS
    <3>6. SubSeq(s, 1, 1) = <<s[1]>>
      BY <3>2, <3>3, <3>4, <3>5, Zenon
    <3> QED BY <3>1, <3>6
  <2> QED BY <2>1, <2>2
<1> HIDE DEF len, after, start
<1>7. visited = Step(visited)
  <2>1. ASSUME NEW n \in 0..BlockNum
        PROVE  visited[n] = Step(visited)[n]
    <3>1. CASE n = 0
      BY <3>1, <1>6
    <3>2. CASE n # 0
      <4>1. n - 1 \in 0..BlockNum
        BY <3>2, <1>1
      <4>2. visited[n - 1] = SubSeq(s, 1, len(n - 1)) /\ visited[n] = SubSeq(s, 1, len(n))
        BY <4>1
      <4>3. n \in 1..BlockNum
        BY <3>2, <1>1
      <4> HIDE DEF visited
      <4> QED BY <1>5, <3>2, <4>2, <4>3
    <3> QED BY <3>1, <3>2
  <2>2. visited = [n \in 0..BlockNum |-> visited[n]]
    OBVIOUS
  <2>3. Step(visited) = [n \in 0..BlockNum |-> Step(visited)[n]]
    <3> HIDE DEF visited
    <3> QED OBVIOUS
  <2> HIDE DEF visited, Step
  <2> QED BY <2>1, <2>2, <2>3, Zenon
<1>8. step = Step(step)
  <2> HIDE DEF visited, Step
  <2> QED BY <1>7
<1>13. ASSUME NEW f, f = Step(f), NEW n \in 0..BlockNum-1
      PROVE  n + 1 \in 0..BlockNum /\ f[n + 1] = after(f[n], n + 1)
  <2>1. n + 1 \in 0..BlockNum /\ n + 1 # 0 /\ n + 1 - 1 = n
    BY <1>1
  <2>2. Step(f)[n + 1] = after(f[n + 1 - 1], n + 1)
    BY <2>1
  <2> HIDE DEF Step
  <2> QED BY <1>13, <2>1, <2>2, Zenon
<1> HIDE DEF step
<1>10. 0..BlockNum \subseteq {n \in 0..BlockNum : step[n] = visited[n]}
  <2> DEFINE T == {n \in 0..BlockNum : step[n] = visited[n]}
  <2>1. 0 \in T
    <3>1. step[0] = start
      BY <1>8, <1>1
    <3>2. visited[0] = start
      BY <1>6, <1>1
    <3> HIDE DEF visited
    <3> QED BY <3>1, <3>2, <1>1
  <2>2. ASSUME NEW n \in 0..BlockNum-1, n \in T
        PROVE  n + 1 \in T
    <3> HIDE DEF visited, Step
    <3> QED BY <1>7, <1>8, <1>13, <2>2
  <2> HIDE DEF T
  <2>3. 0 \in Int /\ BlockNum \in Int
    BY <1>1
  <2> QED BY <2>1, <2>2, <2>3, IntervalInduction DEF T
<1>11. step[BlockNum] = visited[BlockNum]
  BY <1>1, <1>10
<1>12. len(BlockNum) = Len(s)
  BY <1>1 DEF len
<1>9. step[BlockNum] = s
  BY <1>1, <1>11, <1>12, SubSeqFull
<1> QED BY <1>9, <1>14 DEF s


\* Every length, offset and link of the pool, the chains and the blocks stays in
\* its range.
THEOREM TypeCorrect == Spec => []TypeOK
<1>1. IInv => TypeOK
  <2> SUFFICES ASSUME IInv PROVE TypeOK
    OBVIOUS
  <2>1. PICK bs : InOrder(mem, bs)
    BY DEF IInv
  <2>2. DOMAIN mem = {"pool", "chain", "block"}
    <3>1. mem \in [pool : [avail : Seq(Pos), used : Seq(Pos)],
                   chain : [Chain -> ChainType],
                   block : [Pos -> BlockType]]
      BY <2>1 DEF InOrder, MemType
    <3> QED BY <3>1
  <2>3. mem.chain \in [Chain -> ChainType] /\ mem.block \in [Pos -> BlockType]
    BY <2>1 DEF InOrder, MemType
  <2>4. /\ Len(mem.pool.avail) + Len(mem.pool.used) = BlockNum
        /\ Pool!Listed(mem.pool.avail) \cup Pool!Listed(mem.pool.used) = Pos
    BY <2>1 DEF InOrder, PoolOK
  <2>5. ASSUME rbuf # NoRead
        PROVE  rbuf.pkg \in Pkg /\ rbuf.pos \in Pos
    <3> DEFINE pos == mem.chain[rbuf.chain].head
               b == mem.block[pos]
    <3>1. rbuf.chain \in Chain /\ ReadPkg(mem, rbuf.chain) = rbuf
      BY <2>5 DEF IInv, ReadOK
    <3>2. /\ pos \in Pos /\ b.data[b.dataHead] \in Pkg
          /\ rbuf = [chain |-> rbuf.chain, pkg |-> b.data[b.dataHead], pos |-> pos,
                     offset |-> b.dataHead, len |-> <<PkgLen[b.data[b.dataHead]], 0>>]
      BY <2>1, <2>5, <3>1, Reading
    <3>3. rbuf.pos = pos /\ rbuf.pkg = b.data[b.dataHead]
      <4> HIDE DEF b, pos
      <4> QED BY <3>2
    <3> QED BY <3>2, <3>3
  <2> QED BY <2>2, <2>3, <2>4, <2>5 DEF TypeOK
<1> QED BY <1>1, IInvHolds, PTL

\* The used blocks of the pool are those of the chains, each in one chain, every
\* chain is as long as it says and ends where it says, whatever is written to
\* full and to empty chains and with whatever is left of the pool: no block
\* leaks and none is used twice.
THEOREM NoBlockLeaks == Spec => []ChainsShareOutThePool
<1>1. IInv => ChainsShareOutThePool
  <2> SUFFICES ASSUME IInv PROVE ChainsShareOutThePool
    OBVIOUS
  <2>1. PICK bs : InOrder(mem, bs)
    BY DEF IInv
  <2>2. bs \in [Chain -> Seq(Pos)] /\ Linked(mem, bs)
    BY <2>1 DEF InOrder
  <2>3. \A c \in Chain : Blocks(mem, c) = bs[c]
    BY <2>2, BlocksWalk
  <2>4. ASSUME NEW c \in Chain
        PROVE  /\ Len(bs[c]) = mem.chain[c].len
               /\ mem.chain[c].tail = IF bs[c] = <<>> THEN None ELSE bs[c][Len(bs[c])]
               /\ Len(bs[c]) <= ChainLimit(c)
               /\ Pool!Listed(bs[c]) \subseteq Pool!Listed(mem.pool.used)
    <3>1. bs[c] = <<>> <=> Len(bs[c]) = 0
      BY <2>2, EmptySeq
    <3>2. \A i \in 1..Len(bs[c]) : bs[c][i] \in Pool!Listed(mem.pool.used)
      BY <2>2, ChainFacts
    <3>3. Pool!Listed(bs[c]) \subseteq Pool!Listed(mem.pool.used)
      BY <3>2 DEF Pool!Listed
    <3> QED BY <2>2, <3>1, <3>3, ChainFacts
  <2>5. ASSUME NEW c \in Chain, NEW d \in Chain, c # d
        PROVE  Pool!Listed(bs[c]) \cap Pool!Listed(bs[d]) = {}
    BY <2>2, <2>5 DEF Linked, Pool!Listed
  <2>6. ASSUME NEW pos \in Pool!Listed(mem.pool.used)
        PROVE  \E c \in Chain : pos \in Pool!Listed(bs[c])
    <3>1. PICK c \in Chain : \E i \in 1..Len(bs[c]) : bs[c][i] = pos
      BY <2>2 DEF Linked
    <3>2. pos \in Pool!Listed(bs[c])
      BY <3>1 DEF Pool!Listed
    <3> QED BY <3>2
  <2>7. ASSUME NEW c \in Chain
        PROVE  LET s == Blocks(mem, c) IN
               /\ Len(s) = mem.chain[c].len
               /\ mem.chain[c].tail = IF s = <<>> THEN None ELSE s[Len(s)]
               /\ Len(s) <= ChainLimit(c)
               /\ Pool!Listed(s) \subseteq Pool!Listed(mem.pool.used)
    <3>1. Blocks(mem, c) = bs[c]
      BY <2>3
    <3> QED BY <2>4, <3>1
  <2>8. ASSUME NEW c \in Chain, NEW d \in Chain, c # d
        PROVE  Pool!Listed(Blocks(mem, c)) \cap Pool!Listed(Blocks(mem, d)) = {}
    <3>1. Blocks(mem, c) = bs[c] /\ Blocks(mem, d) = bs[d]
      BY <2>3
    <3> QED BY <2>5, <2>8, <3>1
  <2>9. ASSUME NEW pos \in Pool!Listed(mem.pool.used)
        PROVE  \E c \in Chain : pos \in Pool!Listed(Blocks(mem, c))
    <3>1. PICK c \in Chain : pos \in Pool!Listed(bs[c])
      BY <2>6
    <3> QED BY <2>3, <3>1
  <2> QED BY <2>7, <2>8, <2>9 DEF ChainsShareOutThePool
<1> QED BY <1>1, IInvHolds, PTL

-----------------------------------------------------------------------------
(* joyBlockMemCheck: the chains' lengths add up to the pool's used blocks. *)

LEMMA ListCardinality ==
  ASSUME NEW s \in Seq(Pos), \A i, j \in 1..Len(s) : s[i] = s[j] => i = j
  PROVE  IsFiniteSet(Pool!Listed(s)) /\ Cardinality(Pool!Listed(s)) = Len(s)
<1>1. Len(s) \in Nat /\ s \in [1..Len(s) -> Pos]
  BY LenProperties
<1>2. IsFiniteSet(1..Len(s)) /\ Cardinality(1..Len(s)) = Len(s)
  <2>1. 1 \in Int /\ Len(s) \in Int
    BY <1>1
  <2>2. /\ IsFiniteSet(1..Len(s))
        /\ Cardinality(1..Len(s)) = IF 1 > Len(s) THEN 0 ELSE Len(s) - 1 + 1
    BY <2>1, FS_Interval
  <2> QED BY <1>1, <2>2
<1>3. s \in Bijection(1..Len(s), Pool!Listed(s))
  BY <1>1 DEF Bijection, Injection, Surjection, IsInjective, Pool!Listed
<1>4. ExistsBijection(1..Len(s), Pool!Listed(s))
  BY <1>3 DEF ExistsBijection
<1> QED BY <1>2, <1>4, FS_Bijection

\* The blocks of the chains in cs.
BlocksOf(bs, cs) == UNION {Pool!Listed(bs[c]) : c \in cs}

LEMMA ChainsAddUp ==
  ASSUME NEW m, NEW bs, InOrder(m, bs)
  PROVE  UsedBlockNum(m, Chain) = Len(m.pool.used)
<1> DEFINE num(c, n) == IF m.chain[c].head = None THEN n ELSE n + m.chain[c].len
           Step(f) == [cs \in SUBSET Chain |->
                         IF cs = {} THEN 0
                         ELSE LET c == CHOOSE x \in cs : TRUE IN num(c, f[cs \ {c}])]
           iter == CHOOSE f : f = Step(f)
           sum  == [cs \in SUBSET Chain |-> Cardinality(BlocksOf(bs, cs))]
<1>1. UsedBlockNum(m, Chain) = iter[Chain]
  BY Zenon DEF UsedBlockNum, FoldSet, MapThenFoldSet
<1> HIDE DEF iter
<1>2. bs \in [Chain -> Seq(Pos)] /\ Linked(m, bs) /\ PoolOK(m.pool) /\ m \in MemType
  BY DEF InOrder
<1>3. IsFiniteSet(Pos)
  <2>1. 0 \in Int /\ BlockNum - 1 \in Int
    BY PosFacts
  <2> QED BY <2>1, FS_Interval DEF Pos
<1>4. ASSUME NEW cs \in SUBSET Chain
      PROVE  IsFiniteSet(BlocksOf(bs, cs)) /\ Cardinality(BlocksOf(bs, cs)) \in Nat
  <2>1. BlocksOf(bs, cs) \subseteq Pos
    BY <1>2, ListedType DEF BlocksOf
  <2> QED BY <1>3, <2>1, FS_Subset, FS_CardinalityType
<1>5. ASSUME NEW c \in Chain
      PROVE  /\ IsFiniteSet(Pool!Listed(bs[c]))
             /\ Cardinality(Pool!Listed(bs[c])) = m.chain[c].len
             /\ m.chain[c].head = None => m.chain[c].len = 0
             /\ m.chain[c].len \in Nat
  <2>1. bs[c] \in Seq(Pos) /\ \A i, j \in 1..Len(bs[c]) : bs[c][i] = bs[c][j] => i = j
    BY <1>2 DEF Linked, IsChain
  <2>2. m.chain[c].len = Len(bs[c]) /\ Len(bs[c]) \in Nat
    BY <1>2, ChainFacts
  <2>3. m.chain[c].head = None => Len(bs[c]) = 0
    BY <1>2, HeadFacts
  <2> QED BY <2>1, <2>2, <2>3, ListCardinality
<1>6. ASSUME NEW cs \in SUBSET Chain, NEW c \in cs
      PROVE  Cardinality(BlocksOf(bs, cs)) = num(c, Cardinality(BlocksOf(bs, cs \ {c})))
  <2> DEFINE A == BlocksOf(bs, cs \ {c})
             B == Pool!Listed(bs[c])
  <2>1. BlocksOf(bs, cs) = A \cup B
    BY DEF BlocksOf
  <2>2. A \cap B = {}
    BY <1>2 DEF Linked, Pool!Listed, BlocksOf
  <2>3. IsFiniteSet(A) /\ Cardinality(A) \in Nat
    <3>1. cs \ {c} \in SUBSET Chain
      OBVIOUS
    <3> QED BY <1>4, <3>1
  <2>4. /\ IsFiniteSet(B) /\ Cardinality(B) = m.chain[c].len /\ m.chain[c].len \in Nat
        /\ m.chain[c].head = None => m.chain[c].len = 0
    BY <1>5
  <2> HIDE DEF A, B
  <2>5. Cardinality(A \cup B) = Cardinality(A) + Cardinality(B) - Cardinality(A \cap B)
    BY <2>3, <2>4, FS_Union
  <2>6. Cardinality(A \cup B) = num(c, Cardinality(A))
    <3>1. Cardinality(A \cap B) = 0
      BY <2>2, FS_EmptySet
    <3>2. ASSUME NEW ab, NEW a \in Nat, NEW b \in Nat, ab = a + b - 0, b = m.chain[c].len,
                 m.chain[c].head = None => b = 0
          PROVE  ab = num(c, a)
      BY <3>2
    <3>3. Cardinality(A \cup B) = Cardinality(A) + Cardinality(B) - 0
      BY <2>5, <3>1
    <3> HIDE DEF num
    <3> QED BY <2>3, <2>4, <3>2, <3>3
  <2> QED BY <2>1, <2>6 DEF A
<1> HIDE DEF num
<1>7. ASSUME NEW cs \in SUBSET Chain
      PROVE  sum[cs] = IF cs = {} THEN 0
                       ELSE LET c == CHOOSE x \in cs : TRUE IN num(c, sum[cs \ {c}])
  <2>1. CASE cs = {}
    <3>1. BlocksOf(bs, cs) = {}
      BY <2>1 DEF BlocksOf
    <3> QED BY <2>1, <3>1, FS_EmptySet
  <2>2. CASE cs # {}
    <3> DEFINE c == CHOOSE x \in cs : TRUE
    <3>1. c \in cs
      BY <2>2
    <3> HIDE DEF c
    <3>2. sum[cs] = num(c, sum[cs \ {c}])
      <4>1. cs \ {c} \in SUBSET Chain
        OBVIOUS
      <4> QED BY <1>6, <3>1, <4>1
    <3> HIDE DEF sum
    <3> QED BY <2>2, <3>2 DEF c
  <2> QED BY <2>1, <2>2
<1>8. sum = Step(sum)
  <2>1. sum = [cs \in SUBSET Chain |-> sum[cs]]
    OBVIOUS
  <2> HIDE DEF sum
  <2> QED BY <1>7, <2>1
<1>9. iter = Step(iter)
  <2> HIDE DEF Step, sum
  <2> QED BY <1>8 DEF iter
<1>10. ASSUME NEW cs \in SUBSET Chain
       PROVE  iter[cs] = IF cs = {} THEN 0
                         ELSE LET c == CHOOSE x \in cs : TRUE IN num(c, iter[cs \ {c}])
  BY <1>9
<1> HIDE DEF sum, Step
<1> DEFINE T == {n \in Nat : \A cs \in SUBSET Chain :
                               IsFiniteSet(cs) /\ Cardinality(cs) = n => iter[cs] = sum[cs]}
<1>11. 0 \in T
  <2>1. ASSUME NEW cs \in SUBSET Chain, IsFiniteSet(cs), Cardinality(cs) = 0
        PROVE  iter[cs] = sum[cs]
    <3>1. cs = {}
      BY <2>1, FS_EmptySet
    <3> QED BY <1>7, <1>10, <3>1
  <2> QED BY <2>1
<1>12. ASSUME NEW n \in Nat, n \in T
       PROVE  n + 1 \in T
  <2>1. ASSUME NEW cs \in SUBSET Chain, IsFiniteSet(cs), Cardinality(cs) = n + 1
        PROVE  iter[cs] = sum[cs]
    <3> DEFINE c == CHOOSE x \in cs : TRUE
    <3>1. cs # {}
      BY <2>1, FS_EmptySet
    <3>2. c \in cs
      BY <3>1
    <3>3. iter[cs] = num(c, iter[cs \ {c}]) /\ sum[cs] = num(c, sum[cs \ {c}])
      BY <1>7, <1>10, <3>1
    <3> HIDE DEF c
    <3>4. IsFiniteSet(cs \ {c}) /\ Cardinality(cs \ {c}) = Cardinality(cs) - 1
      BY <2>1, <3>2, FS_RemoveElement
    <3>5. Cardinality(cs \ {c}) = n /\ cs \ {c} \in SUBSET Chain
      BY <2>1, <3>4
    <3>6. iter[cs \ {c}] = sum[cs \ {c}]
      BY <1>12, <3>4, <3>5
    <3> QED BY <3>3, <3>6
  <2> QED BY <2>1
<1>13. Nat \subseteq T
  <2> HIDE DEF T
  <2> QED BY <1>11, <1>12, SetInduction
<1>14. IsFiniteSet(Chain) /\ Cardinality(Chain) \in Nat
  <2>1. IsFiniteSet(Chain)
    BY BlockAssumption, FS_AddElement DEF Chain
  <2> QED BY <2>1, FS_CardinalityType
<1>15. iter[Chain] = sum[Chain]
  BY <1>13, <1>14
<1>16. BlocksOf(bs, Chain) = Pool!Listed(m.pool.used)
  <2>1. \A c \in Chain : Pool!Listed(bs[c]) \subseteq Pool!Listed(m.pool.used)
    BY <1>2 DEF Linked, IsChain, Pool!Listed
  <2>2. ASSUME NEW pos \in Pool!Listed(m.pool.used)
        PROVE  \E c \in Chain : pos \in Pool!Listed(bs[c])
    <3>1. PICK c \in Chain : \E i \in 1..Len(bs[c]) : bs[c][i] = pos
      BY <1>2 DEF Linked
    <3>2. pos \in Pool!Listed(bs[c])
      BY <3>1 DEF Pool!Listed
    <3> QED BY <3>2
  <2> QED BY <2>1, <2>2 DEF BlocksOf
<1>17. Cardinality(Pool!Listed(m.pool.used)) = Len(m.pool.used)
  <2>1. m.pool.used \in Seq(Pos)
    BY <1>2 DEF MemType
  <2> QED BY <1>2, <2>1, ListCardinality DEF PoolOK
<1>18. sum[Chain] = Cardinality(BlocksOf(bs, Chain))
  BY DEF sum
<1> QED BY <1>1, <1>15, <1>16, <1>17, <1>18

\* joyBlockMemCheck never has anything to report: what the program itself
\* watches, the head blocks of the chains and their lengths against the pool.
THEOREM MemCheckAlwaysPasses == Spec => []MemCheckPasses
<1>1. IInv => MemCheckPasses
  <2> SUFFICES ASSUME IInv PROVE JoyBlockMemCheck(mem)
    BY DEF MemCheckPasses
  <2>1. PICK bs : InOrder(mem, bs)
    BY DEF IInv
  <2>2. ASSUME NEW c \in Chain, mem.chain[c].head # None
        PROVE  LET b == mem.block[mem.chain[c].head]
               IN  b.dataTail > b.dataHead /\ b.dataTail <= BlockSize
    <3> DEFINE pos == mem.chain[c].head
               b == mem.block[pos]
    <3>1. pos \in Pos /\ pos \in Pool!Listed(mem.pool.used)
      BY <2>1, <2>2, Reading
    <3>2. Tiled(b)
      BY <2>1, <3>1 DEF InOrder, AllTiled
    <3>3. b.dataHead \in 0..BlockSize /\ b.dataTail \in 0..BlockSize
      BY <2>1, <3>1, MemFields DEF InOrder
    <3> HIDE DEF b
    <3>4. b.dataTail > b.dataHead /\ b.dataTail <= BlockSize
      BY <3>2, <3>3, BlockAssumption DEF Tiled
    <3> QED BY <3>4 DEF b
  <2> QED BY <2>1, <2>2, ChainsAddUp DEF JoyBlockMemCheck, HeadBlockChecks
<1> QED BY <1>1, IInvHolds, PTL

-----------------------------------------------------------------------------
(* The packages of a block. *)

\* from[n]: those in the last n bytes before dataTail.
IsFrom(b, from) ==
  /\ from \in [0..DataLen(b) -> Seq(Pkg)]
  /\ from[0] = <<>>
  /\ \A n \in 0..DataLen(b)-1 :
       from[n + 1] = IF b.data[b.dataTail - (n + 1)] = NoPkg THEN from[n]
                     ELSE <<b.data[b.dataTail - (n + 1)]>> \o from[n]
  /\ BlockPkgs(b) = from[DataLen(b)]

LEMMA BlockPkgsSteps ==
  ASSUME NEW b \in BlockType, b.dataHead <= b.dataTail
  PROVE  DataLen(b) \in Nat /\ \E from : IsFrom(b, from)
<1> DEFINE L == DataLen(b)
           at(n) == b.data[b.dataTail - n]
           after(t, n) == IF at(n) = NoPkg THEN t ELSE <<at(n)>> \o t
           Step(f) == [n \in 0..L |-> IF n = 0 THEN <<>> ELSE after(f[n - 1], n)]
           g == [n \in 1..L |-> [t \in Seq(Pkg) |-> after(t, n)]]
           from == CHOOSE f : f = Step(f)
<1>1. /\ b.dataHead \in 0..BlockSize /\ b.dataTail \in 0..BlockSize
      /\ b.data \in [Offset -> Pkg \cup {NoPkg}]
  BY DEF BlockType
<1>2. L \in Nat /\ BlockSize \in Nat
  BY <1>1, BlockAssumption DEF DataLen
<1>3. BlockPkgs(b) = from[L]
  BY Zenon DEF BlockPkgs
<1>4. ASSUME NEW n \in 1..L
      PROVE  at(n) # NoPkg => at(n) \in Pkg
  <2>1. b.dataTail - n \in Offset
    BY <1>1, <1>2 DEF Offset, DataLen
  <2> QED BY <1>1, <2>1
<1> HIDE DEF L, at
<1>5. ASSUME NEW n \in 1..L, NEW t \in Seq(Pkg)
      PROVE  after(t, n) \in Seq(Pkg)
  <2>1. CASE at(n) # NoPkg
    <3>1. <<at(n)>> \in Seq(Pkg)
      BY <1>4, <2>1
    <3>2. <<at(n)>> \o t \in Seq(Pkg)
      BY <3>1, ConcatProperties
    <3> QED BY <2>1, <3>2
  <2> QED BY <2>1
<1> HIDE DEF after
<1>6. g \in [1..L -> [Seq(Pkg) -> Seq(Pkg)]] /\ <<>> \in Seq(Pkg)
  BY <1>5
<1>7. PICK f : IsRecursion(f, L, Seq(Pkg), <<>>, g)
  <2> HIDE DEF g
  <2> QED BY <1>2, <1>6, RecursionExists
<1>8. f = Step(f)
  <2>1. \A n \in 1..L : n - 1 \in 0..L
    BY <1>2
  <2>2. \A n \in 0..L : n # 0 => n \in 1..L
    BY <1>2
  <2> QED BY <1>7, <2>1, <2>2 DEF IsRecursion
<1>9. from = Step(from)
  <2> HIDE DEF Step
  <2> QED BY <1>8
<1> HIDE DEF from
<1>10. from[0] = <<>> /\ \A n \in 1..L : from[n] = after(from[n - 1], n)
  BY <1>2, <1>9
<1>11. IsRecursion(from, L, Seq(Pkg), <<>>, g)
  <2>1. from = [n \in 0..L |-> from[n]]
    BY <1>9
  <2>2. \A n \in 1..L : from[n - 1] \in Seq(Pkg) => from[n] = g[n][from[n - 1]]
    BY <1>10
  <2> HIDE DEF g
  <2> QED BY <1>2, <1>6, <1>10, <2>1, <2>2, RecursionIs
<1>12. from \in [0..L -> Seq(Pkg)]
  BY <1>11 DEF IsRecursion
<1>13. ASSUME NEW n \in 0..L-1
       PROVE  from[n + 1] = after(from[n], n + 1)
  <2>1. n + 1 \in 1..L /\ (n + 1) - 1 = n
    BY <1>2
  <2> QED BY <1>10, <2>1
<1>14. IsFrom(b, from)
  BY <1>3, <1>10, <1>12, <1>13 DEF IsFrom, after, at, L
<1> QED BY <1>2, <1>14 DEF L

\* They are its bytes and nothing else.
LEMMA SamePkgs ==
  ASSUME NEW b, NEW b2, b2.data = b.data, b2.dataHead = b.dataHead, b2.dataTail = b.dataTail
  PROVE  BlockPkgs(b2) = BlockPkgs(b)
<1> DEFINE pkgs(data, tail, len) ==
             LET from[n \in 0..len] ==
                   IF n = 0 THEN <<>>
                   ELSE LET pkg == data[tail - n]
                        IN  IF pkg = NoPkg THEN from[n - 1] ELSE <<pkg>> \o from[n - 1]
             IN  from[len]
<1>1. BlockPkgs(b) = pkgs(b.data, b.dataTail, DataLen(b))
  BY Zenon DEF BlockPkgs
<1>2. BlockPkgs(b2) = pkgs(b2.data, b2.dataTail, DataLen(b2))
  BY Zenon DEF BlockPkgs
<1> HIDE DEF pkgs
<1> QED BY <1>1, <1>2 DEF DataLen

LEMMA FreshPkgs == BlockPkgs(FreshBlock) = <<>>
<1>1. DataLen(FreshBlock) = 0 /\ FreshBlock.dataHead <= FreshBlock.dataTail
  BY FreshFacts DEF DataLen
<1> QED BY <1>1, FreshFacts, BlockPkgsSteps DEF IsFrom

\* A package that was put into the block is its last one.
LEMMA WrittenPkgs ==
  ASSUME NEW b \in BlockType, NEW b2 \in BlockType, NEW pkg \in Pkg, Written(b, b2, pkg),
         Tiled(b) \/ b = FreshBlock
  PROVE  BlockPkgs(b2) = Append(BlockPkgs(b), pkg) /\ BlockPkgs(b) \in Seq(Pkg)
<1> DEFINE L   == DataLen(b)
           len == PkgLen[pkg]
<1>1. /\ b.dataHead \in 0..BlockSize /\ b.dataTail \in 0..BlockSize
      /\ b.data \in [Offset -> Pkg \cup {NoPkg}]
      /\ b.dataTail \in Offset
      /\ b2.dataHead = b.dataHead
      /\ b2.dataTail = b.dataTail + len
      /\ b2.dataTail <= BlockSize
      /\ b2.data[b.dataTail] = pkg
      /\ \A o \in Offset : o # b.dataTail => b2.data[o] = b.data[o]
  BY DEF Written, BlockType
<1>2. len \in Nat /\ len >= 1 /\ BlockSize \in Nat /\ pkg # NoPkg
  BY PkgFacts, BlockAssumption
<1>3. \A o \in Offset : b.dataTail <= o => b.data[o] = NoPkg
  BY FreshFacts DEF Tiled
<1>4. b.dataHead <= b.dataTail /\ b2.dataHead <= b2.dataTail
  BY <1>1, <1>2, FreshFacts DEF Tiled
<1>5. PICK f : IsFrom(b, f)
  BY <1>4, BlockPkgsSteps
<1>6. PICK h : IsFrom(b2, h)
  BY <1>4, BlockPkgsSteps
<1>7. L \in Nat /\ DataLen(b2) = len + L /\ L = b.dataTail - b.dataHead
  BY <1>1, <1>2, <1>4 DEF DataLen
<1> HIDE DEF L, len
<1>8. /\ f \in [0..L -> Seq(Pkg)]
      /\ f[0] = <<>>
      /\ \A n \in 0..L-1 : f[n + 1] = IF b.data[b.dataTail - (n + 1)] = NoPkg THEN f[n]
                                      ELSE <<b.data[b.dataTail - (n + 1)]>> \o f[n]
      /\ BlockPkgs(b) = f[L]
  BY <1>5 DEF IsFrom, L
<1>9. /\ h[0] = <<>>
      /\ \A n \in 0..(len+L)-1 : h[n + 1] = IF b2.data[b2.dataTail - (n + 1)] = NoPkg THEN h[n]
                                            ELSE <<b2.data[b2.dataTail - (n + 1)]>> \o h[n]
      /\ BlockPkgs(b2) = h[len + L]
  BY <1>6, <1>7 DEF IsFrom
<1>10. 0..len-1 \subseteq {n \in 0..len-1 : h[n] = <<>>}
  <2> DEFINE T == {n \in 0..len-1 : h[n] = <<>>}
  <2>1. 0 \in T
    BY <1>2, <1>9
  <2>2. ASSUME NEW n \in 0..(len-1)-1, n \in T
        PROVE  n + 1 \in T
    <3>1. n \in 0..(len+L)-1 /\ n + 1 \in 0..len-1
      BY <1>2, <1>7
    <3> DEFINE o == b2.dataTail - (n + 1)
    <3>2. o \in Offset /\ o # b.dataTail /\ b.dataTail <= o
      BY <1>1, <1>2, <2>2 DEF Offset
    <3>3. b2.data[o] = NoPkg
      BY <1>1, <1>3, <3>2
    <3> QED BY <1>9, <2>2, <3>1, <3>3
  <2>3. 0 \in Int /\ len - 1 \in Int
    BY <1>2
  <2> HIDE DEF T
  <2>4. 0..len-1 \subseteq T
    BY <2>1, <2>2, <2>3, IntervalInduction
  <2> QED BY <2>4 DEF T
<1>11. h[len] = <<pkg>>
  <2>1. len - 1 \in 0..len-1 /\ len - 1 \in 0..(len+L)-1 /\ (len - 1) + 1 = len
    BY <1>2, <1>7
  <2>2. h[len - 1] = <<>>
    BY <1>10, <2>1
  <2>3. b2.dataTail - ((len - 1) + 1) = b.dataTail
    BY <1>1, <1>2
  <2>4. h[(len - 1) + 1] = <<pkg>> \o h[len - 1]
    BY <1>1, <1>2, <1>9, <2>1, <2>3
  <2> QED BY <2>1, <2>2, <2>4
<1>12. 0..L \subseteq {n \in 0..L : h[len + n] = Append(f[n], pkg)}
  <2> DEFINE T == {n \in 0..L : h[len + n] = Append(f[n], pkg)}
  <2>1. 0 \in T
    <3>1. len + 0 = len /\ 0 \in 0..L
      BY <1>2, <1>7
    <3>2. Append(<<>>, pkg) = <<pkg>>
      OBVIOUS
    <3> QED BY <1>8, <1>11, <3>1, <3>2
  <2>2. ASSUME NEW n \in 0..L-1, n \in T
        PROVE  n + 1 \in T
    <3> DEFINE o == b.dataTail - (n + 1)
               p == b.data[o]
    <3>1. /\ len + n \in 0..(len+L)-1 /\ n \in 0..L-1 /\ n \in 0..L /\ n + 1 \in 0..L
          /\ (len + n) + 1 = len + (n + 1) /\ b2.dataTail - ((len + n) + 1) = o
      BY <1>1, <1>2, <1>7
    <3>2. o \in Offset /\ o # b.dataTail
      <4>1. n \in 0..L-1
        BY <2>2
      <4>2. o \in Int /\ o >= b.dataHead /\ o < b.dataTail
        BY <1>1, <1>7, <4>1
      <4> HIDE DEF o
      <4> QED BY <1>1, <1>2, <4>2 DEF Offset
    <3>3. b2.data[o] = p /\ p \in Pkg \cup {NoPkg}
      BY <1>1, <3>2
    <3>4. h[len + n] = Append(f[n], pkg) /\ f[n] \in Seq(Pkg)
      BY <1>8, <2>2, <3>1
    <3>5. h[(len + n) + 1] = IF p = NoPkg THEN h[len + n] ELSE <<p>> \o h[len + n]
      BY <1>9, <3>1, <3>3
    <3>6. f[n + 1] = IF p = NoPkg THEN f[n] ELSE <<p>> \o f[n]
      BY <1>8, <3>1
    <3> HIDE DEF p, o
    <3>7. ASSUME p # NoPkg
          PROVE  <<p>> \o Append(f[n], pkg) = Append(<<p>> \o f[n], pkg)
      BY <3>3, <3>4, <3>7, ConsSeq
    <3>8. h[len + (n + 1)] = Append(f[n + 1], pkg)
      BY <3>1, <3>4, <3>5, <3>6, <3>7
    <3> QED BY <3>1, <3>8
  <2>3. 0 \in Int /\ L \in Int
    BY <1>7
  <2> HIDE DEF T
  <2>4. 0..L \subseteq T
    BY <2>1, <2>2, <2>3, IntervalInduction
  <2> QED BY <2>4 DEF T
<1>13. L \in 0..L
  BY <1>7
<1> QED BY <1>8, <1>9, <1>12, <1>13

\* A block's first package, and those after it.
LEMMA AdvancedPkgs ==
  ASSUME NEW b \in BlockType, NEW b2 \in BlockType, NEW pkg \in Pkg, Advanced(b, b2, pkg),
         Tiled(b), pkg = b.data[b.dataHead]
  PROVE  /\ BlockPkgs(b2) \in Seq(Pkg)
         /\ BlockPkgs(b) = <<pkg>> \o BlockPkgs(b2)
         /\ b2.dataHead = b2.dataTail => BlockPkgs(b2) = <<>>
<1> DEFINE L   == DataLen(b)
           M   == DataLen(b2)
           len == PkgLen[pkg]
<1>1. /\ b.dataHead \in 0..BlockSize /\ b.dataTail \in 0..BlockSize
      /\ b.data \in [Offset -> Pkg \cup {NoPkg}]
      /\ b2.dataHead = b.dataHead + len
      /\ b2.dataTail = b.dataTail /\ b2.data = b.data
  BY DEF Advanced, BlockType
<1>2. len \in Nat /\ len >= 1 /\ BlockSize \in Nat /\ pkg # NoPkg
  BY PkgFacts, BlockAssumption
<1>3. b.dataHead < b.dataTail /\ b.dataHead \in Offset /\ b.dataHead <= b.dataHead
  BY <1>1, <1>2 DEF Tiled, Offset
<1>4. /\ b.dataHead + len <= b.dataTail
      /\ \A x \in b.dataHead + 1 .. (b.dataHead + len) - 1 : b.data[x] = NoPkg
  BY <1>1, <1>2, <1>3 DEF Tiled
<1>5. b.dataHead <= b.dataTail /\ b2.dataHead <= b2.dataTail
  BY <1>1, <1>3, <1>4
<1>6. PICK f : IsFrom(b, f)
  BY <1>5, BlockPkgsSteps
<1>7. PICK h : IsFrom(b2, h)
  BY <1>5, BlockPkgsSteps
<1>8. L \in Nat /\ M \in Nat /\ L = M + len /\ L = b.dataTail - b.dataHead
  BY <1>1, <1>2, <1>4, <1>5 DEF DataLen
<1>9. b2.dataHead = b2.dataTail => M = 0
  BY <1>1 DEF DataLen
<1> HIDE DEF L, M, len
<1>10. /\ f \in [0..L -> Seq(Pkg)]
       /\ f[0] = <<>>
       /\ \A n \in 0..L-1 : f[n + 1] = IF b.data[b.dataTail - (n + 1)] = NoPkg THEN f[n]
                                       ELSE <<b.data[b.dataTail - (n + 1)]>> \o f[n]
       /\ BlockPkgs(b) = f[L]
  BY <1>6 DEF IsFrom, L
<1>11. /\ h \in [0..M -> Seq(Pkg)]
       /\ h[0] = <<>>
       /\ \A n \in 0..M-1 : h[n + 1] = IF b.data[b.dataTail - (n + 1)] = NoPkg THEN h[n]
                                       ELSE <<b.data[b.dataTail - (n + 1)]>> \o h[n]
       /\ BlockPkgs(b2) = h[M]
  BY <1>1, <1>7 DEF IsFrom, M
<1>12. f[M] = h[M] /\ h[M] \in Seq(Pkg)
  <2> DEFINE T == {n \in 0..M : f[n] = h[n]}
  <2>1. 0 \in T
    BY <1>8, <1>10, <1>11
  <2>2. ASSUME NEW n \in 0..M-1, n \in T
        PROVE  n + 1 \in T
    <3>1. n \in 0..L-1 /\ n + 1 \in 0..M /\ n \in 0..M-1
      BY <1>2, <1>8
    <3>2. f[n + 1] = h[n + 1]
      BY <1>10, <1>11, <2>2, <3>1
    <3> QED BY <3>1, <3>2
  <2>3. 0 \in Int /\ M \in Int /\ M \in 0..M
    BY <1>8
  <2> HIDE DEF T
  <2>4. 0..M \subseteq T
    BY <2>1, <2>2, <2>3, IntervalInduction
  <2> QED BY <1>11, <2>3, <2>4 DEF T
<1>13. f[L - 1] = f[M]
  <2> DEFINE T == {n \in M..L-1 : f[n] = f[M]}
  <2>1. M \in T
    BY <1>2, <1>8
  <2>2. ASSUME NEW n \in M..(L-1)-1, n \in T
        PROVE  n + 1 \in T
    <3>1. n \in 0..L-1 /\ n + 1 \in M..L-1
      BY <1>2, <1>8
    <3>2. b.dataTail - (n + 1) \in b.dataHead + 1 .. (b.dataHead + len) - 1
      BY <1>1, <1>2, <1>8, <2>2
    <3>3. f[n + 1] = f[n]
      BY <1>4, <1>10, <3>1, <3>2
    <3> QED BY <2>2, <3>1, <3>3
  <2>3. M \in Int /\ L - 1 \in Int /\ L - 1 \in M..L-1
    BY <1>2, <1>8
  <2> HIDE DEF T
  <2>4. M..L-1 \subseteq T
    BY <2>1, <2>2, <2>3, IntervalInduction
  <2> QED BY <2>3, <2>4 DEF T
<1>14. f[L] = <<pkg>> \o f[L - 1]
  <2>1. L - 1 \in 0..L-1 /\ (L - 1) + 1 = L /\ b.dataTail - ((L - 1) + 1) = b.dataHead
    BY <1>1, <1>2, <1>8
  <2>2. f[(L - 1) + 1] = <<pkg>> \o f[L - 1]
    BY <1>2, <1>10, <2>1
  <2> QED BY <2>1, <2>2
<1> QED BY <1>9, <1>10, <1>11, <1>12, <1>13, <1>14

-----------------------------------------------------------------------------
(* Sequences one after the other. *)

LEMMA Concats ==
  /\ \A a \in Seq(Pkg) : <<>> \o a = a /\ a \o <<>> = a
  /\ \A a, b \in Seq(Pkg) : a \o b \in Seq(Pkg)
  /\ \A a, b, e \in Seq(Pkg) : (a \o b) \o e = a \o (b \o e)
  /\ \A pkg \in Pkg : <<pkg>> \in Seq(Pkg)
<1>1. ASSUME NEW a \in Seq(Pkg)
      PROVE  <<>> \o a = a /\ a \o <<>> = a
  BY ConcatEmptySeq
<1>2. ASSUME NEW a \in Seq(Pkg), NEW b \in Seq(Pkg)
      PROVE  a \o b \in Seq(Pkg)
  BY ConcatProperties
<1>3. ASSUME NEW a \in Seq(Pkg), NEW b \in Seq(Pkg), NEW e \in Seq(Pkg)
      PROVE  (a \o b) \o e = a \o (b \o e)
  BY ConcatAssociative
<1> QED BY <1>1, <1>2, <1>3

IsJoin(qs, k, upto) ==
  /\ upto \in [0..k -> Seq(Pkg)]
  /\ upto[0] = <<>>
  /\ \A n \in 0..k-1 : upto[n + 1] = upto[n] \o qs[n + 1]
  /\ Joined(qs, k) = upto[k]

LEMMA JoinSteps ==
  ASSUME NEW k \in Nat, NEW qs, \A i \in 1..k : qs[i] \in Seq(Pkg)
  PROVE  \E upto : IsJoin(qs, k, upto)
<1> DEFINE Step(f) == [n \in 0..k |-> IF n = 0 THEN <<>> ELSE f[n - 1] \o qs[n]]
           g == [n \in 1..k |-> [t \in Seq(Pkg) |-> t \o qs[n]]]
           upto == CHOOSE f : f = Step(f)
<1>1. Joined(qs, k) = upto[k]
  BY Zenon DEF Joined
<1>2. g \in [1..k -> [Seq(Pkg) -> Seq(Pkg)]] /\ <<>> \in Seq(Pkg)
  <2>1. ASSUME NEW n \in 1..k, NEW t \in Seq(Pkg)
        PROVE  t \o qs[n] \in Seq(Pkg)
    BY ConcatProperties
  <2> QED BY <2>1
<1>3. PICK f : IsRecursion(f, k, Seq(Pkg), <<>>, g)
  <2> HIDE DEF g
  <2> QED BY <1>2, RecursionExists
<1>4. f = Step(f)
  <2>1. \A n \in 1..k : n - 1 \in 0..k
    OBVIOUS
  <2>2. \A n \in 0..k : n # 0 => n \in 1..k
    OBVIOUS
  <2> QED BY <1>3, <2>1, <2>2 DEF IsRecursion
<1>5. upto = Step(upto)
  <2> HIDE DEF Step
  <2> QED BY <1>4
<1> HIDE DEF upto
<1>6. upto[0] = <<>> /\ \A n \in 1..k : upto[n] = upto[n - 1] \o qs[n]
  <2>1. 0 \in 0..k /\ \A n \in 1..k : n \in 0..k /\ n # 0
    OBVIOUS
  <2> QED BY <1>5, <2>1
<1>7. IsRecursion(upto, k, Seq(Pkg), <<>>, g)
  <2>1. upto = [n \in 0..k |-> upto[n]]
    BY <1>5
  <2>2. \A n \in 1..k : upto[n - 1] \in Seq(Pkg) => upto[n] = g[n][upto[n - 1]]
    BY <1>6
  <2> HIDE DEF g
  <2> QED BY <1>2, <1>6, <2>1, <2>2, RecursionIs
<1>8. upto \in [0..k -> Seq(Pkg)]
  BY <1>7 DEF IsRecursion
<1>9. ASSUME NEW n \in 0..k-1
      PROVE  upto[n + 1] = upto[n] \o qs[n + 1]
  <2>1. n + 1 \in 1..k /\ (n + 1) - 1 = n
    OBVIOUS
  <2> QED BY <1>6, <2>1
<1>10. IsJoin(qs, k, upto)
  BY <1>1, <1>6, <1>8, <1>9 DEF IsJoin
<1> QED BY <1>10

LEMMA JoinType ==
  ASSUME NEW k \in Nat, NEW qs, \A i \in 1..k : qs[i] \in Seq(Pkg)
  PROVE  Joined(qs, k) \in Seq(Pkg) /\ (k = 0 => Joined(qs, k) = <<>>)
<1>1. PICK f : IsJoin(qs, k, f)
  BY JoinSteps
<1>2. k \in 0..k
  OBVIOUS
<1> QED BY <1>1, <1>2 DEF IsJoin

\* The last sequence comes last.
LEMMA JoinLast ==
  ASSUME NEW k \in Nat, NEW qs, \A i \in 1..k+1 : qs[i] \in Seq(Pkg),
         NEW rs, \A i \in 1..k : rs[i] = qs[i]
  PROVE  Joined(qs, k + 1) = Joined(rs, k) \o qs[k + 1]
<1>1. PICK f : IsJoin(qs, k + 1, f)
  <2>1. k + 1 \in Nat
    OBVIOUS
  <2> QED BY <2>1, JoinSteps
<1>2. PICK h : IsJoin(rs, k, h)
  <2>1. \A i \in 1..k : rs[i] \in Seq(Pkg)
    <3>1. \A i \in 1..k : i \in 1..k+1
      OBVIOUS
    <3> QED BY <3>1
  <2> QED BY <2>1, JoinSteps
<1>3. /\ f[0] = <<>> /\ \A n \in 0..k : f[n + 1] = f[n] \o qs[n + 1]
      /\ Joined(qs, k + 1) = f[k + 1]
  <2>1. (k + 1) - 1 = k
    OBVIOUS
  <2> QED BY <1>1, <2>1 DEF IsJoin
<1>4. /\ h[0] = <<>> /\ \A n \in 0..k-1 : h[n + 1] = h[n] \o rs[n + 1]
      /\ Joined(rs, k) = h[k]
  BY <1>2 DEF IsJoin
<1> DEFINE T == {n \in 0..k : f[n] = h[n]}
<1>5. 0 \in T
  BY <1>3, <1>4
<1>6. ASSUME NEW n \in 0..k-1, n \in T
      PROVE  n + 1 \in T
  <2>1. n \in 0..k /\ n + 1 \in 1..k /\ n + 1 \in 0..k
    OBVIOUS
  <2>2. f[n + 1] = f[n] \o qs[n + 1] /\ h[n + 1] = h[n] \o rs[n + 1] /\ rs[n + 1] = qs[n + 1]
    BY <1>3, <1>4, <2>1
  <2> QED BY <1>6, <2>1, <2>2
<1>7. k \in T
  <2>1. 0 \in Int /\ k \in Int /\ k \in 0..k
    OBVIOUS
  <2> HIDE DEF T
  <2>2. 0..k \subseteq T
    BY <1>5, <1>6, <2>1, IntervalInduction
  <2> QED BY <2>1, <2>2
<1> QED BY <1>3, <1>4, <1>7

\* The first sequence comes first.
LEMMA JoinFirst ==
  ASSUME NEW k \in Nat, NEW qs, \A i \in 1..k+1 : qs[i] \in Seq(Pkg),
         NEW rs, \A i \in 1..k : rs[i] = qs[i + 1]
  PROVE  Joined(qs, k + 1) = qs[1] \o Joined(rs, k)
<1>1. PICK f : IsJoin(qs, k + 1, f)
  <2>1. k + 1 \in Nat
    OBVIOUS
  <2> QED BY <2>1, JoinSteps
<1>0. \A i \in 1..k : i + 1 \in 1..k+1
  OBVIOUS
<1>2. PICK h : IsJoin(rs, k, h)
  <2>1. \A i \in 1..k : rs[i] \in Seq(Pkg)
    BY <1>0
  <2> QED BY <2>1, JoinSteps
<1>3. /\ f[0] = <<>> /\ \A n \in 0..k : f[n + 1] = f[n] \o qs[n + 1]
      /\ Joined(qs, k + 1) = f[k + 1]
  <2>1. (k + 1) - 1 = k
    OBVIOUS
  <2> QED BY <1>1, <2>1 DEF IsJoin
<1>4. /\ h[0] = <<>> /\ \A n \in 0..k-1 : h[n + 1] = h[n] \o rs[n + 1]
      /\ Joined(rs, k) = h[k]
      /\ h \in [0..k -> Seq(Pkg)]
  BY <1>2 DEF IsJoin
<1> DEFINE q == qs[1]
           T == {n \in 0..k : f[n + 1] = q \o h[n]}
<1>5. q \in Seq(Pkg)
  <2>1. 1 \in 1..k+1
    OBVIOUS
  <2> QED BY <2>1
<1>6. 0 \in T
  <2>1. f[0 + 1] = <<>> \o qs[0 + 1] /\ 0 + 1 = 1
    <3>1. 0 \in 0..k
      OBVIOUS
    <3>2. f[0 + 1] = f[0] \o qs[0 + 1]
      BY <1>3, <3>1
    <3> HIDE DEF q, T
    <3> QED BY <1>3, <3>2
  <2>2. <<>> \o q = q /\ q \o <<>> = q
    <3> HIDE DEF q
    <3> QED BY <1>5, Concats
  <2>3. f[0 + 1] = q
    BY <2>1, <2>2
  <2>4. 0 \in 0..k
    OBVIOUS
  <2> HIDE DEF q
  <2> QED BY <1>4, <2>2, <2>3, <2>4
<1>7. ASSUME NEW n \in 0..k-1, n \in T
      PROVE  n + 1 \in T
  <2>1. n \in 0..k /\ n + 1 \in 1..k /\ n + 1 \in 0..k
    OBVIOUS
  <2> DEFINE r == rs[n + 1]
  <2>2. f[(n + 1) + 1] = f[n + 1] \o qs[(n + 1) + 1]
    BY <1>3, <2>1
  <2>3. h[n + 1] = h[n] \o r
    BY <1>4, <2>1
  <2>4. r = qs[(n + 1) + 1] /\ r \in Seq(Pkg) /\ h[n] \in Seq(Pkg)
    <3>1. r = qs[(n + 1) + 1]
      BY <2>1
    <3>2. (n + 1) + 1 \in 1..k+1
      BY <1>0, <2>1
    <3>3. qs[(n + 1) + 1] \in Seq(Pkg)
      BY <3>2
    <3>4. h[n] \in Seq(Pkg)
      BY <1>4, <2>1
    <3> QED BY <3>1, <3>3, <3>4
  <2> HIDE DEF r, q
  <2>5. (q \o h[n]) \o r = q \o (h[n] \o r)
    <3> DEFINE y == h[n]
    <3>1. y \in Seq(Pkg)
      BY <2>4
    <3> HIDE DEF y
    <3>2. r \in Seq(Pkg)
      BY <2>4
    <3>3. (q \o y) \o r = q \o (y \o r)
      BY ONLY <1>5, <3>1, <3>2, ConcatAssociative
    <3> QED BY <3>3 DEF y
  <2>6. f[n + 1] = q \o h[n]
    BY <1>7
  <2>7. f[(n + 1) + 1] = q \o h[n + 1]
    BY <2>2, <2>3, <2>4, <2>5, <2>6
  <2> DEFINE x == n + 1
  <2>8. x \in 0..k /\ f[x + 1] = q \o h[x]
    BY <2>1, <2>7
  <2> HIDE DEF x
  <2>9. x \in T
    BY <2>8
  <2> QED BY <2>9 DEF x
<1>8. k \in T
  <2>1. 0 \in Int /\ k \in Int /\ k \in 0..k
    OBVIOUS
  <2> HIDE DEF T
  <2>2. 0..k \subseteq T
    BY <1>6, <1>7, <2>1, IntervalInduction
  <2> QED BY <2>1, <2>2
<1> QED BY <1>3, <1>4, <1>8

-----------------------------------------------------------------------------
(* The chains' queues. *)

\* The packages of the blocks of s.
Queues(m, s) == [i \in 1..Len(s) |-> BlockPkgs(m.block[s[i]])]

LEMMA QueueFacts ==
  ASSUME NEW m, NEW bs, InOrder(m, bs), NEW c \in Chain
  PROVE  /\ Contents(m, c) = Joined(Queues(m, bs[c]), Len(bs[c]))
         /\ Len(bs[c]) \in Nat
         /\ \A i \in 1..Len(bs[c]) : BlockPkgs(m.block[bs[c][i]]) \in Seq(Pkg)
<1>1. bs \in [Chain -> Seq(Pos)] /\ Linked(m, bs) /\ m \in MemType
  BY DEF InOrder
<1>2. Blocks(m, c) = bs[c]
  BY <1>1, BlocksWalk
<1>3. ASSUME NEW i \in 1..Len(bs[c])
      PROVE  BlockPkgs(m.block[bs[c][i]]) \in Seq(Pkg)
  <2> DEFINE b == m.block[bs[c][i]]
  <2>1. bs[c][i] \in Pos /\ bs[c][i] \in Pool!Listed(m.pool.used)
    BY <1>1, ChainFacts
  <2>2. b \in BlockType /\ b.dataHead \in 0..BlockSize /\ b.dataTail \in 0..BlockSize
    BY <1>1, <2>1, MemFields
  <2>3. b.dataHead <= b.dataTail
    <3>1. Tiled(b)
      BY <2>1 DEF InOrder, AllTiled
    <3> HIDE DEF b
    <3> QED BY <2>2, <3>1, BlockAssumption DEF Tiled
  <2> HIDE DEF b
  <2>4. PICK f : IsFrom(b, f)
    BY <2>2, <2>3, BlockPkgsSteps
  <2>5. DataLen(b) \in 0..DataLen(b)
    BY <2>2, <2>3, BlockPkgsSteps
  <2>6. BlockPkgs(b) \in Seq(Pkg)
    BY <2>4, <2>5 DEF IsFrom
  <2> QED BY <2>6 DEF b
<1> QED BY <1>1, <1>2, <1>3, LenProperties, Zenon DEF Contents, Held, Queues

LEMMA QueueElements ==
  ASSUME NEW m, NEW bs, InOrder(m, bs), NEW c \in Chain
  PROVE  /\ Contents(m, c) = Joined(Queues(m, bs[c]), Len(bs[c]))
         /\ Len(bs[c]) \in Nat
         /\ \A i \in 1..Len(bs[c]) : /\ Queues(m, bs[c])[i] \in Seq(Pkg)
                                    /\ Queues(m, bs[c])[i] = BlockPkgs(m.block[bs[c][i]])
<1>1. \A i \in 1..Len(bs[c]) : Queues(m, bs[c])[i] = BlockPkgs(m.block[bs[c][i]])
  BY DEF Queues
<1> QED BY <1>1, QueueFacts

\* What WriteEffect does to the queues.
LEMMA WriteQueues ==
  ASSUME NEW m, NEW bs, InOrder(m, bs), NEW c \in Chain, NEW pkg \in Pkg, NEW n, NEW cs,
         WriteEffect(m, bs, c, pkg, n, cs)
  PROVE  /\ Contents(n, c) = Append(Contents(m, c), pkg)
         /\ \A d \in Chain : d # c => Contents(n, d) = Contents(m, d)
<1> DEFINE pos == n.chain[c].tail
           s == bs[c]
           t == cs[c]
           L == Len(s)
           qs == Queues(m, s)
           rs == Queues(n, t)
<1>1. /\ InOrder(n, cs)
      /\ \A q \in Pool!Listed(m.pool.used) : q # pos =>
           /\ n.block[q].data = m.block[q].data
           /\ n.block[q].dataHead = m.block[q].dataHead
           /\ n.block[q].dataTail = m.block[q].dataTail
  BY DEF WriteEffect
<1>2. /\ bs \in [Chain -> Seq(Pos)] /\ Linked(m, bs) /\ m \in MemType
      /\ cs \in [Chain -> Seq(Pos)] /\ Linked(n, cs) /\ n \in MemType
  BY <1>1 DEF InOrder
<1>3. \A q \in Pool!Listed(m.pool.used) : q # pos => BlockPkgs(n.block[q]) = BlockPkgs(m.block[q])
  <2> TAKE q \in Pool!Listed(m.pool.used)
  <2> HAVE q # pos
  <2> DEFINE b  == m.block[q]
             b2 == n.block[q]
  <2>1. b2.data = b.data /\ b2.dataHead = b.dataHead /\ b2.dataTail = b.dataTail
    BY <1>1
  <2> HIDE DEF b, b2
  <2>2. BlockPkgs(b2) = BlockPkgs(b)
    BY <2>1, SamePkgs
  <2> QED BY ONLY <2>2 DEF b, b2
<1>4. /\ Contents(m, c) = Joined(qs, L) /\ L \in Nat
      /\ \A i \in 1..L : qs[i] \in Seq(Pkg) /\ qs[i] = BlockPkgs(m.block[s[i]])
  BY QueueElements
<1>5. /\ Contents(n, c) = Joined(rs, Len(t)) /\ Len(t) \in Nat
      /\ \A i \in 1..Len(t) : rs[i] \in Seq(Pkg) /\ rs[i] = BlockPkgs(n.block[t[i]])
  BY <1>1, QueueElements
<1>6. /\ \A i \in 1..L : s[i] \in Pool!Listed(m.pool.used) /\ s[i] \in Pos
      /\ \A i, j \in 1..L : s[i] = s[j] => i = j
  BY <1>2, ChainElements
<1>7. pos \in Pos /\ pos \in Pool!Listed(n.pool.used) /\ n.block[pos] \in BlockType
  <2>1. pos \in Pool!Listed(n.pool.used)
    BY DEF WriteEffect
  <2> HIDE DEF pos
  <2>2. pos \in Pos
    BY <1>2, <2>1, ListedType DEF MemType
  <2> QED BY <1>2, <2>1, <2>2 DEF MemType
<1> HIDE DEF s, t, qs, rs, L, pos
<1>8. ASSUME NEW d \in Chain, d # c
      PROVE  Contents(n, d) = Contents(m, d)
  <2>1. cs[d] = bs[d]
    BY <1>2, <1>8 DEF WriteEffect
  <2>2. ASSUME NEW i \in 1..Len(bs[d])
        PROVE  bs[d][i] \in Pool!Listed(m.pool.used) /\ bs[d][i] # pos
    <3>1. bs[d][i] \in Pool!Listed(m.pool.used)
      BY <1>2, ChainFacts
    <3>2. bs[d][i] # pos
      <4>1. Len(cs[c]) # 0 /\ pos = cs[c][Len(cs[c])]
        <5>1. Len(cs[c]) # 0
          <6>1. CASE cs = bs /\ Len(bs[c]) # 0
            BY <6>1
          <6>2. CASE cs = [bs EXCEPT ![c] = Append(bs[c], pos)]
            <7>1. cs[c] = Append(bs[c], pos) /\ bs[c] \in Seq(Pos)
              BY <1>2, <6>2
            <7>2. Len(cs[c]) = Len(bs[c]) + 1 /\ Len(bs[c]) \in Nat
              BY <1>7, <7>1, AppendElements, LenProperties
            <7> QED BY <7>2
          <6> QED BY <6>1, <6>2 DEF WriteEffect, pos
        <5>2. n.chain[c].tail = IF Len(cs[c]) = 0 THEN None ELSE cs[c][Len(cs[c])]
          BY <1>2, TailFacts
        <5> QED BY <5>1, <5>2 DEF pos
      <4>2. Len(cs[c]) \in 1..Len(cs[c])
        BY <1>2, <4>1, HeadFacts
      <4>3. \A j \in 1..Len(cs[c]) : cs[d][i] # cs[c][j]
        BY <1>2, <1>8, <2>1 DEF Linked
      <4> QED BY <2>1, <4>1, <4>2, <4>3
    <3> QED BY <3>1, <3>2
  <2>3. \A i \in 1..Len(bs[d]) : BlockPkgs(n.block[bs[d][i]]) = BlockPkgs(m.block[bs[d][i]])
    BY <1>3, <2>2
  <2>4. Queues(n, cs[d]) = Queues(m, bs[d])
    BY <2>1, <2>3 DEF Queues
  <2>5. Contents(n, d) = Joined(Queues(n, cs[d]), Len(cs[d]))
    BY <1>1, QueueFacts
  <2>6. Contents(m, d) = Joined(Queues(m, bs[d]), Len(bs[d]))
    BY QueueFacts
  <2> QED BY <2>1, <2>4, <2>5, <2>6
<1>9. CASE /\ cs = [bs EXCEPT ![c] = Append(bs[c], pos)]
           /\ pos \notin Pool!Listed(m.pool.used)
           /\ Written(FreshBlock, n.block[pos], pkg)
  <2>1. t = Append(s, pos) /\ s \in Seq(Pos)
    BY <1>2, <1>9 DEF s, t
  <2>2. /\ Len(t) = L + 1
        /\ \A i \in 1..L : t[i] = s[i] /\ i \in 1..L+1
        /\ t[L + 1] = pos /\ L + 1 \in 1..L+1
    BY <1>7, <2>1, AppendElements DEF L
  <2>3. \A i \in 1..L : qs[i] = rs[i]
    BY <1>3, <1>4, <1>5, <1>6, <1>9, <2>2
  <2>4. rs[L + 1] = <<pkg>>
    <3>1. BlockPkgs(n.block[pos]) = Append(BlockPkgs(FreshBlock), pkg)
      BY <1>7, <1>9, FreshFacts, WrittenPkgs
    <3>2. Append(<<>>, pkg) = <<pkg>>
      OBVIOUS
    <3> QED BY <1>5, <2>2, <3>1, <3>2, FreshPkgs
  <2>5. Joined(rs, L + 1) = Joined(qs, L) \o rs[L + 1]
    BY <1>4, <1>5, <2>2, <2>3, JoinLast
  <2>6. Joined(qs, L) \in Seq(Pkg)
    BY <1>4, JoinType
  <2>7. Append(Joined(qs, L), pkg) = Joined(qs, L) \o <<pkg>>
    BY <2>6, AppendIsConcat
  <2> QED BY <1>4, <1>5, <1>8, <2>2, <2>4, <2>5, <2>7
<1>10. CASE /\ cs = bs
            /\ L # 0 /\ pos = s[L]
            /\ Written(m.block[pos], n.block[pos], pkg)
  <2> DEFINE k == L - 1
  <2>1. t = s /\ Len(t) = L
    BY <1>10 DEF s, t, L
  <2>2. k \in Nat /\ k + 1 = L /\ L \in 1..L /\ \A i \in 1..k : i \in 1..L /\ i # L
    BY <1>4, <1>10
  <2> HIDE DEF k
  <2>3. \A i \in 1..k : qs[i] = rs[i]
    BY <1>3, <1>4, <1>5, <1>6, <1>10, <2>1, <2>2
  <2>4. rs[L] = Append(qs[L], pkg)
    <3>1. m.block[pos] \in BlockType /\ Tiled(m.block[pos])
      BY <1>2, <1>6, <1>7, <1>10, <2>2 DEF MemType, InOrder, AllTiled
    <3>2. BlockPkgs(n.block[pos]) = Append(BlockPkgs(m.block[pos]), pkg)
      BY <1>7, <1>10, <3>1, WrittenPkgs
    <3> QED BY <1>4, <1>5, <1>10, <2>1, <2>2, <3>2
  <2>5. Joined(rs, L) = Joined(qs, k) \o rs[L]
    BY <1>5, <2>1, <2>2, <2>3, JoinLast
  <2>6. Joined(qs, L) = Joined(qs, k) \o qs[L]
    BY <1>4, <2>2, JoinLast
  <2>7. Joined(qs, k) \in Seq(Pkg) /\ qs[L] \in Seq(Pkg) /\ Joined(qs, L) \in Seq(Pkg)
    BY <1>4, <2>2, JoinType
  <2> DEFINE j == Joined(qs, k)
             q == qs[L]
             z == <<pkg>>
  <2>8. z \in Seq(Pkg)
    OBVIOUS
  <2>9. Append(q, pkg) = q \o z /\ Append(Joined(qs, L), pkg) = Joined(qs, L) \o z
    BY <2>7, AppendIsConcat
  <2> HIDE DEF j, q, z
  <2>10. (j \o q) \o z = j \o (q \o z)
    <3>1. j \in Seq(Pkg) /\ q \in Seq(Pkg)
      BY <2>7 DEF j, q
    <3> QED BY <2>8, <3>1, Concats
  <2>11. Joined(rs, L) = Append(Joined(qs, L), pkg)
    BY <2>4, <2>5, <2>6, <2>9, <2>10 DEF j, q
  <2> QED BY <1>4, <1>5, <1>8, <2>1, <2>11
<1> QED BY <1>9, <1>10 DEF WriteEffect, pos, s, L

\* The package that begins the head block of c.
HeadPkg(m, c) == m.block[m.chain[c].head].data[m.block[m.chain[c].head].dataHead]

\* What ReleaseEffect does to the queues.
LEMMA ReleaseQueues ==
  ASSUME NEW m, NEW bs, InOrder(m, bs), NEW c \in Chain, NEW n, NEW cs,
         m.chain[c].head # None,
         ReleaseEffect(m, bs, c, HeadPkg(m, c), n, cs)
  PROVE  /\ HeadPkg(m, c) \in Pkg
         /\ Contents(n, c) \in Seq(Pkg)
         /\ Contents(m, c) = <<HeadPkg(m, c)>> \o Contents(n, c)
         /\ \A d \in Chain : d # c => Contents(n, d) = Contents(m, d)
<1> DEFINE pkg == HeadPkg(m, c)
<1>a. pkg = m.block[m.chain[c].head].data[m.block[m.chain[c].head].dataHead]
  BY DEF HeadPkg
<1>b. ReleaseEffect(m, bs, c, pkg, n, cs)
  OBVIOUS
<1> HIDE DEF pkg
<1> DEFINE pos == m.chain[c].head
           s == bs[c]
           t == cs[c]
           k == Len(s) - 1
           qs == Queues(m, s)
           rs == Queues(n, t)
           q  == BlockPkgs(n.block[pos])
           r  == [i \in 1..k |-> qs[i + 1]]
<1>1. /\ InOrder(n, cs)
      /\ \A x \in Pos : x # pos => n.block[x] = m.block[x]
      /\ Advanced(m.block[pos], n.block[pos], pkg)
      /\ n.block[pos] \in BlockType
      /\ IF n.block[pos].dataHead = n.block[pos].dataTail THEN cs = [bs EXCEPT ![c] = Tail(s)]
         ELSE cs = bs
  BY <1>b DEF ReleaseEffect
<1>2. /\ bs \in [Chain -> Seq(Pos)] /\ Linked(m, bs) /\ m \in MemType
      /\ cs \in [Chain -> Seq(Pos)]
  BY <1>1 DEF InOrder
<1>3. /\ Contents(m, c) = Joined(qs, Len(s)) /\ Len(s) \in Nat
      /\ \A i \in 1..Len(s) : qs[i] \in Seq(Pkg) /\ qs[i] = BlockPkgs(m.block[s[i]])
  BY QueueElements
<1>4. /\ Contents(n, c) = Joined(rs, Len(t)) /\ Len(t) \in Nat
      /\ \A i \in 1..Len(t) : rs[i] \in Seq(Pkg) /\ rs[i] = BlockPkgs(n.block[t[i]])
  BY <1>1, QueueElements
<1>5. /\ Len(s) # 0 /\ pos = s[1] /\ 1 \in 1..Len(s)
      /\ \A i \in 1..Len(s) : s[i] \in Pos
      /\ \A i, j \in 1..Len(s) : s[i] = s[j] => i = j
  <2>1. Len(s) # 0 /\ pos = s[1] /\ 1 \in 1..Len(s)
    BY <1>2, HeadFacts
  <2> QED BY <1>2, <2>1, ChainFacts
<1>6. pos \in Pos /\ pkg \in Pkg /\ m.block[pos] \in BlockType /\ Tiled(m.block[pos])
  <2>1. pos \in Pos /\ pkg \in Pkg /\ pos \in Pool!Listed(m.pool.used)
    BY <1>a, Reading
  <2> HIDE DEF pos
  <2> QED BY <1>2, <2>1 DEF MemType, InOrder, AllTiled
<1>7. /\ q \in Seq(Pkg)
      /\ BlockPkgs(m.block[pos]) = <<pkg>> \o q
      /\ n.block[pos].dataHead = n.block[pos].dataTail => q = <<>>
  <2> DEFINE b == m.block[pos]
             a == n.block[pos]
  <2>1. b \in BlockType /\ Tiled(b) /\ a \in BlockType /\ pkg \in Pkg /\ Advanced(b, a, pkg)
        /\ pkg = b.data[b.dataHead]
    BY <1>1, <1>6, <1>a
  <2> HIDE DEF b, a
  <2>2. /\ BlockPkgs(a) \in Seq(Pkg)
        /\ BlockPkgs(b) = <<pkg>> \o BlockPkgs(a)
        /\ a.dataHead = a.dataTail => BlockPkgs(a) = <<>>
    BY <2>1, AdvancedPkgs
  <2> QED BY <2>2 DEF a, b
<1>8. k \in Nat /\ k + 1 = Len(s) /\ \A i \in 1..k : i + 1 \in 1..Len(s) /\ i + 1 # 1
  BY <1>3, <1>5
<1> HIDE DEF s, t, qs, rs, pos, q, k
<1>9. ASSUME NEW d \in Chain, d # c
      PROVE  Contents(n, d) = Contents(m, d)
  <2>1. cs[d] = bs[d]
    BY <1>1, <1>2, <1>9
  <2>2. \A i \in 1..Len(bs[d]) : bs[d][i] \in Pos /\ bs[d][i] # pos
    BY <1>2, <1>5, <1>9, ElementOfSeq DEF Linked, s
  <2>3. \A i \in 1..Len(bs[d]) : n.block[bs[d][i]] = m.block[bs[d][i]]
    BY <1>1, <2>2
  <2>4. Queues(n, cs[d]) = Queues(m, bs[d])
    BY <2>1, <2>3 DEF Queues
  <2>5. Contents(n, d) = Joined(Queues(n, cs[d]), Len(cs[d]))
    BY <1>1, QueueFacts
  <2>6. Contents(m, d) = Joined(Queues(m, bs[d]), Len(bs[d]))
    BY QueueFacts
  <2> QED BY <2>1, <2>4, <2>5, <2>6
<1>10. r = [i \in 1..k |-> qs[i + 1]] /\ \A i \in 1..k : r[i] = qs[i + 1] /\ r[i] \in Seq(Pkg)
  BY <1>3, <1>8
<1> HIDE DEF r
<1>11. Joined(r, k) \in Seq(Pkg)
  BY <1>8, <1>10, JoinType
<1>12. Contents(m, c) = (<<pkg>> \o q) \o Joined(r, k)
  <2>1. Joined(qs, k + 1) = qs[1] \o Joined(r, k)
    BY <1>3, <1>8, <1>10, JoinFirst
  <2>2. qs[1] = <<pkg>> \o q
    BY <1>3, <1>5, <1>7
  <2> QED BY <1>3, <1>8, <2>1, <2>2
<1>13. Contents(n, c) = q \o Joined(r, k)
  <2>1. CASE n.block[pos].dataHead = n.block[pos].dataTail
    <3>1. t = Tail(s) /\ s \in Seq(Pos) /\ s # <<>>
      <4>1. s \in Seq(Pos)
        BY <1>2 DEF s
      <4>2. s # <<>>
        BY <1>5, <4>1, EmptySeq
      <4>3. cs = [bs EXCEPT ![c] = Tail(s)]
        BY <1>1, <2>1
      <4>4. cs[c] = Tail(s)
        BY <1>2, <4>3
      <4> QED BY <4>1, <4>2, <4>4 DEF t
    <3>2. Len(t) = k /\ \A i \in 1..k : t[i] = s[i + 1]
      <4>1. Len(Tail(s)) = Len(s) - 1 /\ \A i \in 1..Len(Tail(s)) : Tail(s)[i] = s[i + 1]
        BY <3>1, HeadTailProperties
      <4> QED BY <3>1, <4>1 DEF k
    <3>3. \A i \in 1..k : rs[i] = qs[i + 1]
      <4> TAKE i \in 1..k
      <4>1. s[i + 1] \in Pos /\ s[i + 1] # pos
        BY <1>5, <1>8
      <4>2. n.block[s[i + 1]] = m.block[s[i + 1]]
        BY <1>1, <4>1
      <4>3. rs[i] = BlockPkgs(n.block[s[i + 1]]) /\ qs[i + 1] = BlockPkgs(m.block[s[i + 1]])
        BY <1>3, <1>4, <1>8, <3>2
      <4> QED BY <4>2, <4>3
    <3>4. rs = r
      <4>1. rs = [i \in 1..k |-> rs[i]]
        BY <3>2 DEF rs, Queues
      <4> QED BY <1>10, <3>3, <4>1
    <3>5. q = <<>> /\ <<>> \o Joined(r, k) = Joined(r, k)
      BY <1>7, <1>11, <2>1, ConcatEmptySeq
    <3> QED BY <1>4, <3>2, <3>4, <3>5
  <2>2. CASE n.block[pos].dataHead # n.block[pos].dataTail
    <3>1. t = s /\ Len(t) = k + 1
      BY <1>1, <1>8, <2>2 DEF s, t
    <3>2. \A i \in 1..k : r[i] = rs[i + 1]
      <4> TAKE i \in 1..k
      <4>1. s[i + 1] \in Pos /\ s[i + 1] # pos
        BY <1>5, <1>8
      <4>2. n.block[s[i + 1]] = m.block[s[i + 1]]
        BY <1>1, <4>1
      <4>3. rs[i + 1] = BlockPkgs(n.block[s[i + 1]]) /\ qs[i + 1] = BlockPkgs(m.block[s[i + 1]])
        BY <1>3, <1>4, <1>8, <3>1
      <4> QED BY <1>10, <4>2, <4>3
    <3>3. rs[1] = q
      BY <1>4, <1>5, <1>8, <3>1 DEF q
    <3>4. Joined(rs, k + 1) = rs[1] \o Joined(r, k)
      BY <1>4, <1>8, <3>1, <3>2, JoinFirst
    <3> QED BY <1>4, <3>1, <3>3, <3>4
  <2> QED BY <2>1, <2>2
<1>14. q \o Joined(r, k) \in Seq(Pkg)
  BY <1>7, <1>11, Concats
<1>15. (<<pkg>> \o q) \o Joined(r, k) = <<pkg>> \o (q \o Joined(r, k))
  <2> DEFINE z == <<pkg>>
             j == Joined(r, k)
  <2>1. z \in Seq(Pkg) /\ j \in Seq(Pkg)
    <3>1. pkg \in Pkg
      BY <1>6
    <3> QED BY <1>11, <3>1, Concats
  <2> HIDE DEF z, j
  <2>2. (z \o q) \o j = z \o (q \o j)
    BY <1>7, <2>1, Concats
  <2> QED BY <2>2 DEF z, j
<1>16. /\ Contents(n, c) \in Seq(Pkg)
       /\ Contents(m, c) = <<pkg>> \o Contents(n, c)
  BY <1>12, <1>13, <1>14, <1>15
<1> QED BY <1>6, <1>9, <1>16 DEF pkg

\* A package the chain accepted stands at the end of its queue, also when it
\* went to a new block.
THEOREM NothingAcceptedIsLost == Spec => AcceptedIsQueued
<1>1. IInv /\ [Next]_vars =>
        [\A c \in Chain, pkg \in Pkg :
           Write(c, pkg) => Contents(mem', c) = Append(Contents(mem, c), pkg)]_vars
  <2> SUFFICES ASSUME IInv, NEW c \in Chain, NEW pkg \in Pkg, Write(c, pkg)
               PROVE  Contents(mem', c) = Append(Contents(mem, c), pkg)
    OBVIOUS
  <2>1. PICK bs : InOrder(mem, bs)
    BY DEF IInv
  <2>2. mem' = WritePkg(mem, c, pkg) /\ Writable(mem, c, pkg)
    BY DEF Write
  <2>3. PICK cs : WriteEffect(mem, bs, c, pkg, mem', cs)
    BY <2>1, <2>2, Writing
  <2> QED BY <2>1, <2>3, WriteQueues
<1> QED BY <1>1, IInvHolds, PTL DEF Spec, AcceptedIsQueued

\* The chains are the queues of ChainSpec: every step of the blocks is a write
\* or a release of one queue, or no step.  What is read is what was written,
\* once, in order, and no other chain changes.
THEOREM ChainsAreQueues == Spec => ImplementsChains
<1> DEFINE queue == [c \in Chain |-> Contents(mem, c)]
<1>1. Init => Abstract!Init
  <2> SUFFICES ASSUME Init, NEW c \in Chain PROVE Contents(mem, c) = <<>>
    BY DEF Abstract!Init
  <2> DEFINE bs == [d \in Chain |-> <<>>]
  <2>1. InOrder(mem, bs)
    BY InitInOrder
  <2>2. Len(bs[c]) = 0
    OBVIOUS
  <2> HIDE DEF bs
  <2>3. Contents(mem, c) = Joined(Queues(mem, bs[c]), 0)
    BY <2>1, <2>2, QueueFacts
  <2>4. \A i \in 1..0 : Queues(mem, bs[c])[i] \in Seq(Pkg)
    OBVIOUS
  <2>5. 0 \in Nat
    OBVIOUS
  <2> QED BY <2>3, <2>4, <2>5, JoinType
<1>2. IInv /\ [Next]_vars => [Abstract!Next]_queue
  <2> SUFFICES ASSUME IInv, Next \/ UNCHANGED vars
               PROVE  Abstract!Next \/ queue' = queue
    OBVIOUS
  <2>1. PICK bs : InOrder(mem, bs)
    BY DEF IInv
  <2>2. \A c \in Chain : queue[c] = Contents(mem, c) /\ queue'[c] = Contents(mem', c)
    OBVIOUS
  <2>3. CASE mem' = mem
    BY <2>3
  <2> HIDE DEF queue
  <2>4. ASSUME NEW c \in Chain, NEW pkg \in Pkg, Write(c, pkg)
        PROVE  Abstract!Next
    <3>1. mem' = WritePkg(mem, c, pkg) /\ Writable(mem, c, pkg)
      BY <2>4 DEF Write
    <3>2. PICK cs : WriteEffect(mem, bs, c, pkg, mem', cs)
      BY <2>1, <3>1, Writing
    <3>3. /\ queue'[c] = Append(queue[c], pkg)
          /\ \A d \in Chain : d # c => queue'[d] = queue[d]
      BY <2>1, <2>2, <3>2, WriteQueues
    <3> QED BY <3>3 DEF Abstract!Next, Abstract!Only, Abstract!Write, queue
  <2>5. CASE Release
    <3> DEFINE c == rbuf.chain
    <3>1. rbuf # NoRead /\ mem' = ReleaseReadBuf(mem, rbuf)
      BY <2>5 DEF Release
    <3>2. c \in Chain /\ rbuf = ReadPkg(mem, c)
      BY <3>1 DEF IInv, ReadOK
    <3> HIDE DEF c
    <3>3. PICK cs : ReleaseEffect(mem, bs, c, rbuf.pkg, mem', cs)
      BY <2>1, <3>1, <3>2, Releasing DEF c
    <3>4. /\ mem.chain[c].head # None
          /\ rbuf.pkg = mem.block[mem.chain[c].head].data[mem.block[mem.chain[c].head].dataHead]
      <4> DEFINE pos == mem.chain[c].head
                 b == mem.block[pos]
      <4>1. /\ pos # None
            /\ rbuf = [chain |-> c, pkg |-> b.data[b.dataHead], pos |-> pos,
                       offset |-> b.dataHead, len |-> <<PkgLen[b.data[b.dataHead]], 0>>]
        BY <2>1, <3>1, <3>2, Reading
      <4> HIDE DEF b, pos
      <4>2. rbuf.pkg = b.data[b.dataHead]
        BY <4>1
      <4> QED BY <4>1, <4>2 DEF b, pos
    <3>5. /\ rbuf.pkg \in Pkg
          /\ queue'[c] \in Seq(Pkg)
          /\ queue[c] = <<rbuf.pkg>> \o queue'[c]
          /\ \A d \in Chain : d # c => queue'[d] = queue[d]
      <4> DEFINE pkg == HeadPkg(mem, c)
      <4>1. rbuf.pkg = pkg /\ ReleaseEffect(mem, bs, c, pkg, mem', cs)
        BY <3>3, <3>4 DEF HeadPkg
      <4>2. /\ pkg \in Pkg
            /\ Contents(mem', c) \in Seq(Pkg)
            /\ Contents(mem, c) = <<pkg>> \o Contents(mem', c)
            /\ \A d \in Chain : d # c => Contents(mem', d) = Contents(mem, d)
        BY <2>1, <3>2, <3>4, <4>1, ReleaseQueues
      <4> HIDE DEF pkg
      <4>3. queue[c] = <<pkg>> \o queue'[c] /\ queue'[c] \in Seq(Pkg)
        BY <2>2, <3>2, <4>2
      <4>4. \A d \in Chain : d # c => queue'[d] = queue[d]
        BY <2>2, <4>2
      <4> QED BY <4>1, <4>2, <4>3, <4>4
    <3>6. queue[c] # <<>> /\ queue'[c] = Tail(queue[c])
      BY <3>5, ConsSeq
    <3>7. Abstract!Only(c, queue, queue')
      BY <3>5 DEF Abstract!Only
    <3>8. Abstract!Release(c, queue, queue')
      BY <3>6 DEF Abstract!Release
    <3> QED BY <3>2, <3>7, <3>8, Zenon DEF Abstract!Next, queue
  <2> QED BY <2>3, <2>4, <2>5 DEF Next, Read, PutBack, vars
<1> QED BY <1>1, <1>2, IInvHolds, PTL DEF Spec, ImplementsChains, Abstract!Spec

=============================================================================
