------------------------------ MODULE JoyBlock ------------------------------
(***************************************************************************)
(* The package chains of joyblock.c.  Every procid has a send chain and    *)
(* all of them share one receive chain.  A chain is a list of blocks from  *)
(* one pool; packages are written whole at the end of the tail block and   *)
(* read from the front of the head block, in place: the reader gets a      *)
(* pointer into the block and gives the bytes back with a second call.     *)
(***************************************************************************)
EXTENDS Integers, Sequences, FiniteSets, FiniteSetsExt

CONSTANTS
  BlockNum,        \* JoyBlockConfig.blockNum
  BlockSize,       \* JoyBlockConfig.blockSize
  BlockChainLen,   \* JoyBlockConfig.blockChainLen
  HeadSize,        \* sizeof(struct JoynetHead)
  Procs,           \* the procids with a send chain
  Recv,            \* names the receive chain
  Pkg,             \* packages
  PkgLen,          \* headlen + bodylen of each package
  NoPkg            \* bytes in which no package begins

ASSUME BlockAssumption ==
  /\ BlockNum \in Nat \ {0}
  /\ BlockSize \in Nat \ {0}
  /\ BlockChainLen \in Nat \ {0}
  /\ HeadSize \in Nat \ {0}
  /\ IsFiniteSet(Procs)
  /\ Recv \notin Procs
  /\ NoPkg \notin Pkg
  /\ PkgLen \in [Pkg -> Nat]
  /\ \A pkg \in Pkg : PkgLen[pkg] >= HeadSize

VARIABLES
  mem,    \* g_blockmem: the pool, the chains and the blocks
  rbuf    \* the read buffer that is out: handed out by a read, not given back yet

vars == <<mem, rbuf>>

Pool == INSTANCE PoolSpec WITH abstractPool <- mem.pool

Pos    == 0 .. BlockNum - 1
None   == -1
Offset == 0 .. BlockSize - 1
Chain  == Procs \cup {Recv}

ChainLimit(c) == IF c = Recv THEN BlockNum ELSE BlockChainLen

BlockType ==
  [nextUsedPos : Pos \cup {None},
   dataHead    : 0..BlockSize,
   dataTail    : 0..BlockSize,
   data        : [Offset -> Pkg \cup {NoPkg}]]   \* the package beginning there

ChainType == [head : Pos \cup {None}, tail : Pos \cup {None}, len : 0..BlockNum]

\* struct JoynetRWBuf after a read: which chain was read, where the package was
\* found and the lengths of its two segments.
NoRead == [chain |-> Recv, pkg |-> NoPkg, pos |-> None, offset |-> 0, len |-> <<0, 0>>]

-----------------------------------------------------------------------------
(* Writing. *)

\* joyBlockAlloc_ clears the block; bytes of an earlier use are no package.
FreshBlock ==
  [nextUsedPos |-> None, dataHead |-> 0, dataTail |-> 0,
   data |-> [o \in Offset |-> NoPkg]]

\* Adds a block at the tail of chain c.
AllocUnlinked(m, c) ==   \* mutant: the old tail is not linked to the new block
  LET pos == Pool!AllocPos(m.pool)
  IN  [pool  |-> Pool!AllocBlock(m.pool),
       chain |-> [m.chain EXCEPT ![c] =
                    [head |-> IF @.head = None THEN pos ELSE @.head,
                     tail |-> pos, len |-> @.len + 1]],
       block |-> [m.block EXCEPT ![pos] = FreshBlock]]

AllocToChain(m, c) ==
  LET pos    == Pool!AllocPos(m.pool)
      ch     == m.chain[c]
      linked == IF ch.head = None THEN m.block
                ELSE [m.block EXCEPT ![ch.tail].nextUsedPos = pos]
  IN  [pool  |-> Pool!AllocBlock(m.pool),
       chain |-> [m.chain EXCEPT ![c] =
                    [head |-> IF ch.head = None THEN pos ELSE ch.head,
                     tail |-> pos, len |-> ch.len + 1]],
       block |-> [linked EXCEPT ![pos] = FreshBlock]]

LeftRoom(m, c) == BlockSize - m.block[m.chain[c].tail].dataTail

NeedsBlockLate(m, c, pkg) ==   \* mutant: one byte too generous
  m.chain[c].len = 0 \/ LeftRoom(m, c) + 1 < PkgLen[pkg]

NeedsBlock(m, c, pkg) ==
  m.chain[c].len = 0 \/ LeftRoom(m, c) < PkgLen[pkg]

\* A full chain is measured against its limit; an empty one never is.
Writable(m, c, pkg) ==
  /\ PkgLen[pkg] <= BlockSize
  /\ NeedsBlock(m, c, pkg) =>
       /\ Pool!Available(m.pool)
       /\ m.chain[c].len = 0 \/ m.chain[c].len < ChainLimit(c)

PutPkgCompact(m, pos, pkg) ==   \* mutant: moves unread bytes to the front of the block
  LET b == m.block[pos]
  IN  [m EXCEPT !.block[pos] =
         [b EXCEPT !.data = [o \in Offset |->
                      IF o = b.dataTail - b.dataHead THEN pkg
                      ELSE IF o + b.dataHead \in Offset THEN b.data[o + b.dataHead] ELSE NoPkg],
                   !.dataHead = 0,
                   !.dataTail = b.dataTail - b.dataHead + PkgLen[pkg]]]

PutPkg(m, pos, pkg) ==
  LET b == m.block[pos]
  IN  [m EXCEPT !.block[pos] =
         [b EXCEPT !.data     = [b.data EXCEPT ![b.dataTail] = pkg],
                   !.dataTail = b.dataTail + PkgLen[pkg]]]

WritePkg(m, c, pkg) ==
  LET n == IF NeedsBlock(m, c, pkg) THEN AllocToChain(m, c) ELSE m
  IN  PutPkg(n, n.chain[c].tail, pkg)

-----------------------------------------------------------------------------
(* Reading.  The code can put a package together from the head block and   *)
(* the next one, although the writer never splits a package.               *)

DataLen(b) == b.dataTail - b.dataHead

ReadPkg(m, c) ==
  LET pos   == m.chain[c].head
      b     == m.block[pos]
      n     == m.block[b.nextUsedPos]
      short == DataLen(b) < HeadSize
      pkg   == IF DataLen(b) > 0 THEN b.data[b.dataHead] ELSE n.data[n.dataHead]
      rest  == PkgLen[pkg] - DataLen(b)
      found(lens) == [chain |-> c, pkg |-> pkg, pos |-> pos, offset |-> b.dataHead, len |-> lens]
  IN  IF \/ pos = None
         \/ short /\ (b.nextUsedPos = None \/ n.dataTail < HeadSize - DataLen(b))
         \/ pkg = NoPkg
         \/ rest > 0 /\ (b.nextUsedPos = None \/ n.dataTail < rest)
      THEN NoRead
      ELSE found(IF rest <= 0 THEN <<PkgLen[pkg], 0>> ELSE <<DataLen(b), rest>>)

\* joyBlockRelease_ for the head of the chain.
ReleaseHeadKeepLen(m, c) ==   \* mutant: the chain forgets to count down
  LET ch == m.chain[c]
  IN  [m EXCEPT
         !.pool = Pool!ReleaseBlock(@, ch.head),
         !.chain[c] = IF ch.head = ch.tail
                      THEN [head |-> None, tail |-> None, len |-> ch.len - 1]
                      ELSE [@ EXCEPT !.head = m.block[ch.head].nextUsedPos]]

ReleaseHead(m, c) ==
  LET ch   == m.chain[c]
      last == ch.head = ch.tail
  IN  [m EXCEPT
         !.pool = Pool!ReleaseBlock(@, ch.head),
         !.chain[c] = [head |-> IF last THEN None ELSE m.block[ch.head].nextUsedPos,
                       tail |-> IF last THEN None ELSE ch.tail,
                       len  |-> ch.len - 1]]

\* Gives back len bytes of the head block, and the block with its last byte.
ReleaseBytesKeep(m, c, len) ==   \* mutant: keeps a block that has been read to its end
  IF \/ m.chain[c].head = None
     \/ len > DataLen(m.block[m.chain[c].head])
  THEN m
  ELSE [m EXCEPT !.block[m.chain[c].head].dataHead = @ + len]

ReleaseBytesBlock(m, c, len) ==   \* mutant: gives the whole block back at once
  IF len <= 0 \/ m.chain[c].head = None THEN m ELSE ReleaseHead(m, c)

ReleaseBytes(m, c, len) ==
  LET pos == m.chain[c].head
      n   == [m EXCEPT !.block[pos].dataHead = @ + len]
  IN  IF len <= 0 \/ pos = None THEN m
      ELSE IF len > DataLen(m.block[pos]) THEN m
      ELSE IF DataLen(n.block[pos]) = 0 THEN ReleaseHead(n, c) ELSE n

HeadHas(m, c, len) ==
  m.chain[c].head # None /\ len <= DataLen(m.block[m.chain[c].head])

\* A read buffer without a first part is left alone; one whose first part is not in
\* the head block is an error, and its second part is left alone too.
ReleaseReadBuf(m, rb) ==
  IF rb.len[1] <= 0 \/ ~HeadHas(m, rb.chain, rb.len[1]) THEN m
  ELSE ReleaseBytes(ReleaseBytes(m, rb.chain, rb.len[1]), rb.chain, rb.len[2])

-----------------------------------------------------------------------------
(* joyBlockMemCheck, the chains' own check: what it can see of a chain's   *)
(* head block, and the lengths of the chains against the pool.             *)

HeadBlockChecks(m, c) ==
  m.chain[c].head # None =>
    LET b == m.block[m.chain[c].head]
    IN  b.dataTail > b.dataHead /\ b.dataTail <= BlockSize

\* The lengths of the chains in cs that have a head.
UsedBlockNum(m, cs) ==
  FoldSet(LAMBDA c, num : IF m.chain[c].head = None THEN num ELSE num + m.chain[c].len, 0, cs)

JoyBlockMemCheck(m) ==
  /\ \A c \in Chain : HeadBlockChecks(m, c)
  /\ UsedBlockNum(m, Chain) = Len(m.pool.used)

-----------------------------------------------------------------------------

JoyBlockInit ==
  [pool  |-> Pool!InitPool,
   chain |-> [c \in Chain |-> [head |-> None, tail |-> None, len |-> 0]],
   block |-> [pos \in Pos |-> FreshBlock]]

Init ==
  /\ mem = JoyBlockInit
  /\ rbuf = NoRead

\* joyBlockWriteSendPkg and joyBlockWriteRecvPkg; a refused write changes nothing.
Write(c, pkg) ==
  /\ Writable(mem, c, pkg)
  /\ mem' = WritePkg(mem, c, pkg)
  /\ UNCHANGED rbuf

\* joyBlockReadSendPkg and joyBlockReadRecvPkg.
Read(c) ==
  /\ rbuf = NoRead
  /\ rbuf' = ReadPkg(mem, c)
  /\ UNCHANGED mem

\* joyBlockReleaseSendBuf and joyBlockReleaseRecvBuf.  Between a read and this
\* call the message callback runs, which writes to the chains.
Release ==
  /\ rbuf # NoRead
  /\ mem' = ReleaseReadBuf(mem, rbuf)
  /\ rbuf' = NoRead

\* The package does not fit into sendbuf: it stays in its send chain.
PutBack ==
  /\ rbuf # NoRead
  /\ rbuf.chain \in Procs
  /\ rbuf' = NoRead
  /\ UNCHANGED mem

Next ==
  \/ \E c \in Chain : Read(c) \/ \E pkg \in Pkg : Write(c, pkg)
  \/ Release
  \/ PutBack

Spec == Init /\ [][Next]_vars

-----------------------------------------------------------------------------
(* Properties. *)

\* No length, offset or link leaves its block or the pool.
TypeOK ==
  /\ DOMAIN mem = {"pool", "chain", "block"}
  /\ Len(mem.pool.avail) + Len(mem.pool.used) = BlockNum
  /\ Pool!Listed(mem.pool.avail) \cup Pool!Listed(mem.pool.used) = Pos
  /\ mem.chain \in [Chain -> ChainType]
  /\ mem.block \in [Pos -> BlockType]
  /\ rbuf # NoRead => rbuf.pkg \in Pkg /\ rbuf.pos \in Pos

\* The blocks of chain c from head to tail.
Blocks(m, c) ==
  LET step[n \in 0..BlockNum] ==
        IF n = 0 THEN IF m.chain[c].head = None THEN <<>> ELSE <<m.chain[c].head>>
        ELSE LET s == step[n - 1]
             IN  IF Len(s) < n \/ m.block[s[n]].nextUsedPos = None THEN s
                 ELSE Append(s, m.block[s[n]].nextUsedPos)
  IN  step[BlockNum]

\* The pool's used blocks are exactly those of the chains: none leaks when a
\* chain drains or a write is refused, none is in two chains, every chain ends
\* where its head says, is as long as it says and keeps to its limit.
ChainsShareOutThePool ==
  /\ \A c \in Chain :
       LET s == Blocks(mem, c) IN
       /\ Len(s) = mem.chain[c].len
       /\ mem.chain[c].tail = IF s = <<>> THEN None ELSE s[Len(s)]
       /\ Len(s) <= ChainLimit(c)
       /\ Pool!Listed(s) \subseteq Pool!Listed(mem.pool.used)
  /\ \A c, d \in Chain :
       c # d => Pool!Listed(Blocks(mem, c)) \cap Pool!Listed(Blocks(mem, d)) = {}
  /\ \A pos \in Pool!Listed(mem.pool.used) :
       \E c \in Chain : pos \in Pool!Listed(Blocks(mem, c))

\* joyBlockMemCheck never has anything to report, neither between two calls nor
\* between a read and its release: what the program itself watches.
MemCheckPasses == JoyBlockMemCheck(mem)

\* A chain that holds anything hands out a whole package in one piece: no block
\* of a chain is ever empty, and the code that joins two blocks is never needed.
HeadPackageWhole ==
  \A c \in Chain : mem.chain[c].head # None =>
    LET rb == ReadPkg(mem, c) IN rb # NoRead /\ rb.len[2] = 0

\* The pointer a read handed out keeps pointing at its package until it is given
\* back, whatever the callback writes in the meantime.
ReadBufStaysValid ==
  rbuf # NoRead =>
    /\ rbuf.pos \in Pool!Listed(mem.pool.used)
    /\ mem.block[rbuf.pos].data[rbuf.offset] = rbuf.pkg
    /\ ReadPkg(mem, rbuf.chain) = rbuf

\* The packages of a block, from dataHead to dataTail.
BlockPkgs(b) ==
  LET from[n \in 0..DataLen(b)] ==   \* those in the last n bytes before dataTail
        IF n = 0 THEN <<>>
        ELSE LET pkg == b.data[b.dataTail - n]
             IN  IF pkg = NoPkg THEN from[n - 1] ELSE <<pkg>> \o from[n - 1]
  IN  from[DataLen(b)]

\* The first k sequences of qs one after the other.
Joined(qs, k) ==
  LET upto[n \in 0..k] == IF n = 0 THEN <<>> ELSE upto[n - 1] \o qs[n]
  IN  upto[k]

\* What the chain whose blocks are s holds, oldest first.
Held(m, s) == Joined([i \in 1..Len(s) |-> BlockPkgs(m.block[s[i]])], Len(s))

Contents(m, c) == Held(m, Blocks(m, c))

\* A package the chain accepted stands at the end of its queue: an accepted
\* write never gets lost on the way to a new block.
AcceptedIsQueued ==
  [][\A c \in Chain, pkg \in Pkg :
       Write(c, pkg) => Contents(mem', c) = Append(Contents(mem, c), pkg)]_vars

\* The chains are queues of whole packages: what is read is what was written,
\* once, in order, and no other chain changes.
Abstract == INSTANCE ChainSpec WITH queue <- [c \in Chain |-> Contents(mem, c)]

ImplementsChains == Abstract!Spec

=============================================================================
