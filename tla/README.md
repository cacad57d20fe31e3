# joyblock: a formal model

joyblock is a small messaging library in C: a *client* process connects to one or
more *server* processes over TCP, both queue packages in a fixed pool of blocks,
and single-threaded, non-blocking functions move the packages between the queues,
per-connection buffers and the sockets. This directory holds TLA+ modules of it,
TLC configurations that check them on small instances, and proofs that TLAPS checks
for every size of the pool, the chains, the buffers and the packages.

Run everything inside this directory: `tlc -workers 2 -config X.cfg M` with the module
and configuration of the table below, `tlapm X.tla` for each of the modules with proofs
(`DataLemmas`, `MemPoolProofs`, `JoyBlockProofs`, `JoyStreamProofs`, `CQueueProofs`,
`JoyMessageLemmas`, `JoyNetLemmas`, `JoySystemProofs`; the last three take some minutes).
`PROJECT.json` says which lines of the source each definition stands for, which run
checks which property, and which change to the code would break it (the definitions
commented "mutant").

## 1. The system

| component | source | state | operations |
|---|---|---|---|
| block pool | `mempool.c` | one area of blocks; their headers thread an available list (singly linked) and a used list (doubly linked) through it | init, alloc, release, walk, check |
| package chains | `joyblock.c` | one pool of blocks; a send chain for every procid, one receive chain; in each block the offsets `dataHead`, `dataTail` | write, read in place, release what was read, check |
| nodes and buffers | `joynet.c` | a second pool of the same kind with the open connections, the index `nodeidx` from procid to node; per node a status, `recvbuf`, `sendbuf`, `shakebuf` | alloc, close (with a last flush), set procid, traverse, fill and drain the buffers |
| server | `joyserver.c` | listening socket, epoll, its nodes | accept, receive, handshake, one package up per call, send, stop, can-stop |
| client | `joyclient.c` | its nodes | connect (non-blocking, one poll), receive, handshake, one package up per call, send, stop, can-stop |
| circular queue | `cqueue.c` | none: pure functions on `head`, `tail`, `size` | compiled, called by nothing |
| shared-memory attachment | `joyblock.c:311` | none | inside `#if 0`, not compiled |

The way of a package, say from client to server:

    joyClientWriteSendData -> send chain of the client's procid   (blocks)
    joyClientProcSendData  -> node->sendbuf -> send()             (one buffer per node)
    joyServerProcRecvData  -> recv() -> node->recvbuf -> receive chain  (shared by all nodes)
    joyServerReadRecvData  -> callback, one package per call

Every buffer on this way is bounded, every step moves as much as fits, and what does
not fit stays where it is. A `Shake` skips the chains (it goes from `recvbuf` to
`shakebuf`); a `Stop` goes through them like a message. `joyconst.h`, which defines
the buffer sizes, the packet header and `kJoynetMaxProcID`, is not in the repository;
its constants are CONSTANTS here.

**What is hard.** Nothing runs in parallel inside a process, so the difficulties lie
elsewhere: *between* the processes (connections that end, are reset, complete late or
are half open; handshakes that are lost or time out; processes that stop, crash and
come back while the peer keeps old nodes and packages), *at the limits* (a full buffer,
chain or pool at each of the four stages, for both directions at once), *in stale
references* (a pointer into a block kept across a callback, a position kept across a
release, a procid looked up when a package is read and not when it came), and *in
partial failure* (half-sent buffers, a close that flushes, a second close). The list
with source lines is `hazards` in `PROJECT.json`.

**What makes each component correct.**
* block pool: no block is lost, shared or handed out twice, whatever the order of releases;
* chains: queues of whole packages, that never leak a block and never touch a package
  while the reader holds a pointer to it;
* nodes: index, used list and sockets agree; a close affects no other node;
* server and client together: what one side believes of a connection the other can
  confirm; messages arrive once, in order and at their addressee; nothing is lost while
  nothing fails; connections recover; stopping ends, and ends only when it may.

## 2. The modules

| module | models | state | on top of |
|---|---|---|---|
| `PoolSpec` | what `mempool.c` promises: two FIFO queues of positions | `abstractPool` | |
| `MemPool` | `mempool.c`, link by link | `pool` (both header structs as one record), `owned` (what the callers hold) | implements `PoolSpec` |
| `DataLemmas` | induction, recursive functions, sequences: what the proofs share | | |
| `MemPoolProofs` | theorems about `MemPool` | | `MemPool`, `DataLemmas` |
| `ChainSpec` | what `joyblock.c` promises: queues of whole packages | `queue` | |
| `JoyBlock` | `joyblock.c` | `mem` (pool, chain heads, blocks), `rbuf` (the read that is out) | uses `PoolSpec`, implements `ChainSpec` |
| `JoyBlockProofs` | theorems about `JoyBlock` | | `JoyBlock`, `DataLemmas` |
| `JoyNet` | `joynet.c`, and TCP as far as the code can tell | `ep[p]` (nodes, used list, index, chains of process p), `conn`, `handled`, `left` | chains as queues |
| `JoyServer`, `JoyClient` | `joyserver.c`, `joyclient.c` | | `JoyNet` |
| `JoySystem` | several processes whose programs call the API in any order | `phase`, `sent` | `JoyServer`, `JoyClient` |
| `JoyMessageLemmas` | the account of messages: what may happen to the contents of all places so that no message is there twice, their order is kept and none is lost | | `JoySystem`, `DataLemmas` |
| `JoyNetLemmas` | an invariant of nodes, chains, connections and messages; one lemma for each operator of `JoyNet` | | `JoyMessageLemmas` |
| `JoySystemProofs` | the loops, the calls of the API, theorems about `JoySystem` | | `JoyNetLemmas` |
| `JoyLoops` | the same with the call order of the loops of the two `main` functions | `at` | `JoySystem` |
| `StreamSpec` | what one direction of a connection promises | `waiting`, `flight`, `arrived`, `whole` | |
| `JoyStream` | `joynet.c` byte by byte, one direction | `sendq`, `sendbuf`, `wire`, `recvbuf`, `recvq`, which ends are open | implements `StreamSpec` |
| `JoyStreamProofs` | packages as bytes, streams that TCP cuts; theorems about `JoyStream` | | `JoyStream`, `DataLemmas` |
| `CQueue` | `cqueue.c` | `head`, `tail`, `buf`; what stands between the indices (`content`), what was accepted and not given out (`held`) | |
| `CQueueProofs` | theorems about `CQueue` | | `CQueue`, `DataLemmas` |

The `MC...` modules give constants that a configuration cannot write down (functions,
records) their values, and nothing else.

The layers meet at the abstract specifications: `MemPool` implements `PoolSpec`,
which `JoyBlock` uses for its pool; `JoyBlock` implements `ChainSpec`, and `JoyNet`
keeps its chains as the queues `ChainSpec` has, with the limits of `JoyBlock`'s guards.

**MemPool.** `pool` has the fields of `MemPoolHead` and, as functions of the position,
those of `MemBlockHead`. Alloc and release are compositions of the list operations in
the order of the code (`TakeAvail`, `AppendUsed`; `AppendAvail`, `UnlinkUsed`). Actions:
`Alloc`, `Release(pos)` and `ReleaseTwice(pos)`, the double close of `joyclient.c`.
`Walk` follows links like `memPoolGetUsedNum` and `memPoolCheck`; `JoynetTraverseNode` walks
like `joynetTraverseNode`, over a list from which its callbacks remove blocks.

**JoyBlock.** A block maps each offset to the package that begins there, so that a read
from a wrong offset finds none. `Write`, `Read` and `Release` are the API calls;
`PutBack` is the reader (`joynetWriteSendBuf`) that finds no room and leaves the package.
Between `Read` and `Release` writes go on: the message callback runs there. Writing back
a refused message is a `Write` to the receive chain. `JoyBlockMemCheck` is the check the
library offers its users.

**JoyNet, JoyServer, JoyClient.** Each C function is an operator from a *view* (all that
one call can touch) to a view, or to the set of views that may result: a call of the API
is one atomic action, because a process has one thread and no call blocks. A
traversal (`ForEach`) calls its operator for one node of the used list after the other. Parameters carry what the environment decides:
which sockets epoll or poll report and in what order (`evs`, `arrived`), whether `send`
notices that a connection has gone (`failed`), whose handshake has timed out or cannot be
sent (`bad`, `late`), whether the callback refuses (`RefusePkg`). A call that fails closes
the node inside the same action, with the flush of `joynetCloseConnectNode`.

**TCP** (external, the operators from `FreeConn` to `Transmit`): a connection carries
packages in order, its capacity is `WireNum`; a close lets what was sent before arrive,
a reset loses it; whatever is sent into a connection that has gone vanishes until an
error or an end of stream is reported.

**JoySystem.** The calls of the API for every process, in any order, plus `Establish`
(the kernels complete a connection), `Reset`, `Crash` and `Restart`. **JoyLoops** fixes
the order of calls to that of the loops of the main functions (`joyserver.c:542-552`,
`joyclient.c:600-619`) and adds a `CanStop` to each round once the process is stopping. The
client is one that goes on with that loop. The `main` of `joyclient.c` leaves it when all
nodes are connected, then writes its packages (`:621-630`) without a send, and never reconnects:
`LinksRecover` is a promise to programs that call `joyClientConnectTcp` in every round (which
returns at once for a node that is connected), not about this `main`.

**JoyStream.** The two levels of detail share the work: `JoyNet` has everything about
connections with packages of one size, `JoyStream` has the bytes of one direction. A package
is the sequence of its bytes `<<pkg, offset>>`; `SendBuf` fills `sendbuf` with whole packages
(`Fits`, `Released`: with the byte to spare and the discard of `joynet.c:148`) and the kernel
takes any number of bytes, `RecvBuf` gets any number and moves what is complete to the receive
chain (`ReadRecvBuf`, with the header check and its early return at `joynet.c:229`).
`RetryReadRecvBuf` is the traversal at the start of `...ProcRecvData`, which ignores errors.
A connection can be lost; each end notices in its own time and flushes or forgets its buffer.
`StreamSpec` knows only packages: they leave in order, the oversized ones are dropped on
leaving, what is on its way arrives whole, in order and once, and a loss of the link takes
packages from the end of what is on its way, never any that still wait.

**CQueue.** `Write`, `Read`, `En`, `De` and `Reset` are called in any order, since the library
calls none of them. `En(cnt)` and `De(cnt)` have the comparison of the code as their only guard
and any count up to `Size`, so the calls they wrongly accept are steps too: `cqueueDe(1)` on an
empty queue at the last index, `cqueueEn(2)` on a full one that goes round the end. `content` is what
stands between the indices; an element is marked `torn` when it belongs to the part of a segment that
went round the end, where the second `memcpy` of `cqueue.c:143` copies from the wrong place, or
when `cqueueDe` has gone to it past `tail`. `held` counts what the functions have accepted less
what they have given out, wrongly or not; the actions keep it within `MaxLaps` times `Size`.

### What the models abstract

* `JoyNet` gives every package the size of one block and one unit of a buffer, so partial
  sends and receives end between packages. `JoyBlock` has packages of several sizes in blocks,
  `JoyStream` in buffers and on the wire.
* `joyClientConnectTcp` looks at a connection in progress with one poll and may close it
  although the kernels complete it a moment later (`CompleteLate`); the server then accepts
  a connection that is already closed. That counts as one of the faults of a behaviour.
* A Shake is sent whole or not at all. `joyserver.c:338` and `joyclient.c:72` take a `send` of
  a part of it for success; it is the first thing written to a new connection.
* After a bad header the buffer would be flushed a second time by the close
  (`joynet.c:289-292`, `:396-397`); `RecvBytes` flushes once. `StreamWhole`, which is proved, says that
  no header is ever bad.
* `JoyBlock` has one read out at a time, as in the code, where a process has one thread and
  every read is released or given up in the function that began it.
* The callback that handles a message writes nothing itself; a callback that answers is
  covered by `WriteSendData` right before the call, which may use the same room.
* A client connects once per call of `ConnectTcp`; `malloc`, socket options, `epoll_ctl`, `poll` and `accept` do not fail.
* The second close after a failed Shake is left out of `JoyClient`: it changes nothing
  (theorem `SecondReleaseChangesNothing`, and nothing is left to flush).
* The branch for a package of unknown type is left out, as no peer of this code sends one.
* Only `conn` and the `left` bounds connect the processes: faults, refused messages and
  stops are finite in every behaviour (`MaxLeft`), messages too (`MaxSent`), connections
  at one time as well (`Conn`). A handshake that is given up although the peer's Shake may
  still come, and a Shake the socket does not take, each count as a fault.

## 3. The runs

| run | module, cfg | instance | shows |
|---|---|---|---|
| `MemPool` | `MemPool` | 4 blocks: first, last and two inner ones | every order of calls keeps the lists intact; `ImplementsPool` |
| `MemPoolIsUsed` | `MemPool` | 4 blocks | *violation*: `isused` does not tell use |
| `JoyBlock` | `MCJoyBlock` | 3 blocks of 3 bytes, 2 chains, packages of 1, 3 and 4 bytes | chains share out the pool exactly; reads are whole and stay valid; `ImplementsChains` |
| `JoySystem` | `MCJoySystem` | 1 client, 1 server, 2 connections, pools of 2, 2 messages up, 1 down, one fault, one refusal, one stop | registries agree; once, in order; nothing lost without a fault |
| `JoyShared` | `MCJoySystem` | 2 clients, 2 messages down, one fault | a message leaves only by its addressee's node |
| `CanStop` | `MCJoySystem` | 1 message each way, one fault, one stop | *violation*: can-stop with a package unhandled |
| `StaleStop` | `MCJoySystem` | one stop, no fault, no message | *violation*: a Stop hits the next connection |
| `JoyLoops` | `MCJoyLoops` | as `JoySystem` without stop and refusal, buffers of 2 | links recover; messages are handled |
| `JoyLoopsStop` | `MCJoyLoops` | 1 message up, one fault, one stop, a pool of one node | stopping ends; links recover when an old connection has the only node |
| `JoyServers` | `MCJoySystem` | 1 client, 2 servers, 2 messages up, one stop of the client | one chain feeds two connections and each message goes to one of them; a loss means a full pool of the process that loses |
| `JoyStream` | `MCJoyStream` | buffers of 5 bytes, packages of 2 to 5 bytes, 2 bytes on the wire, chains of 2, one lost connection | the receiver keeps its place in the stream; `ImplementsStream`; no package is stuck |
| `CQueue` | `CQueue` | 4 elements, `MaxLaps` 1 | counts, reads and the defects of En and De, at every pair of indices and after calls that were wrongly accepted |

**Bounds.** Four blocks are the least with two inner blocks of one list, and the proofs
cover the other sizes. Three blocks for two chains allow a chain at its limit while the
other one wants the last block; a block of three bytes is filled exactly, missed by one,
or outgrown. In the sessions two connections are enough for an old and a new one between
the same processes, or one for each of two clients; pools of two blocks, buffers and wires
of one or two packages are all full in reachable states (the mutants `WriteSendBufAll`,
`ReadRecvBufDrop` and `ServerReceiveOnly` are caught only there). One fault
reaches every error path; one stop and one restart a second life of a process.

In `JoyStream` a header is two bytes, so it can be cut; a package of four bytes needs more than
one send and receive, two packages can be in a buffer together, and the fifth byte is the one
`joynetWriteSendBuf` leaves free. The block size is chosen among one that `joyBlockInit`
refuses and one it accepts. Four elements in `CQueue` allow two segments that go
round the end separately, and each action at each pair of indices. With `MaxLaps` 1 the
count can be off by a whole size in either direction and come right again; more laps repeat this.

**Which property needs what.** `InOrderOnce` speaks of order while no callback has
refused a message: a refused message goes to the end of the chain by design.
`NothingLost` and `MessagesHandled` speak of behaviours in which nothing has gone wrong
yet (`left = MaxLeft`): a close loses what `sendbuf` held, in the code as in the model.
`MessagesHandled` needs `BlockChainLen < BlockNum` at the client, as in the program's own
configuration (15 of 1024): if the client's one send chain can take the whole pool, both
processes can fill their pools with what they want to send, neither has room to receive,
and both wait for ever. `LossMeansFull` is about a client that stops in order and two servers that do not:
`joynetCloseConnectNode` flushes `recvbuf` at the server, and what finds no room in the receive
chain is freed with the buffer. Only a full pool of the very process that had the message, or to which
it was on its way, excuses its loss. `LinksRecover` in `JoyLoopsStop` is for behaviours in which
nobody is stopped; the only node of the server may then belong to a connection that has gone.
`StopEnds` holds for one process that stops; a client and a server
that stop together can wait for each other, the client for its chain to drain, the server
no longer accepting connections.

**Fairness** (`JoyLoops`). A step of a loop is always possible, so fairness is stated as
what happens again and again: the loops go on (they are `while (1)`); data and the end of
a connection arrive (TCP); a completed connection is accepted; a handshake whose Shake was
lost times out (`kJoynetShakeWaitSecond`). `GetsThrough` is the one assumption about time:
`joyClientConnectTcp` decides about a connection in progress by a single poll that does not
wait, and could come too early again and again; the client's main waits a second between
its attempts (`joyclient.c:598`), so now and then a connection is complete when it looks.

**Fairness** (`JoyStream`). Weak fairness of each step but `WriteSendData` and `Reset`: the main
loops make every call again and again (`joyserver.c:542`, `joyclient.c:596`), TCP takes and
gives at least one byte when it has room or data, an end of connection is reported in the
end, and the program takes packages from the receive chain. Weak fairness is enough: what a
step waits for, room or bytes, no other step takes away again. Nothing is asked of
faults or of what the program sends. Under it `NoPackageStuck` says that each package
goes on; without the check of `joyBlockInit` on the size of a block it would not
(`joyblock.c:342`).

### Where the code and its comments disagree

1. `mempool.h:11` says `isused` tells whether a block is used, and `mempool.c:256` relies on
   it; nothing ever clears it (`MemPoolIsUsed`). A second release is refused only for blocks
   never allocated before. An immediate one is harmless, which is proved; a later one is not.
2. `joyserver.c:490` says `joyServerCanStop` makes sure all received packages are processed.
   It handles packages before it sends, and a close during the send flushes `recvbuf` into
   the receive chain after that was found empty (`CanStop`).
3. `joyserver.c:58` says a Stop left over from before a restart would keep the peer from
   sending, and that this would take buffers in shared memory. A Stop that the *client* has
   received and not read yet does the same with ordinary memory (`StaleStop`): when it is read, it
   is matched by procid with the node of the new connection.

## 4. The proofs

All properties of the runs `MemPool`, `JoyBlock` and `CQueue`, all but the liveness of
`JoyStream`, and all invariants of `JoySystem` are theorems for every value of the
constants. What is assumed of the constants
are the ASSUMEs of the modules, each of which TLC evaluates in a run:

| assumption | says | because |
|---|---|---|
| `BlockNumAssumption` | at least one block | `memPoolInit` refuses others |
| `BlockAssumption` | positive sizes, a package has at least a header, finitely many procids | the procids are a table in the configuration (`kJoynetMaxProcID`); `joyBlockInit` refuses other sizes |
| `StreamAssumption` | positive sizes, a package has at least a header | likewise; nothing is assumed of how the sizes compare |
| `SizeAssumption` | at least one element | `cqueue.c` refuses others |
| `MaxLapsAssumption` | a natural number | a bound of the model; the theorems hold for all of them |
| `NetAssumption` | clients, servers and procid 0 are different, -1 is no node; finitely many processes and connections; positive limits | procids and sockets are tables of fixed size; `memPoolInit` and `joyBlockInit` refuse other limits |
| `SystemAssumption` | the bounds of a behaviour are natural numbers | they are bounds of the model; the theorems hold for all of them |

**How induction is done.** The models define walks, folds and concatenations as recursive
functions or with the community modules. `DataLemmas` states induction with a set in place of
a predicate: a set that contains 0 and with each number the next contains all
(`SetInduction`, `IntervalInduction`, from `WellFoundedInduction`); `SeqInduction` is the
same for sequences. `RecursionExists` gives a function that satisfies a
recursive equation, so that the CHOOSE behind a recursive definition has a witness, and
`RecursionIs` says that there is no other. Facts about one walk or fold follow from these.

**MemPool** (`MemPoolProofs`).
* `TypeCorrect`: `TypeOK` is inductive by itself: every link is copied from another link or
  is the position of a block.
* `ListsStayIntact`: there are two sequences of positions, without repetition, disjoint,
  together as long as the pool, that the links spell out, the used one holding exactly
  `owned`. The inductive invariant `IInv` is `TypeOK /\ ListsIntact`: without the witnesses of
  `ListsIntact` a step would not know that the neighbours it relinks are the neighbours in the
  list. `DropFirstList`, `AddLastList` and `RemoveList` say what dropping the first element,
  appending and unlinking do to a linked list.
* `StepsFollowQueues`: a step of the links is a step of `PoolSpec` on those witnesses, and
  `PoolIsFIFO`: the whole refinement. The witnesses are what `Walk` computes (an
  induction along the list), so the step lemma applies to the queues of the mapping.
* `MemPoolCheckAlwaysPasses`: `memPoolCheck` counts what the witnesses hold.
* `TraversalAlwaysComplete`: `joynetTraverseNode` takes the next link before the callback and
  visits every node once, whichever of them are closed on the way. The induction is over the
  steps of the walk: what is behind it is what it has visited, what lies ahead is linked.
* `SecondReleaseChangesNothing`: the second of two releases in a row is the identity: the
  block is then last in the available list, so it is relinked to itself and at once ended,
  and the links it kept, of its former neighbours, already hold what they are set to.

**JoyBlock** (`JoyBlockProofs`). The inductive invariant says that there is a family of
sequences of blocks, one for each chain, which are linked and share out the used blocks
(`InOrder`), that every used block is *tiled* by the packages that begin in it (`Tiled`: no
gap, no overlap, each of them whole), and that the read that is out is what a read would find
now (`ReadOK`).
* `TypeCorrect`, `NoBlockLeaks`, `PackagesComeWhole`, `ReadBufAlwaysValid` state the four
  safety invariants. `Tiled` is what `HeadPackageWhole` needs: `dataHead` always stands at a
  package, because a release gives back exactly the length that was read.
* `MemCheckAlwaysPasses`: the sum over the chains, a fold over a finite set of procids, is the
  length of the used list, since the chains are disjoint (`ListCardinality`, `ChainsAddUp`).
* `NothingAcceptedIsLost` (an action property) and `ChainsAreQueues` (the refinement of
  `ChainSpec`): what the chain's blocks hold one after the other grows by the package that is
  written at its end, also when a new block is linked for it, and shrinks by the
  package that is released, also when its block goes back to the pool (`WriteQueues`,
  `ReleaseQueues`).

**JoyStream** (`JoyStreamProofs`). The inductive invariant follows the bytes
through the whole connection: `recvbuf`, the kernels and `sendbuf` one after the other hold
the bytes of whole packages small enough for a buffer (`Whole`); once the connection is gone,
a front part of such bytes (`Cut`). Every step moves bytes without changing the
concatenation, or adds whole packages at its end, or takes whole packages from its front.
`TypeOK` alone is not inductive (a bad header would leave bytes that `recvlen` counts as gone),
and neither is `StreamWhole`: it says that the *complete* packages fit, and the rest could be
anything.
* `TypeCorrect`: no buffer or chain holds more than fits.
* `StreamStaysWhole`: the receiver never loses its place in the stream. The lemma behind it,
  `ReceivedOk`, says that the check of the header never fails: the early return of
  `joynet.c:229`, which would leave `recvlen` wrong, is not taken.
* `ImplementsStreamSpec`: every step is a step of `StreamSpec` or leaves the packages as they
  are. The packages on their way are those whose last byte is on its way, so a step in the
  middle of a package is a stutter, and a reset takes packages from the end.
The lemmas are about the two conversions, packages to bytes (`BytesOf`) and bytes to packages
(`Complete`): both are homomorphisms of concatenation, `Complete` undoes `BytesOf`, and a front
part of whole packages is again whole packages and a front part of one (`CutBegins`).

**CQueue** (`CQueueProofs`). The invariant says where the elements lie in the buffer from
`head` on, round the end and up to `tail` (`Lies`), and how far `held` is from their number
(`Laps`); all operations keep it, En and De also where they accept what they should not
(`ElementsLie`, `StaleLies`, `LapMore`, `LapLess`).
* `CountsAreRight`: count, room, empty and full agree with what stands between the indices
  and with each other. They are *not* always the count of what was put in and not taken out: only
  up to a multiple of `Size`, which a wrongly accepted En or De adds or takes away. A count
  that has gone wrong so is not noticed by any function.
* `EnDeRightExactly`: in which states exactly En and De accept or refuse wrongly.
* `ReadsAreInOrder`: what a read hands out, but for what the second `memcpy` has torn and what a
  wrong De went to.

**The sessions** (`JoyMessageLemmas`, `JoyNetLemmas`, `JoySystemProofs`). The theorems hold for any number of clients,
servers, connections, nodes, blocks and buffers, and any number of faults, crashes, stops,
refusals and messages. None of the invariants that the runs check is inductive. The
inductive invariant `IInv` has a part for each process, a part for each connection, a part
for the messages and a part that holds while nothing has gone wrong:
* `LocalInv`: chains and pool have room for what they hold (`Sized`); what a server writes to a
  chain and what a client has received is for the client of that chain (`Sorted`); the used list
  is the open nodes (`Listed`); the index leads to open nodes and back (`Indexed`).
* `LinkInv`, about a connection and the nodes at its two ends: the ends are a client and a server
  and the last socket frees the connection (`Ends`); what is on the wire and in the buffers fits
  and is for the process at that end (`Wires`, `Socketed`); a server's node has the procid of the
  client once it is through the handshake, and procid 0 before (`Introduced`); a process that
  has not sent its Shake has sent nothing (`Quiet`); and if a client is connected, or has
  its Shake in `shakebuf` or `recvbuf` or on the wire, its server is connected (`Greeted`).

`Greeted` is what `ConnectedIsRegistered` needs: that property begins with a Shake, several steps
before the client is connected. `Introduced` with `Indexed` makes `OnlyToAddressee`: the
server sends chain q through a node of procid q, and a node that has this procid belongs to a
connection of client q, however often nodes and positions have been used before.

The account of the messages is about all *places* at once (`Place`: what a process has handled,
its chains, the buffers of its nodes, the wires to it) and their contents (`Stock`, a function
from places to sequences of packages):
* `Account`: each message is in one place, once (`Once`); none has a number its sender has not
  reached (`Counted`); what waits in a send chain is the process's own (`Own`); and while
  no callback has refused a message, the numbers rise along the way from one process to its
  peer (`Ordered`). `Stage` numbers the places of that way, from 1 for handled to 6 for the send chain,
  and `Aged` says that a message at an earlier stage, or further ahead at the same one, is older.

`InOrderOnce` looks at one connection, and is not inductive: a client has one send chain for all
its nodes, a server's chain outlives the node it empties into, and a place of one connection is the
place of another after a close. `Ordered` therefore speaks of all nodes with the same two processes at
their ends as one stage. `Counted` is what makes a new message the youngest, across
restarts too. A step moves messages in four ways only, and each keeps the account: some
of a place go away (`ShrinkKeeps`); some go from the front of a place to the end of another
(`Flow`, `FlowKeeps`, where `Downhill` says that the other is at the next stage and that no third
place at the first one's stage has messages of that sender); a new one is written to a chain
(`FreshKeeps`); and a refused one goes round in its own (`RotateKeeps`), after which only
the order is lost.

The account allows messages to go away, as they do when a connection is lost. For `NothingLost`
the invariant says what holds as long as no fault, refusal or stop has been used up:
* `Kept`: every process is in its main loop (`AllRun`), every message that has been accepted is in one of the
  places (`All`), and every connection is in order (`Healthy`): its client has its socket, no Shake
  was lost, it is broken only where the server has given it up, and a server without a connected
  node for it has neither been heard by the client nor been sent a message (`Unspoken`).

`Healthy` is what connects the two ends: a node with messages never finds its peer gone
(`HealthyStays`), so no send fails, and the closes that do happen (a server without a
free node for a new connection, a client that finds it given up) meet empty buffers
(`Closable`, `HealthyShut`). All other steps only move messages (`Moves`, `AllMoves`), and a step
that uses up a fault, a refusal or a stop leaves `Kept` nothing to say (`Spent`, `KeptSpent`).

A call may close nodes in the middle of a loop, and each closing flushes its buffer into the
chain the others share. So each operator of `JoyNet` has a lemma (`Keeps`, `SameLeft`) that its
view keeps the invariant and that the other nodes stay as they are. `FoldExists` and `FoldEnds` say that a loop whose steps lead
from one set of views to the next ends in the last set; the sets are `Todo`, the views
in which the invariant holds and the nodes still to come are as they were at the start. The loops
of the API (`RecvLoop`, `ServerShakeLoop`, `ClientSendLoop` and so on) follow, then the
calls, then the actions.
* `InvariantHolds`: `IInv` is an invariant of `Spec`.
* `TypeCorrect`, `RegistryStaysConsistent`, `ConnectedStaysRegistered`, `OnlyAddresseeGets`,
  `NoMessageTwice`, `ArrivesInOrder` and `NothingIsLost` follow from it, `ArrivesInOrder` by
  `WayOrder`: the concatenation `OnTheWay` goes through the stages one after the other.

To be reasoned about, `JoyNet` defines its loops and filters as recursive functions (`ForEach`,
`Select`) and not with operators the provers have no facts about.

**Checked by TLC only.** All liveness (`NoPackageStuck`, `LinksRecover`, `MessagesHandled`,
`StopEnds`), which is out of the prover's reach. Of the safety of the sessions: `LossMeansFull`. It
goes on where `NothingLost` ends, after a stop, and holds for what the run chooses, not for all
constants: only the client stops (a server that does closes nodes with messages), a chain may
take the whole pool, and no callback refuses.

## 5. Not modelled

* `joyBlockAttachShm_`: stands inside `#if 0` (`joyblock.c:311-332`), not compiled.
* `...GetMemUsage` and `joyBlockGetUsage`: they compute a number for display.
* A `malloc` that fails. In `joynetAllocConnectNode` (`joynet.c:449`) it would leave a node in
  the used list that nothing closes.
* Packages no peer built from this code sends: of unknown type, with a bad header (`GoodHeader`
  is in `JoyStream`, and `StreamWhole` implies that it never fails), a second Shake.
* Set-up of sockets and its failures; `main`, apart from its order of calls.
* `debug.h`, `CMakeLists.txt`: no state.

## 6. Plan

Done in this order: `MemPool` and its proofs, `JoyBlock`, `JoyNet` with `JoyServer` and
`JoyClient`, `JoySystem`, `JoyLoops`, `JoyStream`, two servers, `CQueue`; then the proofs about
`CQueue`, `JoyBlock`, `JoyStream`, and those about the sessions that rest on `IInv`. Left is a
proof of `LossMeansFull` for clients that stop, which needs for each connection what its two ends
know of each other's Stop.
