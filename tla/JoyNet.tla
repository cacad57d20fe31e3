------------------------------- MODULE JoyNet -------------------------------
(***************************************************************************)
(* joynet.c: the connection nodes of one process, its temporary buffers    *)
(* and its package chains, and the TCP connections between the processes.  *)
(*                                                                         *)
(* A process has one thread, and a call of its API runs to the end before  *)
(* anything else happens in it.  The functions of joynet.c are operators   *)
(* from a view to a view, where a view is what a call can touch: the nodes *)
(* and chains of its process, the sockets, and the bookkeeping of the      *)
(* model.  What the code cannot know, such as whether send reports the     *)
(* loss of a connection, is a parameter.                                   *)
(*                                                                         *)
(* A package fills one block here: JoyBlock has those of other sizes.      *)
(***************************************************************************)
EXTENDS Integers, Sequences, FiniteSets, SequencesExt

CONSTANTS
  Client, Server,  \* the processes: procids of clients, instance ids of servers
  NoProc,          \* procid 0, that of a node whose peer is not known yet
  Conn,            \* connections, each naming the socket, and node, at both ends
  NoConn,          \* -1 in nodeidx
  NodeNum,         \* nodeNum of joynetInit
  BlockNum,        \* JoyBlockConfig.blockNum
  BlockChainLen,   \* JoyBlockConfig.blockChainLen
  TempNum,         \* the packages that fit in kJoynetTempBufSize
  WireNum          \* the packages that fit in the kernel's socket buffers

ASSUME NetAssumption ==
  /\ Client \cap Server = {}
  /\ NoProc \notin Client \cup Server
  /\ NoConn \notin Conn
  /\ IsFiniteSet(Client \cup Server) /\ IsFiniteSet(Conn)
  /\ {NodeNum, BlockNum, BlockChainLen, TempNum, WireNum} \subseteq Nat \ {0}

VARIABLES
  ep,       \* ep[p]: the nodes, index and chains of process p
  conn,     \* conn[k]: the state of TCP connection k
  handled,  \* handled[p]: the messages the callback of p has taken
  left      \* what may still go wrong in this behaviour: a bound of the model

Proc   == Client \cup Server
ProcId == Proc \cup {NoProc}

\* moved and dealt count the packages a call has received or sent and dealt with.
View(p) ==
  [ep |-> ep[p], conn |-> conn, handled |-> handled, left |-> left,
   moved |-> 0, dealt |-> 0]

Possible(views) == {w \in views : w.left.faults >= 0 /\ w.left.refusals >= 0}

\* Process p gets from a call what the view w holds.
Install(p, w) ==
  /\ ep' = [ep EXCEPT ![p] = w.ep]
  /\ conn' = w.conn
  /\ handled' = w.handled
  /\ left' = w.left

\* A package: its kJoynetMsgType, the procid or insid of its sender and, for a
\* message, the client whose chain it is written to and a running number.
Shake(p)     == [type |-> "Shake", src |-> p]
StopPkg(p)   == [type |-> "Stop", src |-> p]
Msg(p, q, i) == [type |-> "Msg", src |-> p, chain |-> q, id |-> i]

\* struct JoyConnectNode, and a place of the pool that holds none.
NoNode == [status |-> "closed"]

NewNode(status) ==
  [status |-> status, procid |-> NoProc, shaken |-> FALSE,
   recvbuf |-> <<>>, sendbuf |-> <<>>]

InitEp ==
  [nodes   |-> [k \in Conn |-> NoNode],
   used    |-> <<>>,                        \* the pool's used list: open nodes by age
   nodeidx |-> [q \in ProcId |-> NoConn],
   sendq   |-> [q \in ProcId |-> <<>>],     \* the send chains
   recvq   |-> <<>>]                        \* the receive chain

IsOpen(e, k) == e.nodes[k] # NoNode

\* Callback for each node of ks, in order, on what the one before has left.  (The
\* choice from one element has TLC compute that view just once.)
ForEach(v, ks, Callback(_, _)) ==
  LET after[n \in 0..Len(ks)] ==
        IF n = 0 THEN v
        ELSE CHOOSE r \in {Callback(u, ks[n]) : u \in {after[n - 1]}} : TRUE
  IN  after[Len(ks)]

\* joynetTraverseNode; a callback closes no node but the one it is called for.
Traverse(v, Callback(_, _)) == ForEach(v, v.ep.used, Callback)

\* The elements of s that are in S, in their order.
Select(s, S) ==
  LET upto[n \in 0..Len(s)] ==
        IF n = 0 THEN <<>>
        ELSE IF s[n] \in S THEN Append(upto[n - 1], s[n]) ELSE upto[n - 1]
  IN  upto[Len(s)]

\* s without the element e, which it has once.
Without(s, e) == RemoveAt(s, CHOOSE i \in DOMAIN s : s[i] = e)

-----------------------------------------------------------------------------
(* TCP, external: a connection carries packages in order; open holds the   *)
(* processes whose socket is still open, up says that the kernels have     *)
(* completed it, broken that it was reset.  lost holds the processes whose *)
(* Shake was never sent.  What was sent before a close still arrives.      *)

FreeConn ==
  [client |-> NoProc, server |-> NoProc, open |-> {}, up |-> FALSE,
   broken |-> FALSE, lost |-> {}, wire |-> [q \in Proc |-> <<>>]]

Peer(cn, p) == IF p = cn.client THEN cn.server ELSE cn.client

Gone(cn, p) == cn.broken \/ Peer(cn, p) \notin cn.open

\* What p may find out when it sends: the loss of some of these connections.
Losses(v, p) == SUBSET {k \in Conn : IsOpen(v.ep, k) /\ Gone(v.conn[k], p)}

Readable(cs, k, p) == cs[k].wire[p] # <<>> \/ Gone(cs[k], p)

\* Process p closes its socket of connection cn, or of connection k.
ShutEnd(cn, p) ==
  IF cn.open \subseteq {p} THEN FreeConn
  ELSE [cn EXCEPT !.open = @ \ {p}, !.wire[p] = <<>>]

Shut(cs, k, p) == [cs EXCEPT ![k] = ShutEnd(@, p)]

\* Process p sends pkgs; into a connection that is gone they vanish.
Transmit(cs, k, p, pkgs) ==
  IF Gone(cs[k], p) THEN cs
  ELSE [cs EXCEPT ![k].wire[Peer(cs[k], p)] = @ \o pkgs]

-----------------------------------------------------------------------------
(* The chains, as JoyBlock implements them. *)

\* The blocks in use: one for each place in a chain.
Used(e) == Len(e.recvq) + Cardinality(UNION {{q} \X DOMAIN e.sendq[q] : q \in ProcId})

\* joynetWriteSendPkg; without room it writes nothing and returns 0.
SendRoom(e, q) == Len(e.sendq[q]) < BlockChainLen /\ Used(e) < BlockNum

WriteSendPkg(v, q, pkg) ==
  IF SendRoom(v.ep, q) THEN [v EXCEPT !.ep.sendq[q] = Append(@, pkg)] ELSE v

-----------------------------------------------------------------------------
(* Receiving. *)

Ups(pkgs) == Select(pkgs, {pkg \in ToSet(pkgs) : pkg.type # "Shake"})

ReadRecvBufDrop(v, k) ==   \* mutant: what finds no room is gone
  LET node == v.ep.nodes[k]
      ups  == Ups(node.recvbuf)
      n    == IF Len(ups) < BlockNum - Used(v.ep) THEN Len(ups) ELSE BlockNum - Used(v.ep)
  IN  [ok   |-> TRUE,
       view |-> [v EXCEPT
                   !.ep.recvq = @ \o SubSeq(ups, 1, n),
                   !.ep.nodes[k].shaken = @ \/ Len(ups) < Len(node.recvbuf),
                   !.ep.nodes[k].recvbuf = <<>>]]

\* joynetReadRecvBuf: moves what recvbuf holds to the receive chain, while there
\* is room, and a Shake to shakebuf.  A second Shake is an error; the bytes then
\* stay where they were, while recvlen already counts some of them as gone.
ReadRecvBuf(v, k) ==
  LET node  == v.ep.nodes[k]
      all   == node.recvbuf
      ups   == [n \in 0..Len(all) |-> Ups(SubSeq(all, 1, n))]
      fits  == {n \in 0..Len(all) :
                  /\ Used(v.ep) + Len(ups[n]) <= BlockNum
                  /\ Len(ups[n]) + (IF node.shaken THEN 0 ELSE 1) >= n}
      n     == CHOOSE m \in fits : \A l \in fits : l <= m
      ok    == n = Len(all) \/ all[n + 1].type # "Shake"
  IN  [ok   |-> ok,
       view |-> [v EXCEPT
                   !.ep.recvq = @ \o ups[n],
                   !.ep.nodes[k] =
                      [node EXCEPT
                         !.shaken  = @ \/ Len(ups[n]) < n,
                         !.recvbuf = IF ok THEN SubSeq(all, n + 1, Len(all))
                                     ELSE SubSeq(all, 1, Len(all) - n)]]]

CloseNoIndex(v, p, k) ==   \* mutant: the node stays in the index
  IF ~IsOpen(v.ep, k) THEN v
  ELSE [ReadRecvBuf(v, k).view EXCEPT
          !.ep.nodes[k] = NoNode,
          !.ep.used = Without(@, k),
          !.conn = Shut(@, k, p)]

\* joynetCloseConnectNode: the buffered packages go up as far as there is room;
\* the others, and sendbuf, are freed with the node.  A second close in a row
\* changes nothing (MemPoolProofs, SecondReleaseChangesNothing).
CloseConnectNode(v, p, k) ==
  IF ~IsOpen(v.ep, k) THEN v
  ELSE [ReadRecvBuf(v, k).view EXCEPT
          !.ep.nodes[k] = NoNode,
          !.ep.used = Without(@, k),
          !.ep.nodeidx[v.ep.nodes[k].procid] = IF @ = k THEN NoConn ELSE @,
          !.conn = Shut(@, k, p)]

\* The next n packages on the wire to p, read from the socket into recvbuf.
TakeIn(v, p, k, n) ==
  LET in == v.conn[k].wire[p]
  IN  [v EXCEPT !.ep.nodes[k].recvbuf = @ \o SubSeq(in, 1, n),
                !.conn[k].wire[p] = SubSeq(in, n + 1, Len(in))]

RecvBufEndless(v, p, k) ==   \* mutant: the end of the stream is taken for no data
  LET in    == v.conn[k].wire[p]
      room  == TempNum - Len(v.ep.nodes[k].recvbuf)
      n     == IF Len(in) < room THEN Len(in) ELSE room
  IN  [ReadRecvBuf(TakeIn(v, p, k, n), k).view EXCEPT !.moved = @ + n]

\* joynetRecvBuf, and the callers' close when it fails: at the end of the
\* stream, on a reset, or on a package that is out of place.
RecvBuf(v, p, k) ==
  LET in    == v.conn[k].wire[p]
      room  == TempNum - Len(v.ep.nodes[k].recvbuf)
      n     == IF Len(in) < room THEN Len(in) ELSE room
      ended == room > 0 /\ in = <<>> /\ Gone(v.conn[k], p)
      res   == ReadRecvBuf(TakeIn(v, p, k, n), k)
  IN  CASE ended             -> CloseConnectNode(v, p, k)
        [] ~ended /\ res.ok  -> [res.view EXCEPT !.moved = @ + n]
        [] ~ended /\ ~res.ok -> CloseConnectNode(res.view, p, k)

-----------------------------------------------------------------------------
(* Sending. *)

WriteSendBufAll(v, k, q) ==   \* mutant: without regard to the room in sendbuf
  [v EXCEPT !.ep.sendq[q] = <<>>, !.ep.nodes[k].sendbuf = @ \o v.ep.sendq[q]]

WriteSendBufCopy(v, k, q) ==   \* mutant: without releasing what it has copied
  LET chain == v.ep.sendq[q]
      room  == TempNum - Len(v.ep.nodes[k].sendbuf)
      n     == IF Len(chain) < room THEN Len(chain) ELSE room
  IN  [v EXCEPT !.ep.nodes[k].sendbuf = @ \o SubSeq(chain, 1, n)]

\* joynetWriteSendBuf: moves packages from chain q to sendbuf while they fit.
WriteSendBuf(v, k, q) ==
  LET chain == v.ep.sendq[q]
      room  == TempNum - Len(v.ep.nodes[k].sendbuf)
      n     == IF Len(chain) < room THEN Len(chain) ELSE room
  IN  [v EXCEPT !.ep.sendq[q] = SubSeq(chain, n + 1, Len(chain)),
                !.ep.nodes[k].sendbuf = @ \o SubSeq(chain, 1, n)]

SendBufKeep(v, p, k, q, failed) ==   \* mutant: what was sent stays in sendbuf
  LET full == WriteSendBuf(v, k, q)
      out  == full.ep.nodes[k].sendbuf
      cn   == v.conn[k]
      room == IF Gone(cn, p) THEN Len(out) ELSE WireNum - Len(cn.wire[Peer(cn, p)])
      n    == IF Len(out) < room THEN Len(out) ELSE room
  IN  IF out # <<>> /\ k \in failed THEN CloseConnectNode(full, p, k)
      ELSE [full EXCEPT !.conn = Transmit(@, k, p, SubSeq(out, 1, n)), !.moved = @ + n]

\* joynetSendBuf, and the callers' close when it fails; failed holds the
\* connections on which send reports the loss of the connection.
SendBuf(v, p, k, q, failed) ==
  LET full == WriteSendBuf(v, k, q)
      out  == full.ep.nodes[k].sendbuf
      cn   == v.conn[k]
      room == IF Gone(cn, p) THEN Len(out) ELSE WireNum - Len(cn.wire[Peer(cn, p)])
      n    == IF Len(out) < room THEN Len(out) ELSE room
  IN  IF out # <<>> /\ k \in failed THEN CloseConnectNode(full, p, k)
      ELSE [full EXCEPT
              !.ep.nodes[k].sendbuf = SubSeq(out, n + 1, Len(out)),
              !.conn = Transmit(@, k, p, SubSeq(out, 1, n)),
              !.moved = @ + n]

-----------------------------------------------------------------------------
(* Nodes and packages. *)

\* joynetAllocConnectNode, while the pool of nodes has one left.
NodeAvailable(e) == Len(e.used) < NodeNum

AllocConnectNode(v, k, status) ==
  [v EXCEPT !.ep.nodes[k] = NewNode(status), !.ep.used = Append(@, k)]

\* joynetSetNodeProcid refuses a procid that already has a node.
ProcidFree(v, q) == v.ep.nodeidx[q] = NoConn

SetNodeProcid(v, k, q) ==
  [v EXCEPT !.ep.nodes[k].procid = q, !.ep.nodeidx[q] = k]

\* Process p sends its Shake past the buffers.  A send that would block counts as
\* done, and the Shake is lost: a fault.
SendShake(v, p, k) == [v EXCEPT !.conn = Transmit(@, k, p, <<Shake(p)>>)]

LoseShake(v, p, k) == [v EXCEPT !.conn[k].lost = @ \cup {p}, !.left.faults = @ - 1]

\* A handshake times out.  While the peer's Shake may still come, this is a fault.
ShakeTimeout(v, p, k) ==
  LET cn     == v.conn[k]
      coming == ~Gone(cn, p) /\ Peer(cn, p) \notin cn.lost
  IN  [CloseConnectNode(v, p, k) EXCEPT !.left.faults = IF coming THEN @ - 1 ELSE @]

Handshaking(v) == {k \in Conn : v.ep.nodes[k].status = "ShakeHand"}

\* joynetGetTempSendBufSize and joynetGetTempRecvBufSize together.
TempBufsEmpty(e) ==
  \A k \in Conn : IsOpen(e, k) => e.nodes[k].recvbuf = <<>> /\ e.nodes[k].sendbuf = <<>>

\* The second half of both ...ReadRecvData: at most one package.  The callback
\* takes a message or refuses it, which writes it to the end of the chain again
\* before the front is released.  A Stop marks the node of its sender, whichever
\* node that is by now.
TakePkg(v, p) ==
  [v EXCEPT !.ep.recvq = Tail(@), !.handled[p] = Append(@, Head(v.ep.recvq)), !.dealt = 1]

RefusePkg(v) ==
  [v EXCEPT !.ep.recvq = Tail(IF Used(v.ep) < BlockNum THEN Append(@, Head(@)) ELSE @),
            !.left.refusals = @ - 1, !.dealt = 1]

MarkStop(v) ==
  LET k == v.ep.nodeidx[Head(v.ep.recvq).src]
      u == [v EXCEPT !.ep.recvq = Tail(@), !.dealt = 1]
  IN  IF k = NoConn THEN u ELSE [u EXCEPT !.ep.nodes[k].status = "Stop"]

ReadRecvPkg(v, p) ==
  CASE v.ep.recvq = <<>> -> {v}
    [] v.ep.recvq # <<>> /\ Head(v.ep.recvq).type = "Stop" -> {MarkStop(v)}
    [] v.ep.recvq # <<>> /\ Head(v.ep.recvq).type = "Msg" ->
         {TakePkg(v, p), RefusePkg(v)}

=============================================================================
