---------------------------- MODULE JoyNetLemmas ----------------------------
(***************************************************************************)
(* What the functions of joynet.c keep true, for every value of the        *)
(* constants: an invariant of the nodes, chains and sockets that a view    *)
(* shows, and for each operator of JoyNet a lemma that it preserves it.    *)
(* The invariant has a part for each process, LocalInv, a part for each    *)
(* connection and the nodes at its two ends, LinkInv, the account of the   *)
(* messages in all their places, AccountOf, and what holds of connections  *)
(* and messages while nothing has gone wrong, KeptOf.                      *)
(***************************************************************************)
EXTENDS JoyMessageLemmas

-----------------------------------------------------------------------------
(* Types. *)

\* A message that a client may get is from its own chain.
For(q) == {m \in Pkg : q \in Client /\ m.type = "Msg" => m.chain = q}

OpenNode ==
  [status : {"Connecting", "ShakeHand", "Connected", "Stop"}, procid : ProcId,
   shaken : BOOLEAN, recvbuf : Seq(Pkg), sendbuf : Seq(Data)]

Node == OpenNode \cup {NoNode}

Endpoint ==
  [nodes : [Conn -> Node], used : Seq(Conn), nodeidx : [ProcId -> Conn \cup {NoConn}],
   sendq : [ProcId -> Seq(Data)], recvq : Seq(Data)]

Connection ==
  [client : ProcId, server : ProcId, open : SUBSET Proc, up : BOOLEAN,
   broken : BOOLEAN, lost : SUBSET Proc, wire : [Proc -> Seq(Pkg)]]

Left == [faults : Int, refusals : Int, stops : Int]

ViewType ==
  [ep : Endpoint, conn : [Conn -> Connection], handled : [Proc -> Seq(Pkg)],
   left : Left, moved : Int, dealt : Int]

-----------------------------------------------------------------------------
(* The part of a process. *)

\* The chains fit in the pool.
Sized(e) ==
  /\ Used(e) <= BlockNum
  /\ \A q \in ProcId : Len(e.sendq[q]) <= BlockChainLen

\* What a server writes to a chain, and what a client has received, is for the
\* client whose chain it is.
Sorted(e, p) ==
  /\ e.recvq \in Seq(For(p))
  /\ p \in Server => \A q \in ProcId : e.sendq[q] \in Seq(For(q))

\* The list of nodes holds each open node once.
Listed(e) ==
  /\ Distinct(e.used)
  /\ \A k \in Conn : IsOpen(e, k) <=> \E i \in DOMAIN e.used : e.used[i] = k

\* A client's node is in the index from the start, a server's from its handshake on.
InIndex(e, p, k) == p \in Client \/ e.nodes[k].status \in {"Connected", "Stop"}

Indexed(e, p) ==
  /\ e.nodeidx[NoProc] = NoConn
  /\ \A q \in ProcId : e.nodeidx[q] # NoConn =>
       IsOpen(e, e.nodeidx[q]) /\ e.nodes[e.nodeidx[q]].procid = q
  /\ \A k \in Conn : IsOpen(e, k) /\ InIndex(e, p, k) => e.nodeidx[e.nodes[k].procid] = k

LocalInv(e, p) == e \in Endpoint /\ Sized(e) /\ Sorted(e, p) /\ Listed(e) /\ Indexed(e, p)

-----------------------------------------------------------------------------
(* The part of a connection cn, where ns[q] is the node that q has for it. *)

\* A connection has two ends, and its last socket frees it.
Ends(cn) ==
  cn # FreeConn =>
    /\ cn.client \in Client /\ cn.server \in Server
    /\ cn.open # {} /\ cn.open \subseteq {cn.client, cn.server}
    /\ ~cn.up => cn.server \notin cn.open /\ cn.wire[cn.client] = <<>>

Wires(cn) ==
  \A q \in Proc : Len(cn.wire[q]) <= WireNum /\ cn.wire[q] \in Seq(For(q))

\* An open node has a socket, and its buffers hold no more than fits.
Socketed(ns, cn, q) ==
  ns[q] # NoNode =>
    /\ q \in cn.open
    /\ Len(ns[q].recvbuf) <= TempNum /\ Len(ns[q].sendbuf) <= TempNum
    /\ ns[q].recvbuf \in Seq(For(q)) /\ ns[q].sendbuf \in Seq(For(Peer(cn, q)))

\* A server learns who its peer is from the handshake.
Introduced(ns, cn, q) ==
  q \in Server /\ ns[q] # NoNode =>
    /\ ns[q].status # "Connecting"
    /\ ns[q].procid \in {NoProc, cn.client}
    /\ ns[q].status = "ShakeHand" => ns[q].procid = NoProc

\* Only a server has sockets that wait for a node, and before its Shake a process
\* sends nothing.
Silent(node, q) ==
  IF q \in Client THEN node.status = "Connecting" ELSE node.status \in {"closed", "ShakeHand"}

Quiet(ns, cn, q) ==
  q \in cn.open =>
    /\ ns[q] # NoNode \/ q \in Server
    /\ Silent(ns[q], q) => cn.wire[Peer(cn, q)] = <<>>

HasMsg(pkgs) == \E i \in DOMAIN pkgs : pkgs[i].type = "Msg"

Says(pkgs) == HasShake(pkgs) \/ HasMsg(pkgs)

\* A client to which a Shake, or a message, is on its way or has come, is known to
\* its server.
Heard(node, wire) ==
  node.shaken = TRUE \/ node.status = "Connected" \/ Says(node.recvbuf) \/ Says(wire)

Greeted(ns, cn) ==
  /\ cn # FreeConn /\ cn.broken = FALSE
  /\ cn.up = TRUE => cn.server \in cn.open
  /\ ns[cn.client] # NoNode
  /\ Heard(ns[cn.client], cn.wire[cn.client])
  => ns[cn.server].status \in {"Connected", "Stop"}

\* At its end of a connection process q, with this node and this wire to it, deals
\* with x only: messages come after the handshake, which has one Shake, and q's own
\* leave after it.
From(pkgs, x) == \A i \in DOMAIN pkgs : pkgs[i].type = "Msg" => pkgs[i].src = x

Ready(node, q) == node # NoNode /\ (q \in Server => node.status \in {"Connected", "Stop"})

Receives(node, wire, x, q) ==
  /\ From(wire, x) /\ (HasMsg(wire) => Ready(node, q))
  /\ node # NoNode => From(node.recvbuf, x) /\ (HasMsg(node.recvbuf) => Ready(node, q))

Sends(node, q) ==
  node # NoNode =>
    From(node.sendbuf, q) /\ (HasMsg(node.sendbuf) => node.status \in {"Connected", "Stop"})

ShakesOnce(node, wire) ==
  /\ OneShake(wire)
  /\ node # NoNode =>
       /\ OneShake(node.recvbuf)
       /\ HasShake(node.recvbuf) => ~HasShake(wire)
       /\ node.shaken = TRUE \/ node.status = "Connected" =>
            ~HasShake(node.recvbuf) /\ ~HasShake(wire)

Side(node, wire, x, q) ==
  /\ Receives(node, wire, x, q) /\ Sends(node, q) /\ ShakesOnce(node, wire)
  /\ q \in Client /\ node # NoNode => node.procid = x

\* Nothing is heard of a peer that is silent.
Hushed(ns, cn, q) ==
  LET o == Peer(cn, q)
  IN  ns[q] # NoNode /\ (cn.up = FALSE \/ (o \in cn.open /\ Silent(ns[o], o)))
        => ~Heard(ns[q], cn.wire[q])

\* While nothing has gone wrong, a connection is given up by a server that has no
\* node for it, and no message has come or gone before that.
Unspoken(ns, cn) ==
  ~Heard(ns[cn.client], cn.wire[cn.client]) /\ ~HasMsg(ns[cn.client].sendbuf)

Healthy(ns, cn) ==
  cn # FreeConn =>
    /\ cn.client \in cn.open /\ cn.lost = {}
    /\ cn.broken = TRUE => cn.up = TRUE /\ cn.server \notin cn.open
    /\ ns[cn.server].status \in {"Connected", "Stop"} \/ Unspoken(ns, cn)

LinkInv(ns, cn) ==
  /\ cn \in Connection /\ ns \in [Proc -> Node]
  /\ Ends(cn) /\ Wires(cn)
  /\ \A q \in Proc : Socketed(ns, cn, q) /\ Introduced(ns, cn, q) /\ Quiet(ns, cn, q)
  /\ \A q \in Proc : Side(ns[q], cn.wire[q], Peer(cn, q), q) /\ Hushed(ns, cn, q)
  /\ Greeted(ns, cn)

-----------------------------------------------------------------------------
(* Both, for the view v that p has of a system where the others have es.  *)

NodesAt(v, p, es, k) == [q \in Proc |-> IF q = p THEN v.ep.nodes[k] ELSE es[q].nodes[k]]

\* Callbacks get messages only, each that of its client.
MsgFor(q) == {m \in For(q) : m.type = "Msg"}

Delivered(h) == \A q \in Proc : h[q] \in Seq(MsgFor(q))

\* What all places hold.
Eps(v, p, es) == [q \in Proc |-> IF q = p THEN v.ep ELSE es[q]]

StockOf(v, p, es) == Stock(Eps(v, p, es), v.conn, v.handled)

AccountOf(v, p, es) == Account(StockOf(v, p, es), v.conn, v.left.refusals, sent)

\* What is left only gets less, and while all of it is left, no message is lost.
InLimits(l) ==
  l.faults <= MaxLeft.faults /\ l.refusals <= MaxLeft.refusals /\ l.stops <= MaxLeft.stops

KeptOf(v, p, es) ==
  /\ InLimits(v.left)
  /\ v.left = MaxLeft =>
       /\ \A k \in Conn : Healthy(NodesAt(v, p, es, k), v.conn[k])
       /\ All(StockOf(v, p, es), sent)

ViewInv(v, p, es) ==
  /\ v \in ViewType
  /\ LocalInv(v.ep, p)
  /\ \A k \in Conn : LinkInv(NodesAt(v, p, es, k), v.conn[k])
  /\ Delivered(v.handled)
  /\ AccountOf(v, p, es)
  /\ KeptOf(v, p, es)

-----------------------------------------------------------------------------
(* What a step of one process does to a connection. *)

\* The two ends of a connection that some process has a socket of.
LEMMA EndsOf ==
  ASSUME NEW ns, NEW cn, LinkInv(ns, cn), NEW p \in cn.open
  PROVE  /\ cn \in Connection /\ cn # FreeConn /\ p \in Proc
         /\ cn.client \in Client /\ cn.server \in Server
         /\ cn.client \in Proc /\ cn.server \in Proc /\ cn.client # cn.server
         /\ cn.client \notin Server /\ cn.server \notin Client
         /\ \/ p = cn.client /\ Peer(cn, p) = cn.server
            \/ p = cn.server /\ Peer(cn, p) = cn.client
         /\ Peer(cn, p) \in Proc /\ Peer(cn, p) # p /\ Peer(cn, Peer(cn, p)) = p
         /\ \A q \in Proc : q \in cn.open \/ ns[q] # NoNode => q = p \/ q = Peer(cn, p)
<1>1. cn \in Connection /\ cn.open \subseteq Proc /\ Ends(cn)
  BY DEF LinkInv, Connection
<1>2. cn # FreeConn
  BY DEF FreeConn
<1>3. /\ cn.client \in Client /\ cn.server \in Server
      /\ cn.open \subseteq {cn.client, cn.server}
  BY <1>1, <1>2 DEF Ends
<1>4. \A q \in Proc : ns[q] # NoNode => q \in cn.open
  BY DEF LinkInv, Socketed
<1> QED BY <1>1, <1>2, <1>3, <1>4, NetAssumption DEF Peer, Proc

\* The bounds are positive numbers.
LEMMA Bounds ==
  /\ NodeNum \in Nat /\ BlockNum \in Nat /\ BlockChainLen \in Nat /\ TempNum \in Nat
  /\ WireNum \in Nat /\ BlockNum > 0 /\ BlockChainLen > 0 /\ TempNum > 0 /\ WireNum > 0
  BY NetAssumption

\* The empty sequence, which fits everywhere.
LEMMA Nothing ==
  /\ \A S : <<>> \in Seq(S)
  /\ Len(<<>>) = 0 /\ Len(<<>>) <= WireNum /\ Len(<<>>) <= TempNum
  BY EmptySeq, Bounds

\* It says nothing.
LEMMA NothingSaid ==
  /\ \A x : From(<<>>, x)
  /\ ~HasMsg(<<>>) /\ ~HasShake(<<>>) /\ ~Says(<<>>) /\ OneShake(<<>>)
  /\ \A x, q : Side(NoNode, <<>>, x, q)
<1>1. DOMAIN <<>> = {}
  BY EmptySeq, LenProperties
<1>2. /\ \A x : From(<<>>, x)
      /\ ~HasMsg(<<>>) /\ ~HasShake(<<>>) /\ ~Says(<<>>) /\ OneShake(<<>>)
  BY <1>1 DEF From, HasMsg, HasShake, Says, OneShake
<1> QED BY <1>2 DEF Side, Receives, Sends, ShakesOnce

\* The parts of Socketed and Introduced that are about the node n alone.
NodeInv(n, cn, p) ==
  n # NoNode =>
    /\ Len(n.recvbuf) <= TempNum /\ Len(n.sendbuf) <= TempNum
    /\ n.recvbuf \in Seq(For(p)) /\ n.sendbuf \in Seq(For(Peer(cn, p)))
    /\ p \in Server =>
         /\ n.status # "Connecting"
         /\ n.procid \in {NoProc, cn.client}
         /\ n.status = "ShakeHand" => n.procid = NoProc

\* What a step of p other than opening or closing its socket does to a connection:
\* p takes packages off its own wire, and puts some on its peer's, once it is no
\* longer silent; a client hears of its server by a Shake only, and sends no message
\* before it has.
SameLink(cn, dn) ==
  /\ dn \in Connection
  /\ dn.client = cn.client /\ dn.server = cn.server /\ dn.open = cn.open
  /\ dn.up = cn.up /\ dn.broken = cn.broken

WireStep(cn, dn, p, n) ==
  LET o == Peer(cn, p) IN
  /\ \A q \in Proc : q # p /\ q # o => dn.wire[q] = cn.wire[q]
  /\ dn.wire[p] \in Seq(For(p)) /\ Len(dn.wire[p]) <= Len(cn.wire[p])
  /\ dn.wire[o] \in Seq(For(o)) /\ Len(dn.wire[o]) <= WireNum
  /\ dn.wire[o] = cn.wire[o] \/ ~Silent(n, p)

NodeStep(old, new, cn, dn, p) ==
  /\ new # NoNode \/ p \in Server
  /\ Silent(new, p) => Silent(old, p)
  /\ p \in Client => old # NoNode
  /\ old # NoNode => (Heard(new, dn.wire[p]) => Heard(old, cn.wire[p]))
  /\ old = NoNode => ~Heard(new, <<>>)
  /\ p \in Server /\ old.status \in {"Connected", "Stop"} => new.status \in {"Connected", "Stop"}
  /\ p \in Client /\ HasMsg(new.sendbuf) => new.status = "Connected" \/ HasMsg(old.sendbuf)

\* The ends after it, where m is the peer's node.
Sides(n, m, dn, p) ==
  Side(n, dn.wire[p], Peer(dn, p), p) /\ Side(m, dn.wire[Peer(dn, p)], p, Peer(dn, p))

\* Such a step keeps the part of a connection.
LEMMA LinkStep ==
  ASSUME NEW ns, NEW cn, LinkInv(ns, cn), NEW p \in cn.open, NEW n \in Node, NEW dn,
         NodeInv(n, cn, p), SameLink(cn, dn), WireStep(cn, dn, p, n),
         NodeStep(ns[p], n, cn, dn, p), Sides(n, ns[Peer(cn, p)], dn, p)
  PROVE  LinkInv([ns EXCEPT ![p] = n], dn)
<1> DEFINE ms == [ns EXCEPT ![p] = n]
           o  == Peer(cn, p)
<1>1. /\ ns \in [Proc -> Node] /\ cn \in Connection
      /\ Ends(cn) /\ Wires(cn) /\ Greeted(ns, cn)
      /\ \A q \in Proc : Socketed(ns, cn, q) /\ Introduced(ns, cn, q) /\ Quiet(ns, cn, q)
      /\ \A q \in Proc : Side(ns[q], cn.wire[q], Peer(cn, q), q) /\ Hushed(ns, cn, q)
  BY DEF LinkInv
<1>2. /\ cn # FreeConn /\ cn.client \in Client /\ cn.server \in Server
      /\ cn.client \in Proc /\ cn.server \in Proc /\ cn.client # cn.server
      /\ cn.client \notin Server /\ cn.server \notin Client
      /\ p \in Proc /\ o \in Proc /\ o # p /\ Peer(cn, o) = p
      /\ \/ p = cn.client /\ o = cn.server
         \/ p = cn.server /\ o = cn.client
      /\ \A q \in Proc : q \in cn.open \/ ns[q] # NoNode => q = p \/ q = o
  BY EndsOf
<1>3. /\ ms \in [Proc -> Node] /\ ms[p] = n
      /\ \A q \in Proc : q # p => ms[q] = ns[q]
  BY <1>1, <1>2
<1>4. /\ dn \in Connection
      /\ dn.client = cn.client /\ dn.server = cn.server /\ dn.open = cn.open
      /\ dn.up = cn.up /\ dn.broken = cn.broken
      /\ \A q : Peer(dn, q) = Peer(cn, q)
  BY DEF SameLink, Peer
<1>5. /\ \A q \in Proc : q # p /\ q # o => dn.wire[q] = cn.wire[q]
      /\ dn.wire[p] \in Seq(For(p)) /\ Len(dn.wire[p]) <= Len(cn.wire[p])
      /\ dn.wire[o] \in Seq(For(o)) /\ Len(dn.wire[o]) <= WireNum
      /\ dn.wire[o] = cn.wire[o] \/ ~Silent(n, p)
  BY DEF WireStep
<1>6. /\ \A q \in Proc : dn.wire[q] \in Seq(Pkg) /\ cn.wire[q] \in Seq(Pkg)
      /\ \A q \in Proc : Len(dn.wire[q]) \in Nat /\ Len(cn.wire[q]) \in Nat
      /\ \A q \in Proc : Len(cn.wire[q]) <= WireNum /\ cn.wire[q] \in Seq(For(q))
  BY <1>1, <1>4, LenProperties DEF Connection, Wires
<1>7. cn.wire[p] = <<>> => dn.wire[p] = <<>>
  BY <1>2, <1>5, <1>6, EmptySeq
<1>8. /\ n # NoNode \/ p \in Server
      /\ Silent(n, p) => Silent(ns[p], p)
      /\ p \in Client => ns[p] # NoNode
      /\ ns[p] # NoNode => (Heard(n, dn.wire[p]) => Heard(ns[p], cn.wire[p]))
      /\ ns[p] = NoNode => ~Heard(n, <<>>)
      /\ p \in Server /\ ns[p].status \in {"Connected", "Stop"}
           => n.status \in {"Connected", "Stop"}
  BY DEF NodeStep
<1>9. dn # FreeConn
  BY <1>4 DEF FreeConn
<1> HIDE DEF ms
<1>10. Ends(dn)
  <2>1. /\ cn.open # {} /\ cn.open \subseteq {cn.client, cn.server}
        /\ ~cn.up => cn.server \notin cn.open /\ cn.wire[cn.client] = <<>>
    BY <1>1, <1>2 DEF Ends
  <2>2. ~cn.up => p = cn.client
    BY <1>2, <2>1
  <2> QED BY <1>2, <1>4, <1>7, <2>1, <2>2 DEF Ends
<1>11. Wires(dn)
  <2> SUFFICES ASSUME NEW q \in Proc
               PROVE  Len(dn.wire[q]) <= WireNum /\ dn.wire[q] \in Seq(For(q))
    BY DEF Wires
  <2>1. CASE q = p
    BY <1>5, <1>6, <2>1, Bounds
  <2>2. CASE q = o
    BY <1>5, <2>2
  <2>3. CASE q # p /\ q # o
    BY <1>5, <1>6, <2>3
  <2> QED BY <2>1, <2>2, <2>3
<1>12. ASSUME NEW q \in Proc
       PROVE  Socketed(ms, dn, q) /\ Introduced(ms, dn, q) /\ Quiet(ms, dn, q)
  <2>1. CASE q = p
    <3>1. Socketed(ms, dn, p)
      BY <1>3, <1>4 DEF NodeInv, Socketed
    <3>2. Introduced(ms, dn, p)
      BY <1>3, <1>4 DEF NodeInv, Introduced
    <3>3. Quiet(ms, dn, p)
      <4>1. Silent(n, p) => dn.wire[o] = <<>>
        BY <1>1, <1>2, <1>5, <1>8 DEF Quiet
      <4> QED BY <1>3, <1>4, <1>8, <4>1 DEF Quiet
    <3> QED BY <2>1, <3>1, <3>2, <3>3
  <2>2. CASE q # p
    <3>1. ms[q] = ns[q]
      BY <1>3, <2>2
    <3>2. Socketed(ms, dn, q)
      BY <1>1, <1>4, <3>1 DEF Socketed
    <3>3. Introduced(ms, dn, q)
      BY <1>1, <1>4, <3>1 DEF Introduced
    <3>4. Quiet(ms, dn, q)
      BY <1>1, <1>2, <1>4, <1>7, <2>2, <3>1 DEF Quiet
    <3> QED BY <3>2, <3>3, <3>4
  <2> QED BY <2>1, <2>2
<1>13. Greeted(ms, dn)
  <2>1. CASE p = cn.client
    <3>1. ms[cn.client] = n /\ ms[cn.server] = ns[cn.server]
      BY <1>2, <1>3, <2>1
    <3> QED BY <1>1, <1>2, <1>4, <1>8, <2>1, <3>1 DEF Greeted
  <2>2. CASE p = cn.server
    <3>1. ms[cn.client] = ns[cn.client] /\ ms[cn.server] = n /\ o = cn.client
      BY <1>2, <1>3, <2>2
    <3>2. CASE dn.wire[o] = cn.wire[o]
      BY <1>1, <1>2, <1>4, <1>8, <2>2, <3>1, <3>2 DEF Greeted
    <3>3. CASE ~Silent(n, p)
      <4>1. n # NoNode /\ n.status \notin {"closed", "ShakeHand"}
        BY <1>2, <2>2, <3>3 DEF Silent, NoNode
      <4>2. n.status # "Connecting"
        BY <1>2, <2>2, <4>1 DEF NodeInv
      <4>3. n.status \in {"Connected", "Stop"}
        BY <4>1, <4>2 DEF Node, OpenNode
      <4> QED BY <1>4, <3>1, <4>3 DEF Greeted
    <3> QED BY <1>5, <3>2, <3>3
  <2> QED BY <1>2, <2>1, <2>2
<1>14. ASSUME NEW q \in Proc
       PROVE  Side(ms[q], dn.wire[q], Peer(dn, q), q)
  <2>1. CASE q = p
    BY <1>3, <2>1 DEF Sides
  <2>2. CASE q = o
    BY <1>2, <1>3, <1>4, <2>2 DEF Sides
  <2>3. CASE q # p /\ q # o
    BY <1>1, <1>3, <1>4, <1>5, <2>3
  <2> QED BY <2>1, <2>2, <2>3
<1>15. ASSUME NEW q \in Proc
       PROVE  Hushed(ms, dn, q)
  <2> DEFINE r == Peer(cn, q)
  <2>1. SUFFICES ASSUME ms[q] # NoNode, cn.up = FALSE \/ (r \in cn.open /\ Silent(ms[r], r))
                 PROVE  ~Heard(ms[q], dn.wire[q])
    BY <1>4 DEF Hushed
  <2>2. cn.up = FALSE => p = cn.client /\ cn.server \notin cn.open
    BY <1>1, <1>2 DEF Ends
  <2>3. CASE q = p
    <3>1. ms[q] = n /\ r = o /\ ms[r] = ns[o]
      BY <1>2, <1>3, <2>3
    <3>2. CASE ns[p] # NoNode
      <4>1. ~Heard(ns[p], cn.wire[p])
        BY <1>1, <2>1, <2>3, <3>1, <3>2 DEF Hushed
      <4> QED BY <1>8, <2>3, <3>1, <3>2, <4>1
    <3>3. CASE ns[p] = NoNode
      <4>1. p # cn.client
        BY <1>2, <1>8, <3>3
      <4>2. o \in cn.open /\ Silent(ns[o], o)
        BY <2>1, <2>2, <3>1, <4>1
      <4>3. cn.wire[p] = <<>>
        BY <1>1, <1>2, <4>2 DEF Quiet
      <4> QED BY <1>7, <1>8, <2>3, <3>1, <3>3, <4>3
    <3> QED BY <3>2, <3>3
  <2>4. CASE q = o
    <3>1. ms[q] = ns[o] /\ r = p /\ ms[r] = n
      BY <1>2, <1>3, <2>4
    <3>2. cn.up # FALSE
      <4>1. ns[o] # NoNode => o \in cn.open
        BY <1>1, <1>2 DEF Socketed
      <4> QED BY <1>2, <2>1, <2>2, <3>1, <4>1
    <3>3. Silent(n, p) /\ p \in cn.open
      BY <2>1, <3>1, <3>2
    <3>4. dn.wire[o] = cn.wire[o] /\ Silent(ns[p], p)
      BY <1>5, <1>8, <3>3
    <3> QED BY <1>1, <1>2, <2>1, <2>4, <3>1, <3>3, <3>4 DEF Hushed
  <2>5. CASE q # p /\ q # o
    BY <1>2, <1>3, <2>1, <2>5
  <2> QED BY <2>3, <2>4, <2>5
<1> QED BY <1>3, <1>4, <1>10, <1>11, <1>12, <1>13, <1>14, <1>15 DEF LinkInv, ms

\* A connection that no process uses.
LEMMA FreeLink ==
  /\ FreeConn \in Connection
  /\ \A ns \in [Proc -> Node] : (\A q \in Proc : ns[q] = NoNode) => LinkInv(ns, FreeConn)
  /\ \A ns : LinkInv(ns, FreeConn) => \A q \in Proc : ns[q] = NoNode
<1>1. FreeConn \in Connection
  BY EmptySeq, NetAssumption DEF FreeConn, Connection, ProcId
<1>2. ASSUME NEW ns \in [Proc -> Node], \A q \in Proc : ns[q] = NoNode
      PROVE  LinkInv(ns, FreeConn)
  <2>1. Ends(FreeConn) /\ Greeted(ns, FreeConn)
    BY DEF Ends, Greeted
  <2>2. Wires(FreeConn)
    BY EmptySeq, Bounds DEF FreeConn, Wires
  <2>3. \A q \in Proc : /\ Socketed(ns, FreeConn, q) /\ Introduced(ns, FreeConn, q)
                        /\ Quiet(ns, FreeConn, q)
    BY <1>2 DEF FreeConn, Socketed, Introduced, Quiet
  <2>4. ASSUME NEW q \in Proc
        PROVE  Side(ns[q], FreeConn.wire[q], Peer(FreeConn, q), q) /\ Hushed(ns, FreeConn, q)
    <3>1. FreeConn.wire[q] = <<>> /\ ns[q] = NoNode
      BY <1>2 DEF FreeConn
    <3> QED BY <3>1, NothingSaid DEF Hushed
  <2> QED BY <1>1, <2>1, <2>2, <2>3, <2>4 DEF LinkInv
<1>3. ASSUME NEW ns, LinkInv(ns, FreeConn), NEW q \in Proc
      PROVE  ns[q] = NoNode
  BY <1>3 DEF LinkInv, Socketed, FreeConn
<1> QED BY <1>1, <1>2, <1>3

\* Process p closes its socket.
LEMMA LinkShut ==
  ASSUME NEW ns, NEW cn, LinkInv(ns, cn), NEW p \in cn.open
  PROVE  LinkInv([ns EXCEPT ![p] = NoNode], ShutEnd(cn, p))
<1> DEFINE ms == [ns EXCEPT ![p] = NoNode]
           dn == [cn EXCEPT !.open = @ \ {p}, !.wire[p] = <<>>]
           o  == Peer(cn, p)
<1>1. /\ ns \in [Proc -> Node] /\ cn \in Connection
      /\ Ends(cn) /\ Wires(cn) /\ Greeted(ns, cn)
      /\ \A q \in Proc : Socketed(ns, cn, q) /\ Introduced(ns, cn, q) /\ Quiet(ns, cn, q)
      /\ \A q \in Proc : Side(ns[q], cn.wire[q], Peer(cn, q), q) /\ Hushed(ns, cn, q)
  BY DEF LinkInv
<1>2. /\ cn # FreeConn /\ cn.client \in Client /\ cn.server \in Server
      /\ cn.client \in Proc /\ cn.server \in Proc /\ cn.client # cn.server
      /\ cn.client \notin Server /\ cn.server \notin Client
      /\ p \in Proc /\ o \in Proc /\ o # p /\ Peer(cn, o) = p
      /\ \/ p = cn.client /\ o = cn.server
         \/ p = cn.server /\ o = cn.client
      /\ \A q \in Proc : q \in cn.open \/ ns[q] # NoNode => q = p \/ q = o
  BY EndsOf
<1>3. /\ ms \in [Proc -> Node] /\ ms[p] = NoNode
      /\ \A q \in Proc : q # p => ms[q] = ns[q]
  BY <1>1, <1>2 DEF Node
<1>4. CASE cn.open \subseteq {p}
  <2>1. \A q \in Proc : ms[q] = NoNode
    BY <1>1, <1>3, <1>4 DEF Socketed
  <2> QED BY <1>3, <1>4, <2>1, FreeLink DEF ShutEnd
<1>5. CASE ~(cn.open \subseteq {p})
  <2>1. /\ dn \in Connection
        /\ dn.client = cn.client /\ dn.server = cn.server /\ dn.open = cn.open \ {p}
        /\ dn.up = cn.up /\ dn.broken = cn.broken /\ dn.wire[p] = <<>>
        /\ \A q \in Proc : q # p => dn.wire[q] = cn.wire[q]
        /\ \A q : Peer(dn, q) = Peer(cn, q)
    BY <1>1, <1>2, EmptySeq DEF Connection, Peer
  <2>2. dn.open # {}
    BY <1>5, <2>1
  <2>3. dn # FreeConn
    BY <2>2 DEF FreeConn
  <2> HIDE DEF dn, ms
  <2>4. Ends(dn)
    BY <1>1, <1>2, <2>1, <2>2 DEF Ends
  <2>5. Wires(dn)
    <3>1. Wires(dn) <=> \A q \in Proc : Len(dn.wire[q]) <= WireNum /\ dn.wire[q] \in Seq(For(q))
      BY DEF Wires
    <3>2. \A q \in Proc : Len(cn.wire[q]) <= WireNum /\ cn.wire[q] \in Seq(For(q))
      BY <1>1 DEF Wires
    <3> QED BY <2>1, <3>1, <3>2, Nothing
  <2>6. ASSUME NEW q \in Proc
        PROVE  Socketed(ms, dn, q) /\ Introduced(ms, dn, q) /\ Quiet(ms, dn, q)
    <3>1. Socketed(ms, dn, q)
      BY <1>1, <1>3, <2>1 DEF Socketed
    <3>2. Introduced(ms, dn, q)
      BY <1>1, <1>3, <2>1 DEF Introduced
    <3>3. Quiet(ms, dn, q)
      <4>1. SUFFICES ASSUME q \in dn.open PROVE Quiet(ms, dn, q)
        BY DEF Quiet
      <4>2. q = o /\ ms[q] = ns[q] /\ q \in cn.open
        BY <1>2, <1>3, <2>1, <4>1
      <4> QED BY <1>1, <1>2, <2>1, <4>2 DEF Quiet
    <3> QED BY <3>1, <3>2, <3>3
  <2>7. Greeted(ms, dn)
    <3>1. CASE p = cn.client
      BY <1>3, <2>1, <3>1 DEF Greeted
    <3>2. CASE p = cn.server
      <4>1. cn.up = TRUE
        BY <1>1, <1>2, <3>2 DEF Ends, Connection
      <4> QED BY <2>1, <3>2, <4>1 DEF Greeted
    <3> QED BY <1>2, <3>1, <3>2
  <2>9. ASSUME NEW q \in Proc
        PROVE  Side(ms[q], dn.wire[q], Peer(dn, q), q) /\ Hushed(ms, dn, q)
    <3>1. CASE q = p
      <4>1. ms[q] = NoNode /\ dn.wire[q] = <<>>
        BY <1>3, <2>1, <3>1
      <4> QED BY <4>1, NothingSaid DEF Hushed
    <3>2. CASE q # p
      <4>1. ms[q] = ns[q] /\ dn.wire[q] = cn.wire[q] /\ Peer(dn, q) = Peer(cn, q)
        BY <1>3, <2>1, <3>2
      <4>2. Side(ns[q], cn.wire[q], Peer(cn, q), q) /\ Hushed(ns, cn, q)
        BY <1>1
      <4>3. Peer(cn, q) # p /\ Peer(cn, q) \in cn.open => ms[Peer(cn, q)] = ns[Peer(cn, q)]
        BY <1>1, <1>3 DEF Connection
      <4>4. Hushed(ms, dn, q)
        BY <2>1, <4>1, <4>2, <4>3 DEF Hushed
      <4> QED BY <4>1, <4>2, <4>4
    <3> QED BY <3>1, <3>2
  <2>8. LinkInv(ms, dn)
    BY <1>3, <2>1, <2>4, <2>5, <2>6, <2>7, <2>9 DEF LinkInv
  <2> QED BY <1>5, <2>8 DEF ShutEnd, dn, ms
<1> QED BY <1>4, <1>5

\* A connection is given up: it is broken from now on, and what is on its wires may
\* be lost.
LEMMA LinkBreak ==
  ASSUME NEW ns, NEW cn, LinkInv(ns, cn), NEW wire \in [Proc -> Seq(Pkg)], cn # FreeConn,
         \A q \in Proc : wire[q] = cn.wire[q] \/ wire[q] = <<>>
  PROVE  LinkInv(ns, [cn EXCEPT !.broken = TRUE, !.wire = wire])
<1> DEFINE dn == [cn EXCEPT !.broken = TRUE, !.wire = wire]
<1>1. /\ ns \in [Proc -> Node] /\ cn \in Connection
      /\ Ends(cn) /\ Wires(cn)
      /\ \A q \in Proc : Socketed(ns, cn, q) /\ Introduced(ns, cn, q) /\ Quiet(ns, cn, q)
      /\ \A q \in Proc : Side(ns[q], cn.wire[q], Peer(cn, q), q) /\ Hushed(ns, cn, q)
  BY DEF LinkInv
<1>2. /\ dn \in Connection
      /\ dn.client = cn.client /\ dn.server = cn.server /\ dn.open = cn.open
      /\ dn.up = cn.up /\ dn.broken = TRUE /\ dn.wire = wire
      /\ \A q : Peer(dn, q) = Peer(cn, q)
  BY <1>1 DEF Connection, Peer
<1> HIDE DEF dn
<1>3. /\ cn.client \in Client /\ cn.server \in Server
      /\ cn.open # {} /\ cn.open \subseteq {cn.client, cn.server}
      /\ ~cn.up => cn.server \notin cn.open /\ cn.wire[cn.client] = <<>>
      /\ cn.client \in Proc
  BY <1>1 DEF Ends, Proc
<1>4. Ends(dn)
  BY <1>2, <1>3 DEF Ends
<1>5. Wires(dn)
  BY <1>1, <1>2, EmptySeq, Bounds DEF Wires
<1>6. ASSUME NEW q \in Proc
      PROVE  Socketed(ns, dn, q) /\ Introduced(ns, dn, q) /\ Quiet(ns, dn, q)
  <2>1. Socketed(ns, dn, q) /\ Introduced(ns, dn, q)
    BY <1>1, <1>2 DEF Socketed, Introduced
  <2>2. Quiet(ns, dn, q)
    BY <1>1, <1>2, EndsOf DEF Quiet
  <2> QED BY <2>1, <2>2
<1>7. Greeted(ns, dn)
  BY <1>2 DEF Greeted
<1>8. ASSUME NEW q \in Proc
      PROVE  Side(ns[q], dn.wire[q], Peer(dn, q), q) /\ Hushed(ns, dn, q)
  <2>1. Side(ns[q], cn.wire[q], Peer(cn, q), q) /\ Hushed(ns, cn, q)
    BY <1>1
  <2>2. CASE dn.wire[q] = cn.wire[q]
    <3>1. Hushed(ns, dn, q)
      BY <1>2, <2>1, <2>2 DEF Hushed
    <3> QED BY <1>2, <2>1, <2>2, <3>1
  <2>3. CASE dn.wire[q] = <<>>
    <3>1. Side(ns[q], <<>>, Peer(cn, q), q)
      BY <2>1, NothingSaid DEF Side, Receives, ShakesOnce
    <3>2. Heard(ns[q], <<>>) => Heard(ns[q], cn.wire[q])
      BY NothingSaid DEF Heard
    <3>3. Hushed(ns, dn, q)
      BY <1>2, <2>1, <2>3, <3>2 DEF Hushed
    <3> QED BY <1>2, <2>3, <3>1, <3>3
  <2> QED BY <1>2, <2>2, <2>3
<1> QED BY <1>1, <1>2, <1>4, <1>5, <1>6, <1>7, <1>8 DEF LinkInv, dn

\* The kernels complete a connection.
LEMMA LinkEstablish ==
  ASSUME NEW ns, NEW cn, LinkInv(ns, cn), cn # FreeConn, ~cn.up
  PROVE  LinkInv(ns, [cn EXCEPT !.up = TRUE, !.open = @ \cup {cn.server}])
<1> DEFINE dn == [cn EXCEPT !.up = TRUE, !.open = @ \cup {cn.server}]
           s  == cn.server
<1>1. /\ ns \in [Proc -> Node] /\ cn \in Connection
      /\ Ends(cn) /\ Wires(cn) /\ Greeted(ns, cn)
      /\ \A q \in Proc : Socketed(ns, cn, q) /\ Introduced(ns, cn, q) /\ Quiet(ns, cn, q)
      /\ \A q \in Proc : Side(ns[q], cn.wire[q], Peer(cn, q), q) /\ Hushed(ns, cn, q)
  BY DEF LinkInv
<1>2. /\ cn.client \in Client /\ cn.server \in Server
      /\ cn.open # {} /\ cn.open \subseteq {cn.client, cn.server}
      /\ cn.server \notin cn.open /\ cn.wire[cn.client] = <<>>
      /\ cn.client \in Proc /\ cn.server \in Proc /\ cn.client # cn.server
      /\ cn.server \notin Client
  BY <1>1, NetAssumption DEF Ends, Proc
<1>3. /\ dn \in Connection
      /\ dn.client = cn.client /\ dn.server = cn.server /\ dn.open = cn.open \cup {cn.server}
      /\ dn.up = TRUE /\ dn.broken = cn.broken /\ dn.wire = cn.wire
      /\ \A q : Peer(dn, q) = Peer(cn, q)
  BY <1>1, <1>2 DEF Connection, Peer
<1> HIDE DEF dn
<1>4. ns[s] = NoNode
  BY <1>1, <1>2 DEF Socketed
<1>5. Ends(dn) /\ Wires(dn)
  BY <1>1, <1>2, <1>3 DEF Ends, Wires
<1>6. ASSUME NEW q \in Proc
      PROVE  Socketed(ns, dn, q) /\ Introduced(ns, dn, q) /\ Quiet(ns, dn, q)
  <2>1. Socketed(ns, dn, q) /\ Introduced(ns, dn, q)
    BY <1>1, <1>3 DEF Socketed, Introduced
  <2>2. CASE q = s
    BY <1>2, <1>3, <2>1, <2>2 DEF Quiet, Peer
  <2>3. CASE q # s
    BY <1>1, <1>3, <2>1, <2>3 DEF Quiet
  <2> QED BY <2>1, <2>2, <2>3
<1>7. Greeted(ns, dn)
  BY <1>1, <1>2, <1>3, <1>4 DEF Greeted, NoNode, Connection
<1>8. ASSUME NEW q \in Proc
      PROVE  Side(ns[q], dn.wire[q], Peer(dn, q), q) /\ Hushed(ns, dn, q)
  <2>1. Side(ns[q], cn.wire[q], Peer(cn, q), q) /\ Hushed(ns, cn, q)
    BY <1>1
  <2>2. cn.up = FALSE
    BY <1>1 DEF Connection
  <2>3. Hushed(ns, dn, q)
    BY <1>3, <2>1, <2>2 DEF Hushed
  <2> QED BY <1>3, <2>1, <2>3
<1> QED BY <1>1, <1>3, <1>5, <1>6, <1>7, <1>8 DEF LinkInv, dn

\* A client makes a connection, which may be complete at once.
NewConn(c, s, done) ==
  LET cn == [FreeConn EXCEPT !.client = c, !.server = s, !.open = {c}]
  IN  IF done THEN [cn EXCEPT !.open = {c, s}, !.up = TRUE] ELSE cn

\* A client opens a socket, and its node, on a connection that was free.
LEMMA LinkNew ==
  ASSUME NEW ns, LinkInv(ns, FreeConn), NEW c \in Client, NEW s \in Server,
         NEW done \in BOOLEAN
  PROVE  LET ms == [ns EXCEPT ![c] = [NewNode("Connecting") EXCEPT !.procid = s]]
         IN  LinkInv(ms, NewConn(c, s, done)) /\ Healthy(ms, NewConn(c, s, done))
<1> DEFINE n  == [NewNode("Connecting") EXCEPT !.procid = s]
           ms == [ns EXCEPT ![c] = n]
           dn == NewConn(c, s, done)
<1>1. c \in Proc /\ s \in Proc /\ c # s /\ c \notin Server /\ s \notin Client /\ s \in ProcId
  BY NetAssumption DEF Proc, ProcId
<1>2. ns \in [Proc -> Node] /\ \A q \in Proc : ns[q] = NoNode
  BY FreeLink DEF LinkInv
<1>3. /\ n \in OpenNode /\ n.status = "Connecting" /\ n.shaken = FALSE
      /\ n.recvbuf = <<>> /\ n.sendbuf = <<>>
  BY <1>1, EmptySeq DEF NewNode, OpenNode
<1> HIDE DEF n
<1>4. /\ ms \in [Proc -> Node] /\ ms[c] = n /\ \A q \in Proc : q # c => ms[q] = NoNode
  BY <1>1, <1>2, <1>3 DEF Node
<1>5. /\ dn \in Connection /\ dn.client = c /\ dn.server = s
      /\ dn.open = IF done THEN {c, s} ELSE {c}
      /\ dn.up = done /\ dn.broken = FALSE /\ dn.lost = {}
      /\ \A q \in Proc : dn.wire[q] = <<>>
  <2> DEFINE fn == [FreeConn EXCEPT !.client = c, !.server = s, !.open = {c}]
  <2>1. /\ FreeConn \in Connection /\ FreeConn.up = FALSE /\ FreeConn.broken = FALSE
        /\ FreeConn.lost = {}
        /\ \A q \in Proc : FreeConn.wire[q] = <<>>
    BY FreeLink DEF FreeConn
  <2>2. /\ fn \in Connection /\ fn.client = c /\ fn.server = s /\ fn.open = {c}
        /\ fn.up = FALSE /\ fn.broken = FALSE /\ fn.lost = {}
        /\ \A q \in Proc : fn.wire[q] = <<>>
    BY <1>1, <2>1 DEF Connection, ProcId
  <2>3. dn = IF done THEN [fn EXCEPT !.open = {c, s}, !.up = TRUE] ELSE fn
    BY DEF NewConn
  <2> HIDE DEF fn, dn
  <2>4. CASE done
    BY <1>1, <2>2, <2>3, <2>4 DEF Connection
  <2>5. CASE ~done
    BY <2>2, <2>3, <2>5
  <2> QED BY <2>4, <2>5
<1> HIDE DEF ms, dn
<1>6. Ends(dn)
  BY <1>1, <1>5 DEF Ends
<1>7. Wires(dn)
  BY <1>5, Nothing DEF Wires
<1>8. ASSUME NEW q \in Proc
      PROVE  Socketed(ms, dn, q) /\ Introduced(ms, dn, q) /\ Quiet(ms, dn, q)
  <2>1. Socketed(ms, dn, q)
    <3>1. CASE q = c
      BY <1>3, <1>4, <1>5, <3>1, Nothing DEF Socketed
    <3>2. CASE q # c
      BY <1>4, <3>2 DEF Socketed
    <3> QED BY <3>1, <3>2
  <2>2. Introduced(ms, dn, q)
    BY <1>1, <1>4 DEF Introduced
  <2>3. Quiet(ms, dn, q)
    <3>1. q \in dn.open => ms[q] # NoNode \/ q \in Server
      BY <1>1, <1>3, <1>4, <1>5 DEF OpenNode, NoNode
    <3>2. q \in dn.open => dn.wire[Peer(dn, q)] = <<>>
      BY <1>1, <1>5 DEF Peer
    <3> QED BY <3>1, <3>2 DEF Quiet
  <2> QED BY <2>1, <2>2, <2>3
<1>9. Greeted(ms, dn)
  <2>1. ~Says(dn.wire[c]) /\ ~Says(n.recvbuf)
    BY <1>1, <1>3, <1>5, NothingSaid
  <2> QED BY <1>3, <1>4, <1>5, <2>1 DEF Greeted, Heard
<1>10. ASSUME NEW q \in Proc
       PROVE  Side(ms[q], dn.wire[q], Peer(dn, q), q) /\ Hushed(ms, dn, q)
  <2>1. dn.wire[q] = <<>>
    BY <1>5
  <2>2. CASE q = c
    <3>1. Peer(dn, q) = s /\ ms[q] = n
      BY <1>4, <1>5, <2>2 DEF Peer
    <3>2. n.procid = s
      BY DEF n, NewNode
    <3>3. Side(n, <<>>, s, c)
      BY <1>3, <3>2, NothingSaid DEF Side, Receives, Sends, ShakesOnce
    <3>4. ~Heard(n, <<>>)
      BY <1>3, NothingSaid DEF Heard
    <3> QED BY <2>1, <2>2, <3>1, <3>3, <3>4 DEF Hushed
  <2>3. CASE q # c
    <3>1. ms[q] = NoNode
      BY <1>4, <2>3
    <3> QED BY <2>1, <3>1, NothingSaid DEF Hushed
  <2> QED BY <2>2, <2>3
<1>11. LinkInv(ms, dn)
  BY <1>4, <1>5, <1>6, <1>7, <1>8, <1>9, <1>10 DEF LinkInv
<1>12. Healthy(ms, dn)
  <2>1. ~Heard(ms[c], dn.wire[c]) /\ ~HasMsg(ms[c].sendbuf)
    BY <1>1, <1>3, <1>4, <1>5, NothingSaid DEF Heard, Says
  <2> QED BY <1>5, <2>1 DEF Healthy, Unspoken
<1> QED BY <1>11, <1>12 DEF ms, dn, n

-----------------------------------------------------------------------------
(* Connections while nothing has gone wrong. *)

\* A step of p other than opening or closing its socket keeps one so.
LEMMA HealthyStep ==
  ASSUME NEW ns, NEW cn, LinkInv(ns, cn), Healthy(ns, cn), NEW p \in cn.open, NEW n \in Node,
         NEW dn, NodeInv(n, cn, p), SameLink(cn, dn), dn.lost = cn.lost,
         WireStep(cn, dn, p, n), NodeStep(ns[p], n, cn, dn, p)
  PROVE  Healthy([ns EXCEPT ![p] = n], dn)
<1> DEFINE ms == [ns EXCEPT ![p] = n]
           c  == cn.client
           s  == cn.server
<1>1. /\ cn # FreeConn /\ c \in Client /\ s \in Server /\ c # s
      /\ c \notin Server /\ s \notin Client /\ p \in Proc
      /\ \/ p = c /\ Peer(cn, p) = s
         \/ p = s /\ Peer(cn, p) = c
  BY EndsOf
<1>2. /\ c \in cn.open /\ cn.lost = {}
      /\ cn.broken = TRUE => cn.up = TRUE /\ s \notin cn.open
      /\ ns[s].status \in {"Connected", "Stop"} \/ Unspoken(ns, cn)
  BY <1>1 DEF Healthy
<1>3. /\ dn.client = c /\ dn.server = s /\ dn.open = cn.open
      /\ dn.up = cn.up /\ dn.broken = cn.broken
  BY DEF SameLink
<1>4. ns \in [Proc -> Node] /\ ms[p] = n /\ \A q \in Proc : q # p => ms[q] = ns[q]
  BY <1>1 DEF LinkInv
<1>5. c \in Proc /\ s \in Proc
  BY <1>1 DEF Proc
<1> HIDE DEF ms
<1>6. ASSUME ms[s].status \notin {"Connected", "Stop"}
      PROVE  ~Heard(ms[c], dn.wire[c]) /\ ~HasMsg(ms[c].sendbuf)
  <2>1. CASE p = c
    <3>1. ~Heard(ns[p], cn.wire[p]) /\ ~HasMsg(ns[p].sendbuf)
      BY <1>1, <1>2, <1>4, <1>5, <1>6, <2>1 DEF Unspoken
    <3>2. ~Heard(n, dn.wire[p])
      BY <1>1, <2>1, <3>1 DEF NodeStep
    <3>3. n.status # "Connected"
      BY <3>2 DEF Heard
    <3>4. ~HasMsg(n.sendbuf)
      BY <1>1, <2>1, <3>1, <3>3 DEF NodeStep
    <3> QED BY <1>4, <2>1, <3>2, <3>4
  <2>2. CASE p = s
    <3>1. n.status \notin {"Connected", "Stop"} /\ ms[c] = ns[c]
      BY <1>1, <1>4, <1>5, <1>6, <2>2
    <3>2. ns[s].status \notin {"Connected", "Stop"}
      BY <1>1, <2>2, <3>1 DEF NodeStep
    <3>3. Silent(n, p)
      <4>1. n # NoNode => n.status # "Connecting"
        BY <1>1, <2>2 DEF NodeInv
      <4>2. n.status \in {"closed", "ShakeHand"}
        BY <3>1, <4>1 DEF Node, OpenNode, NoNode
      <4> QED BY <1>1, <2>2, <4>2 DEF Silent
    <3>4. dn.wire[c] = cn.wire[c]
      BY <1>1, <2>2, <3>3 DEF WireStep
    <3> QED BY <1>2, <3>1, <3>2, <3>4 DEF Unspoken
  <2> QED BY <1>1, <2>1, <2>2
<1> QED BY <1>2, <1>3, <1>6 DEF Healthy, Unspoken, ms

\* p closes its socket only where the other end is closed, or where it is a server
\* before the handshake.
Closable(ns, cn, p) ==
  Gone(cn, p) \/ (p = cn.server /\ ns[p].status \notin {"Connected", "Stop"})

\* No message is on its way or in a buffer of the connection.
Idle(ns, cn, p) ==
  /\ Unspoken(ns, cn) /\ ns[cn.server].status \notin {"Connected", "Stop"}
  /\ p = cn.client => cn.open = {p}
  /\ p = cn.server => cn.broken # TRUE
  /\ \A q \in Proc : /\ ~HasMsg(cn.wire[q])
                     /\ ns[q] # NoNode => ~HasMsg(ns[q].recvbuf) /\ ~HasMsg(ns[q].sendbuf)

\* Then the connection is not in use.
LEMMA ClosableIs ==
  ASSUME NEW ns, NEW cn, LinkInv(ns, cn), Healthy(ns, cn), NEW p \in cn.open, Closable(ns, cn, p)
  PROVE  Idle(ns, cn, p)
<1> DEFINE c == cn.client
           s == cn.server
<1>1. /\ cn # FreeConn /\ c \in Client /\ s \in Server /\ c # s
      /\ c \notin Server /\ s \notin Client /\ p \in Proc
      /\ \/ p = c /\ Peer(cn, p) = s
         \/ p = s /\ Peer(cn, p) = c
      /\ \A q \in Proc : q \in cn.open \/ ns[q] # NoNode => q = c \/ q = s
      /\ c \in Proc /\ s \in Proc /\ cn \in Connection
  BY EndsOf
<1>2. /\ c \in cn.open /\ (cn.broken = TRUE => s \notin cn.open)
      /\ ns[s].status \in {"Connected", "Stop"} \/ Unspoken(ns, cn)
  BY <1>1 DEF Healthy
<1>3. /\ \A q \in Proc : ns[q] # NoNode => q \in cn.open
      /\ \A q \in Proc : Receives(ns[q], cn.wire[q], Peer(cn, q), q) /\ Sends(ns[q], q)
      /\ cn.open \subseteq {c, s}
  BY <1>1 DEF LinkInv, Socketed, Side, Ends
<1>4. cn.broken \in BOOLEAN
  BY <1>1 DEF Connection
<1>7. /\ Unspoken(ns, cn) /\ ns[s].status \notin {"Connected", "Stop"}
      /\ p = c => cn.open = {p}
      /\ p = s => cn.broken # TRUE
  <2>1. CASE p = c
    <3>1. s \notin cn.open
      BY <1>1, <1>2, <1>4, <2>1 DEF Closable, Gone
    <3>2. ns[s].status = "closed"
      BY <1>1, <1>3, <3>1 DEF NoNode
    <3> QED BY <1>1, <1>2, <1>3, <2>1, <3>1, <3>2
  <2>2. CASE p = s
    BY <1>1, <1>2, <1>4, <2>2 DEF Closable, Gone
  <2> QED BY <1>1, <2>1, <2>2
<1>8. ASSUME NEW q \in Proc
      PROVE  /\ ~HasMsg(cn.wire[q])
             /\ ns[q] # NoNode => ~HasMsg(ns[q].recvbuf) /\ ~HasMsg(ns[q].sendbuf)
  <2>1. CASE q = c
    <3>1. ~Says(cn.wire[q]) /\ ~Says(ns[q].recvbuf) /\ ~HasMsg(ns[q].sendbuf)
      BY <1>7, <2>1 DEF Unspoken, Heard
    <3> QED BY <3>1 DEF Says
  <2>2. CASE q = s
    BY <1>1, <1>3, <1>7, <2>2 DEF Receives, Sends, Ready
  <2>3. CASE q # c /\ q # s
    BY <1>1, <1>3, <2>3 DEF Receives, Ready
  <2> QED BY <2>1, <2>2, <2>3
<1> QED BY <1>7, <1>8 DEF Idle

\* And the connection stays as it should be.
LEMMA HealthyShut ==
  ASSUME NEW ns, NEW cn, LinkInv(ns, cn), Healthy(ns, cn), NEW p \in cn.open, Closable(ns, cn, p)
  PROVE  Healthy([ns EXCEPT ![p] = NoNode], ShutEnd(cn, p))
<1> DEFINE ms == [ns EXCEPT ![p] = NoNode]
           dn == [cn EXCEPT !.open = @ \ {p}, !.wire[p] = <<>>]
           c  == cn.client
           s  == cn.server
<1>1. /\ cn # FreeConn /\ c # s /\ p \in Proc /\ (p = c \/ p = s)
      /\ c \in Proc /\ s \in Proc /\ cn \in Connection
  BY EndsOf
<1>2. /\ Unspoken(ns, cn)
      /\ p = c => cn.open = {p}
      /\ p = s => cn.broken # TRUE
  <2>1. Idle(ns, cn, p)
    BY ClosableIs
  <2> QED BY <2>1 DEF Idle
<1>3. CASE cn.open \subseteq {p}
  BY <1>3 DEF ShutEnd, Healthy
<1>4. CASE ~(cn.open \subseteq {p})
  <2>1. p = s /\ cn.broken # TRUE /\ ShutEnd(cn, p) = dn
    BY <1>1, <1>2, <1>4 DEF ShutEnd
  <2>2. /\ dn.client = c /\ dn.server = s /\ dn.open = cn.open \ {p}
        /\ dn.broken = cn.broken /\ dn.lost = cn.lost /\ dn.wire[c] = cn.wire[c]
    BY <1>1, <2>1 DEF Connection
  <2>3. ms[c] = ns[c]
    BY <1>1, <2>1 DEF LinkInv
  <2>4. c \in cn.open /\ cn.lost = {}
    BY <1>1 DEF Healthy
  <2> HIDE DEF ms, dn
  <2>5. Healthy(ms, dn)
    BY <1>1, <1>2, <2>1, <2>2, <2>3, <2>4 DEF Healthy, Unspoken
  <2> QED BY <2>1, <2>5 DEF ms
<1> QED BY <1>3, <1>4

-----------------------------------------------------------------------------
(* Sequences. *)

\* Some number bounds a set of numbers, so one of them is the greatest.
LEMMA Greatest ==
  ASSUME NEW N \in Nat, NEW S \in SUBSET (0..N), S # {}
  PROVE  \E m \in S : \A l \in S : l <= m
<1> DEFINE T == {n \in 0..N : (\E l \in S : l <= n) =>
                   \E m \in S : m <= n /\ \A l \in S : l <= n => l <= m}
<1>1. 0 \in T
  OBVIOUS
<1>2. ASSUME NEW n \in 0..N-1, n \in T
      PROVE  n + 1 \in T
  <2>1. CASE n + 1 \in S
    BY <2>1
  <2>2. CASE n + 1 \notin S
    <3>1. \A l \in S : l <= n + 1 => l <= n
      BY <2>2
    <3> QED BY <1>2, <3>1
  <2> QED BY <2>1, <2>2
<1>3. 0..N \subseteq T
  <2>1. 0 \in Int /\ N \in Int
    OBVIOUS
  <2> HIDE DEF T
  <2> QED BY <1>1, <1>2, <2>1, IntervalInduction
<1>4. N \in T
  BY <1>3
<1>5. \A l \in S : l <= N
  OBVIOUS
<1> QED BY <1>4, <1>5

\* r is s without its i-th element.
IsWithout(r, s, i, S) ==
  /\ r \in Seq(S) /\ Distinct(r)
  /\ Len(r) = Len(s) - 1
  /\ \A j \in 1..Len(r) : r[j] = IF j < i THEN s[j] ELSE s[j + 1]
  /\ \A x : (\E j \in DOMAIN r : r[j] = x) <=> x # s[i] /\ \E j \in DOMAIN s : s[j] = x

\* Without takes out just that element.
LEMMA WithoutFacts ==
  ASSUME NEW S, NEW s \in Seq(S), Distinct(s), NEW i \in DOMAIN s
  PROVE  IsWithout(Without(s, s[i]), s, i, S)
<1> DEFINE N == Len(s)
           a == SubSeq(s, 1, i - 1)
           b == SubSeq(s, i + 1, N)
           r == a \o b
<1>1. N \in Nat /\ DOMAIN s = 1..N /\ i \in 1..N /\ \A j \in 1..N : s[j] \in S
  BY LenProperties
<1>2. Without(s, s[i]) = r
  <2>1. (CHOOSE j \in DOMAIN s : s[j] = s[i]) = i
    BY DEF Distinct
  <2> QED BY <2>1 DEF Without, RemoveAt
<1>3. i - 1 \in 0..N /\ i \in 0..N
  BY <1>1
<1>4. a \in Seq(S) /\ Len(a) = i - 1 /\ \A j \in 1..i-1 : a[j] = s[j]
  BY <1>3, PrefixSeq
<1>5. b \in Seq(S) /\ Len(b) = N - i /\ \A j \in 1..N-i : b[j] = s[i + j]
  BY <1>3, SuffixSeq
<1> HIDE DEF a, b
<1>6. /\ r \in Seq(S) /\ Len(r) = (i - 1) + (N - i)
      /\ \A j \in 1..(i-1)+(N-i) : r[j] = IF j <= i - 1 THEN a[j] ELSE b[j - (i - 1)]
  <2>1. /\ r \in Seq(S) /\ Len(r) = Len(a) + Len(b)
        /\ \A j \in 1..Len(a)+Len(b) : r[j] = IF j <= Len(a) THEN a[j] ELSE b[j - Len(a)]
    BY <1>4, <1>5, ConcatProperties
  <2> HIDE DEF r
  <2> QED BY <1>4, <1>5, <2>1
<1> HIDE DEF r, N
<1>7. Len(r) = N - 1 /\ DOMAIN r = 1..N-1
  BY <1>1, <1>6, LenProperties
<1>8. \A j \in 1..N-1 : r[j] = IF j < i THEN s[j] ELSE s[j + 1]
  <2> TAKE j \in 1..N-1
  <2>1. r[j] = IF j <= i - 1 THEN a[j] ELSE b[j - (i - 1)]
    BY <1>1, <1>6
  <2>2. CASE j < i
    BY <1>1, <1>4, <2>1, <2>2
  <2>3. CASE ~(j < i)
    <3>1. j - (i - 1) \in 1..N-i /\ i + (j - (i - 1)) = j + 1
      BY <1>1, <2>3
    <3>2. b[j - (i - 1)] = s[i + (j - (i - 1))]
      BY <1>5, <3>1
    <3> QED BY <1>1, <2>1, <2>3, <3>1, <3>2
  <2> QED BY <2>2, <2>3
<1>9. Distinct(r)
  <2> SUFFICES ASSUME NEW j \in 1..N-1, NEW l \in 1..N-1, r[j] = r[l]
               PROVE  j = l
    BY <1>7 DEF Distinct
  <2> DEFINE At(m) == IF m < i THEN m ELSE m + 1
  <2>1. At(j) \in 1..N /\ At(l) \in 1..N /\ r[j] = s[At(j)] /\ r[l] = s[At(l)]
    BY <1>1, <1>8
  <2>2. At(j) = At(l)
    <3> HIDE DEF At
    <3> QED BY <1>1, <2>1 DEF Distinct
  <2> QED BY <1>1, <2>2
<1>10. ASSUME NEW x
       PROVE  (\E j \in 1..N-1 : r[j] = x) <=> x # s[i] /\ \E j \in 1..N : s[j] = x
  <2>1. ASSUME NEW j \in 1..N-1, r[j] = x
        PROVE  x # s[i] /\ \E l \in 1..N : s[l] = x
    <3>1. CASE j < i
      BY <1>1, <1>8, <2>1, <3>1 DEF Distinct
    <3>2. CASE ~(j < i)
      <4>1. j + 1 \in 1..N /\ j + 1 # i /\ s[j + 1] = x
        BY <1>1, <1>8, <2>1, <3>2
      <4> QED BY <1>1, <4>1 DEF Distinct
    <3> QED BY <3>1, <3>2
  <2>2. ASSUME NEW l \in 1..N, s[l] = x, x # s[i]
        PROVE  \E j \in 1..N-1 : r[j] = x
    <3>1. CASE l < i
      <4>1. l \in 1..N-1 /\ r[l] = x
        BY <1>1, <1>8, <2>2, <3>1
      <4> QED BY <4>1
    <3>2. CASE ~(l < i)
      <4>1. l # i
        BY <2>2
      <4>2. l - 1 \in 1..N-1 /\ ~(l - 1 < i) /\ (l - 1) + 1 = l
        BY <1>1, <3>2, <4>1
      <4>3. r[l - 1] = x
        BY <1>8, <2>2, <4>2
      <4> QED BY <4>2, <4>3
    <3> QED BY <3>1, <3>2
  <2> QED BY <2>1, <2>2
<1> QED BY <1>1, <1>2, <1>6, <1>7, <1>8, <1>9, <1>10 DEF N, IsWithout

-----------------------------------------------------------------------------
(* The blocks in use. *)

Places(sendq) == UNION {{q} \X DOMAIN sendq[q] : q \in ProcId}

Short(sendq) ==
  sendq \in [ProcId -> Seq(Data)] /\ \A q \in ProcId : Len(sendq[q]) <= BlockChainLen

\* Chains that are short have finitely many places.
LEMMA PlacesFinite ==
  ASSUME NEW sendq, Short(sendq)
  PROVE  IsFiniteSet(Places(sendq)) /\ Cardinality(Places(sendq)) \in Nat
<1>1. IsFiniteSet(ProcId)
  BY NetAssumption, FS_AddElement DEF ProcId, Proc
<1>2. IsFiniteSet(1..BlockChainLen)
  BY Bounds, FS_Interval
<1>3. IsFiniteSet(ProcId \X (1..BlockChainLen))
  BY <1>1, <1>2, FS_Product
<1>4. \A q \in ProcId : DOMAIN sendq[q] \subseteq 1..BlockChainLen
  <2> TAKE q \in ProcId
  <2>1. Len(sendq[q]) \in Nat /\ DOMAIN sendq[q] = 1..Len(sendq[q]) /\ Len(sendq[q]) <= BlockChainLen
    BY LenProperties DEF Short
  <2> QED BY <2>1, Bounds
<1>5. Places(sendq) \subseteq ProcId \X (1..BlockChainLen)
  BY <1>4 DEF Places
<1> QED BY <1>3, <1>5, FS_Subset, FS_CardinalityType

\* The blocks in use are those of the receive chain and of the places.
LEMMA UsedIs ==
  ASSUME NEW e, Short(e.sendq), e.recvq \in Seq(Data)
  PROVE  /\ Used(e) = Len(e.recvq) + Cardinality(Places(e.sendq))
         /\ Len(e.recvq) \in Nat /\ Cardinality(Places(e.sendq)) \in Nat /\ Used(e) \in Nat
<1>1. Used(e) = Len(e.recvq) + Cardinality(Places(e.sendq))
  BY DEF Used, Places
<1>2. Len(e.recvq) \in Nat
  BY LenProperties
<1>3. Cardinality(Places(e.sendq)) \in Nat
  BY PlacesFinite
<1> QED BY <1>1, <1>2, <1>3

\* Shorter chains need fewer blocks.
LEMMA PlacesShrink ==
  ASSUME NEW a, NEW b, Short(a), Short(b), \A q \in ProcId : Len(b[q]) <= Len(a[q])
  PROVE  Cardinality(Places(b)) <= Cardinality(Places(a))
<1>1. \A q \in ProcId : DOMAIN b[q] \subseteq DOMAIN a[q]
  <2> TAKE q \in ProcId
  <2>1. /\ Len(a[q]) \in Nat /\ DOMAIN a[q] = 1..Len(a[q])
        /\ Len(b[q]) \in Nat /\ DOMAIN b[q] = 1..Len(b[q])
    BY LenProperties DEF Short
  <2> QED BY <2>1
<1>2. Places(b) \subseteq Places(a)
  BY <1>1 DEF Places
<1> QED BY <1>2, PlacesFinite, FS_Subset

\* A package needs one block more.
LEMMA PlacesGrow ==
  ASSUME NEW a, Short(a), NEW q \in ProcId, NEW x \in Data, Len(a[q]) < BlockChainLen
  PROVE  LET b == [a EXCEPT ![q] = Append(@, x)]
         IN  /\ Short(b)
             /\ Cardinality(Places(b)) = Cardinality(Places(a)) + 1
<1> DEFINE b == [a EXCEPT ![q] = Append(@, x)]
           L == Len(a[q])
<1>1. /\ a \in [ProcId -> Seq(Data)] /\ \A r \in ProcId : Len(a[r]) <= BlockChainLen
      /\ L \in Nat /\ DOMAIN a[q] = 1..L
  BY LenProperties DEF Short
<1>2. /\ b \in [ProcId -> Seq(Data)] /\ Len(b[q]) = L + 1 /\ DOMAIN b[q] = 1..L+1
      /\ \A r \in ProcId : r # q => b[r] = a[r]
  BY <1>1, AppendProperties, LenProperties
<1> HIDE DEF b, L
<1>3. Short(b)
  <2> SUFFICES ASSUME NEW r \in ProcId PROVE Len(b[r]) <= BlockChainLen
    BY <1>2 DEF Short
  <2>1. CASE r = q
    BY <1>1, <1>2, <2>1, Bounds DEF L
  <2>2. CASE r # q
    BY <1>1, <1>2, <2>2
  <2> QED BY <2>1, <2>2
<1>4. DOMAIN b[q] = DOMAIN a[q] \cup {L + 1} /\ L + 1 \notin DOMAIN a[q]
  BY <1>1, <1>2
<1>5. Places(b) = Places(a) \cup {<<q, L + 1>>}
  <2>1. ASSUME NEW z \in Places(b)
        PROVE  z \in Places(a) \cup {<<q, L + 1>>}
    <3>1. PICK r \in ProcId : z \in {r} \X DOMAIN b[r]
      BY DEF Places
    <3>2. CASE r = q
      <4>1. z[1] = q /\ z = <<z[1], z[2]>> /\ z[2] \in DOMAIN a[q] \cup {L + 1}
        BY <1>4, <3>1, <3>2
      <4>2. z[2] \in DOMAIN a[q] => z \in {q} \X DOMAIN a[q]
        BY <4>1
      <4> QED BY <4>1, <4>2 DEF Places
    <3>3. CASE r # q
      BY <1>2, <3>1, <3>3 DEF Places
    <3> QED BY <3>2, <3>3
  <2>2. ASSUME NEW z \in Places(a)
        PROVE  z \in Places(b)
    <3>1. PICK r \in ProcId : z \in {r} \X DOMAIN a[r]
      BY DEF Places
    <3>2. DOMAIN a[r] \subseteq DOMAIN b[r]
      BY <1>2, <1>4
    <3>3. z \in {r} \X DOMAIN b[r]
      BY <3>1, <3>2
    <3> QED BY <3>3 DEF Places
  <2>3. <<q, L + 1>> \in {q} \X DOMAIN b[q]
    BY <1>4
  <2>4. <<q, L + 1>> \in Places(b)
    BY <2>3 DEF Places
  <2> QED BY <2>1, <2>2, <2>4
<1>6. <<q, L + 1>> \notin Places(a)
  <2> SUFFICES ASSUME <<q, L + 1>> \in Places(a) PROVE FALSE
    OBVIOUS
  <2>1. PICK r \in ProcId : <<q, L + 1>> \in {r} \X DOMAIN a[r]
    BY DEF Places
  <2>2. r = q /\ L + 1 \in DOMAIN a[q]
    BY <2>1
  <2> QED BY <1>4, <2>2
<1>7. IsFiniteSet(Places(a))
  BY PlacesFinite
<1>8. Cardinality(Places(b)) = Cardinality(Places(a)) + 1
  BY <1>5, <1>6, <1>7, FS_AddElement
<1> QED BY <1>3, <1>8 DEF b

-----------------------------------------------------------------------------
(* Views. *)

\* The types of what a view shows.
LEMMA ViewFields ==
  ASSUME NEW v \in ViewType
  PROVE  /\ v.ep \in Endpoint /\ v.conn \in [Conn -> Connection]
         /\ v.handled \in [Proc -> Seq(Pkg)] /\ v.left \in Left
         /\ v.moved \in Int /\ v.dealt \in Int
         /\ v.ep.nodes \in [Conn -> Node] /\ v.ep.used \in Seq(Conn)
         /\ v.ep.nodeidx \in [ProcId -> Conn \cup {NoConn}]
         /\ v.ep.sendq \in [ProcId -> Seq(Data)] /\ v.ep.recvq \in Seq(Data)
  BY DEF ViewType, Endpoint

\* What is known of an open node.
LEMMA OpenFacts ==
  ASSUME NEW p \in Proc, NEW es, NEW v, ViewInv(v, p, es), NEW k \in Conn, IsOpen(v.ep, k)
  PROVE  LET n  == v.ep.nodes[k]
             cn == v.conn[k]
         IN  /\ n \in OpenNode /\ cn \in Connection /\ p \in cn.open
             /\ LinkInv(NodesAt(v, p, es, k), cn) /\ NodesAt(v, p, es, k)[p] = n
             /\ NodeInv(n, cn, p)
             /\ Peer(cn, p) \in Proc /\ Peer(cn, p) # p
             /\ \A q \in Proc : cn.wire[q] \in Seq(Pkg)
             /\ \A q \in Proc : cn.wire[q] \in Seq(For(q)) /\ Len(cn.wire[q]) <= WireNum
<1> DEFINE n  == v.ep.nodes[k]
           cn == v.conn[k]
           ns == NodesAt(v, p, es, k)
<1>1. n \in OpenNode /\ n # NoNode /\ cn \in Connection
  BY ViewFields DEF ViewInv, IsOpen, Node
<1>2. LinkInv(ns, cn) /\ ns[p] = n
  BY DEF ViewInv, NodesAt
<1>3. Socketed(ns, cn, p) /\ Introduced(ns, cn, p) /\ Wires(cn)
  BY <1>2 DEF LinkInv
<1>4. p \in cn.open /\ NodeInv(n, cn, p)
  BY <1>1, <1>2, <1>3 DEF Socketed, Introduced, NodeInv
<1>5. Peer(cn, p) \in Proc /\ Peer(cn, p) # p
  BY <1>2, <1>4, EndsOf
<1>6. \A q \in Proc : /\ cn.wire[q] \in Seq(Pkg)
                      /\ cn.wire[q] \in Seq(For(q)) /\ Len(cn.wire[q]) <= WireNum
  BY <1>1, <1>3 DEF Connection, Wires
<1> QED BY <1>1, <1>2, <1>4, <1>5, <1>6

\* The chains may change if they still fit.
LEMMA LocalStep ==
  ASSUME NEW p \in Proc, NEW e, LocalInv(e, p), NEW f \in Endpoint, NEW k \in Conn, IsOpen(e, k),
         NEW n \in OpenNode, n.procid = e.nodes[k].procid,
         p \in Server /\ n.status \in {"Connected", "Stop"}
           => e.nodes[k].status \in {"Connected", "Stop"},
         f.nodes = [e.nodes EXCEPT ![k] = n], f.used = e.used, f.nodeidx = e.nodeidx,
         Sized(f), Sorted(f, p)
  PROVE  LocalInv(f, p) /\ \A j \in Conn : IsOpen(f, j) <=> IsOpen(e, j)
<1>1. e.nodes \in [Conn -> Node] /\ n # NoNode /\ e.nodes[k] # NoNode
  BY DEF LocalInv, Endpoint, OpenNode, NoNode, IsOpen
<1>2. f.nodes[k] = n /\ \A j \in Conn : j # k => f.nodes[j] = e.nodes[j]
  BY <1>1
<1>3. \A j \in Conn : IsOpen(f, j) <=> IsOpen(e, j)
  BY <1>1, <1>2 DEF IsOpen
<1>4. \A j \in Conn : f.nodes[j] # NoNode => f.nodes[j].procid = e.nodes[j].procid
  BY <1>2
<1>5. Listed(f)
  BY <1>3 DEF LocalInv, Listed
<1>6. Indexed(f, p)
  <2>1. \A q \in ProcId : e.nodeidx[q] \in Conn \cup {NoConn}
    BY DEF LocalInv, Endpoint
  <2>2. \A q \in ProcId : e.nodeidx[q] # NoConn =>
          IsOpen(f, e.nodeidx[q]) /\ f.nodes[e.nodeidx[q]].procid = q
    <3> TAKE q \in ProcId
    <3> HAVE e.nodeidx[q] # NoConn
    <3>1. e.nodeidx[q] \in Conn /\ IsOpen(e, e.nodeidx[q]) /\ e.nodes[e.nodeidx[q]].procid = q
      BY <2>1 DEF LocalInv, Indexed
    <3> QED BY <1>3, <1>4, <3>1 DEF IsOpen
  <2>3. ASSUME NEW j \in Conn, IsOpen(f, j), InIndex(f, p, j)
        PROVE  e.nodeidx[f.nodes[j].procid] = j
    <3>1. InIndex(e, p, j)
      <4>1. p \in Proc /\ (p \notin Client => p \in Server)
        BY DEF Proc
      <4> QED BY <1>2, <2>3, <4>1 DEF InIndex
    <3>2. IsOpen(e, j) /\ f.nodes[j].procid = e.nodes[j].procid
      BY <1>3, <1>4, <2>3 DEF IsOpen
    <3> QED BY <3>1, <3>2 DEF LocalInv, Indexed
  <2> QED BY <2>2, <2>3 DEF LocalInv, Indexed
<1> QED BY <1>3, <1>5, <1>6 DEF LocalInv

\* A step of p at one of its nodes, as far as it is on its connection.
LEMMA LinksStep ==
  ASSUME NEW p \in Proc, NEW es, NEW v, ViewInv(v, p, es), NEW k \in Conn,
         NEW w \in ViewType, NEW n \in Node, NEW dn,
         w.ep.nodes = [v.ep.nodes EXCEPT ![k] = n],
         w.conn = [v.conn EXCEPT ![k] = dn],
         LinkInv([NodesAt(v, p, es, k) EXCEPT ![p] = n], dn)
  PROVE  \A j \in Conn : LinkInv(NodesAt(w, p, es, j), w.conn[j])
<1>1. v.ep.nodes \in [Conn -> Node] /\ v.conn \in [Conn -> Connection]
  BY ViewFields DEF ViewInv
<1> SUFFICES ASSUME NEW j \in Conn PROVE LinkInv(NodesAt(w, p, es, j), w.conn[j])
  OBVIOUS
<1>2. CASE j = k
  <2>1. w.conn[j] = dn /\ w.ep.nodes[j] = n
    BY <1>1, <1>2
  <2>2. NodesAt(w, p, es, j) = [NodesAt(v, p, es, k) EXCEPT ![p] = n]
    BY <1>2, <2>1 DEF NodesAt
  <2> QED BY <2>1, <2>2
<1>3. CASE j # k
  <2>1. w.conn[j] = v.conn[j] /\ w.ep.nodes[j] = v.ep.nodes[j]
    BY <1>1, <1>3
  <2>2. NodesAt(w, p, es, j) = NodesAt(v, p, es, j)
    BY <2>1 DEF NodesAt
  <2> QED BY <2>1, <2>2 DEF ViewInv
<1> QED BY <1>2, <1>3

-----------------------------------------------------------------------------
(* The account of a view. *)

\* What the places hold in the view v of p.
LEMMA StockOfIs ==
  ASSUME NEW p \in Proc, NEW es, NEW v
  PROVE  LET F == StockOf(v, p, es)
         IN  /\ \A q \in Proc : F[InHandled(q)] = v.handled[q]
             /\ F[InRecvq(p)] = v.ep.recvq
             /\ \A r \in ProcId : F[InSendq(p, r)] = v.ep.sendq[r]
             /\ \A k \in Conn : /\ F[InRecvbuf(p, k)] = RecvBufOf(v.ep, k)
                                /\ F[InSendbuf(p, k)] = SendBufOf(v.ep, k)
             /\ \A q \in Proc, k \in Conn : F[InWire(q, k)] = v.conn[k].wire[q]
             /\ \A q \in Proc : q # p =>
                  /\ F[InRecvq(q)] = es[q].recvq
                  /\ \A r \in ProcId : F[InSendq(q, r)] = es[q].sendq[r]
                  /\ \A k \in Conn : /\ F[InRecvbuf(q, k)] = RecvBufOf(es[q], k)
                                     /\ F[InSendbuf(q, k)] = SendBufOf(es[q], k)
<1> DEFINE E == Eps(v, p, es)
           F == StockOf(v, p, es)
<1>1. E[p] = v.ep /\ \A q \in Proc : q # p => E[q] = es[q]
  BY DEF Eps
<1>2. F = Stock(E, v.conn, v.handled)
  BY DEF StockOf
<1> HIDE DEF E, F
<1>3. /\ \A q \in Proc : F[InHandled(q)] = v.handled[q] /\ F[InRecvq(q)] = E[q].recvq
      /\ \A q \in Proc, r \in ProcId : F[InSendq(q, r)] = E[q].sendq[r]
      /\ \A q \in Proc, k \in Conn :
           /\ F[InRecvbuf(q, k)] = RecvBufOf(E[q], k)
           /\ F[InWire(q, k)] = v.conn[k].wire[q]
           /\ F[InSendbuf(q, k)] = SendBufOf(E[q], k)
  BY <1>2, StockIs
<1> QED BY <1>1, <1>3 DEF F

\* What an endpoint holds has the right type.
LEMMA BufTypes ==
  ASSUME NEW e, e.nodes \in [Conn -> Node], NEW k \in Conn
  PROVE  RecvBufOf(e, k) \in Seq(Pkg) /\ SendBufOf(e, k) \in Seq(Pkg)
<1>1. Data \subseteq Pkg
  BY DEF Data
<1>2. CASE IsOpen(e, k)
  <2>1. e.nodes[k].recvbuf \in Seq(Pkg) /\ e.nodes[k].sendbuf \in Seq(Data)
    BY <1>2 DEF IsOpen, Node, OpenNode
  <2> QED BY <1>1, <1>2, <2>1, SeqMonotonic DEF RecvBufOf, SendBufOf
<1>3. CASE ~IsOpen(e, k)
  BY <1>3, EmptySeq DEF RecvBufOf, SendBufOf
<1> QED BY <1>2, <1>3

\* The contents of a view's places have the type of contents.
LEMMA StockTyped ==
  ASSUME NEW p \in Proc, NEW es, NEW v, StockOf(v, p, es) \in Contents, NEW w \in ViewType
  PROVE  StockOf(w, p, es) \in Contents
<1> DEFINE F == StockOf(v, p, es)
           G == StockOf(w, p, es)
<1>1. \A c \in Place : F[c] \in Seq(Pkg)
  BY DEF Contents
<1>2. Data \subseteq Pkg
  BY DEF Data
<1>3. /\ w.ep.nodes \in [Conn -> Node]
      /\ \A q \in Proc : w.handled[q] \in Seq(Pkg)
      /\ w.ep.recvq \in Seq(Pkg)
      /\ \A r \in ProcId : w.ep.sendq[r] \in Seq(Pkg)
      /\ \A k \in Conn, q \in Proc : w.conn[k].wire[q] \in Seq(Pkg)
  <2>1. /\ w.ep.nodes \in [Conn -> Node] /\ w.handled \in [Proc -> Seq(Pkg)]
        /\ w.ep.recvq \in Seq(Data) /\ w.ep.sendq \in [ProcId -> Seq(Data)]
        /\ w.conn \in [Conn -> Connection]
    BY ViewFields
  <2> QED BY <1>2, <2>1, SeqMonotonic DEF Connection
<1>4. ASSUME NEW c \in Place, c.of # p, c.at # "handled", c.at # "wire"
      PROVE  G[c] = F[c]
  <2>1. c.of \in Proc
    BY PlaceIs
  <2>2. CASE c = InRecvq(c.of)
    BY <1>4, <2>1, <2>2, StockOfIs
  <2>3. CASE c.by \in ProcId /\ c = InSendq(c.of, c.by)
    BY <1>4, <2>1, <2>3, StockOfIs
  <2>4. CASE c.by \in Conn /\ c = InRecvbuf(c.of, c.by)
    BY <1>4, <2>1, <2>4, StockOfIs
  <2>5. CASE c.by \in Conn /\ c = InSendbuf(c.of, c.by)
    BY <1>4, <2>1, <2>5, StockOfIs
  <2> QED BY <1>4, <2>2, <2>3, <2>4, <2>5, PlaceIs DEF InHandled, InWire
<1>5. ASSUME NEW c \in Place
      PROVE  G[c] \in Seq(Pkg)
  <2>1. c.of \in Proc
    BY PlaceIs
  <2>2. CASE c = InHandled(c.of)
    BY <1>3, <2>1, <2>2, StockOfIs
  <2>3. CASE c.by \in Conn /\ c = InWire(c.of, c.by)
    BY <1>3, <2>1, <2>3, StockOfIs
  <2>4. CASE c.of = p /\ c = InRecvq(p)
    BY <1>3, <2>4, StockOfIs
  <2>5. CASE c.of = p /\ c.by \in ProcId /\ c = InSendq(p, c.by)
    BY <1>3, <2>5, StockOfIs
  <2>6. CASE c.of = p /\ c.by \in Conn /\ (c = InRecvbuf(p, c.by) \/ c = InSendbuf(p, c.by))
    <3>1. RecvBufOf(w.ep, c.by) \in Seq(Pkg) /\ SendBufOf(w.ep, c.by) \in Seq(Pkg)
      BY <1>3, <2>6, BufTypes
    <3> QED BY <2>6, <3>1, StockOfIs
  <2>7. CASE c.of # p /\ c.at # "handled" /\ c.at # "wire"
    BY <1>1, <1>4, <2>7
  <2> QED BY <2>2, <2>3, <2>4, <2>5, <2>6, <2>7, PlaceIs DEF InHandled, InRecvq, InSendq, InRecvbuf, InWire, InSendbuf
<1> QED BY <1>5 DEF StockOf, Stock, Contents

\* Two views of p differ at most at the places X.
Same(v, w, p, X) ==
  /\ \A q \in Proc : InHandled(q) \in X \/ w.handled[q] = v.handled[q]
  /\ InRecvq(p) \in X \/ w.ep.recvq = v.ep.recvq
  /\ \A r \in ProcId : InSendq(p, r) \in X \/ w.ep.sendq[r] = v.ep.sendq[r]
  /\ \A k \in Conn : /\ InRecvbuf(p, k) \in X \/ RecvBufOf(w.ep, k) = RecvBufOf(v.ep, k)
                     /\ InSendbuf(p, k) \in X \/ SendBufOf(w.ep, k) = SendBufOf(v.ep, k)
  /\ \A q \in Proc, k \in Conn : InWire(q, k) \in X \/ w.conn[k].wire[q] = v.conn[k].wire[q]

\* A step that changes the messages of the places in X only leaves the
\* contents of the others.
LEMMA SameStock ==
  ASSUME NEW p \in Proc, NEW es, NEW v, NEW w, NEW X, Same(v, w, p, X)
  PROVE  \A c \in Place : c \notin X => StockOf(w, p, es)[c] = StockOf(v, p, es)[c]
<1> DEFINE F == StockOf(v, p, es)
           G == StockOf(w, p, es)
<1> SUFFICES ASSUME NEW c \in Place, c \notin X PROVE G[c] = F[c]
  OBVIOUS
<1>1. c.of \in Proc
  BY PlaceIs
<1>2. CASE c = InHandled(c.of)
  BY <1>1, <1>2, StockOfIs DEF Same
<1>3. CASE c = InRecvq(c.of)
  BY <1>1, <1>3, StockOfIs DEF Same
<1>4. CASE c.by \in ProcId /\ c = InSendq(c.of, c.by)
  BY <1>1, <1>4, StockOfIs DEF Same
<1>5. CASE c.by \in Conn /\ c = InRecvbuf(c.of, c.by)
  BY <1>1, <1>5, StockOfIs DEF Same
<1>6. CASE c.by \in Conn /\ c = InSendbuf(c.of, c.by)
  BY <1>1, <1>6, StockOfIs DEF Same
<1>7. CASE c.by \in Conn /\ c = InWire(c.of, c.by)
  BY <1>1, <1>7, StockOfIs DEF Same
<1> QED BY <1>2, <1>3, <1>4, <1>5, <1>6, <1>7, PlaceIs

\* A step that takes messages away, and swaps the ends of a connection only where no
\* buffer has something to send.
LEMMA AccountLess ==
  ASSUME NEW p \in Proc, NEW es, NEW v, AccountOf(v, p, es), NEW w \in ViewType,
         w.left.refusals = v.left.refusals,
         \A a \in Place : Part(StockOf(w, p, es)[a], StockOf(v, p, es)[a]),
         \A k \in Conn : \/ /\ w.conn[k].client = v.conn[k].client
                            /\ w.conn[k].server = v.conn[k].server
                         \/ \A q \in Proc : StockOf(w, p, es)[InSendbuf(q, k)] = <<>>
  PROVE  AccountOf(w, p, es)
<1> DEFINE F == StockOf(v, p, es)
           G == StockOf(w, p, es)
           R == v.left.refusals
<1>1. /\ F \in Contents /\ Once(F) /\ Counted(F, sent) /\ Own(F)
      /\ R <= MaxLeft.refusals
      /\ R = MaxLeft.refusals => Ordered(F, v.conn)
  BY DEF AccountOf, Account
<1>2. G \in Contents
  BY <1>1, StockTyped
<1>3. \A a \in Place : Part(G[a], F[a])
  OBVIOUS
<1>4. ASSUME NEW k \in Conn, NEW q \in Proc
      PROVE  (\A x : Peer(w.conn[k], x) = Peer(v.conn[k], x)) \/ G[InSendbuf(q, k)] = <<>>
  BY DEF Peer
<1>5. \A x : NoneOf(<<>>, x)
  BY PartSame, EmptySeq, LenProperties DEF NoneOf
<1> HIDE DEF F, G
<1>6. ASSUME NEW x, NEW y, NEW a \in Place
      PROVE  Stage(w.conn, x, y)[a] = Stage(v.conn, x, y)[a] \/ NoneOf(G[a], x)
  <2>1. CASE a.at = "sendbuf"
    <3>1. a.by \in Conn /\ a.of \in Proc /\ a = InSendbuf(a.of, a.by)
      BY <2>1, PlaceIs DEF InHandled, InRecvq, InSendq, InRecvbuf, InWire
    <3>2. CASE \A z : Peer(w.conn[a.by], z) = Peer(v.conn[a.by], z)
      BY <3>2 DEF Stage
    <3>3. CASE G[InSendbuf(a.of, a.by)] = <<>>
      BY <1>5, <3>1, <3>3
    <3> QED BY <1>4, <3>1, <3>2, <3>3
  <2>2. CASE a.at # "sendbuf"
    BY <2>2 DEF Stage
  <2> QED BY <2>1, <2>2
<1>7. Once(G) /\ Counted(G, sent) /\ Own(G)
  BY <1>1, <1>2, <1>3, ShrinkKeeps
<1>8. ASSUME NEW x, NEW y, Aged(F, Stage(v.conn, x, y), x)
      PROVE  Aged(G, Stage(w.conn, x, y), x)
  BY <1>1, <1>2, <1>3, <1>6, <1>8, ShrinkKeeps
<1>9. R = MaxLeft.refusals => Ordered(G, w.conn)
  BY <1>1, <1>8 DEF Ordered
<1> QED BY <1>1, <1>2, <1>7, <1>9 DEF AccountOf, Account, F, G

\* Messages go the way of the stages.
FlowsDown(F, cs, a, b) ==
  \A x, y \in Proc : (x \in Client /\ y \in Server) \/ (x \in Server /\ y \in Client) =>
    Downhill(F, Stage(cs, x, y), x, a, b)

SamePeers(v, w) ==
  \A k \in Conn : w.conn[k].client = v.conn[k].client /\ w.conn[k].server = v.conn[k].server

\* A flow of messages from a place to a later one keeps the account of
\* messages.
LEMMA AccountFlow ==
  ASSUME NEW p \in Proc, NEW es, NEW v, AccountOf(v, p, es), NEW w \in ViewType,
         w.left.refusals = v.left.refusals, SamePeers(v, w),
         NEW a \in Place, NEW b \in Place, a # b, b.at # "sendq", NEW n, NEW s,
         Flow(StockOf(v, p, es), StockOf(w, p, es), a, b, n, s),
         FlowsDown(StockOf(v, p, es), v.conn, a, b)
  PROVE  AccountOf(w, p, es) /\ Moves(StockOf(v, p, es), StockOf(w, p, es))
<1> DEFINE F == StockOf(v, p, es)
           G == StockOf(w, p, es)
           R == v.left.refusals
<1>1. /\ F \in Contents /\ Once(F) /\ Counted(F, sent) /\ Own(F)
      /\ R <= MaxLeft.refusals
      /\ R = MaxLeft.refusals => Ordered(F, v.conn)
  BY DEF AccountOf, Account
<1>2. G \in Contents
  BY <1>1, StockTyped
<1>3. Flow(F, G, a, b, n, s) /\ FlowsDown(F, v.conn, a, b)
  OBVIOUS
<1> HIDE DEF F, G
<1>4. \A x, y : Stage(w.conn, x, y) = Stage(v.conn, x, y)
  <2> TAKE x, y
  <2>1. \A k \in Conn : Peer(w.conn[k], x) = Peer(v.conn[k], x)
    BY DEF SamePeers, Peer
  <2>2. ASSUME NEW c \in Place, c.at = "sendbuf"
        PROVE  c.by \in Conn
    BY <2>2, PlaceIs DEF InHandled, InRecvq, InSendq, InRecvbuf, InWire
  <2> QED BY <2>1, <2>2 DEF Stage
<1>5. Once(G) /\ Counted(G, sent) /\ Own(G)
  BY <1>1, <1>2, <1>3, FlowKeeps
<1>6. ASSUME NEW x \in Proc, NEW y \in Proc, Aged(F, Stage(v.conn, x, y), x),
             (x \in Client /\ y \in Server) \/ (x \in Server /\ y \in Client)
      PROVE  Aged(G, Stage(w.conn, x, y), x)
  <2>1. Downhill(F, Stage(v.conn, x, y), x, a, b)
    BY <1>3, <1>6 DEF FlowsDown
  <2>2. Stage(v.conn, x, y) \in [Place -> Nat]
    BY StageIs
  <2>3. Aged(G, Stage(v.conn, x, y), x)
    BY <1>1, <1>2, <1>3, <1>6, <2>1, <2>2, FlowKeeps
  <2> QED BY <1>4, <2>3
<1>7. R = MaxLeft.refusals => Ordered(G, w.conn)
  BY <1>1, <1>6 DEF Ordered, Proc
<1>8. Moves(F, G)
  BY <1>1, <1>3, MovesFlow
<1> QED BY <1>1, <1>2, <1>5, <1>7, <1>8 DEF AccountOf, Account, F, G

\* A step that changes no place.
LEMMA AccountSame ==
  ASSUME NEW p \in Proc, NEW es, NEW v, AccountOf(v, p, es), NEW w \in ViewType,
         w.left.refusals = v.left.refusals, SamePeers(v, w), Same(v, w, p, {})
  PROVE  AccountOf(w, p, es) /\ Moves(StockOf(v, p, es), StockOf(w, p, es))
<1>1. \A a \in Place : StockOf(w, p, es)[a] = StockOf(v, p, es)[a]
  BY SameStock
<1>2. \A a \in Place : Part(StockOf(w, p, es)[a], StockOf(v, p, es)[a])
  BY <1>1, PartSame
<1>3. Moves(StockOf(v, p, es), StockOf(w, p, es))
  BY <1>1, WithinSame, MovesNone
<1> QED BY <1>2, <1>3, AccountLess DEF SamePeers

\* A process has one node that messages of the same peer go through.
LEMMA OneNode ==
  ASSUME NEW p \in Proc, NEW es, NEW v, ViewInv(v, p, es),
         NEW j \in Conn, NEW k \in Conn,
         Ready(v.ep.nodes[j], p), Ready(v.ep.nodes[k], p),
         Peer(v.conn[j], p) = Peer(v.conn[k], p)
  PROVE  j = k
<1>1. ASSUME NEW i \in Conn, Ready(v.ep.nodes[i], p)
      PROVE  v.ep.nodeidx[Peer(v.conn[i], p)] = i
  <2> DEFINE n == v.ep.nodes[i]
             cn == v.conn[i]
  <2>1. IsOpen(v.ep, i)
    BY <1>1 DEF Ready, IsOpen
  <2>2. /\ n \in OpenNode /\ LinkInv(NodesAt(v, p, es, i), cn) /\ NodesAt(v, p, es, i)[p] = n
        /\ p \in cn.open
    BY <2>1, OpenFacts
  <2>3. /\ Side(n, cn.wire[p], Peer(cn, p), p) /\ Introduced(NodesAt(v, p, es, i), cn, p)
    BY <2>2 DEF LinkInv
  <2>4. v.ep.nodeidx[n.procid] = i
    <3>1. InIndex(v.ep, p, i)
      BY <1>1 DEF Ready, InIndex, Proc
    <3> QED BY <2>1, <3>1 DEF ViewInv, LocalInv, Indexed
  <2>5. n.procid # NoProc
    BY <2>4, NetAssumption DEF ViewInv, LocalInv, Indexed
  <2>6. n # NoNode
    BY <1>1 DEF Ready
  <2>7. n.procid = Peer(cn, p)
    <3>1. CASE p \in Client
      BY <2>3, <2>6, <3>1 DEF Side
    <3>2. CASE p \in Server
      <4>1. n.procid = cn.client
        BY <2>2, <2>3, <2>5, <2>6, <3>2 DEF Introduced
      <4> QED BY <2>2, <3>2, <4>1, EndsOf DEF Peer
    <3> QED BY <3>1, <3>2 DEF Proc
  <2> QED BY <2>4, <2>7
<1> QED BY <1>1

\* A step of p between two buffers: at an open node, on its wires and chains.
SameLists(v, w, k) ==
  /\ w.ep.used = v.ep.used /\ w.ep.nodeidx = v.ep.nodeidx
  /\ w.ep.nodes = [v.ep.nodes EXCEPT ![k] = w.ep.nodes[k]]
  /\ w.conn = [v.conn EXCEPT ![k] = w.conn[k]]

\* Something has gone wrong from the view with l left to that with m left.
Spent(l, m) ==
  /\ m \in Left /\ m.faults <= l.faults /\ m.refusals <= l.refusals /\ m.stops <= l.stops
  /\ m # l

\* Then nothing is said of messages any more.
LEMMA KeptSpent ==
  ASSUME NEW p, NEW es, NEW v, KeptOf(v, p, es), v.left \in Left, NEW w, Spent(v.left, w.left)
  PROVE  KeptOf(w, p, es)
<1> DEFINE l == v.left
           m == w.left
<1>1. /\ l \in Left /\ m \in Left /\ m # l
      /\ m.faults <= l.faults /\ m.refusals <= l.refusals /\ m.stops <= l.stops
      /\ InLimits(l)
  BY DEF Spent, KeptOf
<1>2. MaxLeft \in Left
  BY SystemAssumption DEF Left
<1> HIDE DEF l, m
<1>3. InLimits(m)
  BY <1>1, <1>2 DEF InLimits, Left
<1>4. ASSUME m = MaxLeft
      PROVE  FALSE
  <2>1. l.faults = m.faults /\ l.refusals = m.refusals /\ l.stops = m.stops
    BY <1>1, <1>2, <1>4 DEF InLimits, Left
  <2> QED BY <1>1, <2>1 DEF Left
<1> QED BY <1>3, <1>4 DEF KeptOf, m

\* Or no message is lost by a step at connection k.
LEMMA KeptStep ==
  ASSUME NEW p, NEW es, NEW v, KeptOf(v, p, es), NEW k \in Conn, NEW w, NEW n, NEW dn,
         v.ep.nodes \in [Conn -> Node], v.conn \in [Conn -> Connection], w.left = v.left,
         w.ep.nodes = [v.ep.nodes EXCEPT ![k] = n], w.conn = [v.conn EXCEPT ![k] = dn],
         v.left = MaxLeft =>
           /\ Healthy([NodesAt(v, p, es, k) EXCEPT ![p] = n], dn)
           /\ Moves(StockOf(v, p, es), StockOf(w, p, es))
  PROVE  KeptOf(w, p, es)
<1>1. InLimits(v.left)
  BY DEF KeptOf
<1>2. ASSUME v.left = MaxLeft
      PROVE  All(StockOf(w, p, es), sent)
  BY <1>2, AllMoves DEF KeptOf
<1>3. ASSUME v.left = MaxLeft, NEW j \in Conn
      PROVE  Healthy(NodesAt(w, p, es, j), w.conn[j])
  <2>1. CASE j = k
    <3>1. w.conn[j] = dn /\ w.ep.nodes[j] = n
      BY <2>1
    <3>2. NodesAt(w, p, es, j) = [NodesAt(v, p, es, k) EXCEPT ![p] = n]
      BY <2>1, <3>1 DEF NodesAt
    <3> QED BY <1>3, <3>1, <3>2
  <2>2. CASE j # k
    <3>1. w.conn[j] = v.conn[j] /\ w.ep.nodes[j] = v.ep.nodes[j]
      BY <2>2
    <3>2. NodesAt(w, p, es, j) = NodesAt(v, p, es, j)
      BY <3>1 DEF NodesAt
    <3> QED BY <1>3, <3>1, <3>2 DEF KeptOf
  <2> QED BY <2>1, <2>2
<1> QED BY <1>1, <1>2, <1>3 DEF KeptOf

\* Nothing is lost without a fault.
Spares(v, w, p, es, k) ==
  \/ Spent(v.left, w.left)
  \/ /\ w.left = v.left
     /\ v.left = MaxLeft =>
          w.conn[k].lost = v.conn[k].lost /\ Moves(StockOf(v, p, es), StockOf(w, p, es))

\* A step on an open node that keeps the part of its process and of its connection.
LEMMA ViewStep ==
  ASSUME NEW p \in Proc, NEW es, NEW v, ViewInv(v, p, es), NEW k \in Conn, IsOpen(v.ep, k),
         NEW w \in ViewType, SameLists(v, w, k),
         Sized(w.ep), Sorted(w.ep, p), Delivered(w.handled),
         w.ep.nodes[k] \in OpenNode, w.ep.nodes[k].procid = v.ep.nodes[k].procid,
         p \in Server /\ w.ep.nodes[k].status \in {"Connected", "Stop"}
           => v.ep.nodes[k].status \in {"Connected", "Stop"},
         NodeInv(w.ep.nodes[k], v.conn[k], p), SameLink(v.conn[k], w.conn[k]),
         WireStep(v.conn[k], w.conn[k], p, w.ep.nodes[k]),
         NodeStep(v.ep.nodes[k], w.ep.nodes[k], v.conn[k], w.conn[k], p),
         Sides(w.ep.nodes[k], NodesAt(v, p, es, k)[Peer(v.conn[k], p)], w.conn[k], p),
         AccountOf(w, p, es), Spares(v, w, p, es, k)
  PROVE  ViewInv(w, p, es) /\ \A j \in Conn : IsOpen(w.ep, j) <=> IsOpen(v.ep, j)
<1> DEFINE n  == w.ep.nodes[k]
           dn == w.conn[k]
<1>1. LocalInv(v.ep, p) /\ w.ep \in Endpoint
  BY ViewFields DEF ViewInv
<1>2. LocalInv(w.ep, p) /\ \A j \in Conn : IsOpen(w.ep, j) <=> IsOpen(v.ep, j)
  BY <1>1, LocalStep DEF SameLists
<1>3. /\ LinkInv(NodesAt(v, p, es, k), v.conn[k]) /\ p \in v.conn[k].open
      /\ NodesAt(v, p, es, k)[p] = v.ep.nodes[k] /\ n \in Node
  BY OpenFacts DEF Node
<1>4. LinkInv([NodesAt(v, p, es, k) EXCEPT ![p] = n], dn)
  BY <1>3, LinkStep
<1>5. \A j \in Conn : LinkInv(NodesAt(w, p, es, j), w.conn[j])
  BY <1>3, <1>4, LinksStep DEF SameLists
<1>6. /\ v.ep.nodes \in [Conn -> Node] /\ v.conn \in [Conn -> Connection] /\ v.left \in Left
      /\ w.ep.nodes = [v.ep.nodes EXCEPT ![k] = n] /\ w.conn = [v.conn EXCEPT ![k] = dn]
      /\ KeptOf(v, p, es)
  BY ViewFields DEF ViewInv, SameLists
<1>7. KeptOf(w, p, es)
  <2>1. CASE Spent(v.left, w.left)
    BY <1>6, <2>1, KeptSpent
  <2>2. CASE ~Spent(v.left, w.left)
    <3>1. w.left = v.left
      BY <2>2 DEF Spares
    <3>2. ASSUME v.left = MaxLeft
          PROVE  /\ Healthy([NodesAt(v, p, es, k) EXCEPT ![p] = n], dn)
                 /\ Moves(StockOf(v, p, es), StockOf(w, p, es))
      <4>1. /\ dn.lost = v.conn[k].lost /\ Moves(StockOf(v, p, es), StockOf(w, p, es))
            /\ Healthy(NodesAt(v, p, es, k), v.conn[k])
        BY <1>6, <2>2, <3>2 DEF Spares, KeptOf
      <4> QED BY <1>3, <4>1, HealthyStep
    <3> QED BY <1>6, <3>1, <3>2, KeptStep
  <2> QED BY <2>1, <2>2
<1> QED BY <1>2, <1>5, <1>7 DEF ViewInv

-----------------------------------------------------------------------------
(* Receiving. *)

\* What the two pieces of a list say, the list says.
LEMMA CutSays ==
  ASSUME NEW s \in Seq(Pkg), NEW n \in 0..Len(s)
  PROVE  LET a == SubSeq(s, 1, n)
             b == SubSeq(s, n + 1, Len(s))
         IN  /\ HasShake(a) => HasShake(s)
             /\ HasShake(b) => HasShake(s)
             /\ HasMsg(a) \/ HasMsg(b) => HasMsg(s)
             /\ \A x : From(s, x) => From(a, x) /\ From(b, x)
             /\ OneShake(s) => OneShake(a) /\ OneShake(b) /\ ~(HasShake(a) /\ HasShake(b))
<1> DEFINE a == SubSeq(s, 1, n)
           b == SubSeq(s, n + 1, Len(s))
           N == Len(s)
<1>1. N \in Nat /\ DOMAIN s = 1..N /\ n \in Nat /\ n <= N
  BY LenProperties
<1>2. DOMAIN a = 1..n /\ \A i \in 1..n : a[i] = s[i]
  BY PrefixSeq, LenProperties
<1>3. DOMAIN b = 1..N-n /\ \A i \in 1..N-n : b[i] = s[n + i]
  BY SuffixSeq, LenProperties
<1>4. /\ \A i \in 1..n : i \in 1..N
      /\ \A i \in 1..N-n : n + i \in 1..N
  BY <1>1
<1> HIDE DEF a, b, N
<1>5. HasShake(a) => HasShake(s)
  BY <1>1, <1>2, <1>4 DEF HasShake
<1>6. HasShake(b) => HasShake(s)
  BY <1>1, <1>3, <1>4 DEF HasShake
<1>7. HasMsg(a) \/ HasMsg(b) => HasMsg(s)
  BY <1>1, <1>2, <1>3, <1>4 DEF HasMsg
<1>8. \A x : From(s, x) => From(a, x) /\ From(b, x)
  BY <1>1, <1>2, <1>3, <1>4 DEF From
<1>9. OneShake(s) => OneShake(a)
  BY <1>1, <1>2, <1>4 DEF OneShake
<1>10. OneShake(s) => OneShake(b)
  <2> SUFFICES ASSUME OneShake(s), NEW i \in 1..N-n, NEW j \in 1..N-n,
                      b[i].type = "Shake", b[j].type = "Shake"
               PROVE  i = j
    BY <1>3 DEF OneShake
  <2>1. n + i = n + j
    BY <1>1, <1>3, <1>4 DEF OneShake
  <2> QED BY <1>1, <2>1
<1>11. OneShake(s) => ~(HasShake(a) /\ HasShake(b))
  <2> SUFFICES ASSUME OneShake(s), NEW i \in 1..n, NEW j \in 1..N-n,
                      a[i].type = "Shake", b[j].type = "Shake"
               PROVE  FALSE
    BY <1>2, <1>3 DEF HasShake
  <2>1. i = n + j
    BY <1>1, <1>2, <1>3, <1>4 DEF OneShake
  <2> QED BY <1>1, <2>1
<1> QED BY <1>5, <1>6, <1>7, <1>8, <1>9, <1>10, <1>11 DEF a, b, N

\* What a list put together from two says, one of them says.
LEMMA JoinSays ==
  ASSUME NEW a \in Seq(Pkg), NEW b \in Seq(Pkg)
  PROVE  LET s == a \o b
         IN  /\ HasShake(s) => HasShake(a) \/ HasShake(b)
             /\ HasMsg(s) => HasMsg(a) \/ HasMsg(b)
             /\ (\A x : From(a, x) /\ From(b, x) => From(s, x))
             /\ OneShake(a) /\ OneShake(b) /\ ~(HasShake(a) /\ HasShake(b)) => OneShake(s)
<1> DEFINE s == a \o b
           L == Len(a)
           M == Len(b)
<1>1. /\ DOMAIN a = 1..L /\ DOMAIN b = 1..M /\ L \in Nat /\ M \in Nat /\ DOMAIN s = 1..L+M
      /\ \A i \in 1..L+M : s[i] = IF i <= L THEN a[i] ELSE b[i - L]
  BY ConcatProperties, LenProperties
<1> HIDE DEF s, L, M
<1>2. \A i \in DOMAIN s : /\ i <= L => i \in DOMAIN a /\ s[i] = a[i]
                          /\ ~(i <= L) => i - L \in DOMAIN b /\ s[i] = b[i - L]
  BY <1>1
<1>3. HasShake(s) => HasShake(a) \/ HasShake(b)
  BY <1>2 DEF HasShake
<1>4. HasMsg(s) => HasMsg(a) \/ HasMsg(b)
  BY <1>2 DEF HasMsg
<1>5. \A x : From(a, x) /\ From(b, x) => From(s, x)
  BY <1>2 DEF From
<1>6. ASSUME OneShake(a), OneShake(b), ~(HasShake(a) /\ HasShake(b))
      PROVE  OneShake(s)
  <2> SUFFICES ASSUME NEW i \in DOMAIN s, NEW j \in DOMAIN s,
                      s[i].type = "Shake", s[j].type = "Shake"
               PROVE  i = j
    BY DEF OneShake
  <2>1. CASE i <= L /\ j <= L
    BY <1>2, <1>6, <2>1 DEF OneShake
  <2>2. CASE ~(i <= L) /\ ~(j <= L)
    <3>1. i - L = j - L
      BY <1>2, <1>6, <2>2 DEF OneShake
    <3> QED BY <1>1, <3>1
  <2>3. CASE (i <= L) # (j <= L)
    BY <1>2, <1>6, <2>3 DEF HasShake
  <2> QED BY <2>1, <2>2, <2>3
<1> QED BY <1>3, <1>4, <1>5, <1>6 DEF s

\* What one end of a connection has is the other end's concern only where it goes.
LEMMA OwnSide ==
  ASSUME NEW ns, NEW cn, LinkInv(ns, cn), NEW p \in cn.open, NEW dn, SameLink(cn, dn)
  PROVE  LET o == Peer(cn, p)
         IN  /\ Side(ns[p], cn.wire[p], o, p) /\ Side(ns[o], cn.wire[o], p, o)
             /\ \A n : Side(n, dn.wire[p], o, p) /\ Side(ns[o], dn.wire[o], p, o)
                         => Sides(n, ns[o], dn, p)
<1>1. p \in Proc /\ Peer(cn, p) \in Proc /\ Peer(cn, Peer(cn, p)) = p
  BY EndsOf
<1>2. \A q : Peer(dn, q) = Peer(cn, q)
  BY DEF SameLink, Peer
<1>3. \A q \in Proc : Side(ns[q], cn.wire[q], Peer(cn, q), q)
  BY DEF LinkInv
<1> QED BY <1>1, <1>2, <1>3 DEF Sides

\* Where there is a message, there is a node that is ready for it.
LEMMA Holder ==
  ASSUME NEW p \in Proc, NEW es, NEW v, ViewInv(v, p, es), NEW j \in Conn, NEW x
  PROVE  LET n  == v.ep.nodes[j]
             cn == v.conn[j]
         IN  /\ ~NoneOf(RecvBufOf(v.ep, j), x) \/ ~NoneOf(cn.wire[p], x)
                   => Ready(n, p) /\ Peer(cn, p) = x
             /\ ~NoneOf(SendBufOf(v.ep, j), x) => Ready(n, p) /\ x = p
<1> DEFINE n  == v.ep.nodes[j]
           cn == v.conn[j]
<1>1. Side(n, cn.wire[p], Peer(cn, p), p)
  BY DEF ViewInv, LinkInv, NodesAt
<1>2. NoneOf(<<>>, x)
  BY EmptySeq, LenProperties DEF NoneOf
<1>3. \A s, y : From(s, y) /\ ~NoneOf(s, x) => HasMsg(s) /\ x = y
  BY DEF From, NoneOf, HasMsg, SentBy
<1>4. ASSUME ~NoneOf(RecvBufOf(v.ep, j), x)
      PROVE  Ready(n, p) /\ Peer(cn, p) = x
  <2>1. n # NoNode /\ RecvBufOf(v.ep, j) = n.recvbuf
    BY <1>2, <1>4 DEF RecvBufOf, IsOpen
  <2> QED BY <1>1, <1>3, <1>4, <2>1 DEF Side, Receives
<1>5. ASSUME ~NoneOf(cn.wire[p], x)
      PROVE  Ready(n, p) /\ Peer(cn, p) = x
  BY <1>1, <1>3, <1>5 DEF Side, Receives
<1>6. ASSUME ~NoneOf(SendBufOf(v.ep, j), x)
      PROVE  Ready(n, p) /\ x = p
  <2>1. n # NoNode /\ SendBufOf(v.ep, j) = n.sendbuf
    BY <1>2, <1>6 DEF SendBufOf, IsOpen
  <2> QED BY <1>1, <1>3, <1>6, <2>1 DEF Side, Sends, Ready
<1> QED BY <1>4, <1>5, <1>6

\* So messages go down one stage at a time.
LEMMA Descent ==
  ASSUME NEW p \in Proc, NEW es, NEW v, ViewInv(v, p, es), NEW k \in Conn, IsOpen(v.ep, k)
  PROVE  LET F == StockOf(v, p, es)
             o == Peer(v.conn[k], p)
         IN  /\ FlowsDown(F, v.conn, InRecvbuf(p, k), InRecvq(p))
             /\ FlowsDown(F, v.conn, InWire(p, k), InRecvbuf(p, k))
             /\ FlowsDown(F, v.conn, InSendbuf(p, k), InWire(o, k))
             /\ FlowsDown(F, v.conn, InSendq(p, Chain(p, o)), InSendbuf(p, k))
<1> DEFINE F == StockOf(v, p, es)
           o == Peer(v.conn[k], p)
           S(x, y) == Stage(v.conn, x, y)
<1>1. o \in Proc /\ o # p /\ p \in v.conn[k].open /\ LinkInv(NodesAt(v, p, es, k), v.conn[k])
  BY OpenFacts
<1>2. \A j \in Conn : /\ F[InRecvbuf(p, j)] = RecvBufOf(v.ep, j)
                       /\ F[InSendbuf(p, j)] = SendBufOf(v.ep, j)
                       /\ F[InWire(p, j)] = v.conn[j].wire[p]
  BY StockOfIs
<1>3. ASSUME NEW x, NEW y
      PROVE  /\ \A q \in Proc : /\ S(x, y)[InHandled(q)] = IF q = y THEN 1 ELSE 0
                                /\ S(x, y)[InRecvq(q)] = IF q = y THEN 2 ELSE 0
             /\ \A q \in Proc, r \in ProcId :
                  S(x, y)[InSendq(q, r)] = IF q = x /\ r = Chain(x, y) THEN 6 ELSE 0
             /\ \A q \in Proc, j \in Conn :
                  /\ S(x, y)[InRecvbuf(q, j)] = IF q = y THEN 3 ELSE 0
                  /\ S(x, y)[InWire(q, j)] = IF q = y THEN 4 ELSE 0
                  /\ S(x, y)[InSendbuf(q, j)] = IF q = x /\ Peer(v.conn[j], x) = y THEN 5 ELSE 0
  BY StageIs
<1>4. ASSUME NEW c \in Place
      PROVE  /\ c.of \in Proc
             /\ \/ c = InHandled(c.of) \/ c = InRecvq(c.of)
                \/ c.by \in ProcId /\ c = InSendq(c.of, c.by)
                \/ /\ c.by \in Conn
                   /\ c = InRecvbuf(c.of, c.by) \/ c = InWire(c.of, c.by) \/ c = InSendbuf(c.of, c.by)
  BY PlaceIs
<1>5. ASSUME NEW x, NEW y, NEW c \in Place
      PROVE  /\ S(x, y)[c] = 3 => c.by \in Conn /\ c = InRecvbuf(y, c.by)
             /\ S(x, y)[c] = 4 => c.by \in Conn /\ c = InWire(y, c.by)
             /\ S(x, y)[c] = 5 => c.by \in Conn /\ c = InSendbuf(x, c.by) /\ Peer(v.conn[c.by], x) = y
             /\ S(x, y)[c] = 6 => c = InSendq(x, Chain(x, y))
  <2> HIDE DEF S
  <2> QED BY <1>3, <1>4
<1> HIDE DEF S, F
<1>6. ASSUME NEW x, NEW j \in Conn, j # k, NEW q \in {p}
      PROVE  /\ ~NoneOf(F[InRecvbuf(q, k)], x) => NoneOf(F[InRecvbuf(q, j)], x)
             /\ ~NoneOf(F[InWire(q, k)], x) => NoneOf(F[InWire(q, j)], x)
             /\ ~NoneOf(F[InSendbuf(q, k)], x) /\ Peer(v.conn[j], q) = o => NoneOf(F[InSendbuf(q, j)], x)
  BY <1>2, <1>6, Holder, OneNode
<1>7. ASSUME NEW x \in Proc, NEW y \in Proc
      PROVE  Downhill(F, S(x, y), x, InRecvbuf(p, k), InRecvq(p))
  <2>1. CASE y # p
    BY <1>3, <2>1 DEF Downhill
  <2>2. CASE y = p
    <3>1. S(x, y)[InRecvbuf(p, k)] = 3 /\ S(x, y)[InRecvq(p)] = 2
      BY <1>3, <2>2
    <3>2. ASSUME ~NoneOf(F[InRecvbuf(p, k)], x), NEW c \in Place, c # InRecvbuf(p, k), S(x, y)[c] = 3
          PROVE  NoneOf(F[c], x)
      BY <1>5, <1>6, <2>2, <3>2
    <3> QED BY <3>1, <3>2 DEF Downhill
  <2> QED BY <2>1, <2>2
<1>8. ASSUME NEW x \in Proc, NEW y \in Proc
      PROVE  Downhill(F, S(x, y), x, InWire(p, k), InRecvbuf(p, k))
  <2>1. CASE y # p
    BY <1>3, <2>1 DEF Downhill
  <2>2. CASE y = p
    <3>1. S(x, y)[InWire(p, k)] = 4 /\ S(x, y)[InRecvbuf(p, k)] = 3
      BY <1>3, <2>2
    <3>2. ASSUME ~NoneOf(F[InWire(p, k)], x), NEW c \in Place, c # InWire(p, k), S(x, y)[c] = 4
          PROVE  NoneOf(F[c], x)
      BY <1>5, <1>6, <2>2, <3>2
    <3> QED BY <3>1, <3>2 DEF Downhill
  <2> QED BY <2>1, <2>2
<1>9. ASSUME NEW x \in Proc, NEW y \in Proc
      PROVE  Downhill(F, S(x, y), x, InSendbuf(p, k), InWire(o, k))
  <2>1. CASE y # o
    BY <1>1, <1>3, <2>1 DEF Downhill
  <2>2. CASE x # p
    <3>1. NoneOf(SendBufOf(v.ep, k), x)
      BY <2>2, Holder
    <3>2. NoneOf(F[InSendbuf(p, k)], x)
      BY <1>2, <3>1
    <3> QED BY <3>2 DEF Downhill
  <2>3. CASE y = o /\ x = p
    <3>1. S(x, y)[InSendbuf(p, k)] = 5 /\ S(x, y)[InWire(o, k)] = 4
      BY <1>1, <1>3, <2>3
    <3>2. ASSUME ~NoneOf(F[InSendbuf(p, k)], x), NEW c \in Place, c # InSendbuf(p, k), S(x, y)[c] = 5
          PROVE  NoneOf(F[c], x)
      BY <1>5, <1>6, <2>3, <3>2
    <3> QED BY <3>1, <3>2 DEF Downhill
  <2> QED BY <2>1, <2>2, <2>3
<1>10. ASSUME NEW x \in Proc, NEW y \in Proc
       PROVE  Downhill(F, S(x, y), x, InSendq(p, Chain(p, o)), InSendbuf(p, k))
  <2>1. CASE ~(x = p /\ y = o)
    BY <1>3, <2>1 DEF Downhill
  <2>2. CASE x = p /\ y = o
    <3>1. Chain(p, o) \in ProcId
      BY <1>1 DEF Chain, ProcId
    <3>2. S(x, y)[InSendq(p, Chain(p, o))] = 6 /\ S(x, y)[InSendbuf(p, k)] = 5
      BY <1>3, <2>2, <3>1
    <3>3. \A c \in Place : S(x, y)[c] = 6 => c = InSendq(p, Chain(p, o))
      BY <1>5, <2>2
    <3> QED BY <3>2, <3>3 DEF Downhill
  <2> QED BY <2>1, <2>2
<1> QED BY <1>7, <1>8, <1>9, <1>10 DEF FlowsDown, S, F

\* What goes up is data, and whatever does not is a Shake.
LEMMA UpsFacts ==
  ASSUME NEW s \in Seq(Pkg), NEW p, s \in Seq(For(p))
  PROVE  /\ Ups(s) \in Seq(Data) /\ Ups(s) \in Seq(For(p))
         /\ Len(Ups(s)) \in Nat /\ Len(Ups(s)) <= Len(s)
         /\ Len(Ups(s)) < Len(s) => HasShake(s)
<1> DEFINE T == {pkg \in ToSet(s) : pkg.type # "Shake"}
           u == Select(s, T)
<1>1. Ups(s) = u
  BY DEF Ups
<1>2. Selected(u, s, Len(s), Pkg, T) /\ Selected(u, s, Len(s), For(p), T)
  BY SelectFacts
<1>3. DOMAIN s = 1..Len(s) /\ Len(s) \in Nat
  BY LenProperties
<1>4. \A i \in 1..Len(s) : s[i] \notin T => s[i].type = "Shake"
  BY <1>3 DEF ToSet
<1>5. Pkg \cap T \subseteq Data
  BY DEF Data
<1> HIDE DEF u, T
<1>6. u \in Seq(Data)
  BY <1>2, <1>5, SeqMonotonic DEF Selected
<1>7. u \in Seq(For(p)) /\ Len(u) <= Len(s)
  BY <1>2 DEF Selected
<1>8. Len(u) < Len(s) => HasShake(s)
  BY <1>2, <1>3, <1>4 DEF Selected, HasShake
<1> QED BY <1>1, <1>6, <1>7, <1>8, LenProperties

\* It is a list of packages.
LEMMA UpsTyped ==
  ASSUME NEW s \in Seq(Pkg)
  PROVE  Ups(s) \in Seq(Pkg)
<1> DEFINE T == {pkg \in ToSet(s) : pkg.type # "Shake"}
<1>1. Selected(Select(s, T), s, Len(s), Pkg, T)
  BY SelectFacts
<1> QED BY <1>1 DEF Ups, Selected

\* The first n packages of node k's recvbuf have gone up.
ReadUpTo(v, r, k, n) ==
  LET old  == v.ep.nodes[k]
      new  == r.ep.nodes[k]
      read == SubSeq(old.recvbuf, 1, n)
  IN  /\ new.recvbuf = SubSeq(old.recvbuf, n + 1, Len(old.recvbuf))
      /\ r.ep.recvq = v.ep.recvq \o Ups(read)
      /\ new.shaken = TRUE => old.shaken = TRUE \/ HasShake(read)

\* r is what reading node k's recvbuf leaves of v.
ReadsTo(v, r, k, p) ==
  LET old == v.ep.nodes[k]
      new == r.ep.nodes[k]
  IN  /\ r \in ViewType /\ SameLists(v, r, k)
      /\ r.conn = v.conn /\ r.handled = v.handled /\ r.left = v.left
      /\ Sized(r.ep) /\ Sorted(r.ep, p)
      /\ new \in OpenNode /\ new.status = old.status /\ new.procid = old.procid
      /\ new.sendbuf = old.sendbuf
      /\ new.recvbuf \in Seq(For(p)) /\ Len(new.recvbuf) <= Len(old.recvbuf)
      /\ Heard(new, <<>>) => Heard(old, <<>>)
      /\ r.ep.sendq = v.ep.sendq
      /\ \E n \in 0..Len(old.recvbuf) : ReadUpTo(v, r, k, n)

\* joynetReadRecvBuf, on a node whose buffer is for its process.
LEMMA ReadFacts ==
  ASSUME NEW p \in Proc, NEW v \in ViewType, NEW k \in Conn, IsOpen(v.ep, k),
         Sized(v.ep), Sorted(v.ep, p), v.ep.nodes[k].recvbuf \in Seq(For(p)),
         OneShake(v.ep.nodes[k].recvbuf),
         v.ep.nodes[k].shaken = TRUE => ~HasShake(v.ep.nodes[k].recvbuf)
  PROVE  ReadsTo(v, ReadRecvBuf(v, k).view, k, p) /\ ReadRecvBuf(v, k).ok = TRUE
<1> DEFINE node == v.ep.nodes[k]
           all  == node.recvbuf
           ups  == [n \in 0..Len(all) |-> Ups(SubSeq(all, 1, n))]
           fits == {n \in 0..Len(all) :
                      /\ Used(v.ep) + Len(ups[n]) <= BlockNum
                      /\ Len(ups[n]) + (IF node.shaken THEN 0 ELSE 1) >= n}
           n    == CHOOSE m \in fits : \A l \in fits : l <= m
           ok   == n = Len(all) \/ all[n + 1].type # "Shake"
           rest == IF ok THEN SubSeq(all, n + 1, Len(all)) ELSE SubSeq(all, 1, Len(all) - n)
           up   == ups[n]
           had  == node.shaken \/ Len(up) < n
           new  == [node EXCEPT !.shaken = had, !.recvbuf = rest]
           r    == [v EXCEPT !.ep.recvq = @ \o up, !.ep.nodes[k] = new]
<1>1. /\ v.ep \in Endpoint /\ v.ep.nodes \in [Conn -> Node] /\ v.ep.recvq \in Seq(Data)
      /\ v.ep.sendq \in [ProcId -> Seq(Data)]
      /\ node \in OpenNode /\ all \in Seq(Pkg) /\ Len(all) \in Nat
      /\ all \in Seq(For(p)) /\ v.ep.recvq \in Seq(For(p))
  <2>1. node \in OpenNode
    BY ViewFields DEF IsOpen, Node
  <2>2. all \in Seq(Pkg)
    BY <2>1 DEF OpenNode
  <2> QED BY <2>1, <2>2, ViewFields, LenProperties DEF Sorted
<1>2. ReadRecvBuf(v, k) = [ok |-> ok, view |-> r]
  BY Zenon DEF ReadRecvBuf
<1>3. /\ r \in [ep : {r.ep}, conn : {v.conn}, handled : {v.handled}, left : {v.left},
                moved : {v.moved}, dealt : {v.dealt}]
      /\ r.ep.recvq = v.ep.recvq \o up /\ r.ep.sendq = v.ep.sendq
      /\ r.ep.used = v.ep.used /\ r.ep.nodeidx = v.ep.nodeidx
      /\ r.ep.nodes = [v.ep.nodes EXCEPT ![k] = new]
      /\ r.ep \in [nodes : {r.ep.nodes}, used : {v.ep.used}, nodeidx : {v.ep.nodeidx},
                   sendq : {v.ep.sendq}, recvq : {r.ep.recvq}]
  <2> HIDE DEF fits, n, up, ups, new
  <2>1. r.ep.nodes = [v.ep.nodes EXCEPT ![k] = new]
    BY DEF ViewType, Endpoint
  <2> QED BY <2>1 DEF ViewType, Endpoint
<1>4. Short(v.ep.sendq) /\ Used(v.ep) \in Nat
  BY <1>1, UsedIs DEF Sized, Short
<1> HIDE DEF all, node
<1>5. \A m \in 0..Len(all) :
        LET u == Ups(SubSeq(all, 1, m)) IN
        /\ u \in Seq(Data) /\ u \in Seq(For(p))
        /\ Len(u) \in Nat /\ Len(u) <= m
        /\ Len(u) < m => HasShake(SubSeq(all, 1, m))
  <2> TAKE m \in 0..Len(all)
  <2> DEFINE s == SubSeq(all, 1, m)
  <2>1. s \in Seq(Pkg) /\ s \in Seq(For(p)) /\ Len(s) = m
    BY <1>1, PrefixSeq
  <2> HIDE DEF s
  <2>3. /\ Ups(s) \in Seq(Data) /\ Ups(s) \in Seq(For(p))
        /\ Len(Ups(s)) \in Nat /\ Len(Ups(s)) <= Len(s)
        /\ Len(Ups(s)) < Len(s) => HasShake(s)
    BY <2>1, UpsFacts
  <2>4. /\ Ups(s) \in Seq(Data) /\ Ups(s) \in Seq(For(p))
        /\ Len(Ups(s)) \in Nat /\ Len(Ups(s)) <= m
        /\ Len(Ups(s)) < m => HasShake(s)
    BY <2>1, <2>3
  <2> QED BY <2>4 DEF s
<1>6. 0 \in fits
  <2>1. 0 \in 0..Len(all) /\ ups[0] = Ups(SubSeq(all, 1, 0))
    BY <1>1
  <2>2. Len(ups[0]) = 0
    BY <1>5, <2>1
  <2>3. Used(v.ep) + 0 <= BlockNum
    BY <1>4 DEF Sized
  <2> QED BY <2>1, <2>2, <2>3
<1>7. n \in fits /\ n \in 0..Len(all) /\ \A l \in fits : l <= n
  <2>1. fits \in SUBSET (0..Len(all))
    OBVIOUS
  <2> HIDE DEF fits
  <2>2. \E m \in fits : \A l \in fits : l <= m
    BY <1>1, <1>6, <2>1, Greatest
  <2> QED BY <2>1, <2>2
<1>8. /\ up = Ups(SubSeq(all, 1, n))
      /\ Used(v.ep) + Len(up) <= BlockNum
  BY <1>7
<1>22. ok = TRUE
  <2> SUFFICES ASSUME n # Len(all), all[n + 1].type = "Shake" PROVE FALSE
    OBVIOUS
  <2> HIDE DEF fits, n
  <2>1. n \in 0..Len(all)-1 /\ n \in Int /\ n + 1 \in 0..Len(all)
    BY <1>1, <1>7
  <2>2. OneShake(all) /\ (node.shaken = TRUE => ~HasShake(all))
    BY DEF all, node
  <2>3. Len(Ups(SubSeq(all, 1, n))) = n /\ Len(Ups(SubSeq(all, 1, n + 1))) = n
    BY <1>1, <2>1, <2>2, ShakeSkipped
  <2>4. node.shaken # TRUE /\ node.shaken \in BOOLEAN
    <3>1. n + 1 \in DOMAIN all
      BY <1>1, <2>1, LenProperties
    <3> QED BY <1>1, <2>2, <3>1 DEF HasShake, OpenNode
  <2>5. ups[n + 1] = Ups(SubSeq(all, 1, n + 1))
    BY <2>1
  <2>6. Used(v.ep) + n <= BlockNum
    BY <1>8, <2>3 DEF up
  <2> HIDE DEF ups
  <2>7. Used(v.ep) + Len(ups[n + 1]) <= BlockNum
    BY <2>3, <2>5, <2>6
  <2>8. Len(ups[n + 1]) + (IF node.shaken THEN 0 ELSE 1) >= n + 1
    <3>1. (IF node.shaken THEN 0 ELSE 1) = 1
      BY <2>4
    <3>2. Len(ups[n + 1]) = n
      BY <2>3, <2>5
    <3> QED BY <2>1, <3>1, <3>2
  <2>9. n + 1 \in fits
    BY <2>1, <2>7, <2>8 DEF fits
  <2> QED BY <1>7, <2>1, <2>9
<1> HIDE DEF fits, n, up, ups
<1>9. /\ up \in Seq(Data) /\ up \in Seq(For(p)) /\ Len(up) \in Nat
      /\ Len(up) < n => HasShake(SubSeq(all, 1, n))
      /\ n \in Nat /\ n <= Len(all)
  BY <1>1, <1>5, <1>7, <1>8
<1>10. /\ rest \in Seq(Pkg) /\ rest \in Seq(For(p)) /\ Len(rest) <= Len(all)
       /\ Says(rest) => Says(all)
       /\ rest = SubSeq(all, n + 1, Len(all))
  <2>1. rest = SubSeq(all, n + 1, Len(all))
    BY <1>22
  <2> HIDE DEF rest, ok
  <2>2. /\ rest \in Seq(Pkg) /\ rest \in Seq(For(p)) /\ Len(rest) = Len(all) - n
    BY <1>1, <1>7, <2>1, SuffixSeq
  <2>3. Says(rest) => Says(all)
    BY <1>1, <1>7, <2>1, CutSays DEF Says
  <2> QED BY <1>1, <1>9, <2>1, <2>2, <2>3
<1> HIDE DEF rest, ok
<1>11. had \in BOOLEAN /\ (had = TRUE => node.shaken = TRUE \/ HasShake(SubSeq(all, 1, n)))
  <2>1. node.shaken \in BOOLEAN
    BY <1>1 DEF OpenNode
  <2>2. had = TRUE => node.shaken = TRUE \/ Len(up) < n
    BY <2>1
  <2> QED BY <1>9, <2>2
<1> HIDE DEF had
<1>12. /\ new \in OpenNode /\ new.status = node.status /\ new.procid = node.procid
       /\ new.sendbuf = node.sendbuf /\ new.recvbuf = rest /\ new.shaken = had
  <2>1. node \in OpenNode
    BY <1>1
  <2>2. had \in BOOLEAN
    BY <1>11
  <2>3. rest \in Seq(Pkg)
    BY <1>10
  <2> QED BY ONLY <2>1, <2>2, <2>3 DEF OpenNode
<1> HIDE DEF r, new
<1>13. /\ r.ep.recvq \in Seq(Data) /\ r.ep.recvq \in Seq(For(p))
       /\ Len(r.ep.recvq) = Len(v.ep.recvq) + Len(up)
  BY <1>1, <1>3, <1>9, ConcatProperties
<1>14. r.ep.nodes[k] = new /\ r.ep.nodes \in [Conn -> Node]
  BY <1>1, <1>3, <1>12 DEF Node
<1>15. r.ep \in Endpoint /\ r \in ViewType
  <2>1. r.ep \in Endpoint
    BY <1>3, <1>13, <1>14, ViewFields DEF Endpoint
  <2> QED BY <1>3, <2>1 DEF ViewType
<1>16. Sized(r.ep)
  <2>1. Short(r.ep.sendq)
    BY <1>3, <1>4
  <2>2. /\ Used(r.ep) = Len(r.ep.recvq) + Cardinality(Places(r.ep.sendq))
        /\ Used(v.ep) = Len(v.ep.recvq) + Cardinality(Places(v.ep.sendq))
        /\ Len(v.ep.recvq) \in Nat /\ Cardinality(Places(v.ep.sendq)) \in Nat
    BY <1>1, <1>4, <1>13, <2>1, UsedIs
  <2>3. Used(r.ep) = Used(v.ep) + Len(up)
    BY <1>3, <1>9, <1>13, <2>2
  <2> QED BY <1>3, <1>8, <2>3 DEF Sized
<1>17. Sorted(r.ep, p)
  BY <1>3, <1>13 DEF Sorted
<1>18. Heard(new, <<>>) => Heard(node, <<>>)
  <2>1. new.recvbuf = rest /\ new.shaken = had /\ new.status = node.status
    BY <1>12
  <2>2. Says(rest) => Says(node.recvbuf)
    <3>1. Says(rest) => Says(all)
      BY <1>10
    <3> QED BY ONLY <3>1 DEF all
  <2>3. new.shaken = TRUE => node.shaken = TRUE \/ Says(node.recvbuf)
    <3>1. HasShake(SubSeq(all, 1, n)) => HasShake(all)
      BY <1>1, <1>7, CutSays
    <3> QED BY <1>11, <2>1, <3>1 DEF all, Says
  <2>4. Says(new.recvbuf) => Says(node.recvbuf)
    BY <2>1, <2>2
  <2> QED BY <2>1, <2>3, <2>4, NothingSaid DEF Heard
<1>19. SameLists(v, r, k)
  <2>1. r.conn = [v.conn EXCEPT ![k] = r.conn[k]]
    BY <1>3, ViewFields
  <2> QED BY <1>3, <1>14, <2>1 DEF SameLists
<1>20. ReadsTo(v, r, k, p)
  <2>1. r.conn = v.conn /\ r.handled = v.handled /\ r.left = v.left
    BY <1>3
  <2>2. /\ new \in OpenNode /\ new.status = node.status /\ new.procid = node.procid
        /\ new.sendbuf = node.sendbuf
        /\ new.recvbuf \in Seq(For(p)) /\ Len(new.recvbuf) <= Len(node.recvbuf)
    <3>1. rest \in Seq(For(p)) /\ Len(rest) <= Len(node.recvbuf)
      BY <1>10 DEF all
    <3> QED BY <1>12, <3>1
  <2>3. n \in 0..Len(node.recvbuf) /\ ReadUpTo(v, r, k, n)
    <3>1. new.recvbuf = SubSeq(all, n + 1, Len(all))
      BY <1>10, <1>12
    <3>2. r.ep.recvq = v.ep.recvq \o Ups(SubSeq(all, 1, n))
      BY <1>3, <1>8
    <3>3. new.shaken = TRUE => node.shaken = TRUE \/ HasShake(SubSeq(all, 1, n))
      BY <1>11, <1>12
    <3> QED BY <1>7, <1>14, <3>1, <3>2, <3>3 DEF ReadUpTo, node, all
  <2>4. r.ep.sendq = v.ep.sendq
    BY <1>3
  <2> QED BY <1>14, <1>15, <1>16, <1>17, <1>18, <1>19, <2>1, <2>2, <2>3, <2>4 DEF ReadsTo, node
<1>21. ReadRecvBuf(v, k).ok = TRUE
  BY <1>2, <1>22
<1> QED BY <1>2, <1>20, <1>21

\* A Shake, or a message, in two pieces of a stream is in one of them.
LEMMA HeardParts ==
  /\ ~HasShake(<<>>) /\ ~Says(<<>>)
  /\ \A node, w : Heard(node, w) <=> Heard(node, <<>>) \/ Says(w)
  /\ \A a, b \in Seq(Pkg) : /\ HasShake(a \o b) => HasShake(a) \/ HasShake(b)
                            /\ Says(a \o b) => Says(a) \/ Says(b)
<1>1. ~HasShake(<<>>) /\ ~Says(<<>>)
  BY NothingSaid
<1>2. \A node, w : Heard(node, w) <=> Heard(node, <<>>) \/ Says(w)
  BY <1>1 DEF Heard
<1>3. ASSUME NEW a \in Seq(Pkg), NEW b \in Seq(Pkg)
      PROVE  /\ HasShake(a \o b) => HasShake(a) \/ HasShake(b)
             /\ Says(a \o b) => Says(a) \/ Says(b)
  BY JoinSays DEF Says
<1> QED BY <1>1, <1>2, <1>3

\* A call for node k keeps the invariant, and leaves the other nodes as they are.
Keeps(v, w, p, es, k) ==
  /\ ViewInv(w, p, es) /\ w.left = v.left
  /\ \A j \in Conn : j # k => w.ep.nodes[j] = v.ep.nodes[j]

\* Wires that nobody touches.
LEMMA SameWires ==
  ASSUME NEW cn \in Connection, NEW p \in Proc, NEW n, Peer(cn, p) \in Proc, Wires(cn)
  PROVE  SameLink(cn, cn) /\ WireStep(cn, cn, p, n)
<1>1. \A q \in Proc : Len(cn.wire[q]) <= WireNum /\ cn.wire[q] \in Seq(For(q))
  BY DEF Wires
<1>2. Len(cn.wire[p]) <= Len(cn.wire[p])
  <2>1. Len(cn.wire[p]) \in Nat
    BY <1>1, LenProperties
  <2> QED BY <2>1
<1> QED BY <1>1, <1>2 DEF SameLink, WireStep

\* Elsewhere than at its node, such a step changes nothing.
LEMMA Elsewhere ==
  ASSUME NEW v \in ViewType, NEW w \in ViewType, NEW k \in Conn, SameLists(v, w, k),
         IsOpen(v.ep, k), w.ep.nodes[k] \in OpenNode
  PROVE  /\ \A j \in Conn : j # k =>
              /\ w.conn[j] = v.conn[j]
              /\ RecvBufOf(w.ep, j) = RecvBufOf(v.ep, j)
              /\ SendBufOf(w.ep, j) = SendBufOf(v.ep, j)
         /\ RecvBufOf(w.ep, k) = w.ep.nodes[k].recvbuf
         /\ SendBufOf(w.ep, k) = w.ep.nodes[k].sendbuf
         /\ RecvBufOf(v.ep, k) = v.ep.nodes[k].recvbuf
         /\ SendBufOf(v.ep, k) = v.ep.nodes[k].sendbuf
         /\ SameLink(v.conn[k], w.conn[k]) => SamePeers(v, w)
<1>1. v.ep.nodes \in [Conn -> Node] /\ v.conn \in [Conn -> Connection]
  BY ViewFields
<1>2. \A j \in Conn : j # k => w.conn[j] = v.conn[j] /\ w.ep.nodes[j] = v.ep.nodes[j]
  BY <1>1 DEF SameLists
<1>3. w.ep.nodes[k] # NoNode
  BY DEF OpenNode, NoNode
<1> QED BY <1>2, <1>3 DEF RecvBufOf, SendBufOf, IsOpen, SameLink, SamePeers

\* What is left of a buffer says no more than it did.
LEMMA ReadSide ==
  ASSUME NEW v, NEW r, NEW k, NEW p, NEW x, NEW wire, Side(v.ep.nodes[k], wire, x, p),
         v.ep.nodes[k] \in OpenNode, r.ep.nodes[k] \in OpenNode,
         r.ep.nodes[k].status = v.ep.nodes[k].status,
         r.ep.nodes[k].procid = v.ep.nodes[k].procid,
         r.ep.nodes[k].sendbuf = v.ep.nodes[k].sendbuf,
         NEW n \in 0..Len(v.ep.nodes[k].recvbuf), ReadUpTo(v, r, k, n)
  PROVE  Side(r.ep.nodes[k], wire, x, p)
<1> DEFINE old  == v.ep.nodes[k]
           new  == r.ep.nodes[k]
           all  == old.recvbuf
           read == SubSeq(all, 1, n)
           rest == SubSeq(all, n + 1, Len(all))
<1>1. old # NoNode /\ new # NoNode /\ all \in Seq(Pkg)
  BY DEF OpenNode, NoNode
<1>2. /\ HasShake(read) => HasShake(all)
      /\ HasShake(rest) => HasShake(all)
      /\ HasMsg(rest) => HasMsg(all)
      /\ From(all, x) => From(rest, x)
      /\ OneShake(all) => OneShake(rest) /\ ~(HasShake(read) /\ HasShake(rest))
  BY <1>1, CutSays
<1>3. new.recvbuf = rest /\ (new.shaken = TRUE => old.shaken = TRUE \/ HasShake(read))
  BY DEF ReadUpTo
<1> HIDE DEF read, rest
<1>4. /\ From(wire, x) /\ (HasMsg(wire) => Ready(old, p))
      /\ From(all, x) /\ (HasMsg(all) => Ready(old, p))
  BY <1>1 DEF Side, Receives
<1>5. /\ OneShake(wire) /\ OneShake(all)
      /\ HasShake(all) => ~HasShake(wire)
      /\ old.shaken = TRUE \/ old.status = "Connected" => ~HasShake(all) /\ ~HasShake(wire)
  BY <1>1 DEF Side, ShakesOnce
<1>6. Ready(old, p) => Ready(new, p)
  BY <1>1 DEF Ready
<1>7. Receives(new, wire, x, p)
  BY <1>2, <1>3, <1>4, <1>6 DEF Receives
<1>8. ShakesOnce(new, wire)
  BY <1>2, <1>3, <1>5 DEF ShakesOnce
<1>9. Sends(new, p) /\ (p \in Client => new.procid = x)
  BY <1>1 DEF Side, Sends
<1> QED BY <1>7, <1>8, <1>9 DEF Side

\* joynetReadRecvBuf keeps the invariant.
LEMMA ReadKeeps ==
  ASSUME NEW p \in Proc, NEW es, NEW v, ViewInv(v, p, es), NEW k \in Conn, IsOpen(v.ep, k)
  PROVE  LET r == ReadRecvBuf(v, k).view
         IN  /\ Keeps(v, r, p, es, k) /\ ReadsTo(v, r, k, p)
             /\ ReadRecvBuf(v, k).ok = TRUE
             /\ \A j \in Conn : IsOpen(r.ep, j) <=> IsOpen(v.ep, j)
<1> DEFINE r  == ReadRecvBuf(v, k).view
           n  == v.ep.nodes[k]
           m  == r.ep.nodes[k]
           cn == v.conn[k]
<1>1. /\ n \in OpenNode /\ cn \in Connection /\ p \in cn.open
      /\ NodeInv(n, cn, p) /\ Peer(cn, p) \in Proc /\ Wires(cn)
  BY OpenFacts DEF LinkInv
<1>2. v \in ViewType /\ Sized(v.ep) /\ Sorted(v.ep, p) /\ Delivered(v.handled)
  BY DEF ViewInv, LocalInv
<1>3. /\ n.recvbuf \in Seq(For(p)) /\ n # NoNode
      /\ Len(n.recvbuf) <= TempNum /\ Len(n.recvbuf) \in Nat
  BY <1>1, LenProperties DEF NodeInv, OpenNode, IsOpen
<1>11. LinkInv(NodesAt(v, p, es, k), cn) /\ NodesAt(v, p, es, k)[p] = n
  BY OpenFacts
<1>12. Side(n, cn.wire[p], Peer(cn, p), p)
  BY <1>11 DEF LinkInv
<1>13. OneShake(n.recvbuf) /\ (n.shaken = TRUE => ~HasShake(n.recvbuf))
  BY <1>3, <1>12 DEF Side, ShakesOnce
<1>4. ReadsTo(v, r, k, p) /\ ReadRecvBuf(v, k).ok = TRUE
  BY <1>2, <1>3, <1>13, ReadFacts
<1> HIDE DEF r
<1>5. /\ r \in ViewType /\ SameLists(v, r, k)
      /\ r.conn = v.conn /\ r.handled = v.handled /\ r.left = v.left
      /\ Sized(r.ep) /\ Sorted(r.ep, p)
      /\ m \in OpenNode /\ m.status = n.status /\ m.procid = n.procid
      /\ m.sendbuf = n.sendbuf
      /\ m.recvbuf \in Seq(For(p)) /\ Len(m.recvbuf) <= Len(n.recvbuf)
      /\ Heard(m, <<>>) => Heard(n, <<>>)
      /\ r.ep.sendq = v.ep.sendq
  BY <1>4 DEF ReadsTo
<1>14. PICK z \in 0..Len(n.recvbuf) : ReadUpTo(v, r, k, z)
  BY <1>4 DEF ReadsTo
<1>6. NodeInv(m, cn, p)
  <2>1. Len(m.recvbuf) <= TempNum
    <3>1. Len(m.recvbuf) \in Nat
      BY <1>5, LenProperties
    <3>2. Len(m.recvbuf) <= Len(n.recvbuf)
      BY <1>5
    <3>3. TempNum \in Nat
      BY Bounds
    <3> HIDE DEF m, n
    <3> QED BY <1>3, <3>1, <3>2, <3>3
  <2> QED BY <1>1, <1>3, <1>5, <2>1 DEF NodeInv
<1>7. NodeStep(n, m, cn, cn, p)
  <2>1. m # NoNode
    BY <1>5 DEF OpenNode, NoNode
  <2>2. \A w : Heard(m, w) => Heard(n, w)
    BY <1>5, HeardParts
  <2> QED BY <1>3, <1>5, <2>1, <2>2 DEF NodeStep, Silent
<1>8. SameLink(cn, cn) /\ WireStep(cn, cn, p, m)
  BY <1>1, SameWires
<1>15. Sides(m, NodesAt(v, p, es, k)[Peer(cn, p)], cn, p)
  <2>1. Side(m, cn.wire[p], Peer(cn, p), p)
    BY <1>1, <1>5, <1>12, <1>14, ReadSide
  <2> QED BY <1>1, <1>8, <1>11, <2>1, OwnSide
<1>16. AccountOf(r, p, es) /\ Moves(StockOf(v, p, es), StockOf(r, p, es))
  <2> DEFINE F == StockOf(v, p, es)
             G == StockOf(r, p, es)
             a == InRecvbuf(p, k)
             b == InRecvq(p)
             s == Ups(SubSeq(n.recvbuf, 1, z))
  <2>1. /\ a \in Place /\ b \in Place /\ a # b /\ b.at # "sendq"
    BY PlaceIs DEF InRecvbuf, InRecvq
  <2>2. /\ \A j \in Conn : j # k => /\ RecvBufOf(r.ep, j) = RecvBufOf(v.ep, j)
                                   /\ SendBufOf(r.ep, j) = SendBufOf(v.ep, j)
        /\ RecvBufOf(r.ep, k) = m.recvbuf /\ RecvBufOf(v.ep, k) = n.recvbuf
        /\ SendBufOf(r.ep, k) = SendBufOf(v.ep, k)
    BY <1>2, <1>5, Elsewhere
  <2>3. Same(v, r, p, {a, b})
    BY <1>5, <2>2 DEF Same
  <2>4. F[a] = n.recvbuf /\ G[a] = m.recvbuf /\ F[b] = v.ep.recvq /\ G[b] = r.ep.recvq
    BY <2>2, StockOfIs
  <2>5. \A c \in Place : c # a /\ c # b => G[c] = F[c]
    BY <2>3, SameStock
  <2>6. n.recvbuf \in Seq(Pkg)
    BY <1>1 DEF OpenNode
  <2>7. SubSeq(n.recvbuf, 1, z) \in Seq(Pkg)
    BY <2>6, PrefixSeq
  <2>8. Ups(SubSeq(n.recvbuf, 1, z)) \in Seq(Pkg)
    BY <2>7, UpsTyped
  <2>9. m.recvbuf = SubSeq(n.recvbuf, z + 1, Len(n.recvbuf)) /\ r.ep.recvq = v.ep.recvq \o s
    BY <1>14 DEF ReadUpTo
  <2>10. Flow(F, G, a, b, z, s)
    <3>1. Part(s, SubSeq(n.recvbuf, 1, z))
      BY <2>7, PartUps
    <3>2. Part(m.recvbuf, SubSeq(n.recvbuf, z + 1, Len(n.recvbuf)))
      BY <2>9, PartSame
    <3>3. Within(SubSeq(n.recvbuf, 1, z), s) /\ Within(SubSeq(n.recvbuf, z + 1, Len(n.recvbuf)), m.recvbuf)
      BY <2>7, <2>9, WithinUps, WithinSame
    <3> HIDE DEF F, G, a, b, s, n, m, r
    <3> QED BY <1>14, <2>4, <2>5, <2>8, <2>9, <3>1, <3>2, <3>3 DEF Flow, s
  <2>11. FlowsDown(F, v.conn, a, b)
    BY Descent
  <2>12. SamePeers(v, r) /\ r.left.refusals = v.left.refusals
    BY <1>5 DEF SamePeers
  <2>13. AccountOf(v, p, es)
    BY DEF ViewInv
  <2> HIDE DEF F, G, a, b, s, n, m
  <2> QED BY <1>5, <2>1, <2>10, <2>11, <2>12, <2>13, AccountFlow DEF F, G
<1>17. Spares(v, r, p, es, k)
  BY <1>5, <1>16 DEF Spares
<1>9. ViewInv(r, p, es) /\ \A j \in Conn : IsOpen(r.ep, j) <=> IsOpen(v.ep, j)
  BY <1>2, <1>5, <1>6, <1>7, <1>8, <1>15, <1>16, <1>17, ViewStep
<1>10. \A j \in Conn : j # k => r.ep.nodes[j] = v.ep.nodes[j]
  BY <1>2, <1>5, ViewFields DEF SameLists
<1> QED BY <1>4, <1>5, <1>9, <1>10 DEF Keeps, r

-----------------------------------------------------------------------------
(* Closing. *)

\* The bounds are about the chains alone.
LEMMA SameChains ==
  ASSUME NEW p, NEW e, NEW f, f.sendq = e.sendq, f.recvq = e.recvq
  PROVE  (Sized(e) => Sized(f)) /\ (Sorted(e, p) => Sorted(f, p)) /\ Used(f) = Used(e)
<1>1. Used(f) = Used(e)
  BY DEF Used
<1> QED BY <1>1 DEF Sized, Sorted

ClosedEp(e, k, q) ==
  [e EXCEPT !.nodes[k] = NoNode,
            !.used = Without(@, k),
            !.nodeidx[q] = IF @ = k THEN NoConn ELSE @]

\* The part of the process when node k is closed.
LEMMA LocalClose ==
  ASSUME NEW p \in Proc, NEW e, LocalInv(e, p), NEW k \in Conn, IsOpen(e, k)
  PROVE  LET f == ClosedEp(e, k, e.nodes[k].procid)
         IN  /\ f \in Endpoint /\ LocalInv(f, p)
             /\ f.nodes = [e.nodes EXCEPT ![k] = NoNode]
             /\ f.sendq = e.sendq /\ f.recvq = e.recvq
<1> DEFINE c == e.nodes[k].procid
           x == e.nodeidx
           y == [x EXCEPT ![c] = IF @ = k THEN NoConn ELSE @]
           u == Without(e.used, k)
           f == ClosedEp(e, k, c)
<1>1. /\ e.nodes \in [Conn -> Node] /\ e.used \in Seq(Conn)
      /\ x \in [ProcId -> Conn \cup {NoConn}]
      /\ e.sendq \in [ProcId -> Seq(Data)] /\ e.recvq \in Seq(Data)
      /\ e \in Endpoint
  BY DEF LocalInv, Endpoint
<1>2. c \in ProcId
  BY <1>1 DEF IsOpen, Node, OpenNode
<1>3. /\ f.nodes = [e.nodes EXCEPT ![k] = NoNode] /\ f.used = u /\ f.nodeidx = y
      /\ f.sendq = e.sendq /\ f.recvq = e.recvq
      /\ f \in [nodes : {f.nodes}, used : {u}, nodeidx : {y},
                sendq : {e.sendq}, recvq : {e.recvq}]
  <2> HIDE DEF u
  <2> QED BY <1>1 DEF ClosedEp, Endpoint, u
<1>4. PICK i \in DOMAIN e.used : e.used[i] = k
  BY DEF LocalInv, Listed
<1>5. Distinct(e.used)
  BY DEF LocalInv, Listed
<1>6. /\ u \in Seq(Conn) /\ Distinct(u)
      /\ \A j : (\E l \in DOMAIN u : u[l] = j) <=> j # k /\ \E l \in DOMAIN e.used : e.used[l] = j
  <2>1. u = Without(e.used, e.used[i])
    BY <1>4
  <2> HIDE DEF u
  <2>2. IsWithout(Without(e.used, e.used[i]), e.used, i, Conn)
    BY <1>1, <1>4, <1>5, WithoutFacts
  <2>3. IsWithout(u, e.used, i, Conn)
    BY <2>1, <2>2
  <2> QED BY <1>4, <2>3 DEF IsWithout
<1> HIDE DEF f, u
<1>7. f.nodes[k] = NoNode /\ \A j \in Conn : j # k => f.nodes[j] = e.nodes[j]
  BY <1>1, <1>3
<1>8. \A j \in Conn : IsOpen(f, j) <=> j # k /\ IsOpen(e, j)
  BY <1>7 DEF IsOpen
<1>9. Listed(f)
  BY <1>3, <1>6, <1>8 DEF LocalInv, Listed
<1>10. /\ y \in [ProcId -> Conn \cup {NoConn}]
       /\ \A q \in ProcId : y[q] = x[q] \/ (y[q] = NoConn /\ x[q] = k)
       /\ y[c] # k \/ k = NoConn
  BY <1>1, <1>2
<1>11. k # NoConn
  BY NetAssumption
<1> HIDE DEF x, y
<1>12. f \in Endpoint
  <2>1. f.nodes \in [Conn -> Node]
    BY <1>1, <1>3 DEF Node
  <2> QED BY <1>1, <1>3, <1>6, <1>10, <2>1 DEF Endpoint
<1>13. Indexed(f, p)
  <2>1. x[NoProc] = NoConn
    BY DEF LocalInv, Indexed, x
  <2>2. NoProc \in ProcId
    BY DEF ProcId
  <2>3. y[NoProc] = NoConn
    BY <1>10, <2>1, <2>2
  <2>4. ASSUME NEW q \in ProcId, y[q] # NoConn
        PROVE  IsOpen(f, y[q]) /\ f.nodes[y[q]].procid = q
    <3>1. y[q] = x[q] /\ x[q] \in Conn
      BY <1>1, <1>10, <2>4 DEF x
    <3>2. IsOpen(e, x[q]) /\ e.nodes[x[q]].procid = q
      BY <2>4, <3>1 DEF LocalInv, Indexed, x
    <3>3. x[q] # k
      <4>1. x[q] = k => q = c
        BY <3>2
      <4> QED BY <1>10, <1>11, <3>1, <4>1
    <3> QED BY <1>7, <1>8, <3>1, <3>2, <3>3
  <2>5. ASSUME NEW j \in Conn, IsOpen(f, j), InIndex(f, p, j)
        PROVE  y[f.nodes[j].procid] = j
    <3>1. j # k /\ IsOpen(e, j) /\ f.nodes[j] = e.nodes[j]
      BY <1>7, <1>8, <2>5
    <3>2. InIndex(e, p, j)
      BY <2>5, <3>1 DEF InIndex
    <3>3. x[e.nodes[j].procid] = j
      BY <3>1, <3>2 DEF LocalInv, Indexed, x
    <3>4. e.nodes[j].procid \in ProcId
      BY <1>1, <3>1 DEF IsOpen, Node, OpenNode
    <3> QED BY <1>10, <3>1, <3>3, <3>4
  <2> QED BY <1>3, <2>3, <2>4, <2>5 DEF Indexed
<1>14. Sized(f) /\ Sorted(f, p)
  BY <1>3, SameChains DEF LocalInv
<1> QED BY <1>3, <1>9, <1>12, <1>13, <1>14 DEF LocalInv, f

\* Only the connection itself changes.
LEMMA ShutIs ==
  ASSUME NEW cs \in [Conn -> Connection], NEW k \in Conn, NEW p
  PROVE  Shut(cs, k, p) = [cs EXCEPT ![k] = ShutEnd(cs[k], p)]
  BY DEF Shut

ClosedView(u, p, k, q) == [u EXCEPT !.ep = ClosedEp(@, k, q), !.conn = Shut(@, k, p)]

\* A step that empties places between two chains, and swaps the ends of a connection
\* only where no buffer has something to send.
LEMMA FewerAccount ==
  ASSUME NEW p \in Proc, NEW es, NEW v, AccountOf(v, p, es), NEW w \in ViewType,
         w.handled = v.handled, w.left.refusals = v.left.refusals,
         w.ep.sendq = v.ep.sendq, w.ep.recvq = v.ep.recvq,
         \A j \in Conn :
           /\ RecvBufOf(w.ep, j) = RecvBufOf(v.ep, j) \/ RecvBufOf(w.ep, j) = <<>>
           /\ SendBufOf(w.ep, j) = SendBufOf(v.ep, j) \/ SendBufOf(w.ep, j) = <<>>
           /\ \A q \in Proc : w.conn[j].wire[q] = v.conn[j].wire[q] \/ w.conn[j].wire[q] = <<>>,
         \A j \in Conn :
           \/ w.conn[j].client = v.conn[j].client /\ w.conn[j].server = v.conn[j].server
           \/ \A q \in Proc : StockOf(w, p, es)[InSendbuf(q, j)] = <<>>
  PROVE  AccountOf(w, p, es)
<1> DEFINE F == StockOf(v, p, es)
           G == StockOf(w, p, es)
           X == {InRecvbuf(p, j) : j \in Conn} \cup {InSendbuf(p, j) : j \in Conn}
                  \cup {InWire(q, j) : q \in Proc, j \in Conn}
<1>1. Same(v, w, p, X)
  <2>1. \A j \in Conn : InRecvbuf(p, j) \in X /\ InSendbuf(p, j) \in X
    OBVIOUS
  <2>2. \A q \in Proc, j \in Conn : InWire(q, j) \in X
    OBVIOUS
  <2> HIDE DEF X
  <2> QED BY <2>1, <2>2 DEF Same
<1>2. \A c \in Place : c \notin X => G[c] = F[c]
  BY <1>1, SameStock
<1>3. \A j \in Conn :
        /\ G[InRecvbuf(p, j)] = F[InRecvbuf(p, j)] \/ G[InRecvbuf(p, j)] = <<>>
        /\ G[InSendbuf(p, j)] = F[InSendbuf(p, j)] \/ G[InSendbuf(p, j)] = <<>>
  <2> TAKE j \in Conn
  <2>1. /\ F[InRecvbuf(p, j)] = RecvBufOf(v.ep, j) /\ F[InSendbuf(p, j)] = SendBufOf(v.ep, j)
        /\ G[InRecvbuf(p, j)] = RecvBufOf(w.ep, j) /\ G[InSendbuf(p, j)] = SendBufOf(w.ep, j)
    BY StockOfIs
  <2> HIDE DEF F, G
  <2> QED BY <2>1
<1>4. \A q \in Proc, j \in Conn : G[InWire(q, j)] = F[InWire(q, j)] \/ G[InWire(q, j)] = <<>>
  <2> TAKE q \in Proc, j \in Conn
  <2>1. F[InWire(q, j)] = v.conn[j].wire[q] /\ G[InWire(q, j)] = w.conn[j].wire[q]
    BY StockOfIs
  <2> HIDE DEF F, G
  <2> QED BY <2>1
<1> HIDE DEF F, G
<1>5. ASSUME NEW c \in Place
      PROVE  Part(G[c], F[c])
  <2>1. CASE c \notin X
    BY <1>2, <2>1, PartSame
  <2>2. CASE \E j \in Conn : c = InRecvbuf(p, j) \/ c = InSendbuf(p, j)
    BY <1>3, <2>2, PartSame
  <2>3. CASE \E q \in Proc, j \in Conn : c = InWire(q, j)
    BY <1>4, <2>3, PartSame
  <2> QED BY <2>1, <2>2, <2>3
<1> QED BY <1>5, AccountLess DEF F, G

\* It takes no message away where it empties only what holds none.
LEMMA FewerMoves ==
  ASSUME NEW p \in Proc, NEW es, NEW v, NEW w,
         w.handled = v.handled, w.ep.sendq = v.ep.sendq, w.ep.recvq = v.ep.recvq,
         \A j \in Conn :
           /\ RecvBufOf(w.ep, j) = RecvBufOf(v.ep, j) \/ ~HasMsg(RecvBufOf(v.ep, j))
           /\ SendBufOf(w.ep, j) = SendBufOf(v.ep, j) \/ ~HasMsg(SendBufOf(v.ep, j))
           /\ \A q \in Proc : \/ w.conn[j].wire[q] = v.conn[j].wire[q]
                               \/ ~HasMsg(v.conn[j].wire[q])
  PROVE  Moves(StockOf(v, p, es), StockOf(w, p, es))
<1> DEFINE F == StockOf(v, p, es)
           G == StockOf(w, p, es)
           X == {c \in Place : ~HasMsg(F[c])}
<1>1. Same(v, w, p, X)
  <2>1. /\ w.handled = v.handled /\ w.ep.recvq = v.ep.recvq /\ w.ep.sendq = v.ep.sendq
    OBVIOUS
  <2>2. ASSUME NEW j \in Conn
        PROVE  /\ InRecvbuf(p, j) \in X \/ RecvBufOf(w.ep, j) = RecvBufOf(v.ep, j)
               /\ InSendbuf(p, j) \in X \/ SendBufOf(w.ep, j) = SendBufOf(v.ep, j)
    <3>1. /\ F[InRecvbuf(p, j)] = RecvBufOf(v.ep, j) /\ F[InSendbuf(p, j)] = SendBufOf(v.ep, j)
          /\ InRecvbuf(p, j) \in Place /\ InSendbuf(p, j) \in Place
      BY StockOfIs, PlaceIs
    <3> HIDE DEF F
    <3> QED BY <3>1
  <2>3. ASSUME NEW q \in Proc, NEW j \in Conn
        PROVE  InWire(q, j) \in X \/ w.conn[j].wire[q] = v.conn[j].wire[q]
    <3>1. F[InWire(q, j)] = v.conn[j].wire[q] /\ InWire(q, j) \in Place
      BY StockOfIs, PlaceIs
    <3> HIDE DEF F
    <3> QED BY <3>1
  <2> HIDE DEF X
  <2> QED BY <2>1, <2>2, <2>3 DEF Same
<1>2. \A c \in Place : c \notin X => G[c] = F[c]
  BY <1>1, SameStock
<1> HIDE DEF F, G
<1>3. ASSUME NEW c \in Place
      PROVE  Within(F[c], G[c])
  <2>1. CASE c \notin X
    BY <1>2, <2>1, WithinSame
  <2>2. CASE c \in X
    BY <2>2 DEF Within, HasMsg
  <2> QED BY <2>1, <2>2
<1> QED BY <1>3, MovesNone DEF F, G

\* Nobody else has something to send on a connection that is free.
LEMMA FreeSends ==
  ASSUME NEW p \in Proc, NEW es, NEW u, NEW k \in Conn, LinkInv(NodesAt(u, p, es, k), FreeConn),
         NEW w, NEW q \in Proc, q # p
  PROVE  StockOf(w, p, es)[InSendbuf(q, k)] = <<>>
<1>1. NodesAt(u, p, es, k)[q] = NoNode
  BY FreeLink
<1>2. ~IsOpen(es[q], k)
  BY <1>1 DEF NodesAt, IsOpen
<1> QED BY <1>2, StockOfIs DEF SendBufOf

\* With a node goes what its buffers hold, and what is on the wire to it.
LEMMA ClosedAccount ==
  ASSUME NEW p \in Proc, NEW es, NEW u \in ViewType, AccountOf(u, p, es), NEW k \in Conn,
         NEW w \in ViewType, w.handled = u.handled, w.left = u.left,
         ~IsOpen(w.ep, k), w.conn[k] = ShutEnd(u.conn[k], p),
         \A j \in Conn : j # k => w.ep.nodes[j] = u.ep.nodes[j] /\ w.conn[j] = u.conn[j],
         w.ep.sendq = u.ep.sendq, w.ep.recvq = u.ep.recvq,
         \A j \in Conn : LinkInv(NodesAt(w, p, es, j), w.conn[j])
  PROVE  AccountOf(w, p, es)
<1>1. /\ \A j \in Conn : j # k => /\ RecvBufOf(w.ep, j) = RecvBufOf(u.ep, j)
                                 /\ SendBufOf(w.ep, j) = SendBufOf(u.ep, j)
      /\ RecvBufOf(w.ep, k) = <<>> /\ SendBufOf(w.ep, k) = <<>>
  BY DEF RecvBufOf, SendBufOf, IsOpen
<1>2. u.conn[k] \in Connection
  BY ViewFields
<1>3. \A q \in Proc : w.conn[k].wire[q] = <<>> \/ w.conn[k].wire[q] = u.conn[k].wire[q]
  BY <1>2 DEF ShutEnd, FreeConn, Connection
<1>4. \/ w.conn[k].client = u.conn[k].client /\ w.conn[k].server = u.conn[k].server
      \/ \A q \in Proc : StockOf(w, p, es)[InSendbuf(q, k)] = <<>>
  <2>1. CASE w.conn[k] = FreeConn
    <3>1. StockOf(w, p, es)[InSendbuf(p, k)] = <<>>
      BY <1>1, StockOfIs
    <3>2. \A q \in Proc : q # p => StockOf(w, p, es)[InSendbuf(q, k)] = <<>>
      <4>1. LinkInv(NodesAt(w, p, es, k), FreeConn)
        BY <2>1
      <4> QED BY <4>1, FreeSends
    <3> QED BY <3>1, <3>2
  <2>2. CASE w.conn[k] # FreeConn
    BY <1>2, <2>2 DEF ShutEnd, Connection
  <2> QED BY <2>1, <2>2
<1>5. \A j \in Conn :
        \/ w.conn[j].client = u.conn[j].client /\ w.conn[j].server = u.conn[j].server
        \/ \A q \in Proc : StockOf(w, p, es)[InSendbuf(q, j)] = <<>>
  BY <1>4
<1>6. \A j \in Conn :
        /\ RecvBufOf(w.ep, j) = RecvBufOf(u.ep, j) \/ RecvBufOf(w.ep, j) = <<>>
        /\ SendBufOf(w.ep, j) = SendBufOf(u.ep, j) \/ SendBufOf(w.ep, j) = <<>>
        /\ \A q \in Proc : w.conn[j].wire[q] = u.conn[j].wire[q] \/ w.conn[j].wire[q] = <<>>
  BY <1>1, <1>3
<1> QED BY <1>5, <1>6, FewerAccount

\* No message goes with it where the connection is not in use.
LEMMA ClosedMoves ==
  ASSUME NEW p \in Proc, NEW es, NEW u \in ViewType, NEW k \in Conn, NEW w,
         Idle(NodesAt(u, p, es, k), u.conn[k], p),
         w.handled = u.handled, ~IsOpen(w.ep, k), w.conn[k] = ShutEnd(u.conn[k], p),
         \A j \in Conn : j # k => w.ep.nodes[j] = u.ep.nodes[j] /\ w.conn[j] = u.conn[j],
         w.ep.sendq = u.ep.sendq, w.ep.recvq = u.ep.recvq
  PROVE  Moves(StockOf(u, p, es), StockOf(w, p, es))
<1>1. /\ NodesAt(u, p, es, k)[p] = u.ep.nodes[k]
      /\ \A q \in Proc : ~HasMsg(u.conn[k].wire[q])
      /\ u.ep.nodes[k] # NoNode =>
           ~HasMsg(u.ep.nodes[k].recvbuf) /\ ~HasMsg(u.ep.nodes[k].sendbuf)
  BY DEF Idle, NodesAt
<1>2. ~HasMsg(RecvBufOf(u.ep, k)) /\ ~HasMsg(SendBufOf(u.ep, k))
  BY <1>1, NothingSaid DEF RecvBufOf, SendBufOf, IsOpen
<1>3. \A j \in Conn : j # k => /\ RecvBufOf(w.ep, j) = RecvBufOf(u.ep, j)
                               /\ SendBufOf(w.ep, j) = SendBufOf(u.ep, j)
  BY DEF RecvBufOf, SendBufOf, IsOpen
<1>4. ASSUME NEW j \in Conn
      PROVE  /\ RecvBufOf(w.ep, j) = RecvBufOf(u.ep, j) \/ ~HasMsg(RecvBufOf(u.ep, j))
             /\ SendBufOf(w.ep, j) = SendBufOf(u.ep, j) \/ ~HasMsg(SendBufOf(u.ep, j))
             /\ \A q \in Proc : \/ w.conn[j].wire[q] = u.conn[j].wire[q]
                                 \/ ~HasMsg(u.conn[j].wire[q])
  BY <1>1, <1>2, <1>3
<1> QED BY <1>4, FewerMoves

\* The invariant but for the messages.
Frame(v, p, es) ==
  /\ v \in ViewType
  /\ LocalInv(v.ep, p)
  /\ \A k \in Conn : LinkInv(NodesAt(v, p, es, k), v.conn[k])
  /\ Delivered(v.handled)

\* Node k is closed.
Closed(v, w, p, es, k) ==
  /\ Frame(w, p, es) /\ AccountOf(w, p, es) /\ w.left = v.left
  /\ ~IsOpen(w.ep, k) /\ \A j \in Conn : j # k => w.ep.nodes[j] = v.ep.nodes[j]

\* While nothing has gone wrong, node k is closed only where it may be.
MayClose(v, p, es, k) ==
  v.left = MaxLeft /\ IsOpen(v.ep, k) => Closable(NodesAt(v, p, es, k), v.conn[k], p)

\* An open node is closed.
LEMMA CloseOpen ==
  ASSUME NEW p \in Proc, NEW es, NEW u, ViewInv(u, p, es), NEW k \in Conn, IsOpen(u.ep, k)
  PROVE  LET w == ClosedView(u, p, k, u.ep.nodes[k].procid)
         IN  Closed(u, w, p, es, k) /\ (MayClose(u, p, es, k) => KeptOf(w, p, es))
<1> DEFINE c == u.ep.nodes[k].procid
           f == ClosedEp(u.ep, k, c)
           w == ClosedView(u, p, k, c)
           d == ShutEnd(u.conn[k], p)
<1>1. u \in ViewType /\ LocalInv(u.ep, p) /\ Delivered(u.handled)
  BY DEF ViewInv
<1>2. /\ f \in Endpoint /\ LocalInv(f, p)
      /\ f.nodes = [u.ep.nodes EXCEPT ![k] = NoNode]
      /\ f.sendq = u.ep.sendq /\ f.recvq = u.ep.recvq
  BY <1>1, LocalClose
<1>3. /\ LinkInv(NodesAt(u, p, es, k), u.conn[k]) /\ p \in u.conn[k].open
      /\ u.conn \in [Conn -> Connection] /\ u.ep.nodes \in [Conn -> Node]
  BY <1>1, OpenFacts, ViewFields
<1>4. LinkInv([NodesAt(u, p, es, k) EXCEPT ![p] = NoNode], d)
  BY <1>3, LinkShut
<1> HIDE DEF f, d
<1>5. d \in Connection
  BY <1>4 DEF LinkInv
<1>6. /\ w.ep = f /\ w.conn = [u.conn EXCEPT ![k] = d] /\ w.left = u.left
      /\ w.handled = u.handled
      /\ w \in [ep : {f}, conn : {w.conn}, handled : {u.handled}, left : {u.left},
                moved : {u.moved}, dealt : {u.dealt}]
  <2>1. Shut(u.conn, k, p) = [u.conn EXCEPT ![k] = d]
    BY <1>3, ShutIs DEF d
  <2>2. w = [u EXCEPT !.ep = f, !.conn = [u.conn EXCEPT ![k] = d]]
    BY <2>1 DEF ClosedView, f
  <2> HIDE DEF w
  <2> QED BY <1>1, <2>2 DEF ViewType
<1> HIDE DEF w
<1>7. w \in ViewType
  <2>1. w.conn \in [Conn -> Connection]
    BY <1>3, <1>5, <1>6
  <2> QED BY <1>1, <1>2, <1>6, <2>1 DEF ViewType
<1>8. NoNode \in Node
  BY DEF Node
<1>9. \A j \in Conn : LinkInv(NodesAt(w, p, es, j), w.conn[j])
  BY <1>2, <1>4, <1>6, <1>7, <1>8, LinksStep
<1>12. /\ ~IsOpen(w.ep, k) /\ w.conn[k] = ShutEnd(u.conn[k], p)
       /\ \A j \in Conn : j # k => w.ep.nodes[j] = u.ep.nodes[j] /\ w.conn[j] = u.conn[j]
       /\ w.ep.sendq = u.ep.sendq /\ w.ep.recvq = u.ep.recvq
  BY <1>2, <1>3, <1>6 DEF IsOpen, d
<1>13. AccountOf(w, p, es)
  BY <1>1, <1>6, <1>7, <1>9, <1>12, ClosedAccount DEF ViewInv
<1>14. ASSUME MayClose(u, p, es, k)
       PROVE  KeptOf(w, p, es)
  <2>1. KeptOf(u, p, es)
    BY DEF ViewInv
  <2>2. ASSUME u.left = MaxLeft
        PROVE  /\ Healthy([NodesAt(u, p, es, k) EXCEPT ![p] = NoNode], d)
               /\ Moves(StockOf(u, p, es), StockOf(w, p, es))
    <3>1. /\ Healthy(NodesAt(u, p, es, k), u.conn[k])
          /\ Closable(NodesAt(u, p, es, k), u.conn[k], p)
      BY <1>14, <2>1, <2>2 DEF KeptOf, MayClose
    <3>2. Idle(NodesAt(u, p, es, k), u.conn[k], p)
      BY <1>3, <3>1, ClosableIs
    <3>3. Healthy([NodesAt(u, p, es, k) EXCEPT ![p] = NoNode], d)
      BY <1>3, <3>1, HealthyShut DEF d
    <3>4. Moves(StockOf(u, p, es), StockOf(w, p, es))
      BY <1>1, <1>6, <1>12, <3>2, ClosedMoves
    <3> QED BY <3>3, <3>4
  <2> QED BY <1>2, <1>3, <1>6, <2>1, <2>2, KeptStep
<1>10. Frame(w, p, es)
  BY <1>1, <1>2, <1>6, <1>7, <1>9 DEF Frame
<1>11. ~IsOpen(w.ep, k) /\ \A j \in Conn : j # k => w.ep.nodes[j] = u.ep.nodes[j]
  BY <1>2, <1>3, <1>6 DEF IsOpen
<1> QED BY <1>6, <1>10, <1>11, <1>13, <1>14 DEF Closed, w

\* joynetCloseConnectNode
LEMMA CloseShuts ==
  ASSUME NEW p \in Proc, NEW es, NEW v, ViewInv(v, p, es), NEW k \in Conn
  PROVE  LET w == CloseConnectNode(v, p, k)
         IN  Closed(v, w, p, es, k) /\ (MayClose(v, p, es, k) => KeptOf(w, p, es))
<1>1. CASE ~IsOpen(v.ep, k)
  BY <1>1 DEF CloseConnectNode, Closed, Frame, ViewInv
<1>2. CASE IsOpen(v.ep, k)
  <2> DEFINE u == ReadRecvBuf(v, k).view
             w == CloseConnectNode(v, p, k)
             c == v.ep.nodes[k].procid
  <2>1. Keeps(v, u, p, es, k) /\ IsOpen(u.ep, k) /\ ReadsTo(v, u, k, p)
    BY <1>2, ReadKeeps
  <2>2. /\ u.ep.nodes[k].procid = c /\ u.ep.nodes[k].status = v.ep.nodes[k].status
        /\ u.conn = v.conn /\ u.left = v.left
    BY <2>1 DEF ReadsTo
  <2>3. u \in ViewType
    BY <2>1 DEF Keeps, ViewInv
  <2>4. w = [u EXCEPT !.ep.nodes[k] = NoNode,
                      !.ep.used = Without(@, k),
                      !.ep.nodeidx[c] = IF @ = k THEN NoConn ELSE @,
                      !.conn = Shut(@, k, p)]
    BY <1>2 DEF CloseConnectNode
  <2> HIDE DEF u, w
  <2>5. MayClose(v, p, es, k) => MayClose(u, p, es, k)
    <3>1. NodesAt(u, p, es, k)[p] = u.ep.nodes[k] /\ NodesAt(v, p, es, k)[p] = v.ep.nodes[k]
      BY DEF NodesAt
    <3> QED BY <1>2, <2>2, <3>1 DEF MayClose, Closable
  <2>6. w = ClosedView(u, p, k, c)
    BY <2>3, <2>4 DEF ClosedView, ClosedEp, ViewType, Endpoint
  <2>7. Closed(u, w, p, es, k) /\ (MayClose(u, p, es, k) => KeptOf(w, p, es))
    BY <2>1, <2>2, <2>6, CloseOpen DEF Keeps
  <2> QED BY <2>1, <2>5, <2>7 DEF Keeps, Closed, w
<1> QED BY <1>1, <1>2

\* Where it may be closed, the invariant stays.
LEMMA CloseKeeps ==
  ASSUME NEW p \in Proc, NEW es, NEW v, ViewInv(v, p, es), NEW k \in Conn,
         MayClose(v, p, es, k)
  PROVE  LET w == CloseConnectNode(v, p, k)
         IN  Keeps(v, w, p, es, k) /\ ~IsOpen(w.ep, k)
<1> DEFINE w == CloseConnectNode(v, p, k)
<1>1. Closed(v, w, p, es, k) /\ KeptOf(w, p, es)
  BY CloseShuts
<1> QED BY <1>1 DEF Closed, Frame, Keeps, ViewInv

-----------------------------------------------------------------------------
(* joynetRecvBuf. *)

\* The counts of a call do not matter to the invariant.
LEMMA MovedKeeps ==
  ASSUME NEW p, NEW es, NEW v, NEW w, NEW k, NEW m \in Int, Keeps(v, w, p, es, k)
  PROVE  Keeps(v, [w EXCEPT !.moved = m], p, es, k)
<1> DEFINE u == [w EXCEPT !.moved = m]
<1>1. w \in ViewType
  BY DEF Keeps, ViewInv
<1>2. u \in ViewType /\ u.ep = w.ep /\ u.conn = w.conn /\ u.handled = w.handled /\ u.left = w.left
  BY <1>1 DEF ViewType
<1> HIDE DEF u
<1>3. \A j \in Conn : NodesAt(u, p, es, j) = NodesAt(w, p, es, j)
  BY <1>2 DEF NodesAt
<1>4. AccountOf(u, p, es) <=> AccountOf(w, p, es)
  BY <1>2 DEF AccountOf, StockOf, Eps
<1>6. KeptOf(u, p, es) <=> KeptOf(w, p, es)
  BY <1>2, <1>3 DEF KeptOf, StockOf, Eps
<1>5. ViewInv(u, p, es)
  BY <1>2, <1>3, <1>4, <1>6 DEF Keeps, ViewInv
<1> QED BY <1>2, <1>5 DEF Keeps, u

\* Two steps on one node.
LEMMA KeepsTwice ==
  ASSUME NEW p, NEW es, NEW u, NEW v, NEW w, NEW k, Keeps(u, v, p, es, k), Keeps(v, w, p, es, k)
  PROVE  Keeps(u, w, p, es, k)
  BY DEF Keeps

\* As many packages as there are, or as there is room for.
LEMMA AtMost ==
  ASSUME NEW a \in Int, NEW b \in Int, a >= 0, b >= 0
  PROVE  LET n == IF a < b THEN a ELSE b
         IN  n \in 0..a /\ n <= b /\ n \in Int
  OBVIOUS

\* Messages that go from the front of one place to the end of another.
LEMMA Passed ==
  ASSUME NEW p \in Proc, NEW es, NEW v, ViewInv(v, p, es), NEW w \in ViewType,
         w.left.refusals = v.left.refusals, SamePeers(v, w),
         NEW a \in Place, NEW b \in Place, a # b, b.at # "sendq", Same(v, w, p, {a, b}),
         NEW s \in Seq(Pkg), StockOf(v, p, es)[a] = s, NEW n \in 0..Len(s),
         StockOf(w, p, es)[a] = SubSeq(s, n + 1, Len(s)),
         StockOf(w, p, es)[b] = StockOf(v, p, es)[b] \o SubSeq(s, 1, n),
         FlowsDown(StockOf(v, p, es), v.conn, a, b)
  PROVE  AccountOf(w, p, es) /\ Moves(StockOf(v, p, es), StockOf(w, p, es))
<1> DEFINE F == StockOf(v, p, es)
           G == StockOf(w, p, es)
<1>1. SubSeq(s, 1, n) \in Seq(Pkg)
  BY PrefixSeq
<1>2. \A c \in Place : c # a /\ c # b => G[c] = F[c]
  BY SameStock
<1>3. /\ F[a] = s /\ G[a] = SubSeq(s, n + 1, Len(s)) /\ G[b] = F[b] \o SubSeq(s, 1, n)
      /\ FlowsDown(F, v.conn, a, b)
  OBVIOUS
<1> HIDE DEF F, G
<1>4. Flow(F, G, a, b, n, SubSeq(s, 1, n))
  BY <1>1, <1>2, <1>3, PartSame, WithinSame DEF Flow
<1> QED BY <1>3, <1>4, AccountFlow DEF ViewInv, F, G

\* What is read from the wire says what the wire said.
LEMMA TakeSide ==
  ASSUME NEW old \in OpenNode, NEW new \in OpenNode, NEW in \in Seq(Pkg), NEW n \in 0..Len(in),
         NEW p, NEW x, Side(old, in, x, p),
         new.status = old.status, new.procid = old.procid, new.shaken = old.shaken,
         new.sendbuf = old.sendbuf, new.recvbuf = old.recvbuf \o SubSeq(in, 1, n)
  PROVE  Side(new, SubSeq(in, n + 1, Len(in)), x, p)
<1> DEFINE all  == old.recvbuf
           buf  == new.recvbuf
           read == SubSeq(in, 1, n)
           rest == SubSeq(in, n + 1, Len(in))
<1>1. old # NoNode /\ new # NoNode /\ all \in Seq(Pkg)
  BY DEF OpenNode, NoNode
<1>2. /\ HasShake(read) => HasShake(in)
      /\ HasShake(rest) => HasShake(in)
      /\ HasMsg(rest) => HasMsg(in)
      /\ HasMsg(read) => HasMsg(in)
      /\ From(in, x) => From(rest, x) /\ From(read, x)
      /\ OneShake(in) => OneShake(read) /\ OneShake(rest) /\ ~(HasShake(read) /\ HasShake(rest))
  BY CutSays
<1>3. read \in Seq(Pkg) /\ buf = all \o read
  BY PrefixSeq
<1> HIDE DEF read, rest, buf
<1>4. /\ HasShake(buf) => HasShake(all) \/ HasShake(read)
      /\ HasMsg(buf) => HasMsg(all) \/ HasMsg(read)
      /\ From(all, x) /\ From(read, x) => From(buf, x)
      /\ OneShake(all) /\ OneShake(read) /\ ~(HasShake(all) /\ HasShake(read)) => OneShake(buf)
  BY <1>1, <1>3, JoinSays
<1>5. /\ From(in, x) /\ (HasMsg(in) => Ready(old, p))
      /\ From(all, x) /\ (HasMsg(all) => Ready(old, p))
  BY <1>1 DEF Side, Receives
<1>6. /\ OneShake(in) /\ OneShake(all)
      /\ HasShake(all) => ~HasShake(in)
      /\ old.shaken = TRUE \/ old.status = "Connected" => ~HasShake(all) /\ ~HasShake(in)
  BY <1>1 DEF Side, ShakesOnce
<1>7. Ready(old, p) => Ready(new, p)
  BY <1>1 DEF Ready
<1>8. Receives(new, rest, x, p)
  BY <1>2, <1>4, <1>5, <1>7 DEF Receives, buf
<1>9. ShakesOnce(new, rest)
  BY <1>2, <1>4, <1>6 DEF ShakesOnce, buf
<1>10. Sends(new, p) /\ (p \in Client => new.procid = x)
  BY <1>1 DEF Side, Sends
<1> QED BY <1>8, <1>9, <1>10 DEF Side, rest

\* The bytes of one recv.
LEMMA TakenKeeps ==
  ASSUME NEW p \in Proc, NEW es, NEW v, ViewInv(v, p, es), NEW k \in Conn, IsOpen(v.ep, k),
         NEW n \in 0..Len(v.conn[k].wire[p]), n <= TempNum - Len(v.ep.nodes[k].recvbuf)
  PROVE  Keeps(v, TakeIn(v, p, k, n), p, es, k) /\ IsOpen(TakeIn(v, p, k, n).ep, k)
<1> DEFINE node == v.ep.nodes[k]
           cn   == v.conn[k]
           in   == cn.wire[p]
           a    == SubSeq(in, 1, n)
           b    == SubSeq(in, n + 1, Len(in))
           buf  == node.recvbuf \o a
           new  == [node EXCEPT !.recvbuf = buf]
           dn   == [cn EXCEPT !.wire[p] = b]
           w    == TakeIn(v, p, k, n)
           o    == Peer(cn, p)
<1>1. /\ node \in OpenNode /\ cn \in Connection /\ p \in cn.open
      /\ NodeInv(node, cn, p) /\ o \in Proc /\ o # p
      /\ in \in Seq(Pkg) /\ in \in Seq(For(p))
      /\ \A q \in Proc : cn.wire[q] \in Seq(For(q)) /\ Len(cn.wire[q]) <= WireNum
  BY OpenFacts
<1>2. /\ v \in ViewType /\ Sized(v.ep) /\ Sorted(v.ep, p) /\ Delivered(v.handled)
      /\ v.ep \in Endpoint /\ v.ep.nodes \in [Conn -> Node] /\ v.conn \in [Conn -> Connection]
  BY ViewFields DEF ViewInv, LocalInv
<1>3. /\ node # NoNode /\ node.recvbuf \in Seq(Pkg) /\ node.recvbuf \in Seq(For(p))
      /\ Len(node.recvbuf) \in Nat /\ Len(in) \in Nat
  BY <1>1, LenProperties DEF NodeInv, OpenNode, IsOpen
<1>4. /\ a \in Seq(Pkg) /\ a \in Seq(For(p)) /\ Len(a) = n
      /\ b \in Seq(Pkg) /\ b \in Seq(For(p)) /\ Len(b) = Len(in) - n
      /\ Says(a) => Says(in)
      /\ Says(b) => Says(in)
  BY <1>1, PrefixSeq, SuffixSeq, CutSays DEF Says
<1> HIDE DEF a, b, in
<1>5. /\ buf \in Seq(Pkg) /\ buf \in Seq(For(p)) /\ Len(buf) = Len(node.recvbuf) + n
      /\ Says(buf) => Says(node.recvbuf) \/ Says(a)
  <2>1. buf \in Seq(Pkg) /\ Len(buf) = Len(node.recvbuf) + n
    BY <1>3, <1>4, ConcatProperties
  <2>2. buf \in Seq(For(p))
    BY <1>3, <1>4, ConcatProperties
  <2>3. Says(buf) => Says(node.recvbuf) \/ Says(a)
    BY <1>3, <1>4, HeardParts
  <2> QED BY <2>1, <2>2, <2>3
<1>6. Len(buf) <= TempNum /\ Len(b) <= Len(in)
  BY <1>3, <1>4, <1>5, Bounds
<1> HIDE DEF buf
<1>7. /\ new \in OpenNode /\ new.status = node.status /\ new.procid = node.procid
      /\ new.shaken = node.shaken /\ new.sendbuf = node.sendbuf /\ new.recvbuf = buf
  BY <1>1, <1>5 DEF OpenNode
<1>8. /\ SameLink(cn, dn) /\ dn.wire[p] = b /\ dn \in Connection
      /\ \A q \in Proc : q # p => dn.wire[q] = cn.wire[q]
  BY <1>1, <1>4 DEF Connection, SameLink
<1>9. w = [v EXCEPT !.ep.nodes[k] = new, !.conn[k] = dn]
  BY <1>2 DEF TakeIn, in, a, b, buf
<1> HIDE DEF new, dn, w
<1>10. /\ w.ep = [v.ep EXCEPT !.nodes[k] = new] /\ w.conn = [v.conn EXCEPT ![k] = dn]
       /\ w.handled = v.handled /\ w.left = v.left
       /\ w \in [ep : {w.ep}, conn : {w.conn}, handled : {v.handled}, left : {v.left},
                 moved : {v.moved}, dealt : {v.dealt}]
  BY <1>2, <1>9 DEF ViewType
<1>11. /\ w.ep.nodes = [v.ep.nodes EXCEPT ![k] = new]
       /\ w.ep.used = v.ep.used /\ w.ep.nodeidx = v.ep.nodeidx
       /\ w.ep.sendq = v.ep.sendq /\ w.ep.recvq = v.ep.recvq
       /\ w.ep \in [nodes : {w.ep.nodes}, used : {v.ep.used}, nodeidx : {v.ep.nodeidx},
                    sendq : {v.ep.sendq}, recvq : {v.ep.recvq}]
  BY <1>2, <1>10 DEF Endpoint
<1>12. w \in ViewType
  <2>1. w.ep.nodes \in [Conn -> Node] /\ w.conn \in [Conn -> Connection]
    BY <1>2, <1>7, <1>8, <1>10, <1>11 DEF Node
  <2>2. w.ep \in Endpoint
    BY <1>2, <1>11, <2>1 DEF Endpoint
  <2> QED BY <1>2, <1>10, <2>1, <2>2 DEF ViewType
<1>13. w.ep.nodes[k] = new /\ w.conn[k] = dn /\ SameLists(v, w, k)
  BY <1>2, <1>10, <1>11 DEF SameLists
<1>14. Sized(w.ep) /\ Sorted(w.ep, p) /\ Delivered(w.handled)
  BY <1>2, <1>10, <1>11, SameChains
<1>15. NodeInv(new, cn, p)
  BY <1>1, <1>3, <1>5, <1>6, <1>7 DEF NodeInv
<1>16. WireStep(cn, dn, p, new)
  BY <1>1, <1>4, <1>6, <1>8 DEF WireStep, in
<1>17. NodeStep(node, new, cn, dn, p)
  <2>1. new # NoNode
    BY <1>7 DEF OpenNode, NoNode
  <2>2. Heard(new, dn.wire[p]) => Heard(node, cn.wire[p])
    BY <1>4, <1>5, <1>7, <1>8 DEF Heard, in
  <2> QED BY <1>3, <1>7, <2>1, <2>2 DEF NodeStep, Silent
<1>20. LinkInv(NodesAt(v, p, es, k), cn) /\ NodesAt(v, p, es, k)[p] = node
  BY OpenFacts
<1>21. Sides(new, NodesAt(v, p, es, k)[o], dn, p)
  <2>1. /\ Side(node, cn.wire[p], o, p)
        /\ Side(NodesAt(v, p, es, k)[o], cn.wire[o], p, o)
        /\ \A m : Side(m, dn.wire[p], o, p) /\ Side(NodesAt(v, p, es, k)[o], dn.wire[o], p, o)
                 => Sides(m, NodesAt(v, p, es, k)[o], dn, p)
    BY <1>1, <1>8, <1>20, OwnSide
  <2>2. Side(new, b, o, p)
    <3>1. Side(node, in, o, p) /\ n \in 0..Len(in)
      BY <2>1 DEF in
    <3>2. new.recvbuf = node.recvbuf \o SubSeq(in, 1, n) /\ b = SubSeq(in, n + 1, Len(in))
      BY <1>7 DEF buf, a, b
    <3> HIDE DEF node
    <3> QED BY <1>1, <1>7, <3>1, <3>2, TakeSide
  <2> QED BY <1>1, <1>8, <2>1, <2>2
<1>22. AccountOf(w, p, es) /\ Moves(StockOf(v, p, es), StockOf(w, p, es))
  <2> DEFINE c == InWire(p, k)
             e == InRecvbuf(p, k)
  <2>1. c \in Place /\ e \in Place /\ c # e /\ e.at # "sendq"
    BY PlaceIs DEF InWire, InRecvbuf
  <2>2. /\ \A j \in Conn : j # k => /\ w.conn[j] = v.conn[j]
                                   /\ RecvBufOf(w.ep, j) = RecvBufOf(v.ep, j)
                                   /\ SendBufOf(w.ep, j) = SendBufOf(v.ep, j)
        /\ RecvBufOf(w.ep, k) = buf /\ RecvBufOf(v.ep, k) = node.recvbuf
        /\ SendBufOf(w.ep, k) = SendBufOf(v.ep, k)
        /\ SamePeers(v, w)
    BY <1>2, <1>7, <1>8, <1>12, <1>13, Elsewhere
  <2>3. w.conn[k] = dn
    BY <1>13
  <2>4. Same(v, w, p, {c, e})
    BY <1>8, <1>10, <1>11, <2>2, <2>3 DEF Same
  <2>5. /\ StockOf(v, p, es)[c] = in /\ StockOf(w, p, es)[c] = b
        /\ StockOf(v, p, es)[e] = node.recvbuf /\ StockOf(w, p, es)[e] = buf
    BY <1>8, <2>2, <2>3, StockOfIs DEF in
  <2>6. FlowsDown(StockOf(v, p, es), v.conn, c, e)
    BY Descent
  <2>7. /\ b = SubSeq(in, n + 1, Len(in)) /\ buf = node.recvbuf \o SubSeq(in, 1, n)
        /\ n \in 0..Len(in)
    BY DEF a, b, buf, in
  <2> HIDE DEF c, e, node
  <2> QED BY <1>1, <1>10, <1>12, <2>1, <2>2, <2>4, <2>5, <2>6, <2>7, Passed
<1>23. Spares(v, w, p, es, k)
  <2>1. dn.lost = cn.lost
    BY <1>1 DEF dn, Connection
  <2> QED BY <1>10, <1>13, <1>22, <2>1 DEF Spares
<1>18. ViewInv(w, p, es) /\ IsOpen(w.ep, k)
  BY <1>7, <1>8, <1>12, <1>13, <1>14, <1>15, <1>16, <1>17, <1>21, <1>22, <1>23, ViewStep
<1>19. \A j \in Conn : j # k => w.ep.nodes[j] = v.ep.nodes[j]
  BY <1>2, <1>11
<1> QED BY <1>10, <1>18, <1>19 DEF Keeps, w

\* joynetRecvBuf
LEMMA RecvKeeps ==
  ASSUME NEW p \in Proc, NEW es, NEW v, ViewInv(v, p, es), NEW k \in Conn, IsOpen(v.ep, k)
  PROVE  Keeps(v, RecvBuf(v, p, k), p, es, k)
<1> DEFINE in    == v.conn[k].wire[p]
           room  == TempNum - Len(v.ep.nodes[k].recvbuf)
           n     == IF Len(in) < room THEN Len(in) ELSE room
           ended == room > 0 /\ in = <<>> /\ Gone(v.conn[k], p)
           taken == TakeIn(v, p, k, n)
           res   == ReadRecvBuf(taken, k)
<1>1. /\ Len(in) \in Nat /\ Len(in) >= 0 /\ room \in Int /\ room >= 0
  <2>1. in \in Seq(Pkg) /\ v.ep.nodes[k].recvbuf \in Seq(Pkg)
        /\ Len(v.ep.nodes[k].recvbuf) <= TempNum
    BY OpenFacts DEF OpenNode, NodeInv, IsOpen
  <2>2. Len(in) \in Nat /\ Len(v.ep.nodes[k].recvbuf) \in Nat
    BY <2>1, LenProperties
  <2> HIDE DEF in
  <2> QED BY <2>1, <2>2, Bounds
<1>2. n \in 0..Len(in) /\ n <= room /\ n \in Int
  <2> HIDE DEF in, room
  <2> QED BY <1>1
<1>3. /\ RecvBuf(v, p, k) =
           CASE ended             -> CloseConnectNode(v, p, k)
             [] ~ended /\ res.ok  -> [res.view EXCEPT !.moved = @ + n]
             [] ~ended /\ ~res.ok -> CloseConnectNode(res.view, p, k)
  BY DEF RecvBuf
<1> HIDE DEF n
<1>4. Keeps(v, taken, p, es, k) /\ IsOpen(taken.ep, k)
  BY <1>2, TakenKeeps
<1>5. Keeps(taken, res.view, p, es, k) /\ res.ok = TRUE
  <2>1. ViewInv(taken, p, es) /\ IsOpen(taken.ep, k)
    BY <1>4 DEF Keeps
  <2> HIDE DEF taken
  <2> QED BY <2>1, ReadKeeps
<1>6. Keeps(v, res.view, p, es, k)
  BY <1>4, <1>5, KeepsTwice
<1>7. ended \in BOOLEAN
  OBVIOUS
<1>8. res.view.moved \in Int
  BY <1>6, ViewFields DEF Keeps, ViewInv
<1> HIDE DEF ended, res, taken, in
<1>9. CASE ended
  <2>1. RecvBuf(v, p, k) = CloseConnectNode(v, p, k)
    BY <1>3, <1>9
  <2>2. MayClose(v, p, es, k)
    BY <1>9 DEF MayClose, Closable, ended
  <2> QED BY <2>1, <2>2, CloseKeeps
<1>10. CASE ~ended /\ res.ok
  <2>1. RecvBuf(v, p, k) = [res.view EXCEPT !.moved = res.view.moved + n]
    BY <1>3, <1>10
  <2>2. res.view.moved + n \in Int
    BY <1>2, <1>8
  <2> QED BY <1>6, <2>1, <2>2, MovedKeeps
<1> QED BY <1>5, <1>7, <1>9, <1>10

-----------------------------------------------------------------------------
(* Chains. *)

\* Such a call loses no message, or something goes wrong.
ChainsKept(v, w, p, es) ==
  \/ Spent(v.left, w.left)
  \/ w.left = v.left /\ (v.left = MaxLeft => All(StockOf(w, p, es), sent))

\* A call that changes only what is in chains and in the program.
LEMMA ViewChains ==
  ASSUME NEW p \in Proc, NEW es, NEW v, ViewInv(v, p, es), NEW w \in ViewType,
         w.ep.nodes = v.ep.nodes, w.ep.used = v.ep.used, w.ep.nodeidx = v.ep.nodeidx,
         w.conn = v.conn, Sized(w.ep), Sorted(w.ep, p), Delivered(w.handled)
  PROVE  /\ Frame(w, p, es)
         /\ AccountOf(w, p, es) /\ ChainsKept(v, w, p, es) => ViewInv(w, p, es)
<1>1. \A k \in Conn : IsOpen(w.ep, k) <=> IsOpen(v.ep, k)
  BY DEF IsOpen
<1>2. Listed(w.ep)
  BY <1>1 DEF ViewInv, LocalInv, Listed
<1>3. \A k \in Conn : InIndex(w.ep, p, k) <=> InIndex(v.ep, p, k)
  BY DEF InIndex
<1>4. \A q \in ProcId : v.ep.nodeidx[q] # NoConn => v.ep.nodeidx[q] \in Conn
  BY ViewFields DEF ViewInv
<1>5. Indexed(w.ep, p)
  BY <1>1, <1>3, <1>4 DEF ViewInv, LocalInv, Indexed
<1>6. LocalInv(w.ep, p)
  BY <1>2, <1>5, ViewFields DEF LocalInv
<1>7. \A k \in Conn : NodesAt(w, p, es, k) = NodesAt(v, p, es, k)
  BY DEF NodesAt
<1>8. Frame(w, p, es)
  BY <1>6, <1>7 DEF ViewInv, Frame
<1>9. ASSUME ChainsKept(v, w, p, es)
      PROVE  KeptOf(w, p, es)
  <2>1. KeptOf(v, p, es) /\ v.left \in Left
    BY ViewFields DEF ViewInv
  <2>2. CASE Spent(v.left, w.left)
    BY <2>1, <2>2, KeptSpent
  <2>3. CASE w.left = v.left /\ (v.left = MaxLeft => All(StockOf(w, p, es), sent))
    BY <1>7, <2>1, <2>3 DEF KeptOf
  <2> QED BY <1>9, <2>2, <2>3 DEF ChainsKept
<1> QED BY <1>8, <1>9 DEF ViewInv, Frame

\* While all messages are where they were, they are not lost.
LEMMA ChainsMove ==
  ASSUME NEW p \in Proc, NEW es, NEW v, ViewInv(v, p, es), NEW w, w.left = v.left,
         Moves(StockOf(v, p, es), StockOf(w, p, es))
  PROVE  ChainsKept(v, w, p, es)
<1>1. v.left = MaxLeft => All(StockOf(v, p, es), sent)
  BY DEF ViewInv, KeptOf
<1>2. v.left = MaxLeft => All(StockOf(w, p, es), sent)
  BY <1>1, AllMoves
<1> QED BY <1>2 DEF ChainsKept

\* As before, and the nodes and what may go wrong stay as they are.
KeepsAll(v, w, p, es) == ViewInv(w, p, es) /\ w.left = v.left /\ w.ep.nodes = v.ep.nodes

\* A package at the end of a send chain.
Written(v, w, q, pkg) ==
  /\ w.ep.sendq = [v.ep.sendq EXCEPT ![q] = Append(@, pkg)] /\ w.ep.recvq = v.ep.recvq
  /\ w.ep.nodes = v.ep.nodes /\ w.conn = v.conn /\ w.handled = v.handled
  /\ w.left = v.left

\* joynetWriteSendPkg, where there is room
LEMMA WriteFrame ==
  ASSUME NEW p \in Proc, NEW es, NEW v, ViewInv(v, p, es), NEW q \in ProcId,
         NEW pkg \in Data, p \in Server => pkg \in For(q), SendRoom(v.ep, q)
  PROVE  LET w == WriteSendPkg(v, q, pkg)
         IN  /\ Frame(w, p, es)
             /\ AccountOf(w, p, es) /\ ChainsKept(v, w, p, es) => ViewInv(w, p, es)
             /\ Written(v, w, q, pkg)
<1> DEFINE w == WriteSendPkg(v, q, pkg)
           s == [v.ep.sendq EXCEPT ![q] = Append(@, pkg)]
<1>1. /\ v \in ViewType /\ v.ep \in Endpoint /\ Sized(v.ep) /\ Sorted(v.ep, p)
      /\ Delivered(v.handled)
      /\ v.ep.sendq \in [ProcId -> Seq(Data)] /\ v.ep.recvq \in Seq(Data)
  BY ViewFields DEF ViewInv, LocalInv
<1>2. Len(v.ep.sendq[q]) < BlockChainLen /\ Used(v.ep) < BlockNum /\ Short(v.ep.sendq)
  BY <1>1 DEF SendRoom, Sized, Short
<1>3. Short(s) /\ Cardinality(Places(s)) = Cardinality(Places(v.ep.sendq)) + 1
  BY <1>2, PlacesGrow
<1>4. /\ w.ep.sendq = s /\ w.ep.recvq = v.ep.recvq /\ w.ep.nodes = v.ep.nodes
      /\ w.ep.used = v.ep.used /\ w.ep.nodeidx = v.ep.nodeidx
      /\ w.conn = v.conn /\ w.handled = v.handled /\ w.left = v.left
      /\ w.ep \in [nodes : {v.ep.nodes}, used : {v.ep.used}, nodeidx : {v.ep.nodeidx},
                   sendq : {s}, recvq : {v.ep.recvq}]
      /\ w \in [ep : {w.ep}, conn : {v.conn}, handled : {v.handled}, left : {v.left},
                moved : {v.moved}, dealt : {v.dealt}]
  <2> HIDE DEF s
  <2>1. w = [v EXCEPT !.ep.sendq = s]
    BY <1>1 DEF WriteSendPkg, s, ViewType, Endpoint
  <2> HIDE DEF w
  <2> QED BY <1>1, <2>1 DEF ViewType, Endpoint
<1> HIDE DEF w
<1>5. w.ep \in Endpoint /\ w \in ViewType
  <2>1. w.ep \in Endpoint
    BY <1>1, <1>3, <1>4 DEF Endpoint, Short
  <2> QED BY <1>1, <1>4, <2>1 DEF ViewType
<1>6. Sized(w.ep)
  <2>1. /\ Used(v.ep) = Len(v.ep.recvq) + Cardinality(Places(v.ep.sendq))
        /\ Used(w.ep) = Len(v.ep.recvq) + Cardinality(Places(s))
        /\ Len(v.ep.recvq) \in Nat /\ Cardinality(Places(v.ep.sendq)) \in Nat
    BY <1>1, <1>2, <1>3, <1>4, UsedIs
  <2>2. Used(w.ep) <= BlockNum
    BY <1>2, <1>3, <2>1, Bounds
  <2> QED BY <1>3, <1>4, <2>2 DEF Sized, Short
<1>7. Sorted(w.ep, p)
  <2>1. w.ep.recvq \in Seq(For(p))
    BY <1>1, <1>4 DEF Sorted
  <2>2. ASSUME p \in Server, NEW r \in ProcId
        PROVE  s[r] \in Seq(For(r))
    <3>1. v.ep.sendq[r] \in Seq(For(r)) /\ pkg \in For(q)
      BY <1>1, <2>2 DEF Sorted
    <3>2. r = q => s[r] = Append(v.ep.sendq[r], pkg)
      BY <1>1
    <3>3. r # q => s[r] = v.ep.sendq[r]
      BY <1>1
    <3>4. r = q => s[r] \in Seq(For(r))
      BY <3>1, <3>2, AppendProperties
    <3> QED BY <3>1, <3>3, <3>4
  <2> QED BY <1>4, <2>1, <2>2 DEF Sorted
<1>8. /\ Frame(w, p, es)
      /\ AccountOf(w, p, es) /\ ChainsKept(v, w, p, es) => ViewInv(w, p, es)
  BY <1>1, <1>4, <1>5, <1>6, <1>7, ViewChains
<1> QED BY <1>4, <1>8 DEF Written, s, w

\* Nothing but the end of that chain is another place's.
LEMMA WrittenSame ==
  ASSUME NEW p \in Proc, NEW v \in ViewType, NEW w \in ViewType, NEW q \in ProcId, NEW pkg,
         Written(v, w, q, pkg)
  PROVE  /\ Same(v, w, p, {InSendq(p, q)}) /\ SamePeers(v, w)
         /\ w.ep.sendq[q] = Append(v.ep.sendq[q], pkg)
<1>1. v.ep.sendq \in [ProcId -> Seq(Data)]
  BY ViewFields
<1>2. /\ w.ep.sendq = [v.ep.sendq EXCEPT ![q] = Append(v.ep.sendq[q], pkg)]
      /\ w.ep.recvq = v.ep.recvq /\ w.ep.nodes = v.ep.nodes /\ w.conn = v.conn
      /\ w.handled = v.handled
  BY DEF Written
<1>3. /\ w.ep.sendq[q] = Append(v.ep.sendq[q], pkg)
      /\ \A r \in ProcId : r = q \/ w.ep.sendq[r] = v.ep.sendq[r]
  BY <1>1, <1>2
<1>4. \A k \in Conn : /\ RecvBufOf(w.ep, k) = RecvBufOf(v.ep, k)
                      /\ SendBufOf(w.ep, k) = SendBufOf(v.ep, k)
  BY <1>2 DEF RecvBufOf, SendBufOf, IsOpen
<1> QED BY <1>2, <1>3, <1>4 DEF Same, SamePeers

\* joynetWriteSendPkg, of what is no message
LEMMA WriteKeeps ==
  ASSUME NEW p \in Proc, NEW es, NEW v, ViewInv(v, p, es), NEW q \in ProcId,
         NEW pkg \in Data, p \in Server => pkg \in For(q), pkg.type # "Msg"
  PROVE  KeepsAll(v, WriteSendPkg(v, q, pkg), p, es)
<1>1. CASE ~SendRoom(v.ep, q)
  BY <1>1 DEF WriteSendPkg, KeepsAll
<1>2. CASE SendRoom(v.ep, q)
  <2> DEFINE w == WriteSendPkg(v, q, pkg)
             F == StockOf(v, p, es)
             G == StockOf(w, p, es)
  <2>1. /\ Frame(w, p, es)
        /\ AccountOf(w, p, es) /\ ChainsKept(v, w, p, es) => ViewInv(w, p, es)
        /\ Written(v, w, q, pkg)
    BY <1>2, WriteFrame
  <2> HIDE DEF w
  <2>2. /\ v \in ViewType /\ w \in ViewType /\ AccountOf(v, p, es)
        /\ w.left = v.left /\ w.ep.nodes = v.ep.nodes
    BY <2>1 DEF ViewInv, Frame, Written
  <2>3. /\ Same(v, w, p, {InSendq(p, q)}) /\ SamePeers(v, w)
        /\ w.ep.sendq[q] = Append(v.ep.sendq[q], pkg)
    BY <2>1, <2>2, WrittenSame
  <2>4. \A a \in Place : a # InSendq(p, q) => G[a] = F[a]
    BY <2>3, SameStock
  <2>5. F[InSendq(p, q)] = v.ep.sendq[q] /\ G[InSendq(p, q)] = w.ep.sendq[q]
    BY StockOfIs
  <2>6. v.ep.sendq[q] \in Seq(Pkg) /\ pkg \in Pkg
    <3>1. v.ep.sendq[q] \in Seq(Data) /\ Data \subseteq Pkg
      BY <2>2, ViewFields DEF Data
    <3> QED BY <3>1, SeqMonotonic
  <2>7. Part(G[InSendq(p, q)], F[InSendq(p, q)])
    BY <2>3, <2>5, <2>6, PartAppend
  <2>10. Within(F[InSendq(p, q)], G[InSendq(p, q)])
    BY <2>3, <2>5, <2>6, WithinAppend
  <2> HIDE DEF F, G
  <2>11. Moves(F, G)
    <3>1. \A a \in Place : Within(F[a], G[a])
      BY <2>4, <2>10, WithinSame
    <3> QED BY <3>1, MovesNone
  <2>12. ChainsKept(v, w, p, es)
    BY <2>2, <2>11, ChainsMove DEF F, G
  <2>8. \A a \in Place : Part(G[a], F[a])
    BY <2>4, <2>7, PartSame
  <2>9. AccountOf(w, p, es)
    BY <2>2, <2>3, <2>8, AccountLess DEF SamePeers, F, G
  <2> QED BY <2>1, <2>2, <2>9, <2>12 DEF KeepsAll, w
<1> QED BY <1>1, <1>2

\* The second half of ...ReadRecvData changes the receive chain.
OnlyRecvq(e, f, r) ==
  /\ f.recvq = r
  /\ f.nodes = e.nodes /\ f.used = e.used /\ f.nodeidx = e.nodeidx /\ f.sendq = e.sendq

\* A step that only takes from the receive chain.
LEMMA RecvqShrinks ==
  ASSUME NEW p \in Proc, NEW es, NEW v, ViewInv(v, p, es),
         NEW r \in Seq(Data), r \in Seq(For(p)), Len(r) <= Len(v.ep.recvq),
         NEW w \in ViewType, OnlyRecvq(v.ep, w.ep, r), w.conn = v.conn,
         Delivered(w.handled), AccountOf(w, p, es),
         ChainsKept(v, w, p, es)
  PROVE  ViewInv(w, p, es) /\ w.ep.nodes = v.ep.nodes
<1>1. /\ v.ep \in Endpoint /\ Sized(v.ep) /\ Sorted(v.ep, p)
      /\ v.ep.sendq \in [ProcId -> Seq(Data)] /\ v.ep.recvq \in Seq(Data)
  BY ViewFields DEF ViewInv, LocalInv
<1>2. /\ w.ep.nodes = v.ep.nodes /\ w.ep.used = v.ep.used /\ w.ep.nodeidx = v.ep.nodeidx
      /\ w.ep.sendq = v.ep.sendq /\ w.ep.recvq = r
  BY DEF OnlyRecvq
<1>3. Short(v.ep.sendq) /\ Short(w.ep.sendq) /\ w.ep.recvq \in Seq(Data)
  BY <1>1, <1>2 DEF Sized, Short
<1>4. Used(w.ep) <= Used(v.ep) /\ Used(v.ep) \in Nat /\ Used(w.ep) \in Nat
  <2>1. /\ Used(v.ep) = Len(v.ep.recvq) + Cardinality(Places(v.ep.sendq))
        /\ Used(w.ep) = Len(r) + Cardinality(Places(v.ep.sendq))
        /\ Len(v.ep.recvq) \in Nat /\ Cardinality(Places(v.ep.sendq)) \in Nat /\ Len(r) \in Nat
    BY <1>1, <1>2, <1>3, UsedIs
  <2> QED BY <2>1
<1>5. Sized(w.ep) /\ Sorted(w.ep, p)
  <2>1. Used(v.ep) <= BlockNum
    BY <1>1 DEF Sized
  <2>2. Used(w.ep) <= BlockNum
    BY <1>4, <2>1, Bounds
  <2> QED BY <1>1, <1>2, <2>2 DEF Sized, Sorted
<1> QED BY <1>2, <1>5, ViewChains

-----------------------------------------------------------------------------
(* Sending. *)

\* Packages of chain q are for the peer at node k.
ForPeer(v, p, k, q) == q = Chain(p, Peer(v.conn[k], p))

\* A node of a connected process takes its own messages to send.
LEMMA FillSide ==
  ASSUME NEW old \in OpenNode, NEW new \in OpenNode, NEW a \in Seq(Pkg), NEW wire,
         NEW p, NEW x, Side(old, wire, x, p), From(a, p),
         new.status = old.status, new.procid = old.procid, new.shaken = old.shaken,
         new.recvbuf = old.recvbuf, new.sendbuf = old.sendbuf \o a,
         old.status = "Connected"
  PROVE  Side(new, wire, x, p)
<1>1. old # NoNode /\ new # NoNode
  BY DEF OpenNode, NoNode
<1>2. old.sendbuf \in Seq(Pkg)
  <2>1. old.sendbuf \in Seq(Data) /\ Data \subseteq Pkg
    BY DEF OpenNode, Data
  <2> QED BY <2>1, SeqMonotonic
<1>3. From(old.sendbuf, p) /\ From(a, p) => From(new.sendbuf, p)
  BY <1>2, JoinSays
<1>4. Sends(new, p)
  BY <1>1, <1>3 DEF Side, Sends
<1>5. Receives(new, wire, x, p)
  BY <1>1 DEF Side, Receives, Ready
<1>6. ShakesOnce(new, wire)
  BY <1>1 DEF Side, ShakesOnce
<1> QED BY <1>1, <1>4, <1>5, <1>6 DEF Side

\* joynetWriteSendBuf
LEMMA FillKeeps ==
  ASSUME NEW p \in Proc, NEW es, NEW v, ViewInv(v, p, es), NEW k \in Conn, IsOpen(v.ep, k),
         v.ep.nodes[k].status = "Connected", NEW q \in ProcId, ForPeer(v, p, k, q)
  PROVE  LET w == WriteSendBuf(v, k, q)
         IN  /\ Keeps(v, w, p, es, k) /\ IsOpen(w.ep, k) /\ w.conn = v.conn
             /\ w.ep.nodes[k].status = v.ep.nodes[k].status
<1> DEFINE node  == v.ep.nodes[k]
           cn    == v.conn[k]
           chain == v.ep.sendq[q]
           room  == TempNum - Len(node.sendbuf)
           n     == IF Len(chain) < room THEN Len(chain) ELSE room
           a     == SubSeq(chain, 1, n)
           b     == SubSeq(chain, n + 1, Len(chain))
           out   == node.sendbuf \o a
           new   == [node EXCEPT !.sendbuf = out]
           s     == [v.ep.sendq EXCEPT ![q] = b]
           w     == WriteSendBuf(v, k, q)
           o     == Peer(cn, p)
<1>1. /\ node \in OpenNode /\ cn \in Connection /\ p \in cn.open
      /\ NodeInv(node, cn, p) /\ o \in Proc /\ o # p /\ Wires(cn)
      /\ LinkInv(NodesAt(v, p, es, k), cn)
  BY OpenFacts DEF LinkInv
<1>2. /\ v \in ViewType /\ Sized(v.ep) /\ Sorted(v.ep, p) /\ Delivered(v.handled)
      /\ v.ep \in Endpoint /\ v.ep.nodes \in [Conn -> Node] /\ v.conn \in [Conn -> Connection]
      /\ v.ep.sendq \in [ProcId -> Seq(Data)] /\ v.ep.recvq \in Seq(Data)
  BY ViewFields DEF ViewInv, LocalInv
<1>3. /\ node # NoNode /\ node.sendbuf \in Seq(Data) /\ node.sendbuf \in Seq(For(o))
      /\ Len(node.sendbuf) \in Nat /\ Len(node.sendbuf) <= TempNum
  BY <1>1, LenProperties DEF NodeInv, OpenNode, IsOpen
<1>4. chain \in Seq(Data) /\ chain \in Seq(For(o)) /\ Len(chain) \in Nat
  <2>1. chain \in Seq(Data)
    BY <1>2
  <2>2. CASE p \in Server
    <3>1. q = o
      BY <2>2, NetAssumption DEF ForPeer, Chain
    <3> QED BY <1>2, <2>1, <2>2, <3>1, LenProperties DEF Sorted
  <2>3. CASE p \notin Server
    <3>1. p \in Client /\ o \notin Client
      BY <1>1, <2>3, EndsOf DEF Proc
    <3>2. Data \subseteq For(o)
      BY <3>1 DEF Data, For
    <3> QED BY <2>1, <3>2, SeqMonotonic, LenProperties
  <2> QED BY <2>2, <2>3
<1>5. n \in 0..Len(chain) /\ n <= room /\ n \in Int /\ n \in Nat
  <2>1. room \in Int /\ room >= 0 /\ Len(chain) >= 0
    BY <1>3, <1>4, Bounds
  <2> QED BY <1>4, <2>1, AtMost
<1>24. chain \in Seq(Pkg)
  <2>1. Data \subseteq Pkg
    BY DEF Data
  <2> QED BY <1>4, <2>1, SeqMonotonic
<1>25. From(a, p) /\ a \in Seq(Pkg)
  <2>1. Own(StockOf(v, p, es)) /\ StockOf(v, p, es)[InSendq(p, q)] = chain
    BY StockOfIs DEF ViewInv, AccountOf, Account
  <2>2. InSendq(p, q) \in Place /\ InSendq(p, q).at = "sendq" /\ InSendq(p, q).of = p
    BY PlaceIs DEF InSendq
  <2> HIDE DEF chain, n
  <2>3. From(chain, p)
    BY <2>1, <2>2 DEF Own, From
  <2>4. From(chain, p) => From(a, p)
    BY <1>5, <1>24, CutSays
  <2>5. a \in Seq(Pkg)
    BY <1>5, <1>24, PrefixSeq
  <2> QED BY <2>3, <2>4, <2>5
<1> HIDE DEF n, chain
<1>6. /\ a \in Seq(Data) /\ a \in Seq(For(o)) /\ Len(a) = n
      /\ b \in Seq(Data) /\ Len(b) = Len(chain) - n
  BY <1>4, <1>5, PrefixSeq, SuffixSeq
<1> HIDE DEF a
<1>7. out \in Seq(Data) /\ out \in Seq(For(o)) /\ Len(out) = Len(node.sendbuf) + n
  <2>1. out \in Seq(Data) /\ Len(out) = Len(node.sendbuf) + Len(a)
    BY <1>3, <1>6, ConcatProperties
  <2>2. out \in Seq(For(o))
    BY <1>3, <1>6, ConcatProperties
  <2> HIDE DEF out, node, o
  <2> QED BY <1>6, <2>1, <2>2
<1>8. Len(out) <= TempNum
  BY <1>3, <1>5, <1>7, Bounds
<1>9. /\ new \in OpenNode /\ new.status = node.status /\ new.procid = node.procid
      /\ new.shaken = node.shaken /\ new.recvbuf = node.recvbuf /\ new.sendbuf = out
  <2> HIDE DEF out
  <2> QED BY <1>1, <1>7 DEF OpenNode
<1>10. w = [v EXCEPT !.ep.sendq = s, !.ep.nodes[k] = new]
  BY <1>2 DEF WriteSendBuf, a, n, chain
<1>11. \A r \in ProcId : r # q => s[r] = v.ep.sendq[r]
  BY <1>2
<1>12. s[q] = b /\ s \in [ProcId -> Seq(Data)]
  BY <1>2, <1>6
<1> HIDE DEF new, s, w, b
<1>13. /\ w.ep.nodes = [v.ep.nodes EXCEPT ![k] = new] /\ w.ep.sendq = s
       /\ w.ep.recvq = v.ep.recvq
       /\ w.ep.used = v.ep.used /\ w.ep.nodeidx = v.ep.nodeidx
       /\ w.conn = v.conn /\ w.handled = v.handled /\ w.left = v.left
       /\ w \in [ep : {w.ep}, conn : {w.conn}, handled : {v.handled}, left : {v.left},
                 moved : {v.moved}, dealt : {v.dealt}]
       /\ w.ep \in [nodes : {w.ep.nodes}, used : {v.ep.used}, nodeidx : {v.ep.nodeidx},
                    sendq : {s}, recvq : {v.ep.recvq}]
  BY <1>2, <1>10 DEF ViewType, Endpoint
<1>14. w \in ViewType
  <2>1. w.ep.nodes \in [Conn -> Node]
    BY <1>2, <1>9, <1>13 DEF Node
  <2>2. w.ep \in Endpoint
    BY <1>2, <1>12, <1>13, <2>1 DEF Endpoint
  <2> QED BY <1>2, <1>13, <2>2 DEF ViewType
<1>15. w.ep.nodes[k] = new /\ w.conn[k] = cn /\ SameLists(v, w, k)
  BY <1>2, <1>13 DEF SameLists
<1>16. \A r \in ProcId : Len(s[r]) <= Len(v.ep.sendq[r]) /\ Len(s[r]) \in Nat
                          /\ Len(v.ep.sendq[r]) \in Nat
  <2> TAKE r \in ProcId
  <2>1. Len(s[r]) \in Nat /\ Len(v.ep.sendq[r]) \in Nat
    BY <1>2, <1>12, LenProperties
  <2>2. CASE r = q
    BY <1>4, <1>5, <1>6, <1>12, <2>1, <2>2 DEF chain
  <2>3. CASE r # q
    BY <1>11, <2>1, <2>3
  <2> QED BY <2>1, <2>2, <2>3
<1>17. Sized(w.ep)
  <2>1. Short(v.ep.sendq) /\ Used(v.ep) <= BlockNum
    BY <1>2 DEF Sized, Short
  <2>2. Short(s)
    <3> SUFFICES ASSUME NEW r \in ProcId PROVE Len(s[r]) <= BlockChainLen
      BY <1>12 DEF Short
    <3>1. Len(v.ep.sendq[r]) <= BlockChainLen
      BY <2>1 DEF Short
    <3> QED BY <1>16, <3>1, Bounds
  <2>3. Cardinality(Places(s)) <= Cardinality(Places(v.ep.sendq))
    BY <1>16, <2>1, <2>2, PlacesShrink
  <2>4. /\ Used(v.ep) = Len(v.ep.recvq) + Cardinality(Places(v.ep.sendq))
        /\ Used(w.ep) = Len(v.ep.recvq) + Cardinality(Places(s))
        /\ Len(v.ep.recvq) \in Nat /\ Cardinality(Places(v.ep.sendq)) \in Nat
        /\ Cardinality(Places(s)) \in Nat
    BY <1>2, <1>13, <2>1, <2>2, UsedIs
  <2>5. Used(w.ep) <= BlockNum
    BY <2>1, <2>3, <2>4, Bounds
  <2> QED BY <1>13, <2>2, <2>5 DEF Sized, Short
<1>18. Sorted(w.ep, p)
  <2>1. ASSUME p \in Server, NEW r \in ProcId
        PROVE  s[r] \in Seq(For(r))
    <3>1. v.ep.sendq[r] \in Seq(For(r))
      BY <1>2, <2>1 DEF Sorted
    <3>2. r = q => b \in Seq(For(r))
      BY <1>5, <3>1, SuffixSeq DEF b, chain
    <3> QED BY <1>11, <1>12, <3>1, <3>2
  <2> QED BY <1>2, <1>13, <2>1 DEF Sorted
<1>19. NodeInv(new, cn, p)
  BY <1>1, <1>3, <1>7, <1>8, <1>9 DEF NodeInv
<1>20. SameLink(cn, cn) /\ WireStep(cn, cn, p, new)
  BY <1>1, SameWires
<1>21. NodeStep(node, new, cn, cn, p)
  <2>1. new # NoNode
    BY <1>9 DEF OpenNode, NoNode
  <2>2. Heard(new, cn.wire[p]) => Heard(node, cn.wire[p])
    BY <1>9 DEF Heard
  <2> QED BY <1>3, <1>9, <2>1, <2>2 DEF NodeStep, Silent
<1>26. Sides(new, NodesAt(v, p, es, k)[o], cn, p)
  <2>1. /\ Side(node, cn.wire[p], o, p)
        /\ Side(NodesAt(v, p, es, k)[o], cn.wire[o], p, o)
        /\ \A m : Side(m, cn.wire[p], o, p) /\ Side(NodesAt(v, p, es, k)[o], cn.wire[o], p, o)
                 => Sides(m, NodesAt(v, p, es, k)[o], cn, p)
    <3>1. NodesAt(v, p, es, k)[p] = node
      BY OpenFacts
    <3> QED BY <1>1, <1>20, <3>1, OwnSide
  <2>2. Side(new, cn.wire[p], o, p)
    <3>1. new.sendbuf = node.sendbuf \o a
      BY <1>9
    <3> HIDE DEF node, o, cn
    <3> QED BY <1>1, <1>9, <1>25, <2>1, <3>1, FillSide DEF node
  <2> QED BY <2>1, <2>2
<1>27. AccountOf(w, p, es) /\ Moves(StockOf(v, p, es), StockOf(w, p, es))
  <2> DEFINE c == InSendq(p, q)
             e == InSendbuf(p, k)
  <2>1. c \in Place /\ e \in Place /\ c # e /\ e.at # "sendq"
    BY PlaceIs DEF InSendq, InSendbuf
  <2>2. /\ \A j \in Conn : j # k => /\ RecvBufOf(w.ep, j) = RecvBufOf(v.ep, j)
                                   /\ SendBufOf(w.ep, j) = SendBufOf(v.ep, j)
        /\ RecvBufOf(w.ep, k) = RecvBufOf(v.ep, k)
        /\ SendBufOf(w.ep, k) = out /\ SendBufOf(v.ep, k) = node.sendbuf
        /\ SamePeers(v, w)
    BY <1>2, <1>9, <1>14, <1>15, <1>20, Elsewhere
  <2>3. Same(v, w, p, {c, e})
    BY <1>11, <1>13, <2>2 DEF Same
  <2>4. /\ StockOf(v, p, es)[c] = chain /\ StockOf(w, p, es)[c] = b
        /\ StockOf(v, p, es)[e] = node.sendbuf /\ StockOf(w, p, es)[e] = out
    BY <1>12, <1>13, <2>2, StockOfIs DEF chain
  <2>5. FlowsDown(StockOf(v, p, es), v.conn, c, e)
    BY Descent DEF ForPeer
  <2>6. b = SubSeq(chain, n + 1, Len(chain)) /\ out = node.sendbuf \o SubSeq(chain, 1, n)
    BY DEF a, b
  <2> HIDE DEF c, e, node, out
  <2> QED BY <1>5, <1>13, <1>14, <1>24, <2>1, <2>2, <2>3, <2>4, <2>5, <2>6, Passed
<1>28. Spares(v, w, p, es, k)
  BY <1>13, <1>15, <1>27 DEF Spares
<1>22. ViewInv(w, p, es) /\ IsOpen(w.ep, k)
  BY <1>2, <1>9, <1>13, <1>14, <1>15, <1>17, <1>18, <1>19, <1>20, <1>21, <1>26, <1>27, <1>28, ViewStep
<1>23. \A j \in Conn : j # k => w.ep.nodes[j] = v.ep.nodes[j]
  BY <1>2, <1>13
<1> QED BY <1>9, <1>13, <1>15, <1>22, <1>23 DEF Keeps, w

\* Packages go into a wire, or vanish with its connection.
Transmitted(cn, p, pkgs) ==
  IF Gone(cn, p) THEN cn ELSE [cn EXCEPT !.wire[Peer(cn, p)] = @ \o pkgs]

\* Only the connection itself changes.
LEMMA TransmitIs ==
  ASSUME NEW cs \in [Conn -> Connection], NEW k \in Conn, NEW p, NEW pkgs
  PROVE  Transmit(cs, k, p, pkgs) = [cs EXCEPT ![k] = Transmitted(cs[k], p, pkgs)]
<1>1. CASE Gone(cs[k], p)
  BY <1>1 DEF Transmit, Transmitted
<1>2. CASE ~Gone(cs[k], p)
  BY <1>2 DEF Transmit, Transmitted
<1> QED BY <1>1, <1>2

\* What is sent goes to the peer's wire, as far as there is room.
LEMMA TransmittedFacts ==
  ASSUME NEW cn \in Connection, NEW p \in Proc, Peer(cn, p) \in Proc, Peer(cn, p) # p,
         Wires(cn), NEW pkgs \in Seq(Pkg), pkgs \in Seq(For(Peer(cn, p))),
         Gone(cn, p) \/ Len(cn.wire[Peer(cn, p)]) + Len(pkgs) <= WireNum,
         NEW n, ~Silent(n, p)
  PROVE  LET dn == Transmitted(cn, p, pkgs)
         IN  /\ SameLink(cn, dn) /\ WireStep(cn, dn, p, n) /\ dn.lost = cn.lost
             /\ \A q \in Proc : q # Peer(cn, p) => dn.wire[q] = cn.wire[q]
             /\ dn.wire[Peer(cn, p)] = IF Gone(cn, p) THEN cn.wire[Peer(cn, p)]
                                       ELSE cn.wire[Peer(cn, p)] \o pkgs
<1> DEFINE o  == Peer(cn, p)
           dn == Transmitted(cn, p, pkgs)
<1>1. CASE Gone(cn, p)
  <2>1. dn = cn
    BY <1>1 DEF Transmitted
  <2> QED BY <1>1, <2>1, SameWires
<1>2. CASE ~Gone(cn, p)
  <2> DEFINE x == cn.wire[o]
             y == x \o pkgs
  <2>1. /\ x \in Seq(Pkg) /\ x \in Seq(For(o))
        /\ \A q \in Proc : cn.wire[q] \in Seq(Pkg)
        /\ \A q \in Proc : cn.wire[q] \in Seq(For(q)) /\ Len(cn.wire[q]) <= WireNum
    BY DEF Wires, Connection
  <2>2. y \in Seq(Pkg) /\ Len(y) = Len(x) + Len(pkgs)
    BY <2>1, ConcatProperties
  <2>3. y \in Seq(For(o))
    BY <2>1, ConcatProperties
  <2>4. Len(y) <= WireNum
    BY <1>2, <2>2
  <2>5. dn = [cn EXCEPT !.wire[o] = y]
    BY <1>2 DEF Transmitted
  <2> HIDE DEF y, dn
  <2>6. /\ dn \in Connection
        /\ dn.client = cn.client /\ dn.server = cn.server /\ dn.open = cn.open
        /\ dn.up = cn.up /\ dn.broken = cn.broken /\ dn.lost = cn.lost
        /\ dn.wire = [cn.wire EXCEPT ![o] = y]
    BY <2>2, <2>5 DEF Connection
  <2>7. dn.wire[o] = y /\ \A q \in Proc : q # o => dn.wire[q] = cn.wire[q]
    BY <2>6 DEF Connection
  <2>8. SameLink(cn, dn)
    BY <2>6 DEF SameLink
  <2>9. Len(dn.wire[p]) <= Len(cn.wire[p])
    BY <2>1, <2>7, LenProperties
  <2>10. WireStep(cn, dn, p, n)
    BY <2>1, <2>3, <2>4, <2>7, <2>9 DEF WireStep
  <2> QED BY <1>2, <2>6, <2>7, <2>8, <2>10 DEF dn, y
<1> QED BY <1>1, <1>2

\* The end of a connection that packages are on their way to.
LEMMA WireSide ==
  ASSUME NEW m \in Node, NEW in \in Seq(Pkg), NEW a \in Seq(Pkg), NEW x, NEW o,
         Side(m, in, x, o), From(a, x), HasMsg(a) => Ready(m, o), OneShake(a),
         HasShake(a) => ~HasShake(in) /\ (m # NoNode => ~Heard(m, <<>>))
  PROVE  Side(m, in \o a, x, o)
<1> DEFINE all == in \o a
<1>1. /\ HasShake(all) => HasShake(in) \/ HasShake(a)
      /\ HasMsg(all) => HasMsg(in) \/ HasMsg(a)
      /\ From(in, x) /\ From(a, x) => From(all, x)
      /\ OneShake(in) /\ OneShake(a) /\ ~(HasShake(in) /\ HasShake(a)) => OneShake(all)
  BY JoinSays
<1> HIDE DEF all
<1>2. Receives(m, all, x, o)
  BY <1>1 DEF Side, Receives
<1>3. ShakesOnce(m, all)
  BY <1>1 DEF Side, ShakesOnce, Heard, Says
<1> QED BY <1>2, <1>3 DEF Side, all

\* A connected process whose peer is still there is connected with a node there.
LEMMA PeerReady ==
  ASSUME NEW ns, NEW cn, LinkInv(ns, cn), NEW p \in cn.open, ns[p] # NoNode,
         ns[p].status = "Connected", ~Gone(cn, p)
  PROVE  Ready(ns[Peer(cn, p)], Peer(cn, p))
<1> DEFINE o == Peer(cn, p)
<1>1. /\ cn \in Connection /\ cn # FreeConn /\ o \in Proc
      /\ \/ p = cn.client /\ o = cn.server
         \/ p = cn.server /\ o = cn.client
      /\ cn.client \in Client /\ cn.client \notin Server
      /\ cn.server \in Server /\ cn.server \notin Client
  BY EndsOf
<1>2. o \in cn.open /\ cn.broken = FALSE
  BY <1>1 DEF Gone, Connection
<1>3. CASE o = cn.client
  <2>1. Quiet(ns, cn, o)
    BY <1>1 DEF LinkInv
  <2> QED BY <1>1, <1>2, <1>3, <2>1 DEF Quiet, Ready
<1>4. CASE p = cn.client /\ o = cn.server
  <2>1. Heard(ns[p], cn.wire[p])
    BY DEF Heard
  <2>2. ns[o].status \in {"Connected", "Stop"}
    BY <1>1, <1>2, <1>4, <2>1 DEF LinkInv, Greeted
  <2> QED BY <2>2 DEF Ready, NoNode
<1> QED BY <1>1, <1>3, <1>4

\* While nothing has gone wrong, its peer is still there.
LEMMA HealthyStays ==
  ASSUME NEW ns, NEW cn, LinkInv(ns, cn), Healthy(ns, cn), NEW p \in cn.open,
         p \in Server \/ ns[p].status = "Connected"
  PROVE  ~Gone(cn, p)
<1> DEFINE o == Peer(cn, p)
<1>1. /\ cn \in Connection /\ cn # FreeConn /\ o \in Proc
      /\ \/ p = cn.client /\ o = cn.server
         \/ p = cn.server /\ o = cn.client
      /\ cn.client \notin Server /\ cn.server \in Proc
  BY EndsOf
<1>2. /\ cn.client \in cn.open /\ (cn.broken = TRUE => cn.server \notin cn.open)
      /\ ns[cn.server].status \in {"Connected", "Stop"} \/ Unspoken(ns, cn)
      /\ cn.broken \in BOOLEAN
  BY <1>1 DEF Healthy, Connection
<1>3. CASE p = cn.server
  BY <1>1, <1>2, <1>3 DEF Gone
<1>4. CASE p = cn.client
  <2>1. Heard(ns[p], cn.wire[p])
    BY <1>1, <1>4 DEF Heard
  <2>2. ns[cn.server].status \in {"Connected", "Stop"}
    BY <1>2, <1>4, <2>1 DEF Unspoken
  <2>3. cn.server \in cn.open
    BY <1>1, <2>2 DEF LinkInv, Socketed, NoNode
  <2> QED BY <1>1, <1>2, <1>4, <2>3 DEF Gone
<1> QED BY <1>1, <1>3, <1>4

\* The first n packages of sendbuf leave node k.
SentView(v, p, k, n) ==
  LET out == v.ep.nodes[k].sendbuf
  IN  [v EXCEPT !.ep.nodes[k].sendbuf = SubSeq(out, n + 1, Len(out)),
                !.conn = Transmit(@, k, p, SubSeq(out, 1, n)),
                !.moved = @ + n]

\* The bytes of one send.
LEMMA SentKeeps ==
  ASSUME NEW p \in Proc, NEW es, NEW v, ViewInv(v, p, es), NEW k \in Conn, IsOpen(v.ep, k),
         v.ep.nodes[k].status = "Connected",
         NEW n \in 0..Len(v.ep.nodes[k].sendbuf),
         Gone(v.conn[k], p) \/ n <= WireNum - Len(v.conn[k].wire[Peer(v.conn[k], p)])
  PROVE  Keeps(v, SentView(v, p, k, n), p, es, k)
<1> DEFINE node == v.ep.nodes[k]
           cn   == v.conn[k]
           o    == Peer(cn, p)
           out  == node.sendbuf
           a    == SubSeq(out, 1, n)
           b    == SubSeq(out, n + 1, Len(out))
           new  == [node EXCEPT !.sendbuf = b]
           dn   == Transmitted(cn, p, a)
           w    == SentView(v, p, k, n)
<1>1. /\ node \in OpenNode /\ cn \in Connection /\ p \in cn.open
      /\ NodeInv(node, cn, p) /\ o \in Proc /\ o # p /\ Wires(cn)
  BY OpenFacts DEF LinkInv
<1>2. /\ v \in ViewType /\ Sized(v.ep) /\ Sorted(v.ep, p) /\ Delivered(v.handled)
      /\ v.ep \in Endpoint /\ v.ep.nodes \in [Conn -> Node] /\ v.conn \in [Conn -> Connection]
      /\ v.moved \in Int
  BY ViewFields DEF ViewInv, LocalInv
<1>3. /\ node # NoNode /\ out \in Seq(Data) /\ out \in Seq(For(o))
      /\ Len(out) \in Nat /\ Len(out) <= TempNum
  BY <1>1, LenProperties DEF NodeInv, OpenNode, IsOpen
<1>4. /\ a \in Seq(Data) /\ a \in Seq(For(o)) /\ Len(a) = n
      /\ b \in Seq(Data) /\ b \in Seq(For(o)) /\ Len(b) = Len(out) - n /\ n \in Nat
  <2>1. n \in 0..Len(out) /\ n \in Nat
    BY <1>3
  <2> HIDE DEF out, o
  <2>2. a \in Seq(Data) /\ Len(a) = n
    BY <1>3, <2>1, PrefixSeq
  <2>3. a \in Seq(For(o))
    BY <1>3, <2>1, PrefixSeq
  <2>4. b \in Seq(Data) /\ Len(b) = Len(out) - n
    BY <1>3, <2>1, SuffixSeq
  <2>5. b \in Seq(For(o))
    BY <1>3, <2>1, SuffixSeq
  <2> QED BY <2>1, <2>2, <2>3, <2>4, <2>5
<1>5. a \in Seq(Pkg) /\ b \in Seq(Pkg) /\ out \in Seq(Pkg)
  <2>1. Data \subseteq Pkg
    BY DEF Data
  <2> QED BY <1>3, <1>4, <2>1, SeqMonotonic
<1>23. /\ LinkInv(NodesAt(v, p, es, k), cn) /\ NodesAt(v, p, es, k)[p] = node
       /\ Side(node, cn.wire[p], o, p)
  <2>1. LinkInv(NodesAt(v, p, es, k), cn) /\ NodesAt(v, p, es, k)[p] = node
    BY OpenFacts
  <2> QED BY <2>1 DEF LinkInv
<1>24. From(a, p) /\ From(b, p) /\ ~HasShake(a) /\ (HasMsg(b) => HasMsg(out))
  <2>1. From(out, p)
    BY <1>3, <1>23 DEF Side, Sends
  <2>2. \A i \in DOMAIN a : a[i] \in Data
    BY <1>4, ElementOfSeq, LenProperties
  <2>3. ~HasShake(a)
    BY <2>2 DEF HasShake, Data
  <2>4. n \in 0..Len(out)
    OBVIOUS
  <2> HIDE DEF out
  <2>5. /\ From(a, p) /\ From(b, p)
        /\ HasMsg(b) => HasMsg(out)
    BY <1>5, <2>1, <2>4, CutSays DEF a, b
  <2> QED BY <2>3, <2>5
<1> HIDE DEF a, b
<1>6. Len(b) <= TempNum
  BY <1>3, <1>4, Bounds
<1>7. /\ new \in OpenNode /\ new.status = node.status /\ new.procid = node.procid
      /\ new.shaken = node.shaken /\ new.recvbuf = node.recvbuf /\ new.sendbuf = b
  BY <1>1, <1>4 DEF OpenNode
<1>8. ~Silent(new, p)
  BY <1>7 DEF Silent
<1>9. Gone(cn, p) \/ Len(cn.wire[o]) + Len(a) <= WireNum
  <2>1. Len(cn.wire[o]) \in Nat
    BY <1>1, LenProperties DEF Connection
  <2>2. CASE Gone(cn, p)
    BY <2>2
  <2>3. CASE n <= WireNum - Len(cn.wire[o])
    <3> HIDE DEF cn, o
    <3> QED BY <1>4, <2>1, <2>3, Bounds
  <2> QED BY <2>2, <2>3
<1>10. /\ SameLink(cn, dn) /\ WireStep(cn, dn, p, new) /\ dn.wire[p] = cn.wire[p]
       /\ \A q \in Proc : q # o => dn.wire[q] = cn.wire[q]
       /\ dn.wire[o] = IF Gone(cn, p) THEN cn.wire[o] ELSE cn.wire[o] \o a
       /\ dn.lost = cn.lost
  <2> HIDE DEF new
  <2> QED BY <1>1, <1>4, <1>5, <1>8, <1>9, TransmittedFacts
<1>11. Transmit(v.conn, k, p, a) = [v.conn EXCEPT ![k] = dn]
  BY <1>2, TransmitIs
<1>12. w = [v EXCEPT !.ep.nodes[k] = new, !.conn = [v.conn EXCEPT ![k] = dn],
                     !.moved = v.moved + n]
  <2>1. w = [v EXCEPT !.ep.nodes[k].sendbuf = b, !.conn = Transmit(@, k, p, a),
                      !.moved = @ + n]
    BY DEF SentView, a, b
  <2> HIDE DEF dn, w
  <2> QED BY <1>2, <1>11, <2>1
<1>13. v.moved + n \in Int
  BY <1>2, <1>4
<1> HIDE DEF new, dn, w
<1>14. /\ w.ep = [v.ep EXCEPT !.nodes[k] = new] /\ w.conn = [v.conn EXCEPT ![k] = dn]
       /\ w.handled = v.handled /\ w.left = v.left
       /\ w \in [ep : {w.ep}, conn : {w.conn}, handled : {v.handled}, left : {v.left},
                 moved : {v.moved + n}, dealt : {v.dealt}]
  BY <1>2, <1>12 DEF ViewType
<1>15. /\ w.ep.nodes = [v.ep.nodes EXCEPT ![k] = new]
       /\ w.ep.used = v.ep.used /\ w.ep.nodeidx = v.ep.nodeidx
       /\ w.ep.sendq = v.ep.sendq /\ w.ep.recvq = v.ep.recvq
       /\ w.ep \in [nodes : {w.ep.nodes}, used : {v.ep.used}, nodeidx : {v.ep.nodeidx},
                    sendq : {v.ep.sendq}, recvq : {v.ep.recvq}]
  BY <1>2, <1>14 DEF Endpoint
<1>16. w \in ViewType
  <2>1. w.ep.nodes \in [Conn -> Node] /\ w.conn \in [Conn -> Connection]
    BY <1>2, <1>7, <1>10, <1>14, <1>15 DEF Node, SameLink
  <2>2. w.ep \in Endpoint
    BY <1>2, <1>15, <2>1 DEF Endpoint
  <2> QED BY <1>2, <1>13, <1>14, <2>1, <2>2 DEF ViewType
<1>17. w.ep.nodes[k] = new /\ w.conn[k] = dn /\ SameLists(v, w, k)
  BY <1>2, <1>14, <1>15 DEF SameLists
<1>18. Sized(w.ep) /\ Sorted(w.ep, p) /\ Delivered(w.handled)
  BY <1>2, <1>14, <1>15, SameChains
<1>19. NodeInv(new, cn, p)
  BY <1>1, <1>3, <1>4, <1>6, <1>7 DEF NodeInv
<1>20. NodeStep(node, new, cn, dn, p)
  <2>1. new # NoNode
    BY <1>7 DEF OpenNode, NoNode
  <2>2. Heard(new, dn.wire[p]) => Heard(node, cn.wire[p])
    BY <1>7, <1>10 DEF Heard
  <2> QED BY <1>3, <1>7, <2>1, <2>2 DEF NodeStep, Silent
<1>25. Sides(new, NodesAt(v, p, es, k)[o], dn, p)
  <2> DEFINE m == NodesAt(v, p, es, k)[o]
  <2>1. /\ Side(m, cn.wire[o], p, o)
        /\ \A i : Side(i, dn.wire[p], o, p) /\ Side(m, dn.wire[o], p, o)
                 => Sides(i, m, dn, p)
    BY <1>1, <1>10, <1>23, OwnSide
  <2>2. Side(new, cn.wire[p], o, p)
    <3>1. new # NoNode
      BY <1>7 DEF OpenNode, NoNode
    <3>2. Sends(new, p)
      BY <1>3, <1>7, <1>23, <1>24, <3>1 DEF Side, Sends
    <3>3. Receives(new, cn.wire[p], o, p) /\ ShakesOnce(new, cn.wire[p])
      BY <1>3, <1>7, <1>23, <3>1 DEF Side, Receives, ShakesOnce, Ready
    <3> QED BY <1>3, <1>7, <1>23, <3>2, <3>3 DEF Side
  <2>3. CASE Gone(cn, p)
    BY <1>10, <2>1, <2>2, <2>3
  <2>4. CASE ~Gone(cn, p)
    <3>1. Ready(m, o)
      BY <1>1, <1>3, <1>23, <2>4, PeerReady
    <3>2. m \in Node /\ cn.wire[o] \in Seq(Pkg)
      BY <1>1, <1>23 DEF LinkInv, Connection
    <3>3. OneShake(a)
      BY <1>24 DEF HasShake, OneShake
    <3> HIDE DEF m, node, o, cn
    <3>4. Side(m, cn.wire[o] \o a, p, o)
      BY <1>5, <1>24, <2>1, <3>1, <3>2, <3>3, WireSide
    <3> QED BY <1>10, <2>1, <2>2, <2>4, <3>4 DEF m
  <2> QED BY <2>3, <2>4
<1>27. v.left = MaxLeft => ~Gone(cn, p)
  <2>1. v.left = MaxLeft => Healthy(NodesAt(v, p, es, k), cn)
    BY DEF ViewInv, KeptOf
  <2> QED BY <1>1, <1>23, <2>1, HealthyStays
<1>26. /\ AccountOf(w, p, es)
       /\ v.left = MaxLeft => Moves(StockOf(v, p, es), StockOf(w, p, es))
  <2> DEFINE c == InSendbuf(p, k)
             e == InWire(o, k)
             F == StockOf(v, p, es)
             G == StockOf(w, p, es)
  <2>1. c \in Place /\ e \in Place /\ c # e /\ e.at # "sendq"
    BY <1>1, PlaceIs DEF InSendbuf, InWire
  <2>2. /\ \A j \in Conn : j # k => /\ w.conn[j] = v.conn[j]
                                   /\ RecvBufOf(w.ep, j) = RecvBufOf(v.ep, j)
                                   /\ SendBufOf(w.ep, j) = SendBufOf(v.ep, j)
        /\ RecvBufOf(w.ep, k) = RecvBufOf(v.ep, k)
        /\ SendBufOf(w.ep, k) = b /\ SendBufOf(v.ep, k) = out
        /\ SamePeers(v, w)
    BY <1>2, <1>7, <1>10, <1>16, <1>17, Elsewhere
  <2>3. w.conn[k] = dn /\ \A q \in Proc : q # o => w.conn[k].wire[q] = v.conn[k].wire[q]
    BY <1>10, <1>17
  <2>4. Same(v, w, p, {c, e})
    BY <1>14, <1>15, <2>2, <2>3 DEF Same
  <2>5. /\ F[c] = out /\ G[c] = b
        /\ F[e] = cn.wire[o] /\ G[e] = dn.wire[o]
    BY <1>1, <2>2, <2>3, StockOfIs
  <2>6. FlowsDown(F, v.conn, c, e)
    BY Descent
  <2>7. b = SubSeq(out, n + 1, Len(out)) /\ a = SubSeq(out, 1, n) /\ n \in 0..Len(out)
    BY DEF a, b
  <2>8. AccountOf(v, p, es) /\ w.left.refusals = v.left.refusals
    BY <1>14 DEF ViewInv
  <2> HIDE DEF c, e, out, o
  <2>9. CASE ~Gone(cn, p)
    <3>1. G[e] = F[e] \o SubSeq(out, 1, n)
      BY <1>10, <2>5, <2>7, <2>9
    <3> HIDE DEF F, G
    <3> QED BY <1>5, <1>16, <2>1, <2>2, <2>4, <2>5, <2>6, <2>7, <2>8, <3>1, Passed DEF F, G
  <2>10. CASE Gone(cn, p)
    <3>1. G[e] = F[e]
      BY <1>10, <2>5, <2>10
    <3>2. \A d \in Place : d # c => G[d] = F[d]
      BY <2>4, <3>1, SameStock
    <3>3. Part(G[c], F[c])
      BY <1>5, <2>5, <2>7, PartCut
    <3> HIDE DEF F, G
    <3>4. \A d \in Place : Part(G[d], F[d])
      BY <3>2, <3>3, PartSame
    <3>5. AccountOf(w, p, es)
      BY <1>16, <2>2, <2>8, <3>4, AccountLess DEF SamePeers, F, G
    <3> QED BY <1>27, <2>10, <3>5 DEF cn
  <2> QED BY <2>9, <2>10
<1>28. Spares(v, w, p, es, k)
  BY <1>10, <1>14, <1>17, <1>26 DEF Spares
<1>21. ViewInv(w, p, es)
  BY <1>7, <1>10, <1>16, <1>17, <1>18, <1>19, <1>20, <1>25, <1>26, <1>28, ViewStep
<1>22. \A j \in Conn : j # k => w.ep.nodes[j] = v.ep.nodes[j]
  BY <1>2, <1>15
<1> QED BY <1>14, <1>21, <1>22 DEF Keeps, w

\* joynetSendBuf, and the callers' close when it fails.
LEMMA SendKeeps ==
  ASSUME NEW p \in Proc, NEW es, NEW v, ViewInv(v, p, es), NEW k \in Conn, IsOpen(v.ep, k),
         v.ep.nodes[k].status = "Connected",
         NEW q \in ProcId, ForPeer(v, p, k, q), NEW failed,
         v.left = MaxLeft => k \notin failed
  PROVE  Keeps(v, SendBuf(v, p, k, q, failed), p, es, k)
<1> DEFINE full == WriteSendBuf(v, k, q)
           out  == full.ep.nodes[k].sendbuf
           cn   == v.conn[k]
           room == IF Gone(cn, p) THEN Len(out) ELSE WireNum - Len(cn.wire[Peer(cn, p)])
           n    == IF Len(out) < room THEN Len(out) ELSE room
           w    == SendBuf(v, p, k, q, failed)
<1>1. /\ Keeps(v, full, p, es, k) /\ IsOpen(full.ep, k) /\ full.conn = v.conn
      /\ full.ep.nodes[k].status = "Connected"
  BY FillKeeps
<1>2. w = IF out # <<>> /\ k \in failed THEN CloseConnectNode(full, p, k)
          ELSE SentView(full, p, k, n)
  BY <1>1 DEF SendBuf, SentView
<1> HIDE DEF full
<1>3. ViewInv(full, p, es)
  BY <1>1 DEF Keeps
<1>4. Len(out) \in Nat
  <2>1. out \in Seq(Data)
    BY <1>1, <1>3, OpenFacts DEF OpenNode
  <2> QED BY <2>1, LenProperties
<1>5. /\ Len(cn.wire[Peer(cn, p)]) \in Nat /\ Len(cn.wire[Peer(cn, p)]) <= WireNum
  <2>1. Peer(cn, p) \in Proc /\ \A r \in Proc : cn.wire[r] \in Seq(Pkg) /\ Len(cn.wire[r]) <= WireNum
    BY OpenFacts
  <2> QED BY <2>1, LenProperties
<1>6. n \in 0..Len(out) /\ n <= room
  <2>1. room \in Int /\ room >= 0
    <3> HIDE DEF out, cn
    <3> QED BY <1>4, <1>5, Bounds
  <2> HIDE DEF room, out
  <2> QED BY <1>4, <2>1, AtMost
<1>7. Gone(cn, p) \/ n <= WireNum - Len(cn.wire[Peer(cn, p)])
  <2> HIDE DEF n, cn
  <2> QED BY <1>6
<1> HIDE DEF n, w
<1>8. Keeps(full, SentView(full, p, k, n), p, es, k)
  BY <1>1, <1>3, <1>6, <1>7, SentKeeps
<1>9. ASSUME k \in failed
      PROVE  Keeps(full, CloseConnectNode(full, p, k), p, es, k)
  <2>1. MayClose(full, p, es, k)
    BY <1>1, <1>9 DEF MayClose, Keeps
  <2> QED BY <1>3, <2>1, CloseKeeps
<1>10. Keeps(full, w, p, es, k)
  BY <1>2, <1>8, <1>9
<1> QED BY <1>1, <1>10, KeepsTwice DEF w

-----------------------------------------------------------------------------
(* Handshakes. *)

\* A step that changes nothing but an open node.
NodeView(v, k, new) == [v EXCEPT !.ep.nodes[k] = new]

\* Such a step keeps the invariant where the node keeps its own part of it.
LEMMA NodeKeeps ==
  ASSUME NEW p \in Proc, NEW es, NEW v, ViewInv(v, p, es), NEW k \in Conn, IsOpen(v.ep, k),
         NEW new \in OpenNode, new.procid = v.ep.nodes[k].procid,
         p \in Server /\ new.status \in {"Connected", "Stop"}
           => v.ep.nodes[k].status \in {"Connected", "Stop"},
         new.recvbuf = v.ep.nodes[k].recvbuf, new.sendbuf = v.ep.nodes[k].sendbuf,
         NodeInv(new, v.conn[k], p),
         NodeStep(v.ep.nodes[k], new, v.conn[k], v.conn[k], p),
         Side(new, v.conn[k].wire[p], Peer(v.conn[k], p), p)
  PROVE  LET w == NodeView(v, k, new)
         IN  /\ Keeps(v, w, p, es, k) /\ w.ep.nodes[k] = new /\ w.conn = v.conn
             /\ IsOpen(w.ep, k)
<1> DEFINE w == NodeView(v, k, new)
<1>1. /\ v \in ViewType /\ Sized(v.ep) /\ Sorted(v.ep, p) /\ Delivered(v.handled)
      /\ v.ep \in Endpoint /\ v.ep.nodes \in [Conn -> Node] /\ v.conn \in [Conn -> Connection]
  BY ViewFields DEF ViewInv, LocalInv
<1>2. /\ w.ep = [v.ep EXCEPT !.nodes[k] = new] /\ w.conn = v.conn
      /\ w.handled = v.handled /\ w.left = v.left
      /\ w \in [ep : {w.ep}, conn : {v.conn}, handled : {v.handled}, left : {v.left},
                moved : {v.moved}, dealt : {v.dealt}]
  BY <1>1 DEF ViewType, NodeView
<1> HIDE DEF w
<1>3. /\ w.ep.nodes = [v.ep.nodes EXCEPT ![k] = new]
      /\ w.ep.used = v.ep.used /\ w.ep.nodeidx = v.ep.nodeidx
      /\ w.ep.sendq = v.ep.sendq /\ w.ep.recvq = v.ep.recvq
      /\ w.ep \in [nodes : {w.ep.nodes}, used : {v.ep.used}, nodeidx : {v.ep.nodeidx},
                   sendq : {v.ep.sendq}, recvq : {v.ep.recvq}]
  BY <1>1, <1>2 DEF Endpoint
<1>4. w \in ViewType
  <2>1. w.ep.nodes \in [Conn -> Node]
    BY <1>1, <1>3 DEF Node
  <2>2. w.ep \in Endpoint
    BY <1>1, <1>3, <2>1 DEF Endpoint
  <2> QED BY <1>1, <1>2, <2>2 DEF ViewType
<1>5. w.ep.nodes[k] = new /\ w.conn[k] = v.conn[k] /\ SameLists(v, w, k)
  BY <1>1, <1>2, <1>3 DEF SameLists
<1>6. Sized(w.ep) /\ Sorted(w.ep, p) /\ Delivered(w.handled)
  BY <1>1, <1>2, <1>3, SameChains
<1>7. SameLink(v.conn[k], v.conn[k]) /\ WireStep(v.conn[k], v.conn[k], p, new)
  <2>1. v.conn[k] \in Connection /\ Peer(v.conn[k], p) \in Proc /\ Wires(v.conn[k])
    BY OpenFacts DEF LinkInv
  <2> QED BY <2>1, SameWires
<1>10. Sides(new, NodesAt(v, p, es, k)[Peer(v.conn[k], p)], v.conn[k], p)
  BY <1>7, OpenFacts, OwnSide
<1>11. AccountOf(w, p, es) /\ Moves(StockOf(v, p, es), StockOf(w, p, es))
  <2>1. /\ \A j \in Conn : j # k => /\ w.conn[j] = v.conn[j]
                                   /\ RecvBufOf(w.ep, j) = RecvBufOf(v.ep, j)
                                   /\ SendBufOf(w.ep, j) = SendBufOf(v.ep, j)
        /\ RecvBufOf(w.ep, k) = RecvBufOf(v.ep, k)
        /\ SendBufOf(w.ep, k) = SendBufOf(v.ep, k)
        /\ SamePeers(v, w)
    BY <1>1, <1>4, <1>5, <1>7, Elsewhere
  <2>2. Same(v, w, p, {})
    BY <1>2, <1>3, <2>1 DEF Same
  <2> QED BY <1>2, <1>4, <2>1, <2>2, AccountSame DEF ViewInv
<1>12. Spares(v, w, p, es, k)
  BY <1>2, <1>5, <1>11 DEF Spares
<1>8. ViewInv(w, p, es) /\ \A j \in Conn : IsOpen(w.ep, j) <=> IsOpen(v.ep, j)
  BY <1>4, <1>5, <1>6, <1>7, <1>10, <1>11, <1>12, ViewStep
<1>9. \A j \in Conn : j # k => w.ep.nodes[j] = v.ep.nodes[j]
  BY <1>1, <1>3
<1> QED BY <1>2, <1>5, <1>8, <1>9 DEF Keeps, w

\* As Keeps, for a call that may use up a fault.
Tries(v, w, p, es, k) ==
  /\ ViewInv(w, p, es)
  /\ w.left.stops = v.left.stops /\ w.left.refusals = v.left.refusals
  /\ \A j \in Conn : j # k => w.ep.nodes[j] = v.ep.nodes[j]

\* Two steps on one node, of which either may use up a fault.
LEMMA TriesTwice ==
  ASSUME NEW p, NEW es, NEW u, NEW v, NEW w, NEW k,
         Tries(u, v, p, es, k) \/ Keeps(u, v, p, es, k),
         Tries(v, w, p, es, k) \/ Keeps(v, w, p, es, k)
  PROVE  Tries(u, w, p, es, k)
  BY DEF Keeps, Tries

\* When something has gone wrong, what is left does not matter to the invariant.
LEMMA LeftKeeps ==
  ASSUME NEW p \in Proc, NEW es, NEW v, KeptOf(v, p, es), v.left \in Left,
         NEW w, Frame(w, p, es), AccountOf(w, p, es),
         NEW l, l.refusals = w.left.refusals, Spent(v.left, l)
  PROVE  LET u == [w EXCEPT !.left = l]
         IN  ViewInv(u, p, es) /\ u.left = l /\ u.ep = w.ep /\ u.conn = w.conn
<1> DEFINE u == [w EXCEPT !.left = l]
<1>1. w \in ViewType /\ l \in Left
  BY DEF Frame, Spent
<1>2. u \in ViewType /\ u.ep = w.ep /\ u.conn = w.conn /\ u.handled = w.handled /\ u.left = l
  BY <1>1 DEF ViewType
<1> HIDE DEF u
<1>3. \A j \in Conn : NodesAt(u, p, es, j) = NodesAt(w, p, es, j)
  BY <1>2 DEF NodesAt
<1>4. Same(w, u, p, {}) /\ SamePeers(w, u)
  BY <1>2 DEF Same, SamePeers
<1>5. AccountOf(u, p, es)
  BY <1>2, <1>4, AccountSame
<1>6. KeptOf(u, p, es)
  BY <1>2, KeptSpent
<1> QED BY <1>2, <1>3, <1>5, <1>6 DEF Frame, ViewInv, u

\* A handshake that times out.
LEMMA TimeoutTries ==
  ASSUME NEW p \in Proc, NEW es, NEW v, ViewInv(v, p, es), NEW k \in Conn, IsOpen(v.ep, k)
  PROVE  Tries(v, ShakeTimeout(v, p, k), p, es, k)
<1> DEFINE w == CloseConnectNode(v, p, k)
           coming == ~Gone(v.conn[k], p) /\ Peer(v.conn[k], p) \notin v.conn[k].lost
           f == IF coming THEN w.left.faults - 1 ELSE w.left.faults
           l == [w.left EXCEPT !.faults = f]
<1>1. Closed(v, w, p, es, k)
  BY CloseShuts
<1>2. ShakeTimeout(v, p, k) = [w EXCEPT !.left.faults = f]
  BY DEF ShakeTimeout
<1>3. ~coming => MayClose(v, p, es, k)
  <2> SUFFICES ASSUME ~coming, v.left = MaxLeft
               PROVE  Gone(v.conn[k], p)
    BY DEF MayClose, Closable
  <2>1. Healthy(NodesAt(v, p, es, k), v.conn[k])
    BY DEF ViewInv, KeptOf
  <2>2. v.conn[k] # FreeConn
    BY OpenFacts, EndsOf
  <2> QED BY <2>1, <2>2 DEF Healthy
<1>4. ~coming => Keeps(v, w, p, es, k)
  BY <1>3, CloseKeeps
<1> HIDE DEF w, coming
<1>5. w \in ViewType /\ w.left \in Left /\ w.left = v.left
  BY <1>1, ViewFields DEF Closed, Frame
<1>6. f \in Int
  BY <1>5 DEF Left
<1>7. CASE coming
  <2>1. f = w.left.faults - 1
    BY <1>7
  <2> HIDE DEF f
  <2>2. l \in Left /\ l.stops = w.left.stops /\ l.refusals = w.left.refusals /\ l.faults = f
    BY <1>5, <1>6 DEF Left
  <2>3. ShakeTimeout(v, p, k) = [w EXCEPT !.left = l]
    BY <1>2, <1>5 DEF ViewType
  <2> HIDE DEF l
  <2>4. Spent(v.left, l)
    BY <1>5, <2>1, <2>2 DEF Spent, Left
  <2>5. KeptOf(v, p, es) /\ v.left \in Left
    BY <1>5 DEF ViewInv
  <2>6. LET u == [w EXCEPT !.left = l]
        IN  ViewInv(u, p, es) /\ u.left = l /\ u.ep = w.ep
    BY <1>1, <2>2, <2>4, <2>5, LeftKeeps DEF Closed
  <2> QED BY <1>1, <1>5, <2>2, <2>3, <2>6 DEF Tries, Closed
<1>8. CASE ~coming
  <2>1. f = w.left.faults
    BY <1>8
  <2>2. ShakeTimeout(v, p, k) = w
    BY <1>2, <1>5, <2>1 DEF ViewType, Left
  <2> QED BY <1>4, <1>8, <2>2 DEF Keeps, Tries
<1> QED BY <1>7, <1>8

\* The Shake goes into a wire that is still empty, to a peer that has heard nothing.
LEMMA ShakeKeeps ==
  ASSUME NEW p \in Proc, NEW es, NEW v, ViewInv(v, p, es), NEW k \in Conn, IsOpen(v.ep, k),
         ~Silent(v.ep.nodes[k], p), v.conn[k].wire[Peer(v.conn[k], p)] = <<>>,
         NEW m, m = NodesAt(v, p, es, k)[Peer(v.conn[k], p)],
         m # NoNode => ~Heard(m, <<>>)
  PROVE  Keeps(v, SendShake(v, p, k), p, es, k)
<1> DEFINE node == v.ep.nodes[k]
           cn   == v.conn[k]
           a    == <<Shake(p)>>
           dn   == Transmitted(cn, p, a)
           w    == SendShake(v, p, k)
<1>1. /\ node \in OpenNode /\ cn \in Connection /\ p \in cn.open
      /\ NodeInv(node, cn, p) /\ Peer(cn, p) \in Proc /\ Peer(cn, p) # p /\ Wires(cn)
  BY OpenFacts DEF LinkInv
<1>2. /\ v \in ViewType /\ Sized(v.ep) /\ Sorted(v.ep, p) /\ Delivered(v.handled)
      /\ v.ep \in Endpoint /\ v.ep.nodes \in [Conn -> Node] /\ v.conn \in [Conn -> Connection]
  BY ViewFields DEF ViewInv, LocalInv
<1>3. a \in Seq(Pkg) /\ a \in Seq(For(Peer(cn, p))) /\ Len(a) = 1
  <2>1. Shake(p) \in Pkg /\ Shake(p) \in For(Peer(cn, p))
    BY DEF Shake, Pkg, For
  <2> QED BY <2>1
<1>12. /\ From(a, p) /\ ~HasMsg(a) /\ OneShake(a)
       /\ \A i \in 1..Len(a) : a[i].type # "Msg"
  <2>1. /\ DOMAIN a = 1..1 /\ Len(a) = 1 /\ a[1] = Shake(p)
    OBVIOUS
  <2> HIDE DEF a
  <2>2. \A i \in 1..1 : i = 1
    OBVIOUS
  <2>3. a[1].type = "Shake"
    BY <2>1 DEF Shake
  <2> QED BY <2>1, <2>2, <2>3 DEF From, HasMsg, OneShake
<1> HIDE DEF a
<1>4. Len(cn.wire[Peer(cn, p)]) + Len(a) <= WireNum
  <2>1. Len(cn.wire[Peer(cn, p)]) = 0
    BY Nothing
  <2>2. 0 + 1 <= WireNum
    BY Bounds
  <2> QED BY <1>3, <2>1, <2>2
<1>5. /\ SameLink(cn, dn) /\ WireStep(cn, dn, p, node) /\ dn.wire[p] = cn.wire[p]
      /\ \A q \in Proc : q # Peer(cn, p) => dn.wire[q] = cn.wire[q]
      /\ dn.wire[Peer(cn, p)] = IF Gone(cn, p) THEN cn.wire[Peer(cn, p)]
                                ELSE cn.wire[Peer(cn, p)] \o a
      /\ dn.lost = cn.lost
  BY <1>1, <1>3, <1>4, TransmittedFacts
<1>6. w = [v EXCEPT !.conn = [v.conn EXCEPT ![k] = dn]]
  <2>1. w = [v EXCEPT !.conn = Transmit(@, k, p, a)]
    BY DEF SendShake, a
  <2>2. Transmit(v.conn, k, p, a) = [v.conn EXCEPT ![k] = dn]
    BY <1>2, TransmitIs
  <2> HIDE DEF w, dn
  <2> QED BY <1>2, <2>1, <2>2
<1> HIDE DEF w, dn
<1>7. /\ w.ep = v.ep /\ w.conn = [v.conn EXCEPT ![k] = dn]
      /\ w.handled = v.handled /\ w.left = v.left
      /\ w \in [ep : {v.ep}, conn : {w.conn}, handled : {v.handled}, left : {v.left},
                moved : {v.moved}, dealt : {v.dealt}]
  BY <1>2, <1>6 DEF ViewType
<1>8. w \in ViewType
  <2>1. w.conn \in [Conn -> Connection]
    BY <1>2, <1>5, <1>7 DEF SameLink
  <2> QED BY <1>2, <1>7, <2>1 DEF ViewType
<1>9. w.ep.nodes[k] = node /\ w.conn[k] = dn /\ SameLists(v, w, k)
  BY <1>2, <1>7 DEF SameLists
<1>10. NodeStep(node, node, cn, dn, p)
  BY <1>1, <1>5 DEF NodeStep, IsOpen
<1>13. /\ cn.wire[Peer(cn, p)] \in Seq(Pkg) /\ cn.wire[Peer(cn, p)] = <<>>
  BY <1>1 DEF Connection
<1>14. Sides(node, m, dn, p)
  <2> DEFINE o == Peer(cn, p)
  <2>1. /\ LinkInv(NodesAt(v, p, es, k), cn) /\ NodesAt(v, p, es, k)[p] = node
    BY OpenFacts
  <2>2. /\ Side(node, cn.wire[p], o, p) /\ Side(m, cn.wire[o], p, o)
        /\ \A i : Side(i, dn.wire[p], o, p) /\ Side(m, dn.wire[o], p, o)
                 => Sides(i, m, dn, p)
    BY <1>1, <1>5, <2>1, OwnSide
  <2>3. m \in Node
    BY <1>1, <2>1 DEF LinkInv
  <2>4. Side(m, cn.wire[o] \o a, p, o)
    <3> DEFINE in == cn.wire[o]
    <3>1. in \in Seq(Pkg) /\ in = <<>> /\ ~HasShake(in) /\ Side(m, in, p, o)
      BY <1>13, <2>2, HeardParts
    <3> HIDE DEF in, o
    <3>2. Side(m, in \o a, p, o)
      BY <1>3, <1>12, <2>3, <3>1, WireSide
    <3> QED BY <3>2 DEF in
  <2>5. Side(m, dn.wire[o], p, o)
    BY <1>5, <2>2, <2>4
  <2> QED BY <1>5, <2>2, <2>5
<1>15. AccountOf(w, p, es) /\ Moves(StockOf(v, p, es), StockOf(w, p, es))
  <2> DEFINE e == InWire(Peer(cn, p), k)
             F == StockOf(v, p, es)
             G == StockOf(w, p, es)
  <2>1. /\ \A j \in Conn : j # k => w.conn[j] = v.conn[j]
        /\ SamePeers(v, w)
    BY <1>1, <1>2, <1>5, <1>8, <1>9, Elsewhere
  <2>2. Same(v, w, p, {e})
    <3>1. \A q \in Proc, j \in Conn : InWire(q, j) = e \/ w.conn[j].wire[q] = v.conn[j].wire[q]
      BY <1>5, <1>9, <2>1
    <3> QED BY <1>7, <3>1 DEF Same
  <2>3. \A d \in Place : d # e => G[d] = F[d]
    BY <2>2, SameStock
  <2>4. F[e] = cn.wire[Peer(cn, p)] /\ G[e] = dn.wire[Peer(cn, p)]
    BY <1>1, <1>9, StockOfIs
  <2>5. Part(cn.wire[Peer(cn, p)] \o a, cn.wire[Peer(cn, p)])
    BY <1>3, <1>12, <1>13, PartMore
  <2>6. Part(G[e], F[e])
    BY <1>5, <2>4, <2>5, PartSame
  <2>8. F[e] = <<>>
    BY <1>13, <2>4
  <2> HIDE DEF F, G
  <2>9. \A d \in Place : Within(F[d], G[d])
    BY <2>3, <2>8, WithinSame
  <2>10. Moves(F, G)
    BY <2>9, MovesNone
  <2>7. \A d \in Place : Part(G[d], F[d])
    BY <2>3, <2>6, PartSame
  <2>11. AccountOf(w, p, es)
    BY <1>7, <1>8, <2>1, <2>7, AccountLess DEF SamePeers, ViewInv, F, G
  <2> QED BY <2>10, <2>11 DEF F, G
<1>16. Spares(v, w, p, es, k)
  BY <1>5, <1>7, <1>9, <1>15 DEF Spares
<1>11. ViewInv(w, p, es)
  BY <1>1, <1>2, <1>5, <1>7, <1>8, <1>9, <1>10, <1>14, <1>15, <1>16, ViewStep
<1> QED BY <1>7, <1>11 DEF Keeps, w

\* A Shake that is never sent.
LEMMA LoseTries ==
  ASSUME NEW p \in Proc, NEW es, NEW v, ViewInv(v, p, es), NEW k \in Conn, IsOpen(v.ep, k)
  PROVE  Tries(v, LoseShake(v, p, k), p, es, k)
<1> DEFINE node == v.ep.nodes[k]
           cn   == v.conn[k]
           dn   == [cn EXCEPT !.lost = @ \cup {p}]
           l    == [v.left EXCEPT !.faults = @ - 1]
           w    == LoseShake(v, p, k)
<1>1. /\ node \in OpenNode /\ cn \in Connection /\ p \in cn.open
      /\ NodeInv(node, cn, p) /\ Peer(cn, p) \in Proc /\ Wires(cn)
  BY OpenFacts DEF LinkInv
<1>2. /\ v \in ViewType /\ Sized(v.ep) /\ Sorted(v.ep, p) /\ Delivered(v.handled)
      /\ v.ep \in Endpoint /\ v.ep.nodes \in [Conn -> Node] /\ v.conn \in [Conn -> Connection]
      /\ v.left \in Left
  BY ViewFields DEF ViewInv, LocalInv
<1>3. /\ dn \in Connection /\ dn.wire = cn.wire
      /\ dn.client = cn.client /\ dn.server = cn.server /\ dn.open = cn.open
      /\ dn.up = cn.up /\ dn.broken = cn.broken
  BY <1>1 DEF Connection
<1>4. /\ l \in Left /\ l.stops = v.left.stops /\ l.refusals = v.left.refusals
      /\ l.faults = v.left.faults - 1
  BY <1>2 DEF Left
<1>5. w = [v EXCEPT !.conn = [v.conn EXCEPT ![k] = dn], !.left = l]
  BY <1>2 DEF LoseShake, ViewType
<1> HIDE DEF dn, l, w
<1>6. SameLink(cn, dn) /\ WireStep(cn, dn, p, node)
  <2>1. SameLink(cn, cn) /\ WireStep(cn, cn, p, node)
    BY <1>1, SameWires
  <2> QED BY <1>3, <2>1 DEF SameLink, WireStep
<1>7. /\ w.ep = v.ep /\ w.conn = [v.conn EXCEPT ![k] = dn]
      /\ w.handled = v.handled /\ w.left = l
      /\ w \in [ep : {v.ep}, conn : {w.conn}, handled : {v.handled}, left : {l},
                moved : {v.moved}, dealt : {v.dealt}]
  BY <1>2, <1>5 DEF ViewType
<1>8. w \in ViewType
  <2>1. w.conn \in [Conn -> Connection]
    BY <1>2, <1>3, <1>7
  <2> QED BY <1>2, <1>4, <1>7, <2>1 DEF ViewType
<1>9. w.ep.nodes[k] = node /\ w.conn[k] = dn /\ SameLists(v, w, k)
  BY <1>2, <1>7 DEF SameLists
<1>10. NodeStep(node, node, cn, dn, p)
  BY <1>1, <1>3 DEF NodeStep, IsOpen
<1>12. Sides(node, NodesAt(v, p, es, k)[Peer(cn, p)], dn, p)
  <2>1. LinkInv(NodesAt(v, p, es, k), cn) /\ NodesAt(v, p, es, k)[p] = node
    BY OpenFacts
  <2> QED BY <1>1, <1>3, <1>6, <2>1, OwnSide
<1>13. AccountOf(w, p, es)
  <2>1. /\ \A j \in Conn : j # k => w.conn[j] = v.conn[j]
        /\ SamePeers(v, w)
    BY <1>1, <1>2, <1>6, <1>8, <1>9, Elsewhere
  <2>2. \A q \in Proc, j \in Conn : w.conn[j].wire[q] = v.conn[j].wire[q]
    BY <1>3, <1>9, <2>1
  <2>3. Same(v, w, p, {})
    BY <1>7, <2>2 DEF Same
  <2> QED BY <1>4, <1>7, <1>8, <2>1, <2>3, AccountSame DEF ViewInv
<1>14. Spares(v, w, p, es, k)
  BY <1>2, <1>4, <1>7 DEF Spares, Spent, Left
<1>11. ViewInv(w, p, es)
  BY <1>1, <1>2, <1>6, <1>7, <1>8, <1>9, <1>10, <1>12, <1>13, <1>14, ViewStep
<1> QED BY <1>4, <1>7, <1>11 DEF Tries, w

\* A server takes its peer for who it says it is.
ShakenView(v, k, c) ==
  [SetNodeProcid(v, k, c) EXCEPT
     !.ep.nodes[k] = [@ EXCEPT !.status = "Connected", !.shaken = FALSE]]

\* The peer of a silent node has heard nothing of it, whatever the node says next.
LEMMA Unheard ==
  ASSUME NEW p \in Proc, NEW es, NEW v, ViewInv(v, p, es), NEW k \in Conn, IsOpen(v.ep, k),
         Silent(v.ep.nodes[k], p), NEW u
  PROVE  LET m == NodesAt(u, p, es, k)[Peer(v.conn[k], p)]
         IN  m # NoNode => ~Heard(m, <<>>)
<1> DEFINE cn == v.conn[k]
           o  == Peer(cn, p)
           ns == NodesAt(v, p, es, k)
<1>1. /\ LinkInv(ns, cn) /\ ns[p] = v.ep.nodes[k] /\ p \in cn.open
      /\ o \in Proc /\ o # p
  BY OpenFacts
<1>2. Peer(cn, o) = p
  BY <1>1, EndsOf
<1>3. NodesAt(u, p, es, k)[o] = ns[o]
  BY <1>1 DEF NodesAt
<1>4. Hushed(ns, cn, o)
  BY <1>1 DEF LinkInv
<1>5. ns[o] # NoNode => ~Heard(ns[o], cn.wire[o])
  BY <1>1, <1>2, <1>4 DEF Hushed
<1> HIDE DEF ns, o, cn
<1>6. ns[o] # NoNode => ~Heard(ns[o], <<>>)
  BY <1>5, HeardParts
<1> QED BY <1>3, <1>6 DEF o, cn

\* A server learns who its peer is.
LEMMA ShakenKeeps ==
  ASSUME NEW p \in Server, NEW es, NEW v, ViewInv(v, p, es), NEW k \in Conn,
         v.ep.nodes[k].status = "ShakeHand", v.ep.nodes[k].shaken = TRUE, ProcidFree(v, v.conn[k].client)
  PROVE  LET w == ShakenView(v, k, v.conn[k].client)
         IN  /\ Keeps(v, w, p, es, k) /\ IsOpen(w.ep, k) /\ w.conn = v.conn
             /\ w.ep.nodes[k].status = "Connected"
<1> DEFINE node == v.ep.nodes[k]
           cn   == v.conn[k]
           c    == cn.client
           x    == v.ep.nodeidx
           y    == [x EXCEPT ![c] = k]
           new  == [node EXCEPT !.procid = c, !.status = "Connected", !.shaken = FALSE]
           w    == ShakenView(v, k, c)
           ns   == NodesAt(v, p, es, k)
<1>1. p \in Proc /\ p \notin Client /\ IsOpen(v.ep, k)
  BY NetAssumption DEF Proc, IsOpen, NoNode
<1>2. /\ node \in OpenNode /\ cn \in Connection /\ p \in cn.open
      /\ NodeInv(node, cn, p) /\ Peer(cn, p) \in Proc /\ Wires(cn)
      /\ LinkInv(ns, cn) /\ ns[p] = node
  BY <1>1, OpenFacts DEF LinkInv
<1>3. /\ v \in ViewType /\ Sized(v.ep) /\ Sorted(v.ep, p) /\ Delivered(v.handled)
      /\ Listed(v.ep) /\ Indexed(v.ep, p) /\ x \in [ProcId -> Conn \cup {NoConn}]
      /\ v.ep \in Endpoint /\ v.ep.nodes \in [Conn -> Node] /\ v.conn \in [Conn -> Connection]
  BY ViewFields DEF ViewInv, LocalInv
<1>4. c \in Client /\ c \in Proc /\ c \in ProcId /\ c # NoProc /\ x[c] = NoConn
  BY <1>2, EndsOf, NetAssumption DEF Proc, ProcId, ProcidFree
<1>5. node # NoNode /\ node.procid = NoProc
  BY <1>1, <1>2 DEF NodeInv, IsOpen
<1>6. /\ new \in OpenNode /\ new.status = "Connected" /\ new.procid = c
      /\ new.recvbuf = node.recvbuf /\ new.sendbuf = node.sendbuf
  BY <1>2, <1>4 DEF OpenNode
<1>7. w = [v EXCEPT !.ep.nodes[k] = new, !.ep.nodeidx = y]
  <2> DEFINE m == [node EXCEPT !.procid = c]
             l == [m EXCEPT !.status = "Connected", !.shaken = FALSE]
             z == [v EXCEPT !.ep.nodes[k] = m, !.ep.nodeidx = y]
  <2>1. SetNodeProcid(v, k, c) = z
    BY <1>2, <1>3 DEF SetNodeProcid, ViewType, Endpoint
  <2>2. l = new
    BY <1>2 DEF OpenNode
  <2>3. w = [z EXCEPT !.ep.nodes[k] = [@ EXCEPT !.status = "Connected", !.shaken = FALSE]]
    BY <2>1 DEF ShakenView
  <2>4. /\ z.ep = [v.ep EXCEPT !.nodes = [v.ep.nodes EXCEPT ![k] = m], !.nodeidx = y]
        /\ z \in [ep : {z.ep}, conn : {v.conn}, handled : {v.handled}, left : {v.left},
                  moved : {v.moved}, dealt : {v.dealt}]
    BY <1>3 DEF ViewType, Endpoint
  <2> HIDE DEF w, m, new, y, z
  <2>5. /\ z.ep.nodes = [v.ep.nodes EXCEPT ![k] = m] /\ z.ep.nodes[k] = m
        /\ z.ep \in [nodes : {z.ep.nodes}, used : {v.ep.used}, nodeidx : {y},
                     sendq : {v.ep.sendq}, recvq : {v.ep.recvq}]
    <3>1. z.ep = [v.ep EXCEPT !.nodes = [v.ep.nodes EXCEPT ![k] = m], !.nodeidx = y]
      BY <2>4
    <3>2. z.ep.nodes = [v.ep.nodes EXCEPT ![k] = m]
      BY ONLY <1>3, <3>1 DEF Endpoint
    <3>3. z.ep.nodes[k] = m
      BY ONLY <1>3, <3>2, k \in Conn
    <3>4. z.ep \in [nodes : {z.ep.nodes}, used : {v.ep.used}, nodeidx : {y},
                    sendq : {v.ep.sendq}, recvq : {v.ep.recvq}]
      BY ONLY <1>3, <3>1, <3>2 DEF Endpoint
    <3> QED BY <3>2, <3>3, <3>4
  <2>6. w = [z EXCEPT !.ep.nodes[k] = l]
    BY <2>3, <2>5
  <2> HIDE DEF l
  <2>7. w = [z EXCEPT !.ep.nodes[k] = new]
    BY <2>2, <2>6
  <2>8. w = [z EXCEPT !.ep = [z.ep EXCEPT !.nodes = [z.ep.nodes EXCEPT ![k] = new]]]
    BY <2>7
  <2>9. [z.ep EXCEPT !.nodes = [z.ep.nodes EXCEPT ![k] = new]]
           = [v.ep EXCEPT !.nodes = [v.ep.nodes EXCEPT ![k] = new], !.nodeidx = y]
    <3>1. [z.ep.nodes EXCEPT ![k] = new] = [v.ep.nodes EXCEPT ![k] = new]
      BY <1>3, <2>5
    <3> QED BY <1>3, <2>4, <3>1 DEF Endpoint
  <2> QED BY <1>3, <2>4, <2>8, <2>9 DEF ViewType
<1> HIDE DEF new, y, w
<1>8. /\ w.ep = [v.ep EXCEPT !.nodes[k] = new, !.nodeidx = y] /\ w.conn = v.conn
      /\ w.handled = v.handled /\ w.left = v.left
      /\ w \in [ep : {w.ep}, conn : {v.conn}, handled : {v.handled}, left : {v.left},
                moved : {v.moved}, dealt : {v.dealt}]
  BY <1>3, <1>7 DEF ViewType
<1>9. /\ w.ep.nodes = [v.ep.nodes EXCEPT ![k] = new]
      /\ w.ep.used = v.ep.used /\ w.ep.nodeidx = y
      /\ w.ep.sendq = v.ep.sendq /\ w.ep.recvq = v.ep.recvq
      /\ w.ep \in [nodes : {w.ep.nodes}, used : {v.ep.used}, nodeidx : {y},
                   sendq : {v.ep.sendq}, recvq : {v.ep.recvq}]
  BY <1>3, <1>8 DEF Endpoint
<1>10. /\ y \in [ProcId -> Conn \cup {NoConn}] /\ y[c] = k
       /\ \A q \in ProcId : q # c => y[q] = x[q]
  BY <1>3, <1>4 DEF y
<1>11. w \in ViewType /\ w.ep \in Endpoint
  <2>1. w.ep.nodes \in [Conn -> Node]
    BY <1>3, <1>6, <1>9 DEF Node
  <2>2. w.ep \in Endpoint
    BY <1>3, <1>9, <1>10, <2>1 DEF Endpoint
  <2> QED BY <1>3, <1>8, <2>2 DEF ViewType
<1>12. w.ep.nodes[k] = new /\ \A j \in Conn : j # k => w.ep.nodes[j] = v.ep.nodes[j]
  BY <1>3, <1>9
<1>13. \A j \in Conn : IsOpen(w.ep, j) <=> IsOpen(v.ep, j)
  <2>1. new # NoNode
    BY <1>6 DEF OpenNode, NoNode
  <2> QED BY <1>5, <1>12, <2>1 DEF IsOpen
<1>14. Listed(w.ep)
  BY <1>3, <1>9, <1>13 DEF Listed
<1>15. Indexed(w.ep, p)
  <2>1. y[NoProc] = NoConn
    <3>1. x[NoProc] = NoConn /\ NoProc \in ProcId
      BY <1>3 DEF Indexed, ProcId
    <3> QED BY <1>4, <1>10, <3>1
  <2>2. \A q \in ProcId : x[q] # NoConn => x[q] \in Conn /\ x[q] # k
    <3> TAKE q \in ProcId
    <3> HAVE x[q] # NoConn
    <3>1. x[q] \in Conn /\ v.ep.nodes[x[q]].procid = q
      BY <1>3 DEF Indexed
    <3>2. x[q] = k => q = NoProc
      BY <1>5, <3>1
    <3>3. x[NoProc] = NoConn
      BY <1>3 DEF Indexed
    <3> QED BY <3>1, <3>2, <3>3
  <2>3. ASSUME NEW q \in ProcId, y[q] # NoConn
        PROVE  IsOpen(w.ep, y[q]) /\ w.ep.nodes[y[q]].procid = q
    <3>1. CASE q = c
      BY <1>1, <1>6, <1>10, <1>12, <1>13, <3>1
    <3>2. CASE q # c
      <4>1. y[q] = x[q]
        BY <1>10, <3>2
      <4>2. IsOpen(v.ep, x[q]) /\ v.ep.nodes[x[q]].procid = q
        BY <1>3, <2>3, <4>1 DEF Indexed
      <4> QED BY <1>12, <1>13, <2>2, <2>3, <4>1, <4>2
    <3> QED BY <3>1, <3>2
  <2>4. ASSUME NEW j \in Conn, IsOpen(w.ep, j), InIndex(w.ep, p, j)
        PROVE  y[w.ep.nodes[j].procid] = j
    <3>1. CASE j = k
      BY <1>6, <1>10, <1>12, <3>1
    <3>2. CASE j # k
      <4>1. w.ep.nodes[j] = v.ep.nodes[j] /\ IsOpen(v.ep, j) /\ InIndex(v.ep, p, j)
        BY <1>12, <1>13, <2>4, <3>2 DEF InIndex
      <4>2. x[v.ep.nodes[j].procid] = j
        BY <1>3, <4>1 DEF Indexed
      <4>3. v.ep.nodes[j].procid \in ProcId /\ j # NoConn
        BY <1>3, <4>1, NetAssumption DEF IsOpen, Node, OpenNode
      <4> QED BY <1>4, <1>10, <4>1, <4>2, <4>3
    <3> QED BY <3>1, <3>2
  <2> QED BY <1>9, <2>1, <2>3, <2>4 DEF Indexed
<1>16. LocalInv(w.ep, p)
  BY <1>3, <1>9, <1>11, <1>14, <1>15, SameChains DEF LocalInv
<1>21. /\ NodeInv(new, cn, p) /\ SameLink(cn, cn) /\ WireStep(cn, cn, p, new)
       /\ NodeStep(node, new, cn, cn, p)
  <2>1. NodeInv(new, cn, p)
    BY <1>2, <1>5, <1>6 DEF NodeInv
  <2>2. SameLink(cn, cn) /\ WireStep(cn, cn, p, new)
    BY <1>1, <1>2, SameWires
  <2>3. NodeStep(node, new, cn, cn, p)
    <3>1. new # NoNode /\ Heard(node, cn.wire[p])
      BY <1>6 DEF OpenNode, NoNode, Heard
    <3> QED BY <1>1, <1>5, <1>6, <3>1 DEF NodeStep, Silent
  <2> QED BY <2>1, <2>2, <2>3
<1>17. LinkInv([ns EXCEPT ![p] = new], cn)
  <2>4. Side(new, cn.wire[p], Peer(cn, p), p)
    <3>1. Side(node, cn.wire[p], Peer(cn, p), p)
      BY <1>1, <1>2 DEF LinkInv
    <3>2. new # NoNode /\ Ready(new, p)
      BY <1>6 DEF OpenNode, NoNode, Ready
    <3>3. Receives(new, cn.wire[p], Peer(cn, p), p) /\ Sends(new, p)
      BY <1>5, <1>6, <3>1, <3>2 DEF Side, Receives, Sends
    <3>4. ShakesOnce(new, cn.wire[p])
      BY <1>5, <1>6, <3>1, <3>2 DEF Side, ShakesOnce
    <3> QED BY <1>1, <3>3, <3>4 DEF Side
  <2>5. Sides(new, ns[Peer(cn, p)], cn, p)
    BY <1>2, <1>21, <2>4, OwnSide
  <2> QED BY <1>2, <1>6, <1>21, <2>5, LinkStep DEF Node
<1>18. \A j \in Conn : LinkInv(NodesAt(w, p, es, j), w.conn[j])
  <2>1. w.conn = [v.conn EXCEPT ![k] = cn]
    BY <1>3, <1>8
  <2> QED BY <1>1, <1>6, <1>9, <1>11, <1>17, <2>1, LinksStep DEF Node
<1>20. AccountOf(w, p, es) /\ Moves(StockOf(v, p, es), StockOf(w, p, es))
  <2>1. \A j \in Conn : /\ RecvBufOf(w.ep, j) = RecvBufOf(v.ep, j)
                        /\ SendBufOf(w.ep, j) = SendBufOf(v.ep, j)
    BY <1>6, <1>12, <1>13 DEF RecvBufOf, SendBufOf
  <2>2. Same(v, w, p, {}) /\ SamePeers(v, w)
    BY <1>8, <1>9, <2>1 DEF Same, SamePeers
  <2> QED BY <1>1, <1>8, <1>11, <2>2, AccountSame DEF ViewInv
<1>22. KeptOf(w, p, es)
  <2>1. w.conn = [v.conn EXCEPT ![k] = cn] /\ KeptOf(v, p, es)
    BY <1>3, <1>8 DEF ViewInv
  <2>2. v.left = MaxLeft => Healthy([ns EXCEPT ![p] = new], cn)
    <3> SUFFICES ASSUME v.left = MaxLeft
                 PROVE  Healthy([ns EXCEPT ![p] = new], cn)
      OBVIOUS
    <3>1. Healthy(ns, cn)
      BY <2>1 DEF KeptOf
    <3> QED BY <1>2, <1>6, <1>21, <3>1, HealthyStep DEF Node
  <2>3. /\ v.ep.nodes \in [Conn -> Node] /\ v.conn \in [Conn -> Connection]
        /\ w.left = v.left /\ w.ep.nodes = [v.ep.nodes EXCEPT ![k] = new]
        /\ Moves(StockOf(v, p, es), StockOf(w, p, es))
    BY <1>3, <1>8, <1>9, <1>20
  <2> HIDE DEF ns, cn
  <2>4. Healthy([ns EXCEPT ![p] = new], cn) => Healthy([NodesAt(v, p, es, k) EXCEPT ![p] = new], cn)
    BY DEF ns
  <2> QED BY ONLY <2>1, <2>2, <2>3, <2>4, k \in Conn, KeptStep
<1>19. ViewInv(w, p, es)
  BY <1>3, <1>8, <1>11, <1>16, <1>18, <1>20, <1>22 DEF ViewInv
<1> QED BY <1>1, <1>6, <1>8, <1>12, <1>13, <1>19 DEF Keeps, w

\* joyServerHandleShakeMsg_
LEMMA ServerShakeTries ==
  ASSUME NEW p \in Server, NEW es, NEW v, ViewInv(v, p, es), NEW k \in Conn, IsOpen(v.ep, k),
         NEW bad
  PROVE  Tries(v, ServerHandleShakeMsg(v, p, k, bad), p, es, k)
<1> DEFINE node == v.ep.nodes[k]
           c    == v.conn[k].client
           u    == ShakenView(v, k, c)
           w    == ServerHandleShakeMsg(v, p, k, bad)
<1>1. p \in Proc /\ p \notin Client
  BY NetAssumption DEF Proc
<1>2. node.shaken \in BOOLEAN
  BY <1>1, OpenFacts DEF OpenNode
<1>3. w = CASE node.status # "ShakeHand" -> v
            [] node.status = "ShakeHand" /\ ~node.shaken ->
                 IF k \in bad THEN ShakeTimeout(v, p, k) ELSE v
            [] node.status = "ShakeHand" /\ node.shaken ->
                 IF ~ProcidFree(v, c) THEN CloseConnectNode(v, p, k)
                 ELSE IF k \notin bad THEN SendShake(u, p, k)
                 ELSE IF Gone(v.conn[k], p) THEN CloseConnectNode(u, p, k)
                 ELSE LoseShake(u, p, k)
  BY DEF ServerHandleShakeMsg, ShakenView
<1> HIDE DEF w, u
<1>4. Tries(v, v, p, es, k)
  BY DEF Tries
<1>5. Tries(v, ShakeTimeout(v, p, k), p, es, k)
  BY <1>1, TimeoutTries
<1>6. ASSUME node.status = "ShakeHand"
      PROVE  Tries(v, CloseConnectNode(v, p, k), p, es, k)
  <2>1. /\ LinkInv(NodesAt(v, p, es, k), v.conn[k]) /\ NodesAt(v, p, es, k)[p] = node
        /\ p \in v.conn[k].open
    BY <1>1, OpenFacts
  <2>2. p = v.conn[k].server
    BY <1>1, <2>1, EndsOf
  <2>3. MayClose(v, p, es, k)
    BY <1>6, <2>1, <2>2 DEF MayClose, Closable
  <2> QED BY <1>1, <1>4, <2>3, CloseKeeps, TriesTwice
<1>7. ASSUME node.status = "ShakeHand", node.shaken = TRUE, ProcidFree(v, c)
      PROVE  /\ Tries(v, SendShake(u, p, k), p, es, k)
             /\ Gone(v.conn[k], p) => Tries(v, CloseConnectNode(u, p, k), p, es, k)
             /\ Tries(v, LoseShake(u, p, k), p, es, k)
  <2>1. /\ Keeps(v, u, p, es, k) /\ IsOpen(u.ep, k) /\ u.conn = v.conn
        /\ u.ep.nodes[k].status = "Connected"
    BY <1>7, ShakenKeeps DEF u
  <2>2. ViewInv(u, p, es)
    BY <2>1 DEF Keeps
  <2>3. ~Silent(u.ep.nodes[k], p)
    BY <1>1, <2>1 DEF Silent
  <2>4. u.conn[k].wire[Peer(u.conn[k], p)] = <<>>
    <3>1. /\ LinkInv(NodesAt(v, p, es, k), v.conn[k]) /\ NodesAt(v, p, es, k)[p] = node
          /\ p \in v.conn[k].open
      BY <1>1, OpenFacts
    <3>2. Silent(node, p)
      BY <1>1, <1>7 DEF Silent
    <3>3. Quiet(NodesAt(v, p, es, k), v.conn[k], p)
      BY <1>1, <3>1 DEF LinkInv
    <3> QED BY <2>1, <3>1, <3>2, <3>3 DEF Quiet
  <2>8. NodesAt(u, p, es, k)[Peer(u.conn[k], p)] # NoNode
          => ~Heard(NodesAt(u, p, es, k)[Peer(u.conn[k], p)], <<>>)
    <3>1. Silent(node, p)
      BY <1>1, <1>7 DEF Silent
    <3> QED BY <1>1, <2>1, <3>1, Unheard
  <2>5. Keeps(u, SendShake(u, p, k), p, es, k)
    BY <1>1, <2>1, <2>2, <2>3, <2>4, <2>8, ShakeKeeps
  <2>6. Gone(v.conn[k], p) => Keeps(u, CloseConnectNode(u, p, k), p, es, k)
    <3>1. Gone(v.conn[k], p) => MayClose(u, p, es, k)
      BY <2>1 DEF MayClose, Closable
    <3> QED BY <1>1, <2>2, <3>1, CloseKeeps
  <2>7. Tries(u, LoseShake(u, p, k), p, es, k)
    BY <1>1, <2>1, <2>2, LoseTries
  <2> QED BY <2>1, <2>5, <2>6, <2>7, TriesTwice
<1>8. CASE node.status # "ShakeHand"
  BY <1>3, <1>4, <1>8 DEF w
<1>9. CASE node.status = "ShakeHand" /\ ~node.shaken
  <2>1. w = IF k \in bad THEN ShakeTimeout(v, p, k) ELSE v
    BY <1>3, <1>9
  <2> QED BY <1>4, <1>5, <2>1 DEF w
<1>10. CASE node.status = "ShakeHand" /\ node.shaken
  <2>1. w = IF ~ProcidFree(v, c) THEN CloseConnectNode(v, p, k)
            ELSE IF k \notin bad THEN SendShake(u, p, k)
            ELSE IF Gone(v.conn[k], p) THEN CloseConnectNode(u, p, k)
            ELSE LoseShake(u, p, k)
    BY <1>3, <1>10
  <2> QED BY <1>2, <1>6, <1>7, <1>10, <2>1 DEF w
<1> QED BY <1>2, <1>8, <1>9, <1>10 DEF w

\* joyClientHandleShakeMsg_
LEMMA ClientShakeTries ==
  ASSUME NEW p \in Client, NEW es, NEW v, ViewInv(v, p, es), NEW k \in Conn, IsOpen(v.ep, k),
         NEW late
  PROVE  Tries(v, ClientHandleShakeMsg(v, p, k, late), p, es, k)
<1> DEFINE node == v.ep.nodes[k]
           new  == [node EXCEPT !.status = "Connected", !.shaken = FALSE]
           w    == ClientHandleShakeMsg(v, p, k, late)
<1>1. p \in Proc /\ p \notin Server
  BY NetAssumption DEF Proc
<1>2. /\ node \in OpenNode /\ NodeInv(node, v.conn[k], p)
      /\ node # NoNode /\ node.shaken \in BOOLEAN
  BY <1>1, OpenFacts DEF OpenNode, IsOpen
<1>3. v \in ViewType /\ v.ep \in Endpoint /\ v.ep.nodes \in [Conn -> Node]
  BY ViewFields DEF ViewInv
<1>4. w = CASE node.status # "ShakeHand" -> v
            [] node.status = "ShakeHand" /\ ~node.shaken ->
                 IF k \in late THEN ShakeTimeout(v, p, k) ELSE v
            [] node.status = "ShakeHand" /\ node.shaken -> NodeView(v, k, new)
  BY <1>2, <1>3 DEF ClientHandleShakeMsg, NodeView, ViewType, Endpoint, OpenNode
<1> HIDE DEF w
<1>5. Tries(v, v, p, es, k)
  BY DEF Tries
<1>6. Tries(v, ShakeTimeout(v, p, k), p, es, k)
  BY <1>1, TimeoutTries
<1>7. CASE node.status # "ShakeHand"
  BY <1>4, <1>5, <1>7 DEF w
<1>8. CASE node.status = "ShakeHand" /\ ~node.shaken
  <2>1. w = IF k \in late THEN ShakeTimeout(v, p, k) ELSE v
    BY <1>4, <1>8
  <2> QED BY <1>5, <1>6, <2>1 DEF w
<1>9. CASE node.status = "ShakeHand" /\ node.shaken
  <2>1. /\ new \in OpenNode /\ new.status = "Connected" /\ new.procid = node.procid
        /\ new.recvbuf = node.recvbuf /\ new.sendbuf = node.sendbuf /\ new # NoNode
    BY <1>2 DEF OpenNode, NoNode
  <2> HIDE DEF new
  <2>2. NodeInv(new, v.conn[k], p)
    BY <1>1, <1>2, <2>1 DEF NodeInv
  <2>3. Heard(node, v.conn[k].wire[p])
    BY <1>2, <1>9 DEF Heard
  <2>4. NodeStep(node, new, v.conn[k], v.conn[k], p)
    BY <1>1, <1>2, <2>1, <2>3 DEF NodeStep, Silent
  <2>7. Side(new, v.conn[k].wire[p], Peer(v.conn[k], p), p)
    <3> DEFINE in == v.conn[k].wire[p]
               x  == Peer(v.conn[k], p)
    <3>1. Side(node, in, x, p)
      BY <1>1, OpenFacts DEF LinkInv
    <3> HIDE DEF in, x
    <3>2. Ready(new, p) /\ Receives(new, in, x, p) /\ Sends(new, p)
      BY <1>1, <1>2, <2>1, <3>1 DEF Side, Ready, Receives, Sends
    <3>3. ShakesOnce(new, in)
      BY <1>2, <1>9, <2>1, <3>1 DEF Side, ShakesOnce
    <3>4. Side(new, in, x, p)
      BY <1>2, <2>1, <3>1, <3>2, <3>3 DEF Side
    <3> QED BY <3>4 DEF in, x
  <2>5. Keeps(v, NodeView(v, k, new), p, es, k)
    BY <1>1, <2>1, <2>2, <2>4, <2>7, NodeKeeps
  <2>6. w = NodeView(v, k, new)
    BY <1>4, <1>9
  <2> QED BY <1>5, <2>5, <2>6, TriesTwice DEF w
<1> QED BY <1>2, <1>7, <1>8, <1>9 DEF w

\* joyClientShakeHand_
LEMMA ClientShakeHandTries ==
  ASSUME NEW p \in Client, NEW es, NEW v, ViewInv(v, p, es), NEW k \in Conn, IsOpen(v.ep, k),
         v.ep.nodes[k].status = "Connecting",
         NEW w \in ClientShakeHand(v, p, k)
  PROVE  Tries(v, w, p, es, k)
<1> DEFINE node == v.ep.nodes[k]
           new  == [node EXCEPT !.status = "ShakeHand"]
           u    == NodeView(v, k, new)
<1>1. p \in Proc /\ p \notin Server
  BY NetAssumption DEF Proc
<1>2. /\ node \in OpenNode /\ NodeInv(node, v.conn[k], p) /\ node # NoNode
      /\ LinkInv(NodesAt(v, p, es, k), v.conn[k]) /\ NodesAt(v, p, es, k)[p] = node
      /\ p \in v.conn[k].open
  BY <1>1, OpenFacts DEF IsOpen
<1>3. v \in ViewType /\ v.ep \in Endpoint /\ v.ep.nodes \in [Conn -> Node]
  BY ViewFields DEF ViewInv
<1>4. u = [v EXCEPT !.ep.nodes[k].status = "ShakeHand"]
  BY <1>3 DEF NodeView
<1> HIDE DEF u
<1>5. \/ w = SendShake(u, p, k)
      \/ w = CloseConnectNode(u, p, k) /\ Gone(v.conn[k], p)
      \/ w = LoseShake(u, p, k)
  BY <1>4 DEF ClientShakeHand
<1>6. /\ new \in OpenNode /\ new.status = "ShakeHand" /\ new.procid = node.procid
      /\ new.recvbuf = node.recvbuf /\ new.sendbuf = node.sendbuf /\ new # NoNode
      /\ new.shaken = node.shaken
  BY <1>2 DEF OpenNode, NoNode
<1> HIDE DEF new
<1>7. NodeInv(new, v.conn[k], p)
  BY <1>1, <1>2, <1>6 DEF NodeInv
<1>8. Heard(new, v.conn[k].wire[p]) => Heard(node, v.conn[k].wire[p])
  BY <1>6 DEF Heard
<1>9. NodeStep(node, new, v.conn[k], v.conn[k], p)
  BY <1>1, <1>2, <1>6, <1>8 DEF NodeStep, Silent
<1>16. Side(new, v.conn[k].wire[p], Peer(v.conn[k], p), p)
  <2> DEFINE in == v.conn[k].wire[p]
             x  == Peer(v.conn[k], p)
  <2>1. Side(node, in, x, p)
    BY <1>1, <1>2 DEF LinkInv
  <2> HIDE DEF in, x
  <2>2. Ready(new, p) /\ Receives(new, in, x, p) /\ Sends(new, p)
    BY <1>1, <1>2, <1>6, <2>1 DEF Side, Ready, Receives, Sends
  <2>3. ShakesOnce(new, in)
    BY <1>2, <1>6, <2>1 DEF Side, ShakesOnce
  <2>4. Side(new, in, x, p)
    BY <1>2, <1>6, <2>1, <2>2, <2>3 DEF Side
  <2> QED BY <2>4 DEF in, x
<1>10. Keeps(v, u, p, es, k) /\ u.ep.nodes[k] = new /\ u.conn = v.conn /\ IsOpen(u.ep, k)
  BY <1>1, <1>6, <1>7, <1>9, <1>16, NodeKeeps DEF u
<1>11. ViewInv(u, p, es) /\ ~Silent(u.ep.nodes[k], p)
  BY <1>6, <1>10 DEF Keeps, Silent
<1>12. u.conn[k].wire[Peer(u.conn[k], p)] = <<>>
  <2>1. Silent(node, p)
    BY DEF Silent
  <2>2. Quiet(NodesAt(v, p, es, k), v.conn[k], p)
    BY <1>1, <1>2 DEF LinkInv
  <2> QED BY <1>2, <1>10, <2>1, <2>2 DEF Quiet
<1>17. NodesAt(u, p, es, k)[Peer(u.conn[k], p)] # NoNode
         => ~Heard(NodesAt(u, p, es, k)[Peer(u.conn[k], p)], <<>>)
  <2>1. Silent(node, p)
    BY DEF Silent
  <2> QED BY <1>1, <1>10, <2>1, Unheard
<1>13. Keeps(u, SendShake(u, p, k), p, es, k)
  BY <1>1, <1>10, <1>11, <1>12, <1>17, ShakeKeeps
<1>14. Gone(v.conn[k], p) => Keeps(u, CloseConnectNode(u, p, k), p, es, k)
  <2>1. Gone(v.conn[k], p) => MayClose(u, p, es, k)
    BY <1>10 DEF MayClose, Closable
  <2> QED BY <1>1, <1>11, <2>1, CloseKeeps
<1>15. Tries(u, LoseShake(u, p, k), p, es, k)
  BY <1>1, <1>10, <1>11, LoseTries
<1> QED BY <1>5, <1>10, <1>13, <1>14, <1>15, TriesTwice

-----------------------------------------------------------------------------
(* New nodes. *)

\* The entries of the index once node k, if need be, is in it for c.
AddedTo(x, y, k, c, inIndex) ==
  IF inIndex THEN c \in ProcId /\ c # NoProc /\ x[c] = NoConn /\ y = [x EXCEPT ![c] = k]
  ELSE y = x

\* The part of the process when node k is opened.
LEMMA LocalAlloc ==
  ASSUME NEW p \in Proc, NEW e, LocalInv(e, p), NEW k \in Conn, ~IsOpen(e, k),
         NEW n \in OpenNode, NEW y, NEW f,
         f \in [nodes : {[e.nodes EXCEPT ![k] = n]}, used : {Append(e.used, k)}, nodeidx : {y},
                sendq : {e.sendq}, recvq : {e.recvq}],
         AddedTo(e.nodeidx, y, k, n.procid, p \in Client),
         n.status \notin {"Connected", "Stop"}
  PROVE  f \in Endpoint /\ LocalInv(f, p) /\ IsOpen(f, k)
<1> DEFINE x == e.nodeidx
           c == n.procid
           u == e.used
           t == Append(u, k)
<1>1. /\ e.nodes \in [Conn -> Node] /\ u \in Seq(Conn)
      /\ x \in [ProcId -> Conn \cup {NoConn}]
      /\ e.sendq \in [ProcId -> Seq(Data)] /\ e.recvq \in Seq(Data)
      /\ Listed(e) /\ Indexed(e, p) /\ Sized(e) /\ Sorted(e, p)
  BY DEF LocalInv, Endpoint
<1>2. /\ f.nodes = [e.nodes EXCEPT ![k] = n] /\ f.used = t /\ f.nodeidx = y
      /\ f.sendq = e.sendq /\ f.recvq = e.recvq
  OBVIOUS
<1>3. n # NoNode /\ e.nodes[k] = NoNode /\ k # NoConn
  BY NetAssumption DEF OpenNode, NoNode, IsOpen
<1>4. f.nodes[k] = n /\ \A j \in Conn : j # k => f.nodes[j] = e.nodes[j]
  BY <1>1, <1>2
<1>5. IsOpen(f, k) /\ \A j \in Conn : j # k => (IsOpen(f, j) <=> IsOpen(e, j))
  BY <1>3, <1>4 DEF IsOpen
<1>6. /\ t \in Seq(Conn) /\ Len(t) = Len(u) + 1 /\ t[Len(u) + 1] = k
      /\ \A i \in 1..Len(u) : t[i] = u[i]
      /\ DOMAIN t = 1..Len(u)+1 /\ DOMAIN u = 1..Len(u) /\ Len(u) \in Nat
  BY <1>1, AppendProperties, LenProperties
<1>7. \A i \in 1..Len(u)+1 : i \in 1..Len(u) \/ i = Len(u) + 1
  BY <1>6
<1>8. \A i \in 1..Len(u) : i \in 1..Len(u)+1 /\ u[i] # k
  <2>1. \A i \in 1..Len(u) : u[i] # k
    BY <1>1, <1>6 DEF Listed
  <2> QED BY <1>6, <2>1
<1>9. y \in [ProcId -> Conn \cup {NoConn}]
  BY <1>1 DEF AddedTo
<1> HIDE DEF t, u
<1>10. f \in Endpoint
  <2>1. f.nodes \in [Conn -> Node]
    BY <1>1, <1>2 DEF Node
  <2> QED BY <1>1, <1>2, <1>6, <1>9, <2>1 DEF Endpoint
<1>11. Listed(f)
  <2>1. Distinct(t)
    <3>1. Distinct(u)
      BY <1>1 DEF Listed, u
    <3> QED BY <1>6, <1>7, <1>8, <3>1 DEF Distinct
  <2>2. ASSUME NEW j \in Conn
        PROVE  IsOpen(f, j) <=> \E i \in DOMAIN t : t[i] = j
    <3>1. CASE j = k
      <4>1. Len(u) + 1 \in 1..Len(u)+1
        BY <1>6
      <4> QED BY <1>5, <1>6, <3>1, <4>1
    <3>2. CASE j # k
      <4>1. IsOpen(f, j) <=> \E i \in 1..Len(u) : u[i] = j
        BY <1>1, <1>5, <1>6, <3>2 DEF Listed, u
      <4> QED BY <1>6, <1>7, <1>8, <3>2, <4>1
    <3> QED BY <3>1, <3>2
  <2> QED BY <1>2, <2>1, <2>2 DEF Listed
<1>12. ASSUME NEW q \in ProcId, x[q] # NoConn
       PROVE  /\ x[q] \in Conn /\ IsOpen(f, x[q]) /\ x[q] # k
              /\ f.nodes[x[q]].procid = q
  <2>1. x[q] \in Conn /\ IsOpen(e, x[q]) /\ e.nodes[x[q]].procid = q
    BY <1>1, <1>12 DEF Indexed
  <2> QED BY <1>4, <1>5, <2>1
<1>13. ASSUME NEW j \in Conn, j # k, IsOpen(f, j), InIndex(f, p, j)
       PROVE  f.nodes[j].procid \in ProcId /\ x[f.nodes[j].procid] = j
  <2>1. IsOpen(e, j) /\ f.nodes[j] = e.nodes[j] /\ InIndex(e, p, j)
    BY <1>4, <1>5, <1>13 DEF InIndex
  <2>2. e.nodes[j].procid \in ProcId
    BY <1>1, <2>1 DEF IsOpen, Node, OpenNode
  <2> QED BY <1>1, <2>1, <2>2 DEF Indexed
<1>14. Indexed(f, p)
  <2>1. CASE p \in Client
    <3>1. /\ c \in ProcId /\ c # NoProc /\ x[c] = NoConn /\ y = [x EXCEPT ![c] = k]
      BY <2>1 DEF AddedTo
    <3>2. y[c] = k /\ \A q \in ProcId : q # c => y[q] = x[q]
      BY <1>1, <3>1
    <3>3. y[NoProc] = NoConn
      <4>1. x[NoProc] = NoConn /\ NoProc \in ProcId
        BY <1>1 DEF Indexed, ProcId
      <4> QED BY <3>1, <3>2, <4>1
    <3>4. ASSUME NEW q \in ProcId, y[q] # NoConn
          PROVE  IsOpen(f, y[q]) /\ f.nodes[y[q]].procid = q
      BY <1>4, <1>5, <1>12, <3>2, <3>4
    <3>5. ASSUME NEW j \in Conn, IsOpen(f, j), InIndex(f, p, j)
          PROVE  y[f.nodes[j].procid] = j
      <4>1. CASE j = k
        BY <1>4, <3>2, <4>1
      <4>2. CASE j # k
        <5>1. f.nodes[j].procid \in ProcId /\ x[f.nodes[j].procid] = j /\ j # NoConn
          BY <1>13, <3>5, <4>2, NetAssumption
        <5> QED BY <3>1, <3>2, <5>1
      <4> QED BY <4>1, <4>2
    <3> QED BY <1>2, <3>3, <3>4, <3>5 DEF Indexed
  <2>2. CASE p \notin Client
    <3>1. y = x
      BY <2>2 DEF AddedTo
    <3>2. x[NoProc] = NoConn
      BY <1>1 DEF Indexed
    <3>3. ~InIndex(f, p, k)
      BY <1>4, <2>2 DEF InIndex
    <3> QED BY <1>2, <1>12, <1>13, <3>1, <3>2, <3>3 DEF Indexed
  <2> QED BY <2>1, <2>2
<1>15. Sized(f) /\ Sorted(f, p)
  BY <1>1, <1>2, SameChains
<1> QED BY <1>5, <1>10, <1>11, <1>14, <1>15 DEF LocalInv

\* A call that only changes connections.
LEMMA ConnsKeep ==
  ASSUME NEW p \in Proc, NEW es, NEW v, ViewInv(v, p, es), NEW cs \in [Conn -> Connection],
         \A k \in Conn :
           /\ LinkInv(NodesAt(v, p, es, k), cs[k])
           /\ \A q \in Proc : cs[k].wire[q] = v.conn[k].wire[q] \/ cs[k].wire[q] = <<>>
           /\ \/ cs[k].client = v.conn[k].client /\ cs[k].server = v.conn[k].server
              \/ cs[k] = FreeConn,
         v.left = MaxLeft => \A k \in Conn :
           /\ Healthy(NodesAt(v, p, es, k), cs[k])
           /\ \A q \in Proc : cs[k].wire[q] = v.conn[k].wire[q] \/ ~HasMsg(v.conn[k].wire[q])
  PROVE  LET w == [v EXCEPT !.conn = cs]
         IN  ViewInv(w, p, es) /\ w.left = v.left /\ w.ep = v.ep /\ w.conn = cs
<1> DEFINE w == [v EXCEPT !.conn = cs]
<1>1. v \in ViewType
  BY DEF ViewInv
<1>2. w \in ViewType /\ w.ep = v.ep /\ w.conn = cs /\ w.handled = v.handled /\ w.left = v.left
  BY <1>1 DEF ViewType
<1> HIDE DEF w
<1>3. \A j \in Conn : NodesAt(w, p, es, j) = NodesAt(v, p, es, j)
  BY <1>2 DEF NodesAt
<1>4. \A j \in Conn :
        \/ w.conn[j].client = v.conn[j].client /\ w.conn[j].server = v.conn[j].server
        \/ \A q \in Proc : StockOf(w, p, es)[InSendbuf(q, j)] = <<>>
  <2> TAKE j \in Conn
  <2>1. CASE cs[j] = FreeConn
    <3>1. LinkInv(NodesAt(v, p, es, j), FreeConn)
      BY <2>1
    <3>2. \A q \in Proc : q # p => StockOf(w, p, es)[InSendbuf(q, j)] = <<>>
      BY <3>1, FreeSends
    <3>3. NodesAt(v, p, es, j)[p] = NoNode
      BY <3>1, FreeLink
    <3>4. SendBufOf(w.ep, j) = <<>>
      BY <1>2, <3>3 DEF NodesAt, SendBufOf, IsOpen
    <3> QED BY <3>2, <3>4, StockOfIs
  <2> QED BY <1>2, <2>1
<1>5. AccountOf(w, p, es)
  <2>1. AccountOf(v, p, es)
    BY DEF ViewInv
  <2> QED BY <1>2, <1>4, <2>1, FewerAccount
<1>6. KeptOf(w, p, es)
  <2>1. KeptOf(v, p, es)
    BY DEF ViewInv
  <2>2. ASSUME v.left = MaxLeft
        PROVE  All(StockOf(w, p, es), sent)
    <3>1. Moves(StockOf(v, p, es), StockOf(w, p, es))
      BY <1>2, <2>2, FewerMoves
    <3> QED BY <2>1, <2>2, <3>1, AllMoves DEF KeptOf
  <2> QED BY <1>2, <1>3, <2>1, <2>2 DEF KeptOf
<1> QED BY <1>2, <1>3, <1>5, <1>6 DEF ViewInv, w

\* Node k is new, and so may be its connection.
AllocView(v, k, n, y, dn) ==
  [v EXCEPT !.ep = [v.ep EXCEPT !.nodes = [v.ep.nodes EXCEPT ![k] = n],
                                !.used = Append(v.ep.used, k), !.nodeidx = y],
            !.conn = [v.conn EXCEPT ![k] = dn]]

\* A node is opened.
LEMMA AllocKeeps ==
  ASSUME NEW p \in Proc, NEW es, NEW v, ViewInv(v, p, es), NEW k \in Conn, ~IsOpen(v.ep, k),
         NEW n \in OpenNode, NEW y, NEW dn,
         AddedTo(v.ep.nodeidx, y, k, n.procid, p \in Client),
         n.status \notin {"Connected", "Stop"}, n.recvbuf = <<>>, n.sendbuf = <<>>,
         \/ dn = v.conn[k]
         \/ v.conn[k] = FreeConn /\ \A q \in Proc : dn.wire[q] = <<>>,
         LinkInv([NodesAt(v, p, es, k) EXCEPT ![p] = n], dn),
         v.left = MaxLeft => Healthy([NodesAt(v, p, es, k) EXCEPT ![p] = n], dn)
  PROVE  LET w == AllocView(v, k, n, y, dn)
         IN  Keeps(v, w, p, es, k) /\ IsOpen(w.ep, k) /\ w.ep.nodes[k] = n
<1> DEFINE w == AllocView(v, k, n, y, dn)
           e == v.ep
           f == [e EXCEPT !.nodes = [e.nodes EXCEPT ![k] = n],
                          !.used = Append(e.used, k), !.nodeidx = y]
<1>1. /\ v \in ViewType /\ LocalInv(v.ep, p) /\ Delivered(v.handled)
      /\ v.ep \in Endpoint /\ v.ep.nodes \in [Conn -> Node] /\ v.conn \in [Conn -> Connection]
  BY ViewFields DEF ViewInv
<1>2. f \in [nodes : {[e.nodes EXCEPT ![k] = n]}, used : {Append(e.used, k)}, nodeidx : {y},
             sendq : {e.sendq}, recvq : {e.recvq}]
  BY <1>1 DEF Endpoint
<1> HIDE DEF f
<1>3. f \in Endpoint /\ LocalInv(f, p) /\ IsOpen(f, k)
  BY <1>1, <1>2, LocalAlloc
<1>4. dn \in Connection
  BY DEF LinkInv
<1>5. /\ w.ep = f /\ w.conn = [v.conn EXCEPT ![k] = dn]
      /\ w.handled = v.handled /\ w.left = v.left
      /\ f.sendq = v.ep.sendq /\ f.recvq = v.ep.recvq
      /\ w \in [ep : {f}, conn : {w.conn}, handled : {v.handled}, left : {v.left},
                moved : {v.moved}, dealt : {v.dealt}]
  <2>1. w = [v EXCEPT !.ep = f, !.conn = [v.conn EXCEPT ![k] = dn]]
    BY DEF f, AllocView
  <2> HIDE DEF w
  <2> QED BY <1>1, <1>2, <2>1 DEF ViewType
<1> HIDE DEF w
<1>6. w \in ViewType
  <2>1. w.conn \in [Conn -> Connection]
    BY <1>1, <1>4, <1>5
  <2> QED BY <1>1, <1>3, <1>5, <2>1 DEF ViewType
<1>7. f.nodes = [e.nodes EXCEPT ![k] = n]
  BY <1>2
<1>8. \A j \in Conn : LinkInv(NodesAt(w, p, es, j), w.conn[j])
  BY <1>5, <1>6, <1>7, LinksStep DEF Node
<1>10. AccountOf(w, p, es) /\ Moves(StockOf(v, p, es), StockOf(w, p, es))
  <2>1. \A j \in Conn : RecvBufOf(w.ep, j) = RecvBufOf(v.ep, j) /\ SendBufOf(w.ep, j) = SendBufOf(v.ep, j)
    <3>1. \A j \in Conn : j # k => w.ep.nodes[j] = v.ep.nodes[j]
      BY <1>1, <1>5, <1>7
    <3>2. w.ep.nodes[k] = n
      BY <1>1, <1>5, <1>7
    <3>3. /\ RecvBufOf(w.ep, k) = <<>> /\ SendBufOf(w.ep, k) = <<>>
          /\ RecvBufOf(v.ep, k) = <<>> /\ SendBufOf(v.ep, k) = <<>>
      BY <3>2 DEF RecvBufOf, SendBufOf, IsOpen
    <3> QED BY <3>1, <3>3 DEF RecvBufOf, SendBufOf, IsOpen
  <2>2. /\ w.conn[k] = dn
        /\ \A j \in Conn : j # k => w.conn[j] = v.conn[j]
    BY <1>1, <1>5
  <2>3. \A j \in Conn :
          \/ w.conn[j].client = v.conn[j].client /\ w.conn[j].server = v.conn[j].server
          \/ \A q \in Proc : StockOf(w, p, es)[InSendbuf(q, j)] = <<>>
    <3>1. CASE dn = v.conn[k]
      BY <2>2, <3>1
    <3>2. CASE v.conn[k] = FreeConn
      <4>1. LinkInv(NodesAt(v, p, es, k), FreeConn)
        BY <3>2 DEF ViewInv
      <4>2. \A q \in Proc : q # p => StockOf(w, p, es)[InSendbuf(q, k)] = <<>>
        BY <4>1, FreeSends
      <4>3. SendBufOf(w.ep, k) = <<>>
        BY <2>1 DEF SendBufOf
      <4>4. \A q \in Proc : StockOf(w, p, es)[InSendbuf(q, k)] = <<>>
        BY <4>2, <4>3, StockOfIs
      <4> QED BY <2>2, <4>4
    <3> QED BY <3>1, <3>2
  <2>4. \A j \in Conn, q \in Proc : w.conn[j].wire[q] = v.conn[j].wire[q] \/ w.conn[j].wire[q] = <<>>
    BY <2>2
  <2>5. AccountOf(v, p, es)
    BY DEF ViewInv
  <2>6. \A j \in Conn :
          /\ RecvBufOf(w.ep, j) = RecvBufOf(v.ep, j) \/ RecvBufOf(w.ep, j) = <<>>
          /\ SendBufOf(w.ep, j) = SendBufOf(v.ep, j) \/ SendBufOf(w.ep, j) = <<>>
          /\ \A q \in Proc : w.conn[j].wire[q] = v.conn[j].wire[q] \/ w.conn[j].wire[q] = <<>>
    BY <2>1, <2>4
  <2>7. /\ w.handled = v.handled /\ w.left.refusals = v.left.refusals
        /\ w.ep.sendq = v.ep.sendq /\ w.ep.recvq = v.ep.recvq
    BY <1>5
  <2>8. AccountOf(w, p, es)
    BY ONLY <1>6, <2>3, <2>5, <2>6, <2>7, p \in Proc, FewerAccount
  <2>9. \A j \in Conn, q \in Proc : \/ w.conn[j].wire[q] = v.conn[j].wire[q]
                                   \/ ~HasMsg(v.conn[j].wire[q])
    <3>1. v.conn[k] = FreeConn => \A q \in Proc : ~HasMsg(v.conn[k].wire[q])
      <4>1. \A q \in Proc : FreeConn.wire[q] = <<>>
        BY DEF FreeConn
      <4> QED BY <4>1, HeardParts DEF Says
    <3> QED BY <2>2, <3>1
  <2>10. Moves(StockOf(v, p, es), StockOf(w, p, es))
    BY ONLY <2>1, <2>7, <2>9, p \in Proc, FewerMoves
  <2> QED BY <2>8, <2>10
<1>11. KeptOf(w, p, es)
  <2>1. KeptOf(v, p, es) /\ w.ep.nodes = [v.ep.nodes EXCEPT ![k] = n]
    BY <1>5, <1>7 DEF ViewInv
  <2>2. /\ v.ep.nodes \in [Conn -> Node] /\ v.conn \in [Conn -> Connection] /\ w.left = v.left
        /\ w.conn = [v.conn EXCEPT ![k] = dn]
    BY <1>1, <1>5
  <2>3. v.left = MaxLeft => Healthy([NodesAt(v, p, es, k) EXCEPT ![p] = n], dn)
    OBVIOUS
  <2> QED BY ONLY <1>10, <2>1, <2>2, <2>3, k \in Conn, KeptStep
<1>9. ViewInv(w, p, es)
  BY <1>1, <1>3, <1>5, <1>6, <1>8, <1>10, <1>11 DEF ViewInv
<1> QED BY <1>1, <1>3, <1>5, <1>7, <1>9 DEF Keeps, w

\* What a call may do: keep the invariant, and stop nobody; SameLeft, if nothing
\* goes wrong in it.
SameLeft(v, w, p, es) == ViewInv(w, p, es) /\ w.left = v.left

\* A closed end empties its wire, and frees the connection if it is the last one.
LEMMA ShutEmpties ==
  ASSUME NEW cn \in Connection, NEW p \in Proc
  PROVE  LET dn == ShutEnd(cn, p)
         IN  /\ \A q \in Proc : dn.wire[q] = cn.wire[q] \/ dn.wire[q] = <<>>
             /\ (dn.client = cn.client /\ dn.server = cn.server) \/ dn = FreeConn
  BY DEF ShutEnd, FreeConn, Connection

\* A server may give up a connection that it has no node for.
LEMMA IdleShut ==
  ASSUME NEW ns, NEW cn, LinkInv(ns, cn), Healthy(ns, cn), NEW p \in Server, p \in cn.open,
         ns[p] = NoNode
  PROVE  Healthy(ns, ShutEnd(cn, p)) /\ \A q \in Proc : ~HasMsg(cn.wire[q])
<1>1. p \in Proc /\ p = cn.server
  BY EndsOf
<1>2. Closable(ns, cn, p)
  BY <1>1 DEF Closable, NoNode
<1>3. Idle(ns, cn, p) /\ Healthy([ns EXCEPT ![p] = NoNode], ShutEnd(cn, p))
  BY <1>2, ClosableIs, HealthyShut
<1>4. [ns EXCEPT ![p] = NoNode] = ns
  <2>1. ns \in [Proc -> Node]
    BY DEF LinkInv
  <2> QED BY <2>1
<1> QED BY <1>3, <1>4 DEF Idle

\* joyServerProcRecvData, the second half.
LEMMA AcceptKeeps ==
  ASSUME NEW p \in Server, NEW es, NEW v, ViewInv(v, p, es), NEW w \in ServerAccept(v, p)
  PROVE  SameLeft(v, w, p, es)
<1>1. p \in Proc /\ p \notin Client
  BY NetAssumption DEF Proc
<1>2. CASE w = v
  BY <1>2 DEF SameLeft
<1>3. ASSUME NEW k \in Backlog(v, p),
             w = IF NodeAvailable(v.ep) THEN AllocConnectNode(v, k, "ShakeHand")
                 ELSE [v EXCEPT !.conn = Shut(@, k, p)]
      PROVE  SameLeft(v, w, p, es)
  <2> DEFINE ns == NodesAt(v, p, es, k)
             cn == v.conn[k]
             n  == NewNode("ShakeHand")
  <2>1. k \in Conn /\ p \in cn.open /\ ~IsOpen(v.ep, k)
    BY DEF Backlog
  <2>2. LinkInv(ns, cn) /\ ns[p] = NoNode /\ ns \in [Proc -> Node]
    BY <1>1, <2>1 DEF ViewInv, NodesAt, IsOpen, LinkInv
  <2>3. /\ v \in ViewType /\ v.ep \in Endpoint /\ v.conn \in [Conn -> Connection]
        /\ v.ep.nodes \in [Conn -> Node]
    BY ViewFields DEF ViewInv
  <2>4. /\ n \in OpenNode /\ n.status = "ShakeHand" /\ n.procid = NoProc
        /\ n.recvbuf = <<>> /\ n.sendbuf = <<>> /\ n.shaken = FALSE
    BY Nothing DEF NewNode, OpenNode, ProcId
  <2> HIDE DEF n
  <2>5. CASE NodeAvailable(v.ep)
    <3>1. /\ LinkInv([ns EXCEPT ![p] = n], cn)
          /\ v.left = MaxLeft => Healthy([ns EXCEPT ![p] = n], cn)
      <4>1. NodeInv(n, cn, p)
        BY <2>4, Nothing DEF NodeInv
      <4>2. SameLink(cn, cn) /\ WireStep(cn, cn, p, n)
        <5>1. cn \in Connection /\ Wires(cn) /\ Peer(cn, p) \in Proc
          BY <2>1, <2>2, EndsOf DEF LinkInv
        <5> QED BY <1>1, <5>1, SameWires
      <4>3. NodeStep(NoNode, n, cn, cn, p)
        <5>1. ~Heard(n, <<>>)
          BY <2>4, NothingSaid DEF Heard
        <5> QED BY <1>1, <2>4, <5>1 DEF NodeStep, Silent, NoNode
      <4>4. Sides(n, ns[Peer(cn, p)], cn, p)
        <5>1. /\ Side(NoNode, cn.wire[p], Peer(cn, p), p)
              /\ \A m : Side(m, cn.wire[p], Peer(cn, p), p)
                          /\ Side(ns[Peer(cn, p)], cn.wire[Peer(cn, p)], p, Peer(cn, p))
                          => Sides(m, ns[Peer(cn, p)], cn, p)
              /\ Side(ns[Peer(cn, p)], cn.wire[Peer(cn, p)], p, Peer(cn, p))
          BY <2>1, <2>2, <4>2, OwnSide
        <5>2. From(cn.wire[p], Peer(cn, p)) /\ ~HasMsg(cn.wire[p]) /\ OneShake(cn.wire[p])
          BY <5>1 DEF Side, Receives, ShakesOnce, Ready
        <5>3. Side(n, cn.wire[p], Peer(cn, p), p)
          BY <1>1, <2>4, <5>2, NothingSaid DEF Side, Receives, Sends, ShakesOnce
        <5> QED BY <5>1, <5>3
      <4>5. LinkInv([ns EXCEPT ![p] = n], cn)
        BY <2>1, <2>2, <2>4, <4>1, <4>2, <4>3, <4>4, LinkStep DEF Node
      <4>6. v.left = MaxLeft => Healthy([ns EXCEPT ![p] = n], cn)
        <5>1. v.left = MaxLeft => Healthy(ns, cn)
          BY <2>1 DEF ViewInv, KeptOf
        <5> QED BY <2>1, <2>2, <2>4, <4>1, <4>2, <4>3, <5>1, HealthyStep DEF Node
      <4> QED BY <4>5, <4>6
    <3>2. AddedTo(v.ep.nodeidx, v.ep.nodeidx, k, n.procid, p \in Client)
      BY <1>1 DEF AddedTo
    <3>3. w = AllocView(v, k, n, v.ep.nodeidx, cn)
      <4>1. w = [v EXCEPT !.ep.nodes[k] = n, !.ep.used = Append(@, k)]
        BY <1>3, <2>5 DEF AllocConnectNode, n
      <4> QED BY <2>3, <4>1 DEF AllocView, ViewType, Endpoint
    <3>4. n.status \notin {"Connected", "Stop"}
      BY <2>4
    <3>5. Keeps(v, w, p, es, k)
      BY <1>1, <2>1, <2>4, <3>1, <3>2, <3>3, <3>4, AllocKeeps
    <3> QED BY <3>5 DEF Keeps, SameLeft
  <2>6. CASE ~NodeAvailable(v.ep)
    <3> DEFINE dn == ShutEnd(cn, p)
               cs == [v.conn EXCEPT ![k] = dn]
    <3>1. LinkInv([ns EXCEPT ![p] = NoNode], dn)
      BY <2>1, <2>2, LinkShut
    <3>2. [ns EXCEPT ![p] = NoNode] = ns
      BY <2>2
    <3>3. LinkInv(ns, dn) /\ dn \in Connection
      BY <3>1, <3>2 DEF LinkInv
    <3>4. w = [v EXCEPT !.conn = cs]
      <4>1. Shut(v.conn, k, p) = cs
        BY <2>1, <2>3, ShutIs
      <4>2. w = [v EXCEPT !.conn = Shut(v.conn, k, p)]
        BY <1>3, <2>6
      <4> HIDE DEF cs
      <4> QED BY <4>1, <4>2
    <3> HIDE DEF dn
    <3>5. cs \in [Conn -> Connection] /\ \A j \in Conn : cs[j] = IF j = k THEN dn ELSE v.conn[j]
      BY <2>3, <3>3
    <3>6. \A j \in Conn : LinkInv(NodesAt(v, p, es, j), cs[j])
      BY <3>3, <3>5 DEF ViewInv
    <3>7. /\ \A q \in Proc : dn.wire[q] = cn.wire[q] \/ dn.wire[q] = <<>>
          /\ (dn.client = cn.client /\ dn.server = cn.server) \/ dn = FreeConn
      BY <1>1, <2>1, <2>3, ShutEmpties DEF dn
    <3>9. v.left = MaxLeft => \A j \in Conn :
            /\ Healthy(NodesAt(v, p, es, j), cs[j])
            /\ \A q \in Proc : cs[j].wire[q] = v.conn[j].wire[q] \/ ~HasMsg(v.conn[j].wire[q])
      <4> SUFFICES ASSUME v.left = MaxLeft, NEW j \in Conn
                   PROVE  /\ Healthy(NodesAt(v, p, es, j), cs[j])
                          /\ \A q \in Proc : \/ cs[j].wire[q] = v.conn[j].wire[q]
                                             \/ ~HasMsg(v.conn[j].wire[q])
        OBVIOUS
      <4>1. Healthy(NodesAt(v, p, es, j), v.conn[j])
        BY DEF ViewInv, KeptOf
      <4>2. CASE j = k
        <5>1. Healthy(ns, cn)
          BY <4>1, <4>2
        <5>2. Healthy(ns, dn) /\ \A q \in Proc : ~HasMsg(cn.wire[q])
          BY <1>1, <2>1, <2>2, <3>2, <5>1, IdleShut DEF dn
        <5> QED BY <3>5, <4>2, <5>2
      <4>3. CASE j # k
        BY <3>5, <4>1, <4>3
      <4> QED BY <4>2, <4>3
    <3>8. \A j \in Conn :
            /\ LinkInv(NodesAt(v, p, es, j), cs[j])
            /\ \A q \in Proc : cs[j].wire[q] = v.conn[j].wire[q] \/ cs[j].wire[q] = <<>>
            /\ \/ cs[j].client = v.conn[j].client /\ cs[j].server = v.conn[j].server
               \/ cs[j] = FreeConn
      BY <3>5, <3>6, <3>7
    <3> HIDE DEF cs
    <3> QED BY <1>1, <3>4, <3>5, <3>8, <3>9, ConnsKeep DEF SameLeft
  <2> QED BY <2>5, <2>6
<1> QED BY <1>2, <1>3 DEF ServerAccept

\* The first step of joyServerStop.
LEMMA StopListenKeeps ==
  ASSUME NEW p \in Server, NEW es, NEW v, ViewInv(v, p, es)
  PROVE  LET w == StopListen(v, p)
         IN  SameLeft(v, w, p, es) /\ w.ep = v.ep
<1> DEFINE B == Backlog(v, p)
           Abort(k) == LET cn == ShutEnd(v.conn[k], p) IN [cn EXCEPT !.broken = cn # FreeConn]
           cs == [k \in Conn |-> IF k \in B THEN Abort(k) ELSE v.conn[k]]
<1>1. p \in Proc /\ p \notin Client
  BY NetAssumption DEF Proc
<1>2. v.conn \in [Conn -> Connection]
  BY ViewFields DEF ViewInv
<1>3. ASSUME NEW k \in B
      PROVE  /\ LinkInv(NodesAt(v, p, es, k), Abort(k))
             /\ \A q \in Proc : Abort(k).wire[q] = v.conn[k].wire[q] \/ Abort(k).wire[q] = <<>>
             /\ \/ Abort(k).client = v.conn[k].client /\ Abort(k).server = v.conn[k].server
                \/ Abort(k) = FreeConn
             /\ v.left = MaxLeft =>
                  /\ Healthy(NodesAt(v, p, es, k), Abort(k))
                  /\ \A q \in Proc : ~HasMsg(v.conn[k].wire[q])
  <2> DEFINE ns == NodesAt(v, p, es, k)
             cn == v.conn[k]
             dn == ShutEnd(cn, p)
  <2>1. k \in Conn /\ p \in cn.open /\ ~IsOpen(v.ep, k)
    BY DEF Backlog
  <2>2. LinkInv(ns, cn) /\ ns[p] = NoNode /\ ns \in [Proc -> Node]
    BY <1>1, <2>1 DEF ViewInv, NodesAt, IsOpen, LinkInv
  <2>3. LinkInv([ns EXCEPT ![p] = NoNode], dn)
    BY <2>1, <2>2, LinkShut
  <2>4. [ns EXCEPT ![p] = NoNode] = ns
    BY <2>2
  <2>5. LinkInv(ns, dn) /\ dn \in Connection
    BY <2>3, <2>4 DEF LinkInv
  <2>6. Abort(k) = [dn EXCEPT !.broken = dn # FreeConn]
    OBVIOUS
  <2>9. /\ \A q \in Proc : dn.wire[q] = cn.wire[q] \/ dn.wire[q] = <<>>
        /\ (dn.client = cn.client /\ dn.server = cn.server) \/ dn = FreeConn
    BY <1>1, <1>2, <2>1, ShutEmpties
  <2>10. v.left = MaxLeft => Healthy(ns, dn) /\ \A q \in Proc : ~HasMsg(cn.wire[q])
    <3>1. v.left = MaxLeft => Healthy(ns, cn)
      BY <2>1 DEF ViewInv, KeptOf
    <3> QED BY <2>1, <2>2, <3>1, IdleShut
  <2>11. dn # FreeConn => dn.up = TRUE /\ dn.server \notin dn.open
    <3>1. cn.up = TRUE /\ p = cn.server
      BY <1>1, <2>1, <2>2, EndsOf DEF LinkInv, Ends, Connection
    <3>2. dn # FreeConn => dn = [cn EXCEPT !.open = @ \ {p}, !.wire[p] = <<>>]
      BY DEF ShutEnd
    <3>3. cn \in Connection
      BY <1>2, <2>1
    <3> HIDE DEF dn, cn
    <3>4. dn # FreeConn => dn.up = cn.up /\ dn.server = cn.server /\ dn.open = cn.open \ {p}
      BY <3>2, <3>3 DEF Connection
    <3> QED BY <3>1, <3>4
  <2> HIDE DEF dn, ns
  <2>7. CASE dn = FreeConn
    <3>1. [FreeConn EXCEPT !.broken = FALSE] = FreeConn
      <4>1. FreeConn \in Connection /\ FreeConn.broken = FALSE
        BY FreeLink DEF FreeConn
      <4> QED BY <4>1 DEF Connection
    <3>2. Abort(k) = [dn EXCEPT !.broken = FALSE]
      BY <2>6, <2>7
    <3>3. Abort(k) = dn
      BY <2>7, <3>1, <3>2
    <3> HIDE DEF Abort
    <3> QED BY <2>5, <2>7, <2>9, <2>10, <3>3 DEF ns
  <2>8. CASE dn # FreeConn
    <3>1. Abort(k) = [dn EXCEPT !.broken = TRUE]
      BY <2>6, <2>8
    <3>2. [dn EXCEPT !.broken = TRUE] = [dn EXCEPT !.broken = TRUE, !.wire = dn.wire]
      BY <2>5 DEF Connection
    <3>3. dn.wire \in [Proc -> Seq(Pkg)]
      BY <2>5 DEF Connection
    <3>4. LinkInv(ns, [dn EXCEPT !.broken = TRUE, !.wire = dn.wire])
      BY <2>5, <2>8, <3>3, LinkBreak
    <3>5. /\ Abort(k).wire = dn.wire /\ Abort(k).client = dn.client
          /\ Abort(k).server = dn.server
          /\ Abort(k).open = dn.open /\ Abort(k).up = dn.up /\ Abort(k).lost = dn.lost
      BY <2>5, <3>1 DEF Connection
    <3> HIDE DEF Abort
    <3>6. Healthy(ns, dn) => Healthy(ns, Abort(k))
      BY <2>8, <2>11, <3>5 DEF Healthy, Unspoken
    <3> QED BY <2>8, <2>9, <2>10, <3>1, <3>2, <3>4, <3>5, <3>6 DEF ns
  <2> QED BY <2>7, <2>8
<1> HIDE DEF Abort, B
<1>4. \A k \in Conn :
        /\ LinkInv(NodesAt(v, p, es, k), cs[k])
        /\ \A q \in Proc : cs[k].wire[q] = v.conn[k].wire[q] \/ cs[k].wire[q] = <<>>
        /\ \/ cs[k].client = v.conn[k].client /\ cs[k].server = v.conn[k].server
           \/ cs[k] = FreeConn
  <2> TAKE k \in Conn
  <2>1. CASE k \in B
    BY <1>3, <2>1
  <2>2. CASE k \notin B
    BY <2>2 DEF ViewInv
  <2> QED BY <2>1, <2>2
<1>7. v.left = MaxLeft => \A k \in Conn :
        /\ Healthy(NodesAt(v, p, es, k), cs[k])
        /\ \A q \in Proc : cs[k].wire[q] = v.conn[k].wire[q] \/ ~HasMsg(v.conn[k].wire[q])
  <2> SUFFICES ASSUME v.left = MaxLeft, NEW k \in Conn
               PROVE  /\ Healthy(NodesAt(v, p, es, k), cs[k])
                      /\ \A q \in Proc : \/ cs[k].wire[q] = v.conn[k].wire[q]
                                         \/ ~HasMsg(v.conn[k].wire[q])
    OBVIOUS
  <2>1. CASE k \in B
    BY <1>3, <2>1
  <2>2. CASE k \notin B
    BY <2>2 DEF ViewInv, KeptOf
  <2> QED BY <2>1, <2>2
<1>5. cs \in [Conn -> Connection]
  BY <1>4 DEF LinkInv
<1>6. StopListen(v, p) = [v EXCEPT !.conn = cs]
  BY DEF StopListen, Abort, B
<1> HIDE DEF cs
<1> QED BY <1>1, <1>4, <1>5, <1>6, <1>7, ConnsKeep DEF SameLeft

-----------------------------------------------------------------------------
(* joyClientConnectTcp. *)

NewNodeView(v, p, s, k, done) ==
  AllocView(v, k, [NewNode("Connecting") EXCEPT !.procid = s],
            [v.ep.nodeidx EXCEPT ![s] = k], NewConn(p, s, done))

\* A client's node for server s is opened.
LEMMA NewNodeKeeps ==
  ASSUME NEW p \in Client, NEW es, NEW v, ViewInv(v, p, es), NEW s \in Server,
         v.ep.nodeidx[s] = NoConn, NEW k \in Conn, v.conn[k] = FreeConn, NEW done \in BOOLEAN
  PROVE  LET w == NewNodeView(v, p, s, k, done)
         IN  /\ Keeps(v, w, p, es, k) /\ IsOpen(w.ep, k)
             /\ w.ep.nodes[k].status = "Connecting"
<1> DEFINE n  == [NewNode("Connecting") EXCEPT !.procid = s]
           y  == [v.ep.nodeidx EXCEPT ![s] = k]
           ns == NodesAt(v, p, es, k)
           w  == NewNodeView(v, p, s, k, done)
<1>1. p \in Proc /\ s \in ProcId /\ s # NoProc
  BY NetAssumption DEF Proc, ProcId
<1>2. LinkInv(ns, FreeConn)
  BY DEF ViewInv
<1>3. ~IsOpen(v.ep, k)
  <2>1. ns[p] = NoNode
    BY <1>1, <1>2, FreeLink
  <2> QED BY <1>1, <2>1 DEF NodesAt, IsOpen
<1>4. /\ LinkInv([ns EXCEPT ![p] = n], NewConn(p, s, done))
      /\ Healthy([ns EXCEPT ![p] = n], NewConn(p, s, done))
  BY <1>2, LinkNew
<1>5. /\ n \in OpenNode /\ n.status = "Connecting" /\ n.procid = s
      /\ n.recvbuf = <<>> /\ n.sendbuf = <<>>
  BY <1>1, Nothing DEF NewNode, OpenNode
<1>6. AddedTo(v.ep.nodeidx, y, k, n.procid, p \in Client)
  BY <1>1, <1>5 DEF AddedTo
<1>7. w = AllocView(v, k, n, y, NewConn(p, s, done))
  BY DEF NewNodeView
<1>10. \A q \in Proc : NewConn(p, s, done).wire[q] = <<>>
  <2> DEFINE fn == [FreeConn EXCEPT !.client = p, !.server = s, !.open = {p}]
  <2>1. FreeConn \in Connection /\ \A q \in Proc : FreeConn.wire[q] = <<>>
    BY FreeLink DEF FreeConn
  <2>2. fn.wire = FreeConn.wire
    BY <2>1 DEF Connection
  <2>3. NewConn(p, s, done) = IF done THEN [fn EXCEPT !.open = {p, s}, !.up = TRUE] ELSE fn
    BY DEF NewConn
  <2>4. [fn EXCEPT !.open = {p, s}, !.up = TRUE].wire = fn.wire
    BY <2>1 DEF Connection
  <2> HIDE DEF fn
  <2> QED BY <2>1, <2>2, <2>3, <2>4
<1> HIDE DEF n, y, w, ns
<1>8. n.status \notin {"Connected", "Stop"}
  BY <1>5
<1>9. /\ Keeps(v, w, p, es, k) /\ IsOpen(w.ep, k) /\ w.ep.nodes[k] = n
  <2> HIDE DEF NewConn
  <2> QED BY <1>1, <1>3, <1>4, <1>5, <1>6, <1>7, <1>8, <1>10, AllocKeeps DEF ns
<1> QED BY <1>5, <1>9 DEF w

\* The outcomes of joyClientConnectTcp for a server without a node.
LEMMA NewConnectIs ==
  ASSUME NEW p, NEW v \in ViewType, NEW s \in ProcId, NEW listening,
         NEW w \in ClientNewConnect(v, p, s, listening),
         \E j \in Conn : v.conn[j] = FreeConn
  PROVE  \E k \in Conn : /\ v.conn[k] = FreeConn
                         /\ \/ w = v
                            \/ w = NewNodeView(v, p, s, k, FALSE)
                            \/ w \in ClientShakeHand(NewNodeView(v, p, s, k, TRUE), p, k)
<1> DEFINE k    == CHOOSE j \in Conn : v.conn[j] = FreeConn
<1>1. k \in Conn /\ v.conn[k] = FreeConn
  OBVIOUS
<1> DEFINE m    == NewNode("Connecting")
           n    == [m EXCEPT !.procid = s]
           cn   == [FreeConn EXCEPT !.client = p, !.server = s, !.open = {p}]
           done == [cn EXCEPT !.open = {p, s}, !.up = TRUE]
           u    == AllocConnectNode(v, k, "Connecting")
           node == SetNodeProcid(u, k, s)
           f    == [v.ep EXCEPT !.nodes = [v.ep.nodes EXCEPT ![k] = n],
                                !.used = Append(v.ep.used, k),
                                !.nodeidx = [v.ep.nodeidx EXCEPT ![s] = k]]
<1>2. \/ w = v \/ w = [node EXCEPT !.conn[k] = cn]
      \/ w \in ClientShakeHand([node EXCEPT !.conn[k] = done], p, k)
  BY DEF ClientNewConnect
<1> HIDE DEF k
<1>3. /\ v.ep \in Endpoint /\ v.conn \in [Conn -> Connection]
      /\ v.ep.nodes \in [Conn -> Node] /\ v.ep.nodeidx \in [ProcId -> Conn \cup {NoConn}]
  BY ViewFields
<1>4. cn = NewConn(p, s, FALSE) /\ done = NewConn(p, s, TRUE)
  BY DEF NewConn
<1>5. u = [v EXCEPT !.ep = [v.ep EXCEPT !.nodes = [v.ep.nodes EXCEPT ![k] = m],
                                        !.used = Append(v.ep.used, k)]]
  <2> HIDE DEF m
  <2> QED BY <1>3 DEF AllocConnectNode, m, ViewType, Endpoint
<1>6. node = [v EXCEPT !.ep = f]
  <2>1. node = [u EXCEPT !.ep.nodes[k].procid = s, !.ep.nodeidx[s] = k]
    BY DEF SetNodeProcid
  <2> HIDE DEF u, m, node
  <2>2. /\ u.ep = [v.ep EXCEPT !.nodes = [v.ep.nodes EXCEPT ![k] = m],
                               !.used = Append(v.ep.used, k)]
        /\ u \in [ep : {u.ep}, conn : {v.conn}, handled : {v.handled}, left : {v.left},
                  moved : {v.moved}, dealt : {v.dealt}]
    BY <1>5 DEF ViewType
  <2>3. /\ u.ep.nodes = [v.ep.nodes EXCEPT ![k] = m]
        /\ u.ep \in [nodes : {u.ep.nodes}, used : {Append(v.ep.used, k)},
                     nodeidx : {v.ep.nodeidx},
                     sendq : {v.ep.sendq}, recvq : {v.ep.recvq}]
    BY <1>3, <2>2 DEF Endpoint
  <2>4. u.ep.nodes[k] = m
    BY <1>1, <1>3, <2>3
  <2>5. node = [u EXCEPT !.ep = [u.ep EXCEPT !.nodes = [u.ep.nodes EXCEPT ![k] = n],
                                            !.nodeidx = [v.ep.nodeidx EXCEPT ![s] = k]]]
    BY <2>1, <2>2, <2>3, <2>4
  <2>6. [u.ep EXCEPT !.nodes = [u.ep.nodes EXCEPT ![k] = n],
                     !.nodeidx = [v.ep.nodeidx EXCEPT ![s] = k]] = f
    <3>1. [u.ep.nodes EXCEPT ![k] = n] = [v.ep.nodes EXCEPT ![k] = n]
      BY <1>3, <2>3
    <3> HIDE DEF n
    <3> QED BY <1>3, <2>3, <3>1 DEF Endpoint
  <2> HIDE DEF f
  <2> QED BY <2>2, <2>5, <2>6 DEF ViewType
<1> HIDE DEF node, f, cn, done
<1>7. /\ [node EXCEPT !.conn[k] = cn] = [v EXCEPT !.ep = f, !.conn = [v.conn EXCEPT ![k] = cn]]
      /\ [node EXCEPT !.conn[k] = done] = [v EXCEPT !.ep = f, !.conn = [v.conn EXCEPT ![k] = done]]
  BY <1>6 DEF ViewType
<1>8. \A b \in BOOLEAN : NewNodeView(v, p, s, k, b)
        = [v EXCEPT !.ep = f, !.conn = [v.conn EXCEPT ![k] = NewConn(p, s, b)]]
  BY DEF NewNodeView, AllocView, f
<1>9. /\ NewNodeView(v, p, s, k, FALSE) = [v EXCEPT !.ep = f, !.conn = [v.conn EXCEPT ![k] = cn]]
      /\ NewNodeView(v, p, s, k, TRUE) = [v EXCEPT !.ep = f, !.conn = [v.conn EXCEPT ![k] = done]]
  BY <1>4, <1>8
<1>10. /\ [node EXCEPT !.conn[k] = cn] = NewNodeView(v, p, s, k, FALSE)
       /\ [node EXCEPT !.conn[k] = done] = NewNodeView(v, p, s, k, TRUE)
  BY <1>7, <1>9
<1>11. \/ w = v \/ w = NewNodeView(v, p, s, k, FALSE)
       \/ w \in ClientShakeHand(NewNodeView(v, p, s, k, TRUE), p, k)
  BY <1>10, <1>2
<1> QED BY <1>1, <1>11

\* A connection that is complete just before its client closes it.
LEMMA LateTries ==
  ASSUME NEW p \in Proc, NEW es, NEW v, ViewInv(v, p, es), NEW k \in Conn, IsOpen(v.ep, k),
         ~v.conn[k].up
  PROVE  LET u == CompleteLate(v, k)
         IN  Tries(v, u, p, es, k) /\ MayClose(u, p, es, k)
<1> DEFINE cn == v.conn[k]
           dn == [cn EXCEPT !.up = TRUE, !.open = @ \cup {cn.server}]
           cs == [v.conn EXCEPT ![k] = dn]
           w  == [v EXCEPT !.conn = cs]
           l  == [v.left EXCEPT !.faults = @ - 1]
           u  == [w EXCEPT !.left = l]
<1>1. /\ v \in ViewType /\ v.conn \in [Conn -> Connection] /\ v.left \in Left
      /\ cn \in Connection
  BY ViewFields DEF ViewInv
<1>2. cn # FreeConn /\ ~cn.up /\ LinkInv(NodesAt(v, p, es, k), cn)
  BY OpenFacts, EndsOf
<1>3. LinkInv(NodesAt(v, p, es, k), dn)
  <2> HIDE DEF cn
  <2> QED BY <1>2, LinkEstablish, Zenon
<1>4. /\ dn \in Connection /\ dn.client = cn.client /\ dn.server = cn.server
      /\ dn.wire = cn.wire /\ dn.lost = cn.lost /\ dn.broken = cn.broken
      /\ dn.up = TRUE /\ dn.open = cn.open \cup {cn.server}
  BY <1>1, <1>3 DEF Connection, LinkInv
<1>5. v.left = MaxLeft => Healthy(NodesAt(v, p, es, k), dn)
  <2> HIDE DEF dn
  <2>1. v.left = MaxLeft => Healthy(NodesAt(v, p, es, k), cn)
    BY DEF ViewInv, KeptOf
  <2> QED BY <1>2, <1>4, <2>1 DEF Healthy, Unspoken
<1>6. CompleteLate(v, k) = u
  <2>1. v.conn[k] = cn /\ CompleteLate(v, k) = [v EXCEPT !.conn = cs, !.left = l]
    BY <1>1 DEF CompleteLate, ViewType, Connection
  <2> HIDE DEF cs, l
  <2> QED BY <1>1, <2>1 DEF ViewType
<1> HIDE DEF dn
<1>7. /\ cs \in [Conn -> Connection]
      /\ \A j \in Conn : cs[j] = IF j = k THEN dn ELSE v.conn[j]
  BY <1>1, <1>4
<1> HIDE DEF cs
<1>8. ViewInv(w, p, es) /\ w.left = v.left /\ w.ep = v.ep /\ w.conn = cs
  <2>1. \A j \in Conn :
          /\ LinkInv(NodesAt(v, p, es, j), cs[j])
          /\ \A q \in Proc : cs[j].wire[q] = v.conn[j].wire[q]
          /\ cs[j].client = v.conn[j].client /\ cs[j].server = v.conn[j].server
    BY <1>3, <1>4, <1>7 DEF ViewInv
  <2>2. v.left = MaxLeft => \A j \in Conn : Healthy(NodesAt(v, p, es, j), cs[j])
    BY <1>5, <1>7 DEF ViewInv, KeptOf
  <2> QED BY <1>7, <2>1, <2>2, ConnsKeep
<1> HIDE DEF w
<1>9. /\ l \in Left /\ l.stops = v.left.stops /\ l.refusals = v.left.refusals
      /\ l.faults = v.left.faults - 1
  BY <1>1 DEF Left
<1> HIDE DEF l
<1>10. Spent(v.left, l)
  BY <1>1, <1>9 DEF Spent, Left
<1>11. ViewInv(u, p, es) /\ u.left = l /\ u.ep = v.ep /\ u.conn = cs
  <2>1. Frame(w, p, es) /\ AccountOf(w, p, es) /\ KeptOf(v, p, es)
    BY <1>8 DEF ViewInv, Frame
  <2> QED BY <1>1, <1>8, <1>9, <1>10, <2>1, LeftKeeps
<1> HIDE DEF u
<1>12. u.left # MaxLeft
  <2>1. v.left.faults <= MaxLeft.faults
    BY DEF ViewInv, KeptOf, InLimits
  <2> QED BY <1>1, <1>9, <1>11, <2>1, SystemAssumption DEF Left
<1> QED BY <1>6, <1>9, <1>11, <1>12 DEF Tries, MayClose

\* joyClientConnectTcp for a connection in progress.
LEMMA CheckTries ==
  ASSUME NEW p \in Client, NEW es, NEW v, ViewInv(v, p, es), NEW k \in Conn, IsOpen(v.ep, k),
         v.ep.nodes[k].status = "Connecting", NEW listening,
         NEW w \in ClientCheckConnect(v, p, k, listening)
  PROVE  Tries(v, w, p, es, k)
<1>1. p \in Proc
  BY DEF Proc
<1>2. CASE w \in ClientShakeHand(v, p, k)
  BY <1>2, ClientShakeHandTries
<1>3. CASE w = CloseConnectNode(v, p, k) /\ Gone(v.conn[k], p)
  <2>1. Keeps(v, CloseConnectNode(v, p, k), p, es, k)
    BY <1>1, <1>3, CloseKeeps DEF MayClose, Closable
  <2> QED BY <1>3, <2>1 DEF Keeps, Tries
<1>4. CASE w = CloseConnectNode(CompleteLate(v, k), p, k) /\ ~v.conn[k].up
  <2> DEFINE u == CompleteLate(v, k)
  <2>1. Tries(v, u, p, es, k) /\ MayClose(u, p, es, k)
    BY <1>1, <1>4, LateTries
  <2> HIDE DEF u
  <2>2. Keeps(u, CloseConnectNode(u, p, k), p, es, k)
    BY <1>1, <2>1, CloseKeeps DEF Tries
  <2> QED BY <1>4, <2>1, <2>2, TriesTwice DEF u
<1> QED BY <1>2, <1>3, <1>4 DEF ClientCheckConnect

\* A call that may use up what may still go wrong, as far as there is any.
Spends(v, w, p, es) ==
  /\ ViewInv(w, p, es) /\ w.left.stops = v.left.stops
  /\ w.left = v.left \/ (w.left.faults >= 0 /\ w.left.refusals >= 0)

\* joyClientConnectTcp for a new connection.
LEMMA NewTries ==
  ASSUME NEW p \in Client, NEW es, NEW v, ViewInv(v, p, es), NEW s \in Server,
         v.ep.nodeidx[s] = NoConn, \E j \in Conn : v.conn[j] = FreeConn,
         NEW listening, NEW w \in ClientNewConnect(v, p, s, listening)
  PROVE  ViewInv(w, p, es) /\ w.left.stops = v.left.stops
<1>1. v \in ViewType /\ s \in ProcId
  BY DEF ViewInv, Proc, ProcId
<1>2. PICK k \in Conn : /\ v.conn[k] = FreeConn
                       /\ \/ w = v
                          \/ w = NewNodeView(v, p, s, k, FALSE)
                          \/ w \in ClientShakeHand(NewNodeView(v, p, s, k, TRUE), p, k)
  BY <1>1, NewConnectIs
<1> DEFINE a == NewNodeView(v, p, s, k, FALSE)
           b == NewNodeView(v, p, s, k, TRUE)
<1>3. /\ Keeps(v, a, p, es, k)
      /\ Keeps(v, b, p, es, k) /\ IsOpen(b.ep, k) /\ b.ep.nodes[k].status = "Connecting"
  BY <1>2, NewNodeKeeps
<1> HIDE DEF a, b
<1>4. CASE w = v \/ w = a
  BY <1>3, <1>4 DEF Keeps
<1>5. CASE w \in ClientShakeHand(b, p, k)
  <2>1. ViewInv(b, p, es)
    BY <1>3 DEF Keeps
  <2>2. Tries(b, w, p, es, k)
    BY <1>2, <1>3, <1>5, <2>1, ClientShakeHandTries
  <2> QED BY <1>3, <2>2 DEF Keeps, Tries
<1> QED BY <1>2, <1>4, <1>5 DEF a, b

\* joyClientConnectTcp
LEMMA ConnectSpends ==
  ASSUME NEW p \in Client, NEW es, NEW v, ViewInv(v, p, es), NEW s \in Server,
         NEW listening, NEW w \in ClientConnectTcp(v, p, s, listening)
  PROVE  Spends(v, w, p, es)
<1> DEFINE k      == v.ep.nodeidx[s]
           status == IF k = NoConn THEN "None" ELSE v.ep.nodes[k].status
           views  == CASE status \in {"Connected", "ShakeHand", "Stop"} -> {v}
                       [] status = "Connecting" -> ClientCheckConnect(v, p, k, listening)
                       [] status = "None" ->
                            IF NodeAvailable(v.ep) /\ \E j \in Conn : v.conn[j] = FreeConn
                            THEN ClientNewConnect(v, p, s, listening) ELSE {v}
<1>1. ClientConnectTcp(v, p, s, listening) = Possible(views)
  BY DEF ClientConnectTcp
<1>2. s \in ProcId /\ v.ep.nodes \in [Conn -> Node]
  BY ViewFields DEF ViewInv, Proc, ProcId
<1>3. k # NoConn => k \in Conn /\ IsOpen(v.ep, k)
  <2>1. v.ep.nodeidx \in [ProcId -> Conn \cup {NoConn}]
    BY ViewFields DEF ViewInv
  <2> QED BY <1>2, <2>1 DEF ViewInv, LocalInv, Indexed
<1>4. \/ status \in {"Connected", "ShakeHand", "Stop"}
      \/ status = "Connecting" /\ k # NoConn
      \/ status = "None" /\ k = NoConn
  <2>1. CASE k = NoConn
    BY <2>1
  <2>2. CASE k # NoConn
    <3>1. v.ep.nodes[k] \in OpenNode
      BY <1>2, <1>3, <2>2 DEF IsOpen, Node
    <3> QED BY <2>2, <3>1 DEF OpenNode
  <2> QED BY <2>1, <2>2
<1>5. w \in views /\ w.left.faults >= 0 /\ w.left.refusals >= 0
  <2> HIDE DEF views
  <2> QED BY <1>1 DEF Possible
<1>6. ViewInv(w, p, es) /\ w.left.stops = v.left.stops
  <2>1. CASE w = v
    BY <2>1
  <2>2. CASE status \in {"Connected", "ShakeHand", "Stop"}
    BY <1>5, <2>1, <2>2
  <2>3. CASE status = "Connecting" /\ k # NoConn
    <3>1. w \in ClientCheckConnect(v, p, k, listening)
      BY <1>5, <2>3
    <3>2. v.ep.nodes[k].status = "Connecting"
      BY <2>3
    <3> HIDE DEF k
    <3> QED BY <1>3, <2>3, <3>1, <3>2, CheckTries DEF Tries
  <2>4. CASE status = "None" /\ k = NoConn
    <3>1. \/ w = v
          \/ w \in ClientNewConnect(v, p, s, listening) /\ \E j \in Conn : v.conn[j] = FreeConn
      BY <1>5, <2>4
    <3> HIDE DEF views, status
    <3> QED BY <2>1, <2>4, <3>1, NewTries
  <2> HIDE DEF views, status, k
  <2> QED BY <1>4, <2>2, <2>3, <2>4
<1> QED BY <1>5, <1>6 DEF Spends

-----------------------------------------------------------------------------
(* The second half of ...ReadRecvData. *)

\* Where a process takes messages from, and where it takes them to.
Taking(p) == {InRecvq(p), InHandled(p)}

\* Nothing but the receive chain, and what its callback has, is another place's.
LEMMA RecvqSame ==
  ASSUME NEW p \in Proc, NEW v, NEW w, NEW r, OnlyRecvq(v.ep, w.ep, r),
         w.conn = v.conn, \A q \in Proc : q # p => w.handled[q] = v.handled[q]
  PROVE  Same(v, w, p, Taking(p)) /\ SamePeers(v, w)
<1>1. \A k \in Conn : RecvBufOf(w.ep, k) = RecvBufOf(v.ep, k) /\ SendBufOf(w.ep, k) = SendBufOf(v.ep, k)
  BY DEF OnlyRecvq, RecvBufOf, SendBufOf, IsOpen
<1> QED BY <1>1 DEF OnlyRecvq, Same, SamePeers, Taking

\* So all places but these hold what they held.
LEMMA RecvqStock ==
  ASSUME NEW p \in Proc, NEW es, NEW v, NEW w, Same(v, w, p, Taking(p))
  PROVE  /\ StockOf(v, p, es)[InRecvq(p)] = v.ep.recvq
         /\ StockOf(w, p, es)[InRecvq(p)] = w.ep.recvq
         /\ StockOf(v, p, es)[InHandled(p)] = v.handled[p]
         /\ StockOf(w, p, es)[InHandled(p)] = w.handled[p]
         /\ w.handled = v.handled =>
              \A c \in Place : c # InRecvq(p) => StockOf(w, p, es)[c] = StockOf(v, p, es)[c]
<1>1. /\ StockOf(v, p, es)[InRecvq(p)] = v.ep.recvq /\ StockOf(w, p, es)[InRecvq(p)] = w.ep.recvq
      /\ StockOf(v, p, es)[InHandled(p)] = v.handled[p]
      /\ StockOf(w, p, es)[InHandled(p)] = w.handled[p]
  BY StockOfIs
<1>2. ASSUME w.handled = v.handled, NEW c \in Place, c # InRecvq(p)
      PROVE  StockOf(w, p, es)[c] = StockOf(v, p, es)[c]
  <2>1. CASE c = InHandled(p)
    BY <1>1, <1>2, <2>1
  <2>2. CASE c # InHandled(p)
    <3>1. c \notin Taking(p)
      BY <1>2, <2>2 DEF Taking
    <3> QED BY <3>1, SameStock
  <2> QED BY <2>1, <2>2
<1> QED BY <1>1, <1>2

\* The first package of the receive chain is gone.
LEMMA RecvqCut ==
  ASSUME NEW p \in Proc, NEW es, NEW v \in ViewType, v.ep.recvq # <<>>, NEW w,
         OnlyRecvq(v.ep, w.ep, Tail(v.ep.recvq)), w.conn = v.conn, w.handled = v.handled
  PROVE  /\ \A c \in Place : Part(StockOf(w, p, es)[c], StockOf(v, p, es)[c])
         /\ Head(v.ep.recvq).type # "Msg" => Moves(StockOf(v, p, es), StockOf(w, p, es))
<1> DEFINE s == v.ep.recvq
<1>1. /\ \A c \in Place : c # InRecvq(p) => StockOf(w, p, es)[c] = StockOf(v, p, es)[c]
      /\ StockOf(v, p, es)[InRecvq(p)] = s /\ StockOf(w, p, es)[InRecvq(p)] = Tail(s)
  <2>1. w.ep.recvq = Tail(s) /\ \A q \in Proc : q # p => w.handled[q] = v.handled[q]
    BY DEF OnlyRecvq
  <2>2. Same(v, w, p, Taking(p))
    BY <2>1, RecvqSame
  <2> QED BY <2>1, <2>2, RecvqStock
<1>2. s \in Seq(Pkg) /\ s # <<>> /\ Len(s) \in Nat /\ Len(s) >= 1
  <2>1. s \in Seq(Data) /\ s # <<>>
    BY ViewFields
  <2>2. s \in Seq(Pkg)
    BY <2>1, SeqMonotonic DEF Data
  <2> QED BY <2>2, LenProperties, EmptySeq
<1> HIDE DEF s
<1>3. Part(Tail(s), s)
  <2>1. Tail(s) = SubSeq(s, 1 + 1, Len(s))
    BY <1>2, TailIsSubSeq
  <2>2. Part(SubSeq(s, 1 + 1, Len(s)), s)
    BY <1>2, PartCut
  <2> QED BY <2>1, <2>2
<1>4. ASSUME Head(s).type # "Msg"
      PROVE  Within(s, Tail(s))
  <2>1. /\ DOMAIN s = 1..Len(s) /\ s[1] = Head(s)
        /\ Tail(s) \in Seq(Pkg) /\ Len(Tail(s)) = Len(s) - 1
        /\ \A i \in 1..Len(s)-1 : Tail(s)[i] = s[i + 1]
    BY <1>2, LenProperties, HeadTailProperties
  <2>2. DOMAIN Tail(s) = 1..Len(s)-1
    BY <2>1, LenProperties
  <2>3. ASSUME NEW i \in 1..Len(s), i # 1
        PROVE  i - 1 \in 1..Len(s)-1 /\ (i - 1) + 1 = i
    BY <1>2, <2>3
  <2> DEFINE t == Tail(s)
  <2> HIDE DEF t
  <2>4. ASSUME NEW i \in 1..Len(s), s[i].type = "Msg"
        PROVE  \E j \in DOMAIN t : t[j] = s[i]
    <3>1. i # 1
      BY <1>4, <2>1, <2>4
    <3>2. i - 1 \in DOMAIN t /\ t[i - 1] = s[i]
      BY <2>1, <2>2, <2>3, <3>1 DEF t
    <3> QED BY <3>2
  <2> QED BY <2>1, <2>4 DEF Within, t
<1>5. Head(s).type # "Msg" => Moves(StockOf(v, p, es), StockOf(w, p, es))
  BY <1>1, <1>4, WithinSame, MovesNone
<1>6. \A c \in Place : Part(StockOf(w, p, es)[c], StockOf(v, p, es)[c])
  BY <1>1, <1>3, PartSame
<1> QED BY <1>5, <1>6 DEF s

\* The callback takes what is at the last stage but one.
LEMMA LastStage ==
  ASSUME NEW p \in Proc, NEW F, NEW cs
  PROVE  FlowsDown(F, cs, InRecvq(p), InHandled(p))
<1> SUFFICES ASSUME NEW x \in Proc, NEW y \in Proc
             PROVE  Downhill(F, Stage(cs, x, y), x, InRecvq(p), InHandled(p))
  BY DEF FlowsDown
<1> DEFINE S == Stage(cs, x, y)
<1>1. /\ \A q \in Proc : /\ S[InHandled(q)] = IF q = y THEN 1 ELSE 0
                         /\ S[InRecvq(q)] = IF q = y THEN 2 ELSE 0
      /\ \A q \in Proc, r \in ProcId :
           S[InSendq(q, r)] = IF q = x /\ r = Chain(x, y) THEN 6 ELSE 0
      /\ \A q \in Proc, k \in Conn :
           /\ S[InRecvbuf(q, k)] = IF q = y THEN 3 ELSE 0
           /\ S[InWire(q, k)] = IF q = y THEN 4 ELSE 0
           /\ S[InSendbuf(q, k)] = IF q = x /\ Peer(cs[k], x) = y THEN 5 ELSE 0
  BY StageIs
<1>2. ASSUME NEW c \in Place, S[c] = 2
      PROVE  c = InRecvq(y)
  <2>1. /\ c.of \in Proc
        /\ \/ c = InHandled(c.of) \/ c = InRecvq(c.of)
           \/ c.by \in ProcId /\ c = InSendq(c.of, c.by)
           \/ /\ c.by \in Conn
              /\ c = InRecvbuf(c.of, c.by) \/ c = InWire(c.of, c.by) \/ c = InSendbuf(c.of, c.by)
    BY PlaceIs
  <2> HIDE DEF S
  <2> QED BY <1>1, <1>2, <2>1
<1> HIDE DEF S
<1>3. CASE p = y
  BY <1>1, <1>2, <1>3 DEF Downhill, S
<1>4. CASE p # y
  BY <1>1, <1>4 DEF Downhill, S
<1> QED BY <1>3, <1>4

\* A message goes to the callback, which takes it.
LEMMA TakeKeeps ==
  ASSUME NEW p \in Proc, NEW es, NEW v, ViewInv(v, p, es), v.ep.recvq # <<>>,
         Head(v.ep.recvq).type = "Msg"
  PROVE  ViewInv(TakePkg(v, p), p, es) /\ TakePkg(v, p).left = v.left
<1> DEFINE s == v.ep.recvq
           r == Tail(s)
           h == [v.handled EXCEPT ![p] = Append(@, Head(s))]
           w == TakePkg(v, p)
<1>1. /\ v \in ViewType /\ v.ep \in Endpoint /\ s \in Seq(Data) /\ s \in Seq(For(p))
      /\ v.handled \in [Proc -> Seq(Pkg)] /\ Delivered(v.handled)
  BY ViewFields DEF ViewInv, LocalInv, Sorted
<1>2. /\ Head(s) \in Data /\ Head(s) \in For(p) /\ Head(s) \in Pkg
      /\ r \in Seq(Data) /\ r \in Seq(For(p)) /\ Len(r) <= Len(s)
  BY <1>1, HeadTailProperties, LenProperties DEF Data
<1>3. h \in [Proc -> Seq(Pkg)] /\ Delivered(h)
  <2>1. Append(v.handled[p], Head(s)) \in Seq(Pkg)
    BY <1>1, <1>2, AppendProperties
  <2>2. Append(v.handled[p], Head(s)) \in Seq(MsgFor(p))
    <3>1. Head(s) \in MsgFor(p)
      BY <1>2 DEF MsgFor
    <3> QED BY <1>1, <3>1, AppendProperties DEF Delivered
  <2> QED BY <1>1, <2>1, <2>2 DEF Delivered
<1>4. w = [v EXCEPT !.ep = [v.ep EXCEPT !.recvq = r], !.handled = h, !.dealt = 1]
  BY <1>1 DEF TakePkg, ViewType, Endpoint
<1> HIDE DEF h, r, w
<1>5. /\ w.ep = [v.ep EXCEPT !.recvq = r] /\ w.conn = v.conn /\ w.handled = h /\ w.left = v.left
      /\ w \in [ep : {w.ep}, conn : {v.conn}, handled : {h}, left : {v.left},
                moved : {v.moved}, dealt : {1}]
  BY <1>1, <1>4 DEF ViewType
<1>6. OnlyRecvq(v.ep, w.ep, r) /\ w \in ViewType
  <2>1. w.ep \in Endpoint /\ OnlyRecvq(v.ep, w.ep, r)
    BY <1>1, <1>2, <1>5 DEF Endpoint, OnlyRecvq
  <2>2. v.moved \in Int /\ 1 \in Int /\ v.left \in Left /\ v.conn \in [Conn -> Connection]
    BY <1>1, ViewFields
  <2> QED BY <1>3, <1>5, <2>1, <2>2 DEF ViewType
<1>8. AccountOf(w, p, es) /\ Moves(StockOf(v, p, es), StockOf(w, p, es))
  <2> DEFINE F == StockOf(v, p, es)
             G == StockOf(w, p, es)
             old == v.handled[p]
  <2>1. \A q \in Proc : q # p => w.handled[q] = v.handled[q]
    BY <1>1, <1>5 DEF h
  <2>3. /\ F[InRecvq(p)] = s /\ G[InRecvq(p)] = r /\ SamePeers(v, w)
        /\ F[InHandled(p)] = old /\ G[InHandled(p)] = w.handled[p]
        /\ Same(v, w, p, Taking(p))
    <3>1. w.ep.recvq = r /\ w.conn = v.conn
      BY <1>5, <1>6 DEF OnlyRecvq
    <3>2. Same(v, w, p, Taking(p)) /\ SamePeers(v, w)
      BY <1>6, <2>1, <3>1, RecvqSame
    <3>3. /\ F[InRecvq(p)] = v.ep.recvq /\ G[InRecvq(p)] = w.ep.recvq
          /\ F[InHandled(p)] = v.handled[p] /\ G[InHandled(p)] = w.handled[p]
      BY <3>2, RecvqStock
    <3> QED BY <3>1, <3>2, <3>3
  <2>4. G[InHandled(p)] = Append(old, Head(s))
    <3>1. h[p] = Append(old, Head(s))
      BY <1>1 DEF h
    <3> QED BY <1>5, <2>3, <3>1
  <2>5. s \in Seq(Pkg) /\ s # <<>> /\ Len(s) \in Nat /\ Len(s) >= 1 /\ s[1] = Head(s)
    <3>1. s \in Seq(Pkg)
      BY <1>1, SeqMonotonic DEF Data
    <3> QED BY <3>1, LenProperties, EmptySeq, HeadTailProperties
  <2>14. v.ep.recvq = s
    OBVIOUS
  <2> HIDE DEF s, F, G
  <2>6. r = SubSeq(s, 1 + 1, Len(s))
    BY <2>5, TailIsSubSeq DEF r
  <2>7. Append(old, Head(s)) = old \o SubSeq(s, 1, 1)
    <3>1. old \in Seq(Pkg) /\ Head(s) \in Pkg
      BY <1>1, <1>2
    <3>2. SubSeq(s, 1, 1) = <<Head(s)>>
      <4>1. SubSeq(s, 1, 1) \in Seq(Pkg) /\ Len(SubSeq(s, 1, 1)) = 1 /\ SubSeq(s, 1, 1)[1] = s[1]
        BY <2>5, SubSeqProperties
      <4>2. <<Head(s)>> \in Seq(Pkg) /\ Len(<<Head(s)>>) = 1 /\ <<Head(s)>>[1] = Head(s)
        BY <3>1
      <4>3. \A i \in 1..1 : SubSeq(s, 1, 1)[i] = <<Head(s)>>[i]
        BY <2>5, <4>1, <4>2
      <4> QED BY ONLY <4>1, <4>2, <4>3, SeqEqual
    <3> QED BY <3>1, <3>2, AppendIsConcat
  <2>8. InRecvq(p) # InHandled(p) /\ InHandled(p).at # "sendq" /\ InRecvq(p) \in Place /\ InHandled(p) \in Place
    BY PlaceIs DEF InRecvq, InHandled
  <2>10. FlowsDown(F, v.conn, InRecvq(p), InHandled(p))
    BY LastStage
  <2>11. G[InHandled(p)] = F[InHandled(p)] \o SubSeq(s, 1, 1)
    BY <2>3, <2>4, <2>7
  <2>12. 1 \in 0..Len(s) /\ G[InRecvq(p)] = SubSeq(s, 1 + 1, Len(s))
    BY <2>3, <2>5, <2>6
  <2>13. w.left.refusals = v.left.refusals /\ w \in ViewType
    BY <1>5, <1>6
  <2> QED BY <2>3, <2>5, <2>8, <2>10, <2>11, <2>12, <2>13, Passed DEF F, G, Taking
<1>9. ChainsKept(v, w, p, es)
  BY <1>5, <1>8, ChainsMove
<1>7. ViewInv(w, p, es)
  BY <1>2, <1>3, <1>5, <1>6, <1>8, <1>9, RecvqShrinks
<1> QED BY <1>5, <1>7 DEF w

\* The callback refuses it.
LEMMA RefuseKeeps ==
  ASSUME NEW p \in Proc, NEW es, NEW v, ViewInv(v, p, es), v.ep.recvq # <<>>
  PROVE  ViewInv(RefusePkg(v), p, es) /\ RefusePkg(v).left.stops = v.left.stops
<1> DEFINE s == v.ep.recvq
           t == IF Used(v.ep) < BlockNum THEN Append(s, Head(s)) ELSE s
           r == Tail(t)
           l == [v.left EXCEPT !.refusals = @ - 1]
           w == RefusePkg(v)
<1>1. /\ v \in ViewType /\ v.ep \in Endpoint /\ s \in Seq(Data) /\ s \in Seq(For(p))
      /\ v.left \in Left /\ Delivered(v.handled) /\ Len(s) \in Nat
  BY ViewFields, LenProperties DEF ViewInv, LocalInv, Sorted
<1>2. Head(s) \in Data /\ Head(s) \in For(p)
  BY <1>1, HeadTailProperties
<1>3. /\ t \in Seq(Data) /\ t # <<>> /\ Len(t) <= Len(s) + 1 /\ Len(t) \in Nat
  BY <1>1, <1>2, AppendProperties, LenProperties
<1>4. t \in Seq(For(p))
  BY <1>1, <1>2, AppendProperties
<1> HIDE DEF t
<1>5. r \in Seq(Data) /\ r \in Seq(For(p)) /\ Len(r) = Len(t) - 1
  BY <1>3, <1>4, HeadTailProperties
<1>6. Len(r) <= Len(s)
  <2> HIDE DEF r, s
  <2> QED BY <1>1, <1>3, <1>5
<1>7. l \in Left /\ l.stops = v.left.stops /\ l.refusals = v.left.refusals - 1
  BY <1>1 DEF Left
<1>12. r = Append(Tail(s), Head(s)) \/ r = Tail(s)
  BY <1>1, <1>2, HeadTailAppend DEF r, t
<1>8. w = [v EXCEPT !.ep = [v.ep EXCEPT !.recvq = r], !.left = l, !.dealt = 1]
  BY <1>1 DEF RefusePkg, t, ViewType, Endpoint
<1> HIDE DEF l, r, w
<1>9. /\ w.ep = [v.ep EXCEPT !.recvq = r] /\ w.conn = v.conn /\ w.handled = v.handled
      /\ w.left = l
      /\ w \in [ep : {w.ep}, conn : {v.conn}, handled : {v.handled}, left : {l},
                moved : {v.moved}, dealt : {1}]
  BY <1>1, <1>8 DEF ViewType
<1>10. OnlyRecvq(v.ep, w.ep, r) /\ w \in ViewType
  <2>1. w.ep \in Endpoint /\ OnlyRecvq(v.ep, w.ep, r)
    BY <1>1, <1>5, <1>9 DEF Endpoint, OnlyRecvq
  <2>2. /\ v.moved \in Int /\ 1 \in Int /\ v.conn \in [Conn -> Connection]
        /\ v.handled \in [Proc -> Seq(Pkg)]
    BY <1>1, ViewFields
  <2> QED BY <1>7, <1>9, <2>1, <2>2 DEF ViewType
<1>13. AccountOf(w, p, es)
  <2> DEFINE F == StockOf(v, p, es)
             G == StockOf(w, p, es)
             R == v.left.refusals
  <2>1. /\ F \in Contents /\ Once(F) /\ Counted(F, sent) /\ Own(F) /\ R <= MaxLeft.refusals
    BY DEF ViewInv, AccountOf, Account
  <2>2. G \in Contents
    BY <1>10, <2>1, StockTyped
  <2>3. /\ \A c \in Place : c # InRecvq(p) => G[c] = F[c]
        /\ F[InRecvq(p)] = s /\ G[InRecvq(p)] = r
    <3>1. w.ep.recvq = r /\ w.conn = v.conn /\ w.handled = v.handled
      BY <1>9, <1>10 DEF OnlyRecvq
    <3>2. Same(v, w, p, Taking(p))
      BY <1>10, <3>1, RecvqSame
    <3> QED BY <3>1, <3>2, RecvqStock
  <2>4. Once(G) /\ Counted(G, sent) /\ Own(G)
    <3>1. CASE r = Tail(s)
      <4>1. \A c \in Place : Part(G[c], F[c])
        BY <1>1, <1>9, <1>10, <3>1, RecvqCut
      <4> HIDE DEF F, G
      <4> QED BY <2>1, <2>2, <4>1, ShrinkKeeps
    <3>2. CASE r = Append(Tail(s), Head(s))
      <4> HIDE DEF F, G
      <4>1. InRecvq(p) \in Place /\ InRecvq(p).at # "sendq"
        BY PlaceIs DEF InRecvq
      <4>2. Rotates(F, G, InRecvq(p))
        BY <2>3, <3>2 DEF Rotates
      <4> QED BY <2>1, <2>2, <4>1, <4>2, RotateKeeps
    <3> QED BY <1>12, <3>1, <3>2
  <2>5. l.refusals <= MaxLeft.refusals /\ l.refusals # MaxLeft.refusals
    <3>1. R \in Int /\ MaxLeft.refusals \in Int
      BY <1>1, SystemAssumption DEF Left
    <3> QED BY <1>7, <2>1, <3>1
  <2> QED BY <1>9, <2>2, <2>4, <2>5 DEF AccountOf, Account
<1>14. ChainsKept(v, w, p, es)
  <2>1. l.faults = v.left.faults
    BY <1>1 DEF l, Left
  <2>2. Spent(v.left, l)
    BY <1>1, <1>7, <2>1 DEF Spent, Left
  <2> QED BY <1>9, <2>2 DEF ChainsKept
<1>11. ViewInv(w, p, es)
  BY <1>1, <1>5, <1>6, <1>9, <1>10, <1>13, <1>14, RecvqShrinks
<1> QED BY <1>7, <1>9, <1>11 DEF w

\* A Stop marks a node.
LEMMA MarkKeeps ==
  ASSUME NEW p \in Proc, NEW es, NEW v, ViewInv(v, p, es), v.ep.recvq # <<>>,
         Head(v.ep.recvq).type = "Stop"
  PROVE  ViewInv(MarkStop(v), p, es) /\ MarkStop(v).left = v.left
<1> DEFINE s == v.ep.recvq
           r == Tail(s)
           k == v.ep.nodeidx[Head(s).src]
           u == [v EXCEPT !.ep.recvq = Tail(@), !.dealt = 1]
           w == MarkStop(v)
<1>1. /\ v \in ViewType /\ v.ep \in Endpoint /\ s \in Seq(Data) /\ s \in Seq(For(p))
      /\ Delivered(v.handled)
      /\ v.ep.nodeidx \in [ProcId -> Conn \cup {NoConn}]
  BY ViewFields DEF ViewInv, LocalInv, Sorted
<1>2. /\ Head(s) \in Data
      /\ r \in Seq(Data) /\ r \in Seq(For(p)) /\ Len(r) <= Len(s)
  BY <1>1, HeadTailProperties, LenProperties
<1>3. Head(s).src \in Proc /\ Head(s).src \in ProcId
  BY <1>2 DEF Data, Pkg, ProcId
<1>4. w = IF k = NoConn THEN u ELSE [u EXCEPT !.ep.nodes[k].status = "Stop"]
  BY DEF MarkStop
<1>5. u = [v EXCEPT !.ep = [v.ep EXCEPT !.recvq = r], !.dealt = 1]
  BY <1>1 DEF ViewType, Endpoint
<1> HIDE DEF u, r
<1>6. /\ u.ep = [v.ep EXCEPT !.recvq = r] /\ u.conn = v.conn /\ u.handled = v.handled
      /\ u.left = v.left
      /\ u \in [ep : {u.ep}, conn : {v.conn}, handled : {v.handled}, left : {v.left},
                moved : {v.moved}, dealt : {1}]
  BY <1>1, <1>5 DEF ViewType
<1>7. OnlyRecvq(v.ep, u.ep, r) /\ u \in ViewType /\ u.ep.nodeidx = v.ep.nodeidx
  <2>1. u.ep \in Endpoint /\ u.ep.nodeidx = v.ep.nodeidx /\ OnlyRecvq(v.ep, u.ep, r)
    BY <1>1, <1>2, <1>6 DEF Endpoint, OnlyRecvq
  <2>2. /\ v.moved \in Int /\ 1 \in Int /\ v.conn \in [Conn -> Connection]
        /\ v.handled \in [Proc -> Seq(Pkg)] /\ v.left \in Left
    BY <1>1, ViewFields
  <2> QED BY <1>6, <2>1, <2>2 DEF ViewType
<1>11. AccountOf(u, p, es)
  <2>1. \A c \in Place : Part(StockOf(u, p, es)[c], StockOf(v, p, es)[c])
    BY <1>1, <1>6, <1>7, RecvqCut DEF r
  <2>2. AccountOf(v, p, es) /\ u.left.refusals = v.left.refusals
    BY <1>6 DEF ViewInv
  <2>3. \A j \in Conn : u.conn[j].client = v.conn[j].client /\ u.conn[j].server = v.conn[j].server
    BY <1>6
  <2> QED BY ONLY p \in Proc, <1>7, <2>1, <2>2, <2>3, AccountLess
<1>12. ChainsKept(v, u, p, es)
  <2>1. Moves(StockOf(v, p, es), StockOf(u, p, es))
    BY <1>1, <1>6, <1>7, RecvqCut DEF r
  <2> QED BY <1>6, <2>1, ChainsMove
<1>8. ViewInv(u, p, es)
  BY <1>1, <1>2, <1>6, <1>7, <1>11, <1>12, RecvqShrinks
<1>9. CASE k = NoConn
  <2>1. w = u
    BY <1>4, <1>9
  <2> QED BY <1>6, <1>8, <2>1 DEF w
<1>10. CASE k # NoConn
  <2> DEFINE node == u.ep.nodes[k]
             new  == [node EXCEPT !.status = "Stop"]
  <2>1. k \in Conn /\ IsOpen(u.ep, k) /\ node.procid = Head(s).src
    <3> DEFINE q == Head(s).src
    <3>1. q \in ProcId /\ u.ep.nodeidx[q] = k /\ k \in Conn
      BY <1>1, <1>3, <1>7, <1>10
    <3>2. Indexed(u.ep, p)
      BY <1>8 DEF ViewInv, LocalInv
    <3> HIDE DEF q, u, k
    <3>3. IsOpen(u.ep, k) /\ u.ep.nodes[k].procid = q
      BY <1>10, <3>1, <3>2 DEF Indexed
    <3> QED BY <3>1, <3>3 DEF q
  <2>2. /\ node \in OpenNode /\ NodeInv(node, u.conn[k], p) /\ node # NoNode
        /\ node.status \in {"Connecting", "ShakeHand", "Connected", "Stop"}
    BY <1>8, <2>1, OpenFacts DEF IsOpen, OpenNode
  <2>3. node.procid # NoProc
    BY <1>3, <2>1, NetAssumption DEF Proc
  <2>4. p \in Server => node.status \in {"Connected", "Stop"}
    BY <2>2, <2>3 DEF NodeInv
  <2>5. w = NodeView(u, k, new)
    <3>1. w = [u EXCEPT !.ep.nodes[k].status = "Stop"]
      BY <1>4, <1>10
    <3> QED BY <3>1 DEF NodeView
  <2>6. /\ new \in OpenNode /\ new.status = "Stop" /\ new.procid = node.procid
        /\ new.recvbuf = node.recvbuf /\ new.sendbuf = node.sendbuf /\ new # NoNode
        /\ new.shaken = node.shaken
    BY <2>2 DEF OpenNode, NoNode
  <2> HIDE DEF new, w, k
  <2>7. NodeInv(new, u.conn[k], p)
    BY <2>2, <2>6 DEF NodeInv
  <2>8. NodeStep(node, new, u.conn[k], u.conn[k], p)
    <3>1. Heard(new, u.conn[k].wire[p]) => Heard(node, u.conn[k].wire[p])
      BY <2>6 DEF Heard
    <3> QED BY <2>2, <2>6, <3>1 DEF NodeStep, Silent
  <2>10. Side(new, u.conn[k].wire[p], Peer(u.conn[k], p), p)
    <3> DEFINE in == u.conn[k].wire[p]
               x  == Peer(u.conn[k], p)
    <3>1. Side(node, in, x, p)
      <4>1. LinkInv(NodesAt(u, p, es, k), u.conn[k]) /\ NodesAt(u, p, es, k)[p] = node
        BY <1>8, <2>1, OpenFacts
      <4> QED BY <4>1 DEF LinkInv
    <3> HIDE DEF in, x, node
    <3>2. Receives(new, in, x, p) /\ Sends(new, p)
      BY <2>2, <2>6, <3>1 DEF Side, Ready, Receives, Sends
    <3>3. ShakesOnce(new, in)
      BY <2>2, <2>6, <3>1 DEF Side, ShakesOnce
    <3>4. Side(new, in, x, p)
      BY <2>2, <2>6, <3>1, <3>2, <3>3 DEF Side
    <3> QED BY <3>4 DEF in, x
  <2>9. Keeps(u, NodeView(u, k, new), p, es, k)
    BY <1>8, <2>1, <2>4, <2>6, <2>7, <2>8, <2>10, NodeKeeps
  <2> QED BY <1>6, <2>5, <2>9 DEF Keeps, w
<1> QED BY <1>9, <1>10

\* One package is dealt with.
LEMMA ReadPkgKeeps ==
  ASSUME NEW p \in Proc, NEW es, NEW v, ViewInv(v, p, es), NEW w \in ReadRecvPkg(v, p)
  PROVE  ViewInv(w, p, es) /\ w.left.stops = v.left.stops
<1>1. CASE v.ep.recvq = <<>>
  BY <1>1 DEF ReadRecvPkg
<1>2. CASE v.ep.recvq # <<>>
  <2>1. Head(v.ep.recvq).type \in {"Stop", "Msg"}
    <3>1. v.ep.recvq \in Seq(Data)
      BY ViewFields DEF ViewInv
    <3>2. Head(v.ep.recvq) \in Data
      BY <1>2, <3>1, HeadTailProperties
    <3> QED BY <3>2 DEF Data, Pkg
  <2>2. CASE Head(v.ep.recvq).type = "Stop"
    <3>1. w = MarkStop(v)
      BY <1>2, <2>2 DEF ReadRecvPkg
    <3> QED BY <1>2, <2>2, <3>1, MarkKeeps
  <2>3. CASE Head(v.ep.recvq).type = "Msg"
    <3>1. w = TakePkg(v, p) \/ w = RefusePkg(v)
      BY <1>2, <2>3 DEF ReadRecvPkg
    <3> QED BY <1>2, <2>3, <3>1, TakeKeeps, RefuseKeeps
  <2> QED BY <2>1, <2>2, <2>3
<1> QED BY <1>1, <1>2
=============================================================================
