------------------------------ MODULE JoySystem ------------------------------
(***************************************************************************)
(* Clients and servers together.  Every process is a program like the main *)
(* functions of joyclient.c and joyserver.c: it calls the API in any order *)
(* and as often as it likes, and it may stop, exit, crash and start again. *)
(***************************************************************************)
EXTENDS JoyServer, JoyClient

CONSTANTS
  MaxSent,      \* how many messages each process sends: a bound of the model
  MaxLeft,      \* how many faults, refused messages and stops there are: likewise
  Stoppers      \* the processes that may be stopped

ASSUME SystemAssumption ==
  /\ MaxSent \in [Proc -> Nat]
  /\ MaxLeft \in [faults : Nat, refusals : Nat, stops : Nat]
  /\ Stoppers \subseteq Proc

VARIABLES
  phase,    \* phase[p]: "run", "stopping" after ...Stop, "done" once ...CanStop says so
  sent      \* sent[p]: how many messages p has had accepted

vars == <<ep, conn, handled, left, phase, sent>>

Init ==
  /\ ep = [p \in Proc |-> InitEp]
  /\ conn = [k \in Conn |-> FreeConn]
  /\ handled = [p \in Proc |-> <<>>]
  /\ left = MaxLeft
  /\ phase = [p \in Proc |-> "run"]
  /\ sent = [p \in Proc |-> 0]

Alive(p) == phase[p] \in {"run", "stopping"}

\* Process p makes a call whose outcome is one of views.
Call(p, views) ==
  /\ Alive(p)
  /\ \E w \in views : Install(p, w)
  /\ UNCHANGED <<phase, sent>>

-----------------------------------------------------------------------------
(* The calls of the API. *)

ProcRecvData(p) ==
  Call(p, IF p \in Server THEN ServerProcRecvData(View(p), p) ELSE ClientProcRecvData(View(p), p))

ReadRecvData(p) ==
  Call(p, IF p \in Server THEN ServerReadRecvData(View(p), p) ELSE ClientReadRecvData(View(p), p))

ProcSendData(p) ==
  Call(p, IF p \in Server THEN ServerProcSendData(View(p), p) ELSE ClientProcSendData(View(p), p))

ConnectTcp(c, s) ==
  Call(c, ClientConnectTcp(View(c), c, s, phase[s] = "run"))

\* joyServerWriteSendData for client q, or joyClientWriteSendData, where q is the
\* client itself: it has one chain.  A message without room is refused.
WriteSendData(p, q) ==
  /\ Alive(p)
  /\ sent[p] < MaxSent[p]
  /\ SendRoom(ep[p], q)
  /\ Install(p, WriteSendPkg(View(p), q, Msg(p, q, sent[p] + 1)))
  /\ sent' = [sent EXCEPT ![p] = @ + 1]
  /\ UNCHANGED phase

\* joyServerStop and joyClientStop
Stop(p) ==
  /\ p \in Stoppers
  /\ phase[p] = "run"
  /\ left.stops > 0
  /\ \E w \in IF p \in Server THEN ServerStop(View(p), p) ELSE ClientStop(View(p), p) :
       Install(p, [w EXCEPT !.left.stops = @ - 1])
  /\ phase' = [phase EXCEPT ![p] = "stopping"]
  /\ UNCHANGED sent

\* joyServerCanStop and joyClientCanStop
CanStop(p) ==
  /\ phase[p] = "stopping"
  /\ \E w \in IF p \in Server THEN ServerCanStopCalls(View(p), p)
              ELSE ClientCanStopCalls(View(p), p) :
       /\ Install(p, w)
       /\ phase' = [phase EXCEPT ![p] =
            IF IF p \in Server THEN ServerCanStop(w) ELSE ClientCanStop(w) THEN "done" ELSE @]
  /\ UNCHANGED sent

-----------------------------------------------------------------------------
(* The environment. *)

\* Process p ends, and all it had in memory with it; the kernel closes its
\* sockets; it is started again with joyServerInit or joyClientInit.
Reborn(p) ==
  /\ ep' = [ep EXCEPT ![p] = InitEp]
  /\ conn' = [k \in Conn |-> IF p \in conn[k].open THEN ShutEnd(conn[k], p) ELSE conn[k]]
  /\ phase' = [phase EXCEPT ![p] = "run"]
  /\ UNCHANGED <<handled, sent>>

Restart(p) == phase[p] = "done" /\ Reborn(p) /\ UNCHANGED left

Crash(p) ==
  /\ left.faults > 0
  /\ Alive(p)
  /\ Reborn(p)
  /\ left' = [left EXCEPT !.faults = @ - 1]

\* The kernels complete a connection while the server listens.
Establish(k) ==
  /\ conn[k] # FreeConn /\ ~conn[k].up
  /\ phase[conn[k].server] = "run"
  /\ conn' = [conn EXCEPT ![k].up = TRUE, ![k].open = @ \cup {conn[k].server}]
  /\ UNCHANGED <<ep, handled, left, phase, sent>>

\* A connection is reset, and what was on its way is lost.
Reset(k) ==
  /\ left.faults > 0
  /\ conn[k].up /\ ~conn[k].broken
  /\ conn' = [conn EXCEPT ![k].broken = TRUE, ![k].wire = [q \in Proc |-> <<>>]]
  /\ left' = [left EXCEPT !.faults = @ - 1]
  /\ UNCHANGED <<ep, handled, phase, sent>>

Next ==
  \/ \E p \in Proc :
       \/ ProcRecvData(p)
       \/ ReadRecvData(p)
       \/ ProcSendData(p)
       \/ Stop(p)
       \/ CanStop(p)
       \/ Restart(p)
       \/ Crash(p)
  \/ \E c \in Client : WriteSendData(c, c) \/ \E s \in Server : ConnectTcp(c, s)
  \/ \E s \in Server, c \in Client : WriteSendData(s, c)
  \/ \E k \in Conn : Establish(k) \/ Reset(k)

Spec == Init /\ [][Next]_vars

-----------------------------------------------------------------------------
(* Properties. *)

\* No buffer, chain or pool holds more than fits, and no bound is overdrawn.
TypeOK ==
  /\ left \in [faults : Nat, refusals : Nat, stops : Nat]
  /\ phase \in [Proc -> {"run", "stopping", "done"}]
  /\ \A p \in Proc :
       /\ sent[p] \in 0..MaxSent[p]
       /\ Used(ep[p]) <= BlockNum
       /\ \A q \in ProcId : Len(ep[p].sendq[q]) <= BlockChainLen
       /\ \A k \in Conn : Len(conn[k].wire[p]) <= WireNum
       /\ \A k \in Conn : IsOpen(ep[p], k) =>
            LET node == ep[p].nodes[k] IN
            /\ node.status \in {"Connecting", "ShakeHand", "Connected", "Stop"}
            /\ node.procid \in ProcId
            /\ Len(node.recvbuf) <= TempNum /\ Len(node.sendbuf) <= TempNum

\* The index, the list of nodes and the sockets of a process agree: every entry
\* of the index names an open node of that procid, every node that has finished
\* its handshake is the one its procid leads to, and no socket is left behind.
RegistryConsistent ==
  \A p \in Proc : LET e == ep[p] IN
    /\ IsInjective(e.used)
    /\ \A k \in Conn : IsOpen(e, k) <=> \E i \in DOMAIN e.used : e.used[i] = k
    /\ \A q \in ProcId : e.nodeidx[q] # NoConn =>
         IsOpen(e, e.nodeidx[q]) /\ e.nodes[e.nodeidx[q]].procid = q
    /\ \A k \in Conn : IsOpen(e, k) =>
         /\ p \in conn[k].open
         /\ e.nodes[k].status \in {"Connected", "Stop"} => e.nodeidx[e.nodes[k].procid] = k
    /\ \A k \in Conn : p \in conn[k].open => IsOpen(e, k) \/ p \in Server

\* A client that believes it is connected is known to the server: at the other
\* end of its connection, while there is one, stands a node with its procid.
ConnectedIsRegistered ==
  \A c \in Client, k \in Conn :
    ep[c].nodes[k].status = "Connected" /\ ~Gone(conn[k], c) =>
      LET e == ep[conn[k].server] IN
      /\ e.nodes[k].status \in {"Connected", "Stop"}
      /\ e.nodeidx[c] = k

\* What node k of endpoint e has in its buffers.
RecvBufOf(e, k) == IF IsOpen(e, k) THEN e.nodes[k].recvbuf ELSE <<>>
SendBufOf(e, k) == IF IsOpen(e, k) THEN e.nodes[k].sendbuf ELSE <<>>

\* What has come from p to q or is on its way over connection k, the oldest first.
OnTheWay(p, q, k) ==
  handled[q] \o ep[q].recvq \o RecvBufOf(ep[q], k) \o conn[k].wire[q]
    \o SendBufOf(ep[p], k) \o ep[p].sendq[IF p \in Client THEN p ELSE q]

SentBy(m, p) == m.type = "Msg" /\ m.src = p

\* No message is delivered twice, and messages arrive in the order in which they
\* were accepted, across resets, crashes and new connections, as long as no
\* callback refuses one.
InOrderOnce ==
  \A k \in Conn : conn[k].client # NoProc =>
    \A p \in {conn[k].client, conn[k].server} :
      LET way == OnTheWay(p, Peer(conn[k], p), k)
      IN  \A i, j \in DOMAIN way :
            i < j /\ SentBy(way[i], p) /\ SentBy(way[j], p) =>
              /\ way[i].id # way[j].id
              /\ left.refusals = MaxLeft.refusals => way[i].id < way[j].id

\* A client gets what was meant for it and nothing else: no chain is ever sent
\* through the node of another client, whatever nodes have come and gone.
OnlyToAddressee ==
  \A c \in Client : \A i \in DOMAIN handled[c] : handled[c][i].chain = c

\* The places where a message can be: what a process has handled, its chains, the
\* buffers of its nodes and the wires to it.
Place ==
  [at : {"handled", "recvq"}, of : Proc, by : {NoProc}] \cup
  [at : {"sendq"}, of : Proc, by : ProcId] \cup
  [at : {"recvbuf", "wire", "sendbuf"}, of : Proc, by : Conn]

\* What place a holds, when the endpoints are es, the connections cs and so on.
Content(es, cs, hs, a) ==
  CASE a.at = "handled" -> hs[a.of]
    [] a.at = "recvq"   -> es[a.of].recvq
    [] a.at = "sendq"   -> es[a.of].sendq[a.by]
    [] a.at = "recvbuf" -> RecvBufOf(es[a.of], a.by)
    [] a.at = "wire"    -> cs[a.by].wire[a.of]
    [] a.at = "sendbuf" -> SendBufOf(es[a.of], a.by)

Holds(a) == Content(ep, conn, handled, a)

\* The messages in some places, each by its sender and number.
MessagesIn(places) ==
  LET msgs == {m \in UNION {ToSet(Holds(a)) : a \in places} : m.type = "Msg"}
  IN  {<<m.src, m.id>> : m \in msgs}

Everywhere == MessagesIn(Place)

\* Those that process p has, or that are on a wire to it.
MessagesAt(p) == MessagesIn({a \in Place : a.of = p})

\* A message is in one place only, or has been handled by one process, once: the
\* client's chain, which all its nodes send from, gives it to one of them.
OneCopy ==
  LET copies == UNION {{[place |-> a, pos |-> i, msg |-> Holds(a)[i]] :
                          i \in DOMAIN Holds(a)} : a \in Place}
  IN  \A x, y \in {c \in copies : c.msg.type = "Msg"} :
        x.msg.src = y.msg.src /\ x.msg.id = y.msg.id => x = y

\* Without a fault, and while no server stops, a message is lost only by a process
\* whose own pool is full: it closes with packages still in recvbuf, and the flush
\* has no room for them.  A client that stops in order loses none otherwise.
LossMeansFull ==
  [][left.faults = MaxLeft.faults =>
       \A p \in Proc : Used(ep'[p]) < BlockNum => MessagesAt(p) \subseteq Everywhere']_vars

\* While nothing has gone wrong, every accepted message has been handled or is
\* somewhere on its way (in one place, says OneCopy): no step between two buffers
\* drops it.
NothingLost ==
  left = MaxLeft => \A p \in Proc : \A i \in 1..sent[p] : <<p, i>> \in Everywhere

\* The comment at joyserver.c:490 says of joyServerCanStop that it makes sure
\* that all received packages are dealt with: once it has said yes, none is left.
CanStopMeansHandled ==
  \A s \in Server : phase[s] = "done" =>
    ep[s].recvq = <<>> /\ \A k \in Conn : RecvBufOf(ep[s], k) = <<>>

\* The comment at joyserver.c:58 wants no Stop to outlive a restart, because it
\* would keep the peer from sending: a client takes a connection for stopped only
\* if the server at its other end is.
StopIsCurrent ==
  \A c \in Client, k \in Conn :
    ep[c].nodes[k].status = "Stop" /\ ~Gone(conn[k], c) => phase[conn[k].server] # "run"

=============================================================================
