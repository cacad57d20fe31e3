------------------------------ MODULE JoyClient ------------------------------
(***************************************************************************)
(* joyclient.c: the functions of the client's API.  Each is the set of the *)
(* views that a call may leave behind.                                     *)
(***************************************************************************)
EXTENDS JoyNet

\* joyClientShakeHand_: the Shake is sent, is lost, or fails with the connection,
\* when it is closed here and by the caller again.
ClientShakeHand(v, c, k) ==
  LET u == [v EXCEPT !.ep.nodes[k].status = "ShakeHand"]
  IN  {SendShake(u, c, k)} \cup
      IF Gone(v.conn[k], c) THEN {CloseConnectNode(u, c, k)} ELSE {LoseShake(u, c, k)}

\* The kernels complete connection k between the poll and the close that follows
\* it, and the server will accept what its client has closed: a fault.
CompleteLate(v, k) ==
  [v EXCEPT !.conn[k].up = TRUE, !.conn[k].open = @ \cup {v.conn[k].server},
            !.left.faults = @ - 1]

\* joyClientConnectTcp.  The second call decides about a connection in progress:
\* it closes one that the kernels have not completed by the time of the poll.
ClientCheckConnect(v, c, k, listening) ==
  (IF v.conn[k].up /\ ~v.conn[k].broken THEN ClientShakeHand(v, c, k) ELSE {})
  \cup (IF Gone(v.conn[k], c) THEN {CloseConnectNode(v, c, k)} ELSE {})
  \cup (IF ~v.conn[k].up /\ listening THEN {CloseConnectNode(CompleteLate(v, k), c, k)}
        ELSE {})

\* A new socket: refused, in progress, or connected at once.
ClientNewConnect(v, c, s, listening) ==
  LET k    == CHOOSE j \in Conn : v.conn[j] = FreeConn
      cn   == [FreeConn EXCEPT !.client = c, !.server = s, !.open = {c}]
      done == [cn EXCEPT !.open = {c, s}, !.up = TRUE]
      node == SetNodeProcid(AllocConnectNode(v, k, "Connecting"), k, s)
  IN  {v, [node EXCEPT !.conn[k] = cn]}
      \cup IF listening THEN ClientShakeHand([node EXCEPT !.conn[k] = done], c, k) ELSE {}

\* A node in Stop keeps its procid, so the new one is refused; so it is when the
\* pool has no node for it.
ClientConnectTcp(v, c, s, listening) ==
  LET k      == v.ep.nodeidx[s]
      status == IF k = NoConn THEN "None" ELSE v.ep.nodes[k].status
  IN  Possible(CASE status \in {"Connected", "ShakeHand", "Stop"} -> {v}
                 [] status = "Connecting" -> ClientCheckConnect(v, c, k, listening)
                 [] status = "None" ->
                      IF NodeAvailable(v.ep) /\ \E j \in Conn : v.conn[j] = FreeConn
                      THEN ClientNewConnect(v, c, s, listening) ELSE {v})

\* joyClientProcRecvData: as for the server, with one poll per node; a node in
\* Stop no longer sends but still receives.
ClientRecvFrom(v, c, k, arrived) ==
  IF v.ep.nodes[k].status # "Connecting" /\ k \in arrived THEN RecvBuf(v, c, k) ELSE v

ClientReceive(v, c, arrived) ==
  Traverse(Traverse(v, LAMBDA u, k : ReadRecvBuf(u, k).view),
           LAMBDA u, k : ClientRecvFrom(u, c, k, arrived))

ClientProcRecvData(v, c) ==
  LET ready == {k \in Conn : IsOpen(v.ep, k) /\ Readable(v.conn, k, c)}
  IN  {ClientReceive(v, c, arrived) : arrived \in SUBSET ready}

\* joyClientHandleShakeMsg_
ClientHandleShakeMsg(v, c, k, late) ==
  LET node == v.ep.nodes[k]
  IN  CASE node.status # "ShakeHand" -> v
        [] node.status = "ShakeHand" /\ ~node.shaken ->
             IF k \in late THEN ShakeTimeout(v, c, k) ELSE v
        [] node.status = "ShakeHand" /\ node.shaken ->
             [v EXCEPT !.ep.nodes[k].status = "Connected", !.ep.nodes[k].shaken = FALSE]

\* joyClientReadRecvData: the handshakes of all nodes, then one package.
ClientHandshakes(v, c, late) ==
  Traverse(v, LAMBDA u, k : ClientHandleShakeMsg(u, c, k, late))

ClientReadRecvData(v, c) ==
  Possible(UNION {ReadRecvPkg(w, c) :
                  w \in {ClientHandshakes(v, c, late) : late \in SUBSET Handshaking(v)}})

ClientSendTo(v, c, ks, failed) == ForEach(v, ks, LAMBDA u, k : SendBuf(u, c, k, c, failed))

\* The nodes joyClientSelectNode_ chooses from, in the order of the list.
UpNodes(v) == Select(v.ep.used, {k \in Conn : v.ep.nodes[k].status = "Connected"})

StartingAt(ks, k) == <<k>> \o Without(ks, k)

\* joyClientProcSendData: all nodes share the client's own chain, and one that is
\* chosen at random comes first.
ClientProcSendData(v, c) ==
  LET up == UpNodes(v)
  IN  IF up = <<>> THEN {v}
      ELSE {ClientSendTo(v, c, StartingAt(up, up[i]), failed) :
            i \in DOMAIN up, failed \in Losses(v, c)}

\* joyClientStop: a Stop for every node, all of them in the client's own chain.
ClientStop(v, c) ==
  UNION {ClientProcSendData(w, c) :
         w \in {Traverse(v, LAMBDA u, k : WriteSendPkg(u, c, StopPkg(c)))}}

\* joyClientCanStop: the views after its three calls, and what it then returns.
ClientCanStopCalls(v, c) ==
  UNION {UNION {ClientProcSendData(u, c) : u \in ClientReadRecvData(w, c)} :
         w \in ClientProcRecvData(v, c)}

ClientCanStopTemp(w) ==   \* mutant: does not wait for the blocks, as the server
  w.moved = 0 /\ TempBufsEmpty(w.ep)

ClientCanStop(w) == w.moved = 0 /\ TempBufsEmpty(w.ep) /\ Used(w.ep) = 0

=============================================================================
