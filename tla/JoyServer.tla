------------------------------ MODULE JoyServer ------------------------------
(***************************************************************************)
(* joyserver.c: the functions of the server's API.  Each is the set of the *)
(* views that a call may leave behind.                                     *)
(***************************************************************************)
EXTENDS JoyNet

\* The connections the kernel has completed for s and s has not accepted yet.
Backlog(v, s) ==
  {k \in Conn : s \in v.conn[k].open /\ ~IsOpen(v.ep, k)}

\* joyServerProcRecvData: retries what the chains had no room for, receives from
\* the nodes that epoll_wait reports, in its order, and accepts a connection.
ServerReceiveOnly(v, s, evs) ==   \* mutant: no retry
  ForEach(v, evs, LAMBDA u, k : RecvBuf(u, s, k))

ServerReceive(v, s, evs) ==
  ForEach(Traverse(v, LAMBDA u, k : ReadRecvBuf(u, k).view), evs,
          LAMBDA u, k : RecvBuf(u, s, k))

\* Without a node for it, the new connection is closed at once.
ServerAccept(v, s) ==
  {v} \cup
  {IF NodeAvailable(v.ep) THEN AllocConnectNode(v, k, "ShakeHand")
   ELSE [v EXCEPT !.conn = Shut(@, k, s)] : k \in Backlog(v, s)}

ServerProcRecvData(v, s) ==
  LET ready == {k \in Conn : IsOpen(v.ep, k) /\ Readable(v.conn, k, s)}
  IN  UNION {ServerAccept(w, s) :
             w \in {ServerReceive(v, s, evs) : evs \in SetToAllKPermutations(ready)}}

\* joyServerHandleShakeMsg_; bad holds the nodes whose time is up, and those to
\* which the reply cannot be sent.
ServerShakeUnchecked(v, s, k, bad) ==   \* mutant: a procid that is taken is no error
  LET node   == v.ep.nodes[k]
      procid == v.conn[k].client
      known  == IF ProcidFree(v, procid) THEN SetNodeProcid(v, k, procid) ELSE v
      shaken == [known EXCEPT !.ep.nodes[k].status = "Connected",
                              !.ep.nodes[k].shaken = FALSE]
  IN  IF node.status = "ShakeHand" /\ node.shaken THEN SendShake(shaken, s, k)
      ELSE IF node.status = "ShakeHand" /\ k \in bad THEN ShakeTimeout(v, s, k)
      ELSE v

ServerHandleShakeMsg(v, s, k, bad) ==
  LET node   == v.ep.nodes[k]
      procid == v.conn[k].client      \* srcid of the Shake
      shaken == [SetNodeProcid(v, k, procid) EXCEPT
                   !.ep.nodes[k] = [@ EXCEPT !.status = "Connected", !.shaken = FALSE]]
  IN  CASE node.status # "ShakeHand" -> v
        [] node.status = "ShakeHand" /\ ~node.shaken ->
             IF k \in bad THEN ShakeTimeout(v, s, k) ELSE v
        [] node.status = "ShakeHand" /\ node.shaken ->
             IF ~ProcidFree(v, procid) THEN CloseConnectNode(v, s, k)
             ELSE IF k \notin bad THEN SendShake(shaken, s, k)
             ELSE IF Gone(v.conn[k], s) THEN CloseConnectNode(shaken, s, k)
             ELSE LoseShake(shaken, s, k)

\* joyServerReadRecvData: the handshakes of all nodes, then one package.
ServerHandshakes(v, s, bad) ==
  Traverse(v, LAMBDA u, k : ServerHandleShakeMsg(u, s, k, bad))

ServerReadRecvData(v, s) ==
  Possible(UNION {ReadRecvPkg(w, s) :
                  w \in {ServerHandshakes(v, s, bad) : bad \in SUBSET Handshaking(v)}})

\* joyServerProcSendData
ServerSendToFirst(v, s, k, failed) ==   \* mutant: the chain of another node
  IF v.ep.nodes[k].status # "Connected" THEN v
  ELSE SendBuf(v, s, k, v.ep.nodes[v.ep.used[1]].procid, failed)

ServerSendTo(v, s, k, failed) ==
  LET node == v.ep.nodes[k]
  IN  IF node.status # "Connected" THEN v ELSE SendBuf(v, s, k, node.procid, failed)

ServerProcSendData(v, s) ==
  {Traverse(v, LAMBDA u, k : ServerSendTo(u, s, k, failed)) : failed \in Losses(v, s)}

\* joyServerStop: nobody gets out of the backlog any more, every node is sent a
\* Stop, one that is still shaking hands by way of the chain of procid 0.
StopListen(v, s) ==
  LET Abort(k) == LET cn == ShutEnd(v.conn[k], s) IN [cn EXCEPT !.broken = cn # FreeConn]
  IN  [v EXCEPT !.conn = [k \in Conn |-> IF k \in Backlog(v, s) THEN Abort(k) ELSE @[k]]]

ServerStopNode(v, s, k) == WriteSendPkg(v, v.ep.nodes[k].procid, StopPkg(s))

ServerStop(v, s) ==
  UNION {ServerProcSendData(w, s) :
         w \in {Traverse(StopListen(v, s), LAMBDA u, k : ServerStopNode(u, s, k))}}

\* joyServerCanStop: the views after its three calls, and what it then returns.
ServerCanStopCalls(v, s) ==
  UNION {UNION {ServerProcSendData(u, s) : u \in ServerReadRecvData(w, s)} :
         w \in ServerProcRecvData(v, s)}

ServerCanStopEmpty(w) ==   \* mutant: waits for the blocks as well, as the client does
  w.moved = 0 /\ w.dealt = 0 /\ TempBufsEmpty(w.ep) /\ Used(w.ep) = 0

ServerCanStop(w) == w.moved = 0 /\ w.dealt = 0 /\ TempBufsEmpty(w.ep)

=============================================================================
