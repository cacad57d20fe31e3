------------------------------ MODULE JoyLoops ------------------------------
(***************************************************************************)
(* JoySystem with programs that call the API round after round in the      *)
(* order of the loops of joyserver.c:542-552 and joyclient.c:600-619; once *)
(* they are asked to stop they also call ...CanStop until it says yes.     *)
(* The client's main leaves its loop when every node is connected and does *)
(* not reconnect after it; the program here goes on with it.               *)
(***************************************************************************)
EXTENDS JoySystem

VARIABLE at    \* at[p]: which call of its loop p makes next

loopVars == <<vars, at>>

Loop(p) ==
  IF p \in Server THEN <<"ProcRecvData", "ReadRecvData", "ProcSendData", "CanStop">>
  ELSE <<"ConnectTcp", "ProcRecvData", "ProcSendData", "ReadRecvData", "CanStop">>

LoopCall(p) ==
  \/ /\ Loop(p)[at[p]] = "ConnectTcp"
     /\ \E s \in Server : ConnectTcp(p, s)
  \/ Loop(p)[at[p]] = "ProcRecvData" /\ ProcRecvData(p)
  \/ Loop(p)[at[p]] = "ReadRecvData" /\ ReadRecvData(p)
  \/ Loop(p)[at[p]] = "ProcSendData" /\ ProcSendData(p)

  \/ Loop(p)[at[p]] = "CanStop" /\ CanStop(p)
  \/ Loop(p)[at[p]] = "CanStop" /\ phase[p] = "run" /\ UNCHANGED vars

LoopStep(p) ==
  /\ LoopCall(p) \/ Restart(p)
  /\ at' = [at EXCEPT ![p] = (@ % Len(Loop(p))) + 1]

\* What happens between two calls: messages from the program, and mishaps.
Between ==
  /\ \/ \E c \in Client : WriteSendData(c, c)
     \/ \E s \in Server, c \in Client : WriteSendData(s, c)
     \/ \E p \in Proc : Stop(p) \/ Crash(p)
     \/ \E k \in Conn : Establish(k) \/ Reset(k)
  /\ UNCHANGED at

-----------------------------------------------------------------------------
(* Fairness.  A step of a loop is always possible and always changes at, so *)
(* every condition here says what happens again and again.                 *)

\* The programs never leave their loops.
LoopsGoOn == \A p \in Proc : []<><<LoopStep(p)>>_at

Makes(p, call) == Loop(p)[at[p]] = call /\ at'[p] # at[p]

\* Packages, and the end of a connection, arrive: what can be received at k is
\* among what a round of p's receives.
Arrives(p, k) ==
  LET ready == {j \in Conn : IsOpen(ep[p], j) /\ Readable(conn, j, p)}
      views == IF p \in Server
               THEN UNION {ServerAccept(w, p) :
                      w \in {ServerReceive(View(p), p, evs) :
                        evs \in {e \in SetToAllKPermutations(ready) : k \in ToSet(e)}}}
               ELSE {ClientReceive(View(p), p, E) : E \in {F \in SUBSET ready : k \in F}}
  IN  k \in ready => Makes(p, "ProcRecvData") /\ \E w \in views : Install(p, w)

\* A completed connection gets to the server's accept, and gets a node or is closed.
Accepted(s, k) ==
  k \in Backlog(View(s), s) =>
    Makes(s, "ProcRecvData") /\ (IsOpen(ep'[s], k) \/ s \notin conn'[k].open)

\* The time of a handshake that waits for a Shake that was lost runs out.
TimesOut(p, k) ==
  LET node  == ep[p].nodes[k]
      bads  == {bad \in SUBSET Handshaking(View(p)) : k \in bad}
      views == {IF p \in Server THEN ServerHandshakes(View(p), p, bad)
                ELSE ClientHandshakes(View(p), p, bad) : bad \in bads}
  IN  (node.status = "ShakeHand" /\ ~node.shaken /\ Peer(conn[k], p) \in conn[k].lost) =>
        /\ Makes(p, "ReadRecvData")
        /\ \E w \in UNION {ReadRecvPkg(u, p) : u \in views} : Install(p, w)

\* Now and then a connection to a listening server is complete when the client
\* looks: its one poll does not wait, and comes too early any number of times.
GetsThrough(c, s) ==
  \/ ep[c].nodeidx[s] # NoConn /\ ep[c].nodes[ep[c].nodeidx[s]].status # "Connecting"
  \/ phase[s] # "run"
  \/ ep[c].nodeidx[s] = NoConn /\ \A k \in Conn : conn[k] # FreeConn

LoopInit == Init /\ at = [p \in Proc |-> 1]

LoopNext == Between \/ \E p \in Proc : LoopStep(p)

LoopSpec ==
  /\ LoopInit /\ [][LoopNext]_loopVars
  /\ LoopsGoOn
  /\ \A p \in Proc, k \in Conn : []<><<Arrives(p, k)>>_at /\ []<><<TimesOut(p, k)>>_at
  /\ \A s \in Server, k \in Conn : []<><<Accepted(s, k)>>_at
  /\ \A c \in Client, s \in Server : []<>GetsThrough(c, s)

-----------------------------------------------------------------------------
(* Properties. *)

Linked(c, s) ==
  \E k \in Conn :
    /\ conn[k].open = {c, s} /\ ~conn[k].broken
    /\ ep[c].nodes[k].status = "Connected" /\ ep[s].nodes[k].status = "Connected"

\* However connections fail, and although a server may have no node to spare for a
\* new one, in the end every client is connected to every server, and both ends
\* take the connection for working, unless somebody was stopped.
LinksRecover ==
  \A c \in Client, s \in Server : <>[](Linked(c, s) \/ left.stops # MaxLeft.stops)

\* While nothing goes wrong, every accepted message is handled in the end: no
\* process waits for room that only another one, waiting itself, could make.
MessagesHandled ==
  \A p \in Proc : \A i \in 1..MaxSent[p] :
    sent[p] >= i ~> (left # MaxLeft \/ \E q \in Proc, c \in Client : Msg(p, c, i) \in ToSet(handled[q]))

\* A process that is asked to stop, alone, is told in the end that it can, even if
\* connections fail meanwhile.
StopEnds == \A p \in Proc : phase[p] = "stopping" ~> phase[p] # "stopping"

=============================================================================
