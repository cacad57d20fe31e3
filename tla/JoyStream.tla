------------------------------ MODULE JoyStream ------------------------------
(***************************************************************************)
(* One direction of a connection, byte by byte: how joynet.c carries       *)
(* packages of different lengths from the send chain of one process        *)
(* through sendbuf, TCP and recvbuf to the receive chain of the other.     *)
(* TCP takes and gives any number of bytes at a time, so that a package is *)
(* cut anywhere; JoyNet has whole packages of one length, and everything   *)
(* else.  The handshake is over before the first byte here.                *)
(***************************************************************************)
EXTENDS Integers, Sequences, FiniteSets, FiniteSetsExt, SequencesExt

CONSTANTS
  HeadSize,    \* sizeof(struct JoynetHead)
  TempBufSize, \* kJoynetTempBufSize
  WireSize,    \* the bytes that fit in the kernel's socket buffers
  BlockSizes,  \* the values of JoyBlockConfig.blockSize somebody might try
  ChainNum,    \* the packages for which each of the two chains has room
  Pkg,         \* the packages the program may send, each of them once
  PkgLen,      \* headlen + bodylen of each package
  MaxSent,     \* how many packages are accepted: a bound of the model
  MaxFaults    \* how often the connection is lost: likewise

ASSUME StreamAssumption ==
  /\ {HeadSize, TempBufSize, WireSize, ChainNum} \subseteq Nat \ {0}
  /\ BlockSizes \subseteq Nat
  /\ PkgLen \in [Pkg -> Nat]
  /\ \A pkg \in Pkg : PkgLen[pkg] >= HeadSize
  /\ {MaxSent, MaxFaults} \subseteq Nat

VARIABLES
  blockSize,  \* the sender's and the receiver's JoyBlockConfig.blockSize
  sendq,      \* the send chain, of packages
  sendbuf,    \* the sender's temporary buffer, of bytes
  wire,       \* what the kernels hold, of bytes
  recvbuf,    \* the receiver's temporary buffer, of bytes
  recvq,      \* the receive chain, of packages
  open,       \* the ends whose socket is open
  broken,     \* the connection was reset
  sent,       \* all packages that were accepted
  arrived,    \* the packages that ever got into the receive chain
  faults      \* how many faults may still happen

vars == <<blockSize, sendq, sendbuf, wire, recvbuf, recvq, open, broken, sent, arrived, faults>>

Ends == {"snd", "rcv"}

\* A package as bytes, and those of several in a row.
Bytes(pkg)    == [o \in 1..PkgLen[pkg] |-> <<pkg, o>>]
BytesOf(pkgs) == FlattenSeq([i \in DOMAIN pkgs |-> Bytes(pkgs[i])])

Drop(s, n) == SubSeq(s, n + 1, Len(s))

\* joyBlockInit refuses a block that is not larger than a temporary buffer.
ConfigAccepted(size) == size > TempBufSize

Init ==
  /\ blockSize \in [Ends -> {size \in BlockSizes : ConfigAccepted(size)}]
  /\ sendq = <<>> /\ sendbuf = <<>> /\ wire = <<>> /\ recvbuf = <<>> /\ recvq = <<>>
  /\ open = Ends
  /\ broken = FALSE
  /\ sent = <<>> /\ arrived = <<>> /\ faults = MaxFaults

Gone == broken \/ open # Ends

-----------------------------------------------------------------------------
(* The sender. *)

\* ...WriteSendData checks the body, joyBlockWritePkg_ the package.
Acceptable(pkg) ==
  /\ PkgLen[pkg] - HeadSize < TempBufSize
  /\ PkgLen[pkg] <= blockSize["snd"]

WriteSendData(pkg) ==
  /\ Len(sent) < MaxSent /\ pkg \notin ToSet(sent)
  /\ Acceptable(pkg)
  /\ Len(sendq) < ChainNum
  /\ sendq' = Append(sendq, pkg)
  /\ sent' = Append(sent, pkg)
  /\ UNCHANGED <<blockSize, sendbuf, wire, recvbuf, recvq, open, broken, arrived, faults>>

\* joynetWriteSendBuf: the first n packages of the chain fit, with a byte to spare.
Filled(n) == sendbuf \o BytesOf(SubSeq(sendq, 1, n))

FitsAlone(n) ==   \* mutant: measured against an empty sendbuf
  n = 0 \/ (n <= Len(sendq) /\ PkgLen[sendq[n]] < TempBufSize)

Fits(n) == n = 0 \/ (n <= Len(sendq) /\ Len(Filled(n)) < TempBufSize)

\* It releases those it has moved and, if it comes to it, one that would not even
\* fit in an empty buffer.
ReleasedMoved(n) == n   \* mutant: without the special case

ReleasedNext(n) ==   \* mutant: releases before it looks at the room that is left
  IF n < Len(sendq) THEN n + 1 ELSE n

Released(n) ==
  IF n < Len(sendq) /\ PkgLen[sendq[n + 1]] >= TempBufSize THEN n + 1 ELSE n

\* How many bytes of a buffer the kernel may take at once: none if it is full.
Takes(buf) ==
  LET most == Min({Len(buf), IF Gone THEN Len(buf) ELSE WireSize - Len(wire)})
  IN  Min({1, most})..most

\* The rest of a buffer of which n bytes are sent; memmove brings it to the front.
UnsentShort(buf, n) == IF n = 0 THEN buf ELSE SubSeq(buf, 1, Len(buf) - n)   \* mutant: no memmove

Unsent(buf, n) == Drop(buf, n)

\* joynetSendBuf; what is sent into a connection that is gone vanishes.
SendBuf ==
  /\ "snd" \in open
  /\ \E n \in {m \in 0..Len(sendq) : Fits(m) /\ ~Fits(m + 1)} :
       /\ sendq' = Drop(sendq, Released(n))
       /\ \E k \in Takes(Filled(n)) :
            /\ sendbuf' = Unsent(Filled(n), k)
            /\ wire' = IF Gone THEN wire ELSE wire \o SubSeq(Filled(n), 1, k)
  /\ UNCHANGED <<blockSize, recvbuf, recvq, open, broken, sent, arrived, faults>>

\* A failed send, or the other direction, tells the sender: it closes the node,
\* and sendbuf goes with it.
CloseSender ==
  /\ "snd" \in open /\ Gone
  /\ open' = open \ {"snd"}
  /\ sendbuf' = <<>>
  /\ UNCHANGED <<blockSize, sendq, wire, recvbuf, recvq, broken, sent, arrived, faults>>

-----------------------------------------------------------------------------
(* The receiver. *)

\* The packages whose last byte is among bytes.
Ended(b)        == IF b[2] = PkgLen[b[1]] THEN <<b[1]>> ELSE <<>>
Complete(bytes) == FlattenSeq([i \in DOMAIN bytes |-> Ended(bytes[i])])

\* Behind the first pos bytes of buf stands a header, and it passes the check.
GoodHeader(buf, pos) ==
  /\ SubSeq(buf, pos + 1, pos + HeadSize) = SubSeq(Bytes(buf[pos + 1][1]), 1, HeadSize)
  /\ PkgLen[buf[pos + 1][1]] < TempBufSize

\* The first n of the packages pkgs, those complete in buf, can move to the receive
\* chain.
Movable(buf, pkgs, n) ==
  /\ n <= Len(pkgs)
  /\ IsPrefix(BytesOf(SubSeq(pkgs, 1, n)), buf)
  /\ Len(recvq) + n <= ChainNum
  /\ \A i \in 1..n : PkgLen[pkgs[i]] < TempBufSize /\ PkgLen[pkgs[i]] <= blockSize["rcv"]

\* joynetReadRecvBuf moves packages until the next one is not complete, finds no
\* room or has a bad header; then ok is false and the bytes stay where they were,
\* although recvlen counts those moved as gone.
ReadResult(buf, pkgs) ==
  LET pos == Len(BytesOf(pkgs))
      ok  == pos + HeadSize <= Len(buf) => GoodHeader(buf, pos)
  IN  [ok   |-> ok,
       pkgs |-> pkgs,
       rest |-> IF ok THEN Drop(buf, pos) ELSE SubSeq(buf, 1, Len(buf) - pos)]

Moved(buf, pkgs) ==
  {SubSeq(pkgs, 1, n) :
     n \in {m \in 0..ChainNum : Movable(buf, pkgs, m) /\ ~Movable(buf, pkgs, m + 1)}}

\* A set of one.  (The choice from one element has TLC compute what is complete once.)
ReadRecvBuf(buf) ==
  {ReadResult(buf, moved) : moved \in UNION {Moved(buf, pkgs) : pkgs \in {Complete(buf)}}}

Receive(res, rest) ==
  /\ recvq' = recvq \o res.pkgs
  /\ arrived' = arrived \o res.pkgs
  /\ recvbuf' = rest
  /\ UNCHANGED <<blockSize, sendq, sendbuf, sent, faults>>

\* joynetCloseConnectNode flushes what is whole; the rest goes with the node.
CloseReceiver(res) ==
  /\ Receive(res, <<>>)
  /\ open' = open \ {"rcv"}
  /\ wire' = <<>>
  /\ UNCHANGED broken

\* joynetRecvBuf, and its callers' close when it fails.
RecvBytes(n) ==
  \E buf \in {recvbuf \o SubSeq(wire, 1, n)} : \E res \in ReadRecvBuf(buf) :
    \/ /\ res.ok
       /\ Receive(res, res.rest)
       /\ wire' = Drop(wire, n)
       /\ UNCHANGED <<open, broken>>
    \/ ~res.ok /\ CloseReceiver(res)

RecvBuf ==
  /\ "rcv" \in open
  /\ \/ \E n \in 1..Min({TempBufSize - Len(recvbuf), Len(wire)}) : RecvBytes(n)
     \/ /\ Gone /\ wire = <<>> /\ Len(recvbuf) < TempBufSize
        /\ \E res \in ReadRecvBuf(recvbuf) : CloseReceiver(res)

\* ...ProcRecvData first tries again what found no room; errors are ignored.
RetryReadRecvBuf ==
  /\ "rcv" \in open
  /\ \E res \in ReadRecvBuf(recvbuf) : Receive(res, res.rest)
  /\ UNCHANGED <<wire, open, broken>>

\* ...ReadRecvData hands the first package to the program.
ReadRecvPkg ==
  /\ recvq # <<>>
  /\ recvq' = Tail(recvq)
  /\ UNCHANGED <<blockSize, sendq, sendbuf, wire, recvbuf, open, broken, sent, arrived, faults>>

-----------------------------------------------------------------------------
(* The environment. *)

\* The connection is reset; a part of what was on its way can still be read.
Reset ==
  /\ faults > 0 /\ ~Gone
  /\ faults' = faults - 1
  /\ broken' = TRUE
  /\ \E n \in 0..Len(wire) : wire' = SubSeq(wire, 1, n)
  /\ UNCHANGED <<blockSize, sendq, sendbuf, recvbuf, recvq, open, sent, arrived>>

\* A new connection works once both ends have closed the old one: until then the
\* server refuses the Shake of a procid that has a node.
Reconnect ==
  /\ open = {}
  /\ open' = Ends
  /\ broken' = FALSE
  /\ UNCHANGED <<blockSize, sendq, sendbuf, wire, recvbuf, recvq, sent, arrived, faults>>

Next ==
  \/ \E pkg \in Pkg : WriteSendData(pkg)
  \/ SendBuf \/ CloseSender
  \/ RecvBuf \/ RetryReadRecvBuf \/ ReadRecvPkg
  \/ Reset \/ Reconnect

\* The main loops make every call again and again, and TCP moves what it holds.
\* Nothing is asked of the program's own sends, or of faults.
Fairness ==
  /\ WF_vars(SendBuf) /\ WF_vars(CloseSender)
  /\ WF_vars(RecvBuf) /\ WF_vars(RetryReadRecvBuf) /\ WF_vars(ReadRecvPkg)
  /\ WF_vars(Reconnect)

Spec == Init /\ [][Next]_vars /\ Fairness

-----------------------------------------------------------------------------
(* Properties. *)

\* No buffer or chain holds more than fits.
TypeOK ==
  /\ Len(sendq) <= ChainNum /\ Len(recvq) <= ChainNum
  /\ Len(sendbuf) < TempBufSize /\ Len(recvbuf) <= TempBufSize
  /\ Len(wire) <= WireSize
  /\ open \subseteq Ends /\ broken \in BOOLEAN
  /\ faults \in 0..MaxFaults /\ Len(sent) <= MaxSent

\* s is what is left of t when some elements are taken out.
Subsequence(s, t) ==
  \E place \in [DOMAIN s -> DOMAIN t] :
    /\ \A i \in DOMAIN s : s[i] = t[place[i]]
    /\ \A i, j \in DOMAIN s : i < j => place[i] < place[j]

\* However TCP cuts the stream, the receiver never loses its place in it: recvbuf
\* begins with a header, and from there to the end of sendbuf the connection holds
\* whole packages in the order in which they were accepted.
StreamWhole ==
  LET bytes == IF Gone THEN recvbuf \o wire ELSE recvbuf \o wire \o sendbuf
      pkgs  == Complete(bytes)
  IN  /\ "rcv" \in open =>
           IF Gone THEN IsPrefix(BytesOf(pkgs), bytes) ELSE BytesOf(pkgs) = bytes
      /\ Subsequence(pkgs, sent)

\* The bytes between two processes implement StreamSpec: packages arrive whole,
\* once and in order, only oversized ones are dropped, and only a lost connection
\* takes others with it, never one that is still in the send chain.
Stream == INSTANCE StreamSpec
            WITH Package <- Pkg, Oversize <- {pkg \in Pkg : PkgLen[pkg] >= TempBufSize},
                 waiting <- sendq, whole <- ~Gone,
                 flight <- IF "rcv" \notin open THEN <<>>
                           ELSE IF Gone THEN Complete(recvbuf \o wire)
                           ELSE Complete(recvbuf \o wire \o sendbuf)

ImplementsStream == Stream!Spec

\* No package that was accepted occupies a chain or a buffer for ever, the danger
\* the comment at joyblock.c:342 names: with the block sizes joyBlockInit accepts,
\* every package goes up, is dropped as oversized, or is lost with its connection.
Held(pkg) ==
  \/ pkg \in ToSet(sendq) \/ pkg \in ToSet(recvq)
  \/ pkg \in {b[1] : b \in ToSet(sendbuf) \cup ToSet(wire) \cup ToSet(recvbuf)}

NoPackageStuck == \A pkg \in Pkg : Held(pkg) ~> ~Held(pkg)

=============================================================================
