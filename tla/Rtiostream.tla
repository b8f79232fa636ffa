------------------------------ MODULE Rtiostream ------------------------------
(***************************************************************************)
(* The transport of external mode: the server side of rtiostream_tcpip.c   *)
(* and the blocking send of rtiostream_utils.c, over TCP or over UDP with  *)
(* sequence numbers (the default).  The program opens one connection and   *)
(* polls it.                                                               *)
(*                                                                         *)
(* Data is abstracted to pieces.  A client numbers what it sends from 0    *)
(* on: over TCP each unit of the stream, over UDP each datagram, which has *)
(* DgramUnits units behind its sequence number.                            *)
(***************************************************************************)
EXTENDS Integers, Sequences

CONSTANTS
  Clients,
  None,            \* INVALID_SOCKET, as a client
  MaxSent,         \* bound: what a client sends, in units or datagrams
  MaxQueue,        \* bound: datagrams the socket's receive queue holds
  MaxBacklog,      \* the backlog of listen()
  DgramUnits,      \* the units of a client's datagram
  MsgUnits,        \* the units of a message of the target
  MaxPacketSize    \* the units of a datagram of the target, number included

SeqNumSize == 1    \* UDP_SEQ_NUM_SIZE

ASSUME RtiostreamAssumption ==
  /\ None \notin Clients
  /\ MaxSent \in Nat /\ MaxQueue \in Nat /\ MaxBacklog \in Nat
  /\ DgramUnits \in Nat \ {0} /\ MsgUnits \in Nat \ {0}
  /\ MaxPacketSize \in Nat /\ MaxPacketSize > SeqNumSize

VARIABLES
  protocol,
  isInUse,     \* the connection is open
  listen,      \* listenSock: "open", "invalid", or the number of a "closed" socket
  sock,        \* the client that connection->sock is connected to
  backlog,     \* TCP: connections that wait to be accepted
  queue,       \* UDP: datagrams the socket has received
  buf,         \* UDP: recvBuffer, what is left of one datagram
  expected,    \* expectedRecvSeqNum
  pc,          \* the call the target is in
  msg,         \* the units left to send of the message
  client,      \* what each client does
  sent,        \* what each client has sent
  taken,       \* TCP: the units received from each client
  first,       \* history: the number of the piece that opened the session
  got,         \* history: the units delivered in the session
  out          \* history: where the units of the message went

link == <<isInUse, listen, sock, backlog, queue, buf, expected>>
net == <<client, sent>>
hist == <<first, got>>
vars == <<protocol, link, pc, msg, net, taken, hist, out>>

Empty == [from |-> None, num |-> 0, left |-> 0]

\* rtIOStreamOpen has opened the listening socket.
Init ==
  /\ protocol \in {"tcp", "udp"}
  /\ isInUse = TRUE /\ listen = "open" /\ sock = None
  /\ backlog = <<>> /\ queue = <<>> /\ buf = Empty /\ expected = 0
  /\ pc = "idle" /\ msg = 0
  /\ client = [c \in Clients |-> "out"]
  /\ sent = [c \in Clients |-> 0] /\ taken = [c \in Clients |-> 0]
  /\ first = 0 /\ got = <<>> /\ out = <<>>

-------------------------------------------------------------------------------
(***************************************************************************)
(* The clients and the network.  A datagram that was sent may arrive once, *)
(* several times, late, or never.                                          *)
(***************************************************************************)
Connect(c) ==
  /\ protocol = "tcp" /\ listen = "open"
  /\ client[c] = "out" /\ Len(backlog) < MaxBacklog
  /\ client' = [client EXCEPT ![c] = "waiting"]
  /\ backlog' = Append(backlog, c)
  /\ UNCHANGED <<protocol, isInUse, listen, sock, queue, buf, expected, pc, msg, sent, taken, hist, out>>

ClientSend(c) ==
  /\ sent[c] < MaxSent
  /\ IF protocol = "tcp" THEN client[c] \in {"waiting", "in"} ELSE client[c] # "gone"
  /\ sent' = [sent EXCEPT ![c] = @ + 1]
  /\ UNCHANGED <<protocol, link, pc, msg, client, taken, hist, out>>

ClientGone(c) ==
  /\ client[c] # "gone"
  /\ client' = [client EXCEPT ![c] = "gone"]
  /\ UNCHANGED <<protocol, link, pc, msg, sent, taken, hist, out>>

\* A connected UDP socket gets the datagrams of its client only.
Deliver(c) ==
  /\ protocol = "udp" /\ listen = "open" /\ sock \in {None, c}
  /\ Len(queue) < MaxQueue
  /\ \E n \in 0 .. sent[c] - 1 : queue' = Append(queue, <<c, n>>)
  /\ UNCHANGED <<protocol, isInUse, listen, sock, backlog, buf, expected, pc, msg, net, taken, hist, out>>

Network == \E c \in Clients : Connect(c) \/ ClientSend(c) \/ ClientGone(c) \/ Deliver(c)

-------------------------------------------------------------------------------
(***************************************************************************)
(* serverAcceptSocket, on behalf of a receive or of a send.  A receive     *)
(* without a client returns no data; a blocking send tries again.          *)
(***************************************************************************)
Accepting == pc \in {"acceptRecv", "acceptSend"}

Accepted(c) ==
  /\ sock' = c
  /\ pc' = IF pc = "acceptRecv" THEN "recv" ELSE "send"

NotAccepted ==
  /\ sock' = None
  /\ pc' = IF pc = "acceptRecv" THEN "idle" ELSE "acceptSend"

\* The listening socket is closed: what waits there is lost.
DropListen ==
  /\ listen' = "invalid" /\ backlog' = <<>> /\ queue' = <<>>
  /\ client' = [c \in Clients |-> IF client[c] = "waiting" THEN "gone" ELSE client[c]]

Reopen ==
  /\ Accepting /\ listen = "invalid"
  /\ listen' = "open"
  /\ UNCHANGED <<protocol, isInUse, sock, backlog, queue, buf, expected, pc, msg, net, taken, hist, out>>

ReopenFails ==
  /\ Accepting /\ listen = "invalid"
  /\ NotAccepted
  /\ UNCHANGED <<protocol, isInUse, listen, backlog, queue, buf, expected, msg, net, taken, hist, out>>

\* Mutant: a select that fails counts as a request.
ListenPendingOrFailed ==
  buf.left > 0 \/ listen = "closed" \/ (listen = "open" /\ (backlog # <<>> \/ queue # <<>>))

\* socketDataPending on listenSock.  Buffered data counts without a select; a
\* select on the number of a closed socket fails.
ListenPending ==
  buf.left > 0 \/ (listen = "open" /\ (backlog # <<>> \/ queue # <<>>))

AcceptNothing ==
  /\ Accepting /\ listen # "invalid" /\ ~ListenPending
  /\ NotAccepted
  /\ UNCHANGED <<protocol, isInUse, listen, backlog, queue, buf, expected, msg, net, taken, hist, out>>

AcceptTcp ==
  /\ Accepting /\ listen = "open" /\ backlog # <<>>
  /\ Accepted(Head(backlog))
  /\ backlog' = Tail(backlog)
  /\ client' = [client EXCEPT ![Head(backlog)] = IF @ = "gone" THEN @ ELSE "in"]
  /\ first' = 0 /\ got' = <<>>
  /\ UNCHANGED <<protocol, isInUse, listen, queue, buf, expected, msg, sent, taken, out>>

\* initialUDPServerRecvfrom blocks if only the buffer made it look ready.
AcceptUdp ==
  /\ Accepting /\ listen = "open" /\ queue # <<>>
  /\ LET c == Head(queue)[1]  n == Head(queue)[2]
     IN /\ buf' = [from |-> c, num |-> n, left |-> DgramUnits]
        /\ expected' = n + 1
        /\ first' = n /\ got' = <<>>
        /\ Accepted(c)
  /\ queue' = Tail(queue)
  /\ UNCHANGED <<protocol, isInUse, listen, backlog, msg, net, taken, out>>

\* accept() or recvfrom() fails, the latter surely on the number of a closed socket.
AcceptFails ==
  /\ Accepting /\ listen # "invalid" /\ ListenPending
  /\ DropListen
  /\ buf' = Empty
  /\ NotAccepted
  /\ UNCHANGED <<protocol, isInUse, expected, msg, sent, taken, hist, out>>

\* connect() fails after the datagram was read into the buffer.
ConnectFails ==
  /\ Accepting /\ listen = "open" /\ queue # <<>>
  /\ buf' = [from |-> Head(queue)[1], num |-> Head(queue)[2], left |-> DgramUnits]
  /\ expected' = Head(queue)[2] + 1
  /\ DropListen
  /\ NotAccepted
  /\ UNCHANGED <<protocol, isInUse, msg, sent, taken, hist, out>>

AcceptSocket ==
  \/ Reopen \/ ReopenFails
  \/ AcceptNothing \/ AcceptTcp \/ AcceptUdp \/ AcceptFails \/ ConnectFails

-------------------------------------------------------------------------------
(***************************************************************************)
(* rtIOStreamRecv: serverStreamRecv polls the socket and reads from it.    *)
(***************************************************************************)
StreamRecv ==
  /\ pc = "idle" /\ isInUse
  /\ pc' = IF sock = None THEN "acceptRecv" ELSE "recv"
  /\ UNCHANGED <<protocol, link, msg, net, taken, hist, out>>

\* Mutant: the number of the closed socket is kept.
CloseSockKeepsNumber ==
  /\ UNCHANGED <<sock, listen, queue>>
  /\ client' = [client EXCEPT ![sock] = "gone"]

\* The socket is closed.  Over UDP that is the listening socket as well, but
\* only connection->sock is set to INVALID_SOCKET.
CloseSock ==
  /\ sock' = None
  /\ IF protocol = "udp"
     THEN listen' = "closed" /\ queue' = <<>>
     ELSE UNCHANGED <<listen, queue>>
  /\ client' = IF protocol = "tcp" THEN [client EXCEPT ![sock] = "gone"] ELSE client

UnitsOf == IF protocol = "tcp" THEN 1 ELSE DgramUnits

\* The next k units of piece n, of which "left" are left, are delivered.
Delivered(c, n, left, k) ==
  got' = got \o [i \in 1 .. k |-> <<c, n, UnitsOf - left + i - 1>>]

Receiving == pc = "recv"

\* Mutant: a datagram without the expected number is taken all the same.
AnyNumber(n) == TRUE

\* processUDPRecvSeqNum
ExpectedNumber(n) == n = expected

RecvNothing ==
  /\ Receiving
  /\ IF protocol = "tcp"
     THEN taken[sock] = sent[sock] /\ client[sock] # "gone"
     ELSE buf.left = 0 /\ queue = <<>>
  /\ pc' = "idle"
  /\ UNCHANGED <<protocol, link, msg, net, taken, hist, out>>

RecvTcp ==
  /\ Receiving /\ protocol = "tcp"
  /\ \E k \in 1 .. sent[sock] - taken[sock] :
       /\ taken' = [taken EXCEPT ![sock] = @ + k]
       /\ got' = got \o [i \in 1 .. k |-> <<sock, taken[sock] + i - 1, 0>>]
  /\ pc' = "idle"
  /\ UNCHANGED <<protocol, link, msg, net, first, out>>

\* What is left of a datagram is read without touching the socket.
RecvBuffered ==
  /\ Receiving /\ protocol = "udp"
  /\ \E k \in 1 .. buf.left :
       /\ Delivered(buf.from, buf.num, buf.left, k)
       /\ buf' = [buf EXCEPT !.left = @ - k]
  /\ pc' = "idle"
  /\ UNCHANGED <<protocol, isInUse, listen, sock, backlog, queue, expected, msg, net, taken, first, out>>

RecvDatagram ==
  /\ Receiving /\ protocol = "udp" /\ buf.left = 0 /\ queue # <<>>
  /\ LET c == Head(queue)[1]  n == Head(queue)[2]
     IN /\ ExpectedNumber(n)
        /\ expected' = expected + 1
        /\ \E k \in 1 .. DgramUnits :
             /\ Delivered(c, n, DgramUnits, k)
             /\ buf' = [from |-> c, num |-> n, left |-> DgramUnits - k]
  /\ queue' = Tail(queue)
  /\ pc' = "idle"
  /\ UNCHANGED <<protocol, isInUse, listen, sock, backlog, msg, net, taken, first, out>>

\* The datagram with the wrong number stays in the buffer.
RecvMismatch ==
  /\ Receiving /\ protocol = "udp" /\ buf.left = 0 /\ queue # <<>>
  /\ ~ExpectedNumber(Head(queue)[2])
  /\ buf' = [from |-> Head(queue)[1], num |-> Head(queue)[2], left |-> DgramUnits]
  /\ CloseSock
  /\ pc' = "idle"
  /\ UNCHANGED <<protocol, isInUse, backlog, expected, msg, sent, taken, hist, out>>

\* recv() returns 0 at the end of a stream and fails after a reset, which may
\* come before the end; over UDP it fails when the client's port is gone.
RecvClosed ==
  /\ Receiving /\ client[sock] = "gone" /\ buf.left = 0
  /\ CloseSock
  /\ pc' = "idle"
  /\ UNCHANGED <<protocol, isInUse, backlog, buf, expected, msg, sent, taken, hist, out>>

Recv == RecvNothing \/ RecvTcp \/ RecvBuffered \/ RecvDatagram \/ RecvMismatch \/ RecvClosed

-------------------------------------------------------------------------------
(***************************************************************************)
(* rtIOStreamBlockingSend: rtIOStreamSend until the message is sent.       *)
(***************************************************************************)
BlockingSend ==
  /\ pc = "idle" /\ isInUse
  /\ msg' = MsgUnits /\ out' = <<>>
  /\ pc' = IF sock = None THEN "acceptSend" ELSE "send"
  /\ UNCHANGED <<protocol, link, net, taken, hist>>

\* Mutant: every datagram is filled, whatever is left of the message.
WholePackets == IF protocol = "tcp" THEN 1 .. msg ELSE {MaxPacketSize - SeqNumSize}

\* The units of the message in one send(): TCP takes what it has room for, a
\* datagram is limited by the size of a packet.
Transfers ==
  IF protocol = "tcp" THEN 1 .. msg
  ELSE {IF msg <= MaxPacketSize - SeqNumSize THEN msg ELSE MaxPacketSize - SeqNumSize}

\* Mutant: the sequence number counts as data that was sent.
SizeWithNumber(k) == IF protocol = "udp" THEN k + SeqNumSize ELSE k

\* What rtIOStreamSend reports of a send() of k units.
SizeSent(k) == k

Send ==
  /\ pc = "send"
  /\ \E k \in Transfers :
       /\ out' = out \o [i \in 1 .. k |-> <<sock, MsgUnits - msg + i>>]
       /\ msg' = msg - SizeSent(k)
  /\ pc' = IF msg' > 0 THEN "send" ELSE "idle"
  /\ UNCHANGED <<protocol, link, net, taken, hist>>

\* The error is the caller's: the socket stays as it is.
SendFails ==
  /\ pc = "send" /\ client[sock] = "gone"
  /\ msg' = 0 /\ out' = <<>>
  /\ pc' = "idle"
  /\ UNCHANGED <<protocol, link, net, taken, hist>>

-------------------------------------------------------------------------------
(***************************************************************************)
(* rtIOStreamClose.  Over TCP it first reads what still comes, until the   *)
(* client closes or is silent for a while.                                 *)
(***************************************************************************)
StreamClose ==
  /\ pc = "idle" /\ isInUse
  /\ pc' = "close"
  /\ UNCHANGED <<protocol, link, msg, net, taken, hist, out>>

waitForClientClose ==
  /\ pc = "close" /\ protocol = "tcp" /\ sock # None
  /\ \E k \in 1 .. sent[sock] - taken[sock] : taken' = [taken EXCEPT ![sock] = @ + k]
  /\ UNCHANGED <<protocol, link, pc, msg, net, hist, out>>

freeConnectionData ==
  /\ pc = "close"
  /\ isInUse' = FALSE /\ sock' = None /\ listen' = "invalid"
  /\ backlog' = <<>> /\ queue' = <<>> /\ buf' = Empty
  /\ client' = [c \in Clients |-> IF c = sock \/ client[c] = "waiting" THEN "gone" ELSE client[c]]
  /\ pc' = "done"
  /\ UNCHANGED <<protocol, expected, msg, sent, taken, hist, out>>

-------------------------------------------------------------------------------
Target ==
  \/ StreamRecv \/ AcceptSocket \/ Recv
  \/ BlockingSend \/ Send \/ SendFails
  \/ StreamClose \/ waitForClientClose \/ freeConnectionData

Next == Network \/ Target

Spec == Init /\ [][Next]_vars

\* The packet server polls in every pass of its loop, and opening the listening
\* socket again does not fail for ever.
FairSpec == Spec /\ WF_vars(Target) /\ SF_vars(StreamRecv) /\ SF_vars(Reopen)

-------------------------------------------------------------------------------
TypeOK ==
  /\ protocol \in {"tcp", "udp"} /\ isInUse \in BOOLEAN
  /\ listen \in {"open", "invalid", "closed"}
  /\ sock \in Clients \cup {None}
  /\ backlog \in Seq(Clients) /\ queue \in Seq(Clients \X Nat)
  /\ buf \in [from: Clients \cup {None}, num: Nat, left: 0 .. DgramUnits]
  /\ expected \in Nat
  /\ pc \in {"idle", "acceptRecv", "acceptSend", "recv", "send", "close", "done"}
  /\ msg \in 0 .. MsgUnits
  /\ client \in [Clients -> {"out", "waiting", "in", "gone"}]
  /\ sent \in [Clients -> 0 .. MaxSent] /\ taken \in [Clients -> 0 .. MaxSent]
  /\ first \in Nat
  /\ got \in Seq(Clients \X Nat \X Nat) /\ out \in Seq(Clients \X (1 .. MsgUnits))

\* What is delivered in a session starts with the piece that opened it and goes
\* on without a gap, a repetition or a change of order, whatever the network
\* does to the datagrams and whatever an earlier session left in the buffer;
\* over TCP it all comes from the session's client.
InOrder ==
  \A i \in 1 .. Len(got) :
    /\ got[i][2] = first + (i - 1) \div UnitsOf
    /\ got[i][3] = (i - 1) % UnitsOf
    /\ protocol = "tcp" => got[i][1] = got[1][1]

\* The units of a message are sent once each, in order and to one client, also
\* when the send had to wait for that client.
SentInOrder ==
  /\ \A i \in 1 .. Len(out) : out[i] = <<out[1][1], i>>
  /\ Len(out) = MsgUnits - msg \/ out = <<>>

\* Over TCP a client that waits is accepted, or another one is being served: one
\* that is gone does not keep it out.
WaitingIsServed ==
  \A c \in Clients :
    client[c] = "waiting" ~> \/ client[c] # "waiting"
                             \/ \E d \in Clients : sock = d /\ client[d] # "gone"

\* Over UDP the number of a socket that was closed stays in listenSock: a target
\* that lost its client with nothing left in the receive buffer is never
\* connected again, nor does it ever open another socket.  What is left in the
\* buffer, of a datagram with a wrong number, is what leads it out of there.
DeafForEver ==
  [][listen = "closed" /\ buf.left = 0 /\ isInUse' =>
       listen' = "closed" /\ buf'.left = 0 /\ sock' = None]_vars
===============================================================================
