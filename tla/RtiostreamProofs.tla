---------------------------- MODULE RtiostreamProofs ----------------------------
(***************************************************************************)
(* Theorems about Rtiostream, for any number of clients, any sizes of      *)
(* messages and datagrams, and any network: what a session delivers has no *)
(* gaps, a message goes out whole, and when a target over UDP is lost.     *)
(***************************************************************************)
EXTENDS Rtiostream, TLAPS

Calls == {"idle", "acceptRecv", "acceptSend", "recv", "send", "close", "done"}
Pieces == Clients \X Nat \X Nat
Places == Clients \X (1 .. MsgUnits)

\* The socket: who reads or writes has a client, a closed listening socket is the
\* one of UDP, which was the client's as well, and what waits at the listening
\* socket is of the protocol.
SocketInv ==
  /\ pc \in {"recv", "send"} => sock # None
  /\ buf.left > 0 => buf.from \in Clients
  /\ listen = "closed" => protocol = "udp" /\ sock = None
  /\ backlog # <<>> => protocol = "tcp"
  /\ queue # <<>> => protocol = "udp"

\* A client has one connection in its life: in the backlog, where nothing was
\* read from it, or in the session.
ConnectedInv ==
  protocol = "tcp" =>
    /\ \A c \in Clients : client[c] = "out" =>
         taken[c] = 0 /\ c # sock /\ \A i \in DOMAIN backlog : backlog[i] # c
    /\ \A i \in DOMAIN backlog : taken[backlog[i]] = 0 /\ backlog[i] # sock
    /\ \A i, j \in DOMAIN backlog : backlog[i] = backlog[j] => i = j

\* How much was delivered in the session: over TCP what was taken from the client,
\* over UDP all but what is left of the last datagram.
SessionInv ==
  /\ protocol = "tcp" =>
       /\ first = 0
       /\ sock # None /\ pc \notin {"close", "done"} =>
            taken[sock] = Len(got) /\ (Len(got) > 0 => got[1][1] = sock)
  /\ protocol = "udp" /\ sock # None =>
       /\ buf.num = expected - 1 /\ first <= buf.num
       /\ Len(got) = DgramUnits * (buf.num - first) + (DgramUnits - buf.left)

\* How much of the message is out.
MessageInv ==
  /\ pc = "send" => /\ msg > 0 /\ Len(out) = MsgUnits - msg
                    /\ Len(out) > 0 => out[1][1] = sock
  /\ pc = "acceptSend" => msg = MsgUnits /\ out = <<>>

IInv ==
  /\ TypeOK /\ SocketInv /\ ConnectedInv /\ SessionInv /\ MessageInv
  /\ InOrder /\ SentInOrder

-------------------------------------------------------------------------------
(***************************************************************************)
(* Numbers and sequences.                                                  *)
(***************************************************************************)
\* The piece and the place in it of the unit that comes after q pieces and r units.
LEMMA DivMod ==
  ASSUME NEW u \in Nat \ {0}, NEW q \in Nat, NEW r \in 0 .. u - 1
  PROVE  (u * q + r) \div u = q /\ (u * q + r) % u = r
OBVIOUS

\* What a receive or a send adds comes behind what was there.
LEMMA Joined ==
  ASSUME NEW S, NEW s \in Seq(S), NEW k \in Nat, NEW e \in [1 .. k -> S]
  PROVE  /\ s \o e \in Seq(S) /\ Len(s \o e) = Len(s) + k /\ Len(s) \in Nat
         /\ \A i \in 1 .. Len(s) : (s \o e)[i] = s[i]
         /\ \A i \in 1 .. k : (s \o e)[Len(s) + i] = e[i]
<1>1. e \in Seq(S) /\ Len(e) = k
  OBVIOUS
<1>2. s \o e \in Seq(S) /\ Len(s \o e) = Len(s) + k /\ Len(s) \in Nat
  BY <1>1
<1>3. /\ \A i \in 1 .. Len(s) : (s \o e)[i] = s[i]
      /\ \A i \in 1 .. k : (s \o e)[Len(s) + i] = e[i]
  BY <1>1
<1> QED
  BY <1>2, <1>3

\* The same of what is received.
LEMMA GotJoined ==
  ASSUME got \in Seq(Pieces), NEW k \in Nat, NEW e \in [1 .. k -> Pieces], got' = got \o e
  PROVE  /\ got' \in Seq(Pieces) /\ Len(got') = Len(got) + k /\ Len(got) \in Nat
         /\ \A i \in 1 .. Len(got) : got'[i] = got[i]
         /\ \A i \in 1 .. k : got'[Len(got) + i] = e[i]
BY Joined

\* A session stays in order when the next k units of its next piece come, or, over
\* TCP, the next k pieces of one unit.
LEMMA NextUnits ==
  ASSUME IInv, UNCHANGED <<protocol, first>>, NEW k \in Nat, NEW e \in [1 .. k -> Pieces],
         got' = got \o e, NEW n \in Nat, NEW r \in Nat, n >= first,
         Len(got) = UnitsOf * (n - first) + r, r + k <= UnitsOf,
         \A i \in 1 .. k : e[i][2] = n /\ e[i][3] = r + i - 1,
         protocol = "udp"
  PROVE  InOrder' /\ got' \in Seq(Pieces) /\ Len(got') = Len(got) + k
<1> DEFINE u == DgramUnits
           x == n - first
<1>1. /\ got \in Seq(Pieces) /\ u \in Nat \ {0} /\ UnitsOf = u /\ UnitsOf' = u /\ first \in Nat
      /\ protocol' = "udp" /\ x \in Nat
  BY RtiostreamAssumption DEF IInv, TypeOK, UnitsOf, Pieces
<1>2. Len(got) = u * x + r /\ r + k <= u /\ first + x = n
  BY <1>1
<1> HIDE DEF u, x
<1>3. /\ got' \in Seq(Pieces) /\ Len(got') = Len(got) + k /\ Len(got) \in Nat
      /\ \A i \in 1 .. Len(got) : got'[i] = got[i]
      /\ \A i \in 1 .. k : got'[Len(got) + i] = e[i]
  <2>1. got \in Seq(Pieces)
    BY <1>1
  <2> QED
    BY <2>1, GotJoined
<1>4. \A i \in 1 .. Len(got) : got[i][2] = first + (i - 1) \div u /\ got[i][3] = (i - 1) % u
  BY <1>1 DEF IInv, InOrder
<1>5. ASSUME NEW j \in 1 .. k
      PROVE  e[j][2] = first + (Len(got) + j - 1) \div u /\ e[j][3] = (Len(got) + j - 1) % u
  <2> DEFINE y == Len(got) + j - 1
             z == r + j - 1
  <2>1. z \in 0 .. u - 1
    BY <1>1, <1>2
  <2>2. y = u * x + z
    <3>1. u * x \in Int
      BY <1>1
    <3> QED
      BY <1>2, <3>1
  <2>3. e[j][2] = n /\ e[j][3] = z
    OBVIOUS
  <2> HIDE DEF y, z
  <2>4. y \div u = x /\ y % u = z
    BY <1>1, <2>1, <2>2, DivMod
  <2> QED
    BY <1>2, <2>3, <2>4 DEF y
<1>6. \A i \in 1 .. Len(got') : got'[i][2] = first + (i - 1) \div u /\ got'[i][3] = (i - 1) % u
  <2> SUFFICES ASSUME NEW i \in 1 .. Len(got')
               PROVE  got'[i][2] = first + (i - 1) \div u /\ got'[i][3] = (i - 1) % u
    OBVIOUS
  <2>1. CASE i \in 1 .. Len(got)
    BY <1>3, <1>4, <2>1
  <2>2. CASE i \notin 1 .. Len(got)
    <3>1. PICK j \in 1 .. k : i = Len(got) + j
      <4>1. i - Len(got) \in 1 .. k /\ i = Len(got) + (i - Len(got))
        BY <1>3, <2>2
      <4> QED
        BY <4>1
    <3>2. got'[i] = e[j] /\ i - 1 = Len(got) + j - 1
      BY SMTT(30), <1>3, <3>1
    <3> QED
      BY <1>5, <3>2
  <2> QED
    BY <2>1, <2>2
<1>7. InOrder'
  BY <1>1, <1>6 DEF InOrder
<1> QED
  BY <1>3, <1>7

\* The same of what is sent.
LEMMA OutJoined ==
  ASSUME out \in Seq(Places), NEW k \in Nat, NEW e \in [1 .. k -> Places], out' = out \o e
  PROVE  /\ out' \in Seq(Places) /\ Len(out') = Len(out) + k /\ Len(out) \in Nat
         /\ \A i \in 1 .. Len(out) : out'[i] = out[i]
         /\ \A i \in 1 .. k : out'[Len(out) + i] = e[i]
BY Joined

\* The types, one by one.
LEMMA Types ==
  ASSUME TypeOK
  PROVE  /\ got \in Seq(Pieces) /\ Len(got) \in Nat /\ out \in Seq(Places) /\ Len(out) \in Nat
         /\ backlog \in Seq(Clients) /\ Len(backlog) \in Nat /\ DOMAIN backlog = 1 .. Len(backlog)
         /\ \A c \in Clients : sent[c] \in Nat /\ taken[c] \in Nat
         /\ DgramUnits \in Nat \ {0} /\ MsgUnits \in Nat \ {0} /\ first \in Nat /\ expected \in Nat
         /\ buf.left \in 0 .. DgramUnits /\ buf.num \in Nat /\ msg \in 0 .. MsgUnits
BY RtiostreamAssumption DEF TypeOK, Pieces, Places

\* The datagram that comes next, and the others.
LEMMA FirstDatagram ==
  ASSUME TypeOK, queue # <<>>
  PROVE  (\E c \in Clients, n \in Nat : Head(queue) = <<c, n>>) /\ Tail(queue) \in Seq(Clients \X Nat)
<1>1. queue \in Seq(Clients \X Nat)
  BY DEF TypeOK
<1>2. Head(queue) \in Clients \X Nat /\ Tail(queue) \in Seq(Clients \X Nat)
  BY <1>1
<1>3. Head(queue)[1] \in Clients /\ Head(queue)[2] \in Nat
      /\ Head(queue) = <<Head(queue)[1], Head(queue)[2]>>
  BY <1>2
<1> QED
  BY <1>2, <1>3

\* The initial states.
LEMMA InitIInv == Init => IInv
<1> SUFFICES ASSUME Init PROVE IInv
  OBVIOUS
<1>1. TypeOK
  BY RtiostreamAssumption DEF Init, TypeOK, Empty
<1>2. /\ pc = "idle" /\ buf.left = 0 /\ listen = "open" /\ sock = None /\ first = 0
      /\ backlog = <<>> /\ queue = <<>> /\ got = <<>> /\ out = <<>>
      /\ \A c \in Clients : taken[c] = 0
  BY DEF Init, Empty
<1>3. SocketInv /\ SessionInv /\ MessageInv
  BY <1>2 DEF SocketInv, SessionInv, MessageInv
<1>4. ConnectedInv
  <2>1. DOMAIN backlog = {} /\ \A c \in Clients : c # sock
    BY <1>2, RtiostreamAssumption
  <2> QED
    BY <1>2, <2>1 DEF ConnectedInv
<1>5. InOrder /\ SentInOrder
  BY <1>2 DEF InOrder, SentInOrder
<1> QED
  BY <1>1, <1>3, <1>4, <1>5 DEF IInv

-------------------------------------------------------------------------------
(***************************************************************************)
(* Clients and network.                                                    *)
(***************************************************************************)
\* A step that neither receives nor sends.
LEMMA SameData ==
  ASSUME IInv, UNCHANGED <<protocol, first, got, out>>, msg' = msg \/ out = <<>>
  PROVE  InOrder' /\ SentInOrder'
BY DEF IInv, InOrder, SentInOrder, UnitsOf

\* A step of the clients or the network does not touch the target.
LEMMA NetworkKeeps == IInv /\ Network => IInv'
<1> SUFFICES ASSUME IInv, NEW c \in Clients, Connect(c) \/ ClientSend(c) \/ ClientGone(c) \/ Deliver(c)
             PROVE  IInv'
  BY DEF Network
<1>1. UNCHANGED <<protocol, isInUse, listen, sock, buf, expected, pc, msg, taken, first, got, out>>
  BY DEF Connect, ClientSend, ClientGone, Deliver, link, net, hist
<1>2. InOrder' /\ SentInOrder'
  BY <1>1, SameData
<1>3. SessionInv' /\ MessageInv'
  BY <1>1 DEF IInv, SessionInv, MessageInv
<1>4. CASE Connect(c)
  <2>1. /\ backlog' = Append(backlog, c) /\ client[c] = "out" /\ protocol = "tcp"
        /\ client' = [client EXCEPT ![c] = "waiting"] /\ UNCHANGED <<queue, sent>>
    BY <1>4 DEF Connect
  <2>2. backlog' \in Seq(Clients)
    BY <2>1, Types DEF IInv
  <2>3. TypeOK'
    BY <1>1, <2>1, <2>2 DEF IInv, TypeOK
  <2>4. /\ DOMAIN backlog' = 1 .. Len(backlog) + 1 /\ DOMAIN backlog = 1 .. Len(backlog)
        /\ Len(backlog) \in Nat /\ backlog'[Len(backlog) + 1] = c
        /\ \A i \in 1 .. Len(backlog) : backlog'[i] = backlog[i]
    BY <2>1, Types DEF IInv
  <2>5. \A d \in Clients : client'[d] = "out" => client[d] = "out" /\ d # c
    BY <2>1 DEF IInv, TypeOK
  <2>6. /\ taken[c] = 0 /\ c # sock /\ \A i \in 1 .. Len(backlog) : backlog[i] # c
    BY <2>1, <2>4 DEF IInv, ConnectedInv
  <2>7. ConnectedInv'
    BY <1>1, <2>4, <2>5, <2>6 DEF IInv, ConnectedInv
  <2>8. SocketInv'
    BY <1>1, <2>1 DEF IInv, SocketInv
  <2> QED
    BY <1>2, <1>3, <2>3, <2>7, <2>8 DEF IInv
<1>5. CASE ClientSend(c) \/ ClientGone(c) \/ Deliver(c)
  <2>1. backlog' = backlog /\ client' \in [Clients -> {"out", "waiting", "in", "gone"}]
        /\ \A d \in Clients : client'[d] = "out" => client[d] = "out"
    BY <1>5 DEF ClientSend, ClientGone, Deliver, IInv, TypeOK, link, net
  <2>2. sent' \in [Clients -> 0 .. MaxSent]
    <3>1. CASE ClientSend(c)
      <4>1. sent[c] < MaxSent /\ sent[c] \in 0 .. MaxSent /\ sent \in [Clients -> 0 .. MaxSent]
        BY <3>1 DEF ClientSend, IInv, TypeOK
      <4>2. sent[c] + 1 \in 0 .. MaxSent
        BY <4>1, RtiostreamAssumption
      <4>3. sent' = [sent EXCEPT ![c] = sent[c] + 1]
        BY <3>1 DEF ClientSend
      <4> QED
        BY <4>1, <4>2, <4>3
    <3>2. CASE ClientGone(c) \/ Deliver(c)
      BY <3>2 DEF ClientGone, Deliver, IInv, TypeOK, net
    <3> QED
      BY <1>5, <3>1, <3>2
  <2>3. queue' \in Seq(Clients \X Nat)
    <3>1. CASE Deliver(c)
      <4>1. PICK n \in 0 .. sent[c] - 1 : queue' = Append(queue, <<c, n>>)
        BY <3>1 DEF Deliver
      <4>2. n \in Nat
        BY Types DEF IInv
      <4>3. <<c, n>> \in Clients \X Nat /\ queue \in Seq(Clients \X Nat)
        BY <4>2 DEF IInv, TypeOK
      <4> QED
        BY <4>1, <4>3
    <3>2. CASE ClientSend(c) \/ ClientGone(c)
      BY <3>2 DEF ClientSend, ClientGone, IInv, TypeOK, link
    <3> QED
      BY <1>5, <3>1, <3>2
  <2>4. TypeOK'
    BY <1>1, <2>1, <2>2, <2>3 DEF IInv, TypeOK
  <2>5. ConnectedInv'
    BY <1>1, <2>1 DEF IInv, ConnectedInv
  <2>6. SocketInv'
    <3>1. queue' = queue \/ protocol = "udp"
      BY <1>5 DEF ClientSend, ClientGone, Deliver, link
    <3> QED
      BY <1>1, <2>1, <3>1 DEF IInv, SocketInv
  <2> QED
    BY <1>2, <1>3, <2>4, <2>5, <2>6 DEF IInv
<1> QED
  BY <1>4, <1>5

-------------------------------------------------------------------------------
(***************************************************************************)
(* serverAcceptSocket.                                                     *)
(***************************************************************************)
\* Nobody is accepted: who waited to send waits on.
LEMMA NobodyAccepted ==
  ASSUME IInv, Accepting, NotAccepted, UNCHANGED <<protocol, taken, first, got, msg, out>>,
         listen' = listen \/ listen' = "invalid",
         buf' = buf \/ buf'.left = 0 \/ buf'.from \in Clients,
         backlog' = backlog \/ backlog' = <<>>, queue' = queue \/ queue' = <<>>,
         \A c \in Clients : client'[c] = "out" => client[c] = "out"
  PROVE  /\ SocketInv' /\ ConnectedInv' /\ SessionInv' /\ MessageInv' /\ InOrder' /\ SentInOrder'
         /\ sock' \in Clients \cup {None} /\ pc' \in Calls
<1>1. sock' = None /\ pc' \in {"idle", "acceptSend"} /\ (pc' = "acceptSend" => pc = "acceptSend")
  BY DEF NotAccepted, Accepting
<1>2. SocketInv'
  <2>1. buf'.left > 0 => buf'.from \in Clients
    BY DEF IInv, SocketInv
  <2> QED
    BY <1>1, <2>1 DEF IInv, SocketInv
<1>3. ConnectedInv'
  <2>1. (backlog' = <<>> => DOMAIN backlog' = {}) /\ \A c \in Clients : c # None
    BY RtiostreamAssumption
  <2>2. \A i \in DOMAIN backlog : backlog[i] \in Clients
    BY DEF IInv, TypeOK
  <2> QED
    BY <1>1, <2>1, <2>2 DEF IInv, ConnectedInv
<1>4. SessionInv'
  BY <1>1 DEF IInv, SessionInv
<1>5. MessageInv'
  BY <1>1 DEF IInv, MessageInv
<1> QED
  BY <1>1, <1>2, <1>3, <1>4, <1>5, SameData DEF Calls

\* A step of the accept that leaves the target without a client.
LEMMA AcceptNobodyKeeps ==
  ASSUME IInv, Reopen \/ ReopenFails \/ AcceptNothing \/ AcceptFails \/ ConnectFails
  PROVE  IInv'
<1>1. CASE Reopen
  <2>1. listen' = "open" /\ UNCHANGED <<protocol, isInUse, sock, backlog, queue, buf, expected,
                                        pc, msg, client, sent, taken, first, got, out>>
    BY <1>1 DEF Reopen, net, hist
  <2>2. TypeOK'
    BY <2>1 DEF IInv, TypeOK
  <2>3. SocketInv' /\ ConnectedInv' /\ SessionInv' /\ MessageInv'
    BY <2>1 DEF IInv, SocketInv, ConnectedInv, SessionInv, MessageInv
  <2> QED
    BY <2>1, <2>2, <2>3, SameData DEF IInv
<1>2. CASE ReopenFails \/ AcceptNothing
  <2>1. /\ Accepting /\ NotAccepted
        /\ UNCHANGED <<protocol, isInUse, listen, backlog, queue, buf, expected,
                       msg, client, sent, taken, first, got, out>>
    BY <1>2 DEF ReopenFails, AcceptNothing, net, hist
  <2>2. /\ SocketInv' /\ ConnectedInv' /\ SessionInv' /\ MessageInv' /\ InOrder' /\ SentInOrder'
        /\ sock' \in Clients \cup {None} /\ pc' \in Calls
    BY <2>1, NobodyAccepted
  <2>3. TypeOK'
    BY <2>1, <2>2 DEF IInv, TypeOK, Calls
  <2> QED
    BY <2>2, <2>3 DEF IInv
<1>3. CASE AcceptFails \/ ConnectFails
  <2>1. /\ Accepting /\ NotAccepted /\ listen' = "invalid" /\ backlog' = <<>> /\ queue' = <<>>
        /\ UNCHANGED <<protocol, isInUse, msg, sent, taken, first, got, out>>
    BY <1>3 DEF AcceptFails, ConnectFails, DropListen, hist
  <2>2. /\ client' \in [Clients -> {"out", "waiting", "in", "gone"}]
        /\ \A c \in Clients : client'[c] = "out" => client[c] = "out"
    BY <1>3 DEF AcceptFails, ConnectFails, DropListen, IInv, TypeOK
  <2>3. /\ buf' \in [from: Clients \cup {None}, num: Nat, left: 0 .. DgramUnits]
        /\ buf'.left = 0 \/ buf'.from \in Clients
        /\ expected' \in Nat
    <3>1. CASE AcceptFails
      BY <3>1, Types DEF AcceptFails, Empty, IInv
    <3>2. CASE ConnectFails
      <4>1. PICK c \in Clients, n \in Nat : Head(queue) = <<c, n>>
        BY <3>2, FirstDatagram DEF ConnectFails, IInv
      <4>2. buf' = [from |-> c, num |-> n, left |-> DgramUnits] /\ expected' = n + 1
        BY <3>2, <4>1 DEF ConnectFails
      <4> QED
        BY <4>2, Types DEF IInv
    <3> QED
      BY <1>3, <3>1, <3>2
  <2>4. /\ SocketInv' /\ ConnectedInv' /\ SessionInv' /\ MessageInv' /\ InOrder' /\ SentInOrder'
        /\ sock' \in Clients \cup {None} /\ pc' \in Calls
    BY <2>1, <2>2, <2>3, NobodyAccepted
  <2>5. TypeOK'
    BY SMTT(30), <2>1, <2>2, <2>3, <2>4 DEF IInv, TypeOK, Calls
  <2> QED
    BY <2>4, <2>5 DEF IInv
<1> QED
  BY <1>1, <1>2, <1>3

\* A connection of the backlog becomes the session, of which nothing was received.
LEMMA AcceptTcpKeeps == ASSUME IInv, AcceptTcp PROVE IInv'
<1> DEFINE h == Head(backlog)
<1>1. /\ Accepting /\ backlog # <<>> /\ sock' = h /\ backlog' = Tail(backlog)
      /\ pc' = IF pc = "acceptRecv" THEN "recv" ELSE "send"
      /\ client' = [client EXCEPT ![h] = IF @ = "gone" THEN @ ELSE "in"]
      /\ listen = "open" /\ first' = 0 /\ got' = <<>>
      /\ UNCHANGED <<protocol, isInUse, listen, queue, buf, expected, msg, sent, taken, out>>
  BY DEF AcceptTcp, Accepted
<1>2. /\ h \in Clients /\ 1 \in DOMAIN backlog /\ h = backlog[1]
      /\ Tail(backlog) \in Seq(Clients)
      /\ \A i \in DOMAIN Tail(backlog) : /\ i + 1 \in DOMAIN backlog /\ i + 1 # 1
                                         /\ Tail(backlog)[i] = backlog[i + 1]
  <2>1. backlog \in Seq(Clients) /\ backlog # <<>>
    BY <1>1 DEF IInv, TypeOK
  <2>2. /\ h \in Clients /\ Tail(backlog) \in Seq(Clients)
        /\ DOMAIN backlog = 1 .. Len(backlog) /\ Len(backlog) \in Nat \ {0}
    BY <2>1
  <2>3. h = backlog[1]
    BY <2>1
  <2>4. \A i \in DOMAIN Tail(backlog) : i \in Nat \ {0} /\ i + 1 \in DOMAIN backlog /\ i + 1 # 1
    BY <2>1
  <2>5. \A i \in DOMAIN Tail(backlog) : Tail(backlog)[i] = backlog[i + 1]
    BY <2>1
  <2> QED
    BY <2>2, <2>3, <2>4, <2>5
<1>3. h # None
  BY <1>2, RtiostreamAssumption
<1> HIDE DEF h
<1>4. TypeOK'
  <2>1. got' \in Seq(Clients \X Nat \X Nat) /\ first' \in Nat /\ pc' \in Calls
    BY <1>1 DEF Calls
  <2>2. client' \in [Clients -> {"out", "waiting", "in", "gone"}]
    BY <1>1, <1>2 DEF IInv, TypeOK
  <2> QED
    BY <1>1, <1>2, <2>1, <2>2 DEF IInv, TypeOK, Calls
<1>5. SocketInv'
  BY <1>1, <1>3 DEF IInv, SocketInv
<1>6. ConnectedInv'
  <2>1. \A d \in Clients : client'[d] = "out" => client[d] = "out"
    BY <1>1, <1>2 DEF IInv, TypeOK
  <2>2. SUFFICES ASSUME protocol = "tcp" PROVE ConnectedInv'
    BY <1>1 DEF ConnectedInv
  <2>3. /\ \A d \in Clients : client[d] = "out" =>
             taken[d] = 0 /\ \A i \in DOMAIN backlog : backlog[i] # d
        /\ \A i \in DOMAIN backlog : taken[backlog[i]] = 0
        /\ \A i, j \in DOMAIN backlog : backlog[i] = backlog[j] => i = j
    BY <2>2 DEF IInv, ConnectedInv
  <2>4. \A d \in Clients : client'[d] = "out" =>
          taken'[d] = 0 /\ d # sock' /\ \A i \in DOMAIN backlog' : backlog'[i] # d
    BY <1>1, <1>2, <2>1, <2>3
  <2>5. \A i \in DOMAIN backlog' : taken'[backlog'[i]] = 0 /\ backlog'[i] # sock'
    BY <1>1, <1>2, <2>3
  <2>6. ASSUME NEW i \in DOMAIN backlog', NEW j \in DOMAIN backlog', backlog'[i] = backlog'[j]
        PROVE  i = j
    <3>1. i + 1 = j + 1 /\ i \in Int /\ j \in Int
      BY <1>1, <1>2, <2>3, <2>6
    <3> QED
      BY <3>1
  <2> QED
    BY <2>4, <2>5, <2>6 DEF ConnectedInv
<1>7. SessionInv'
  <2>1. protocol = "tcp" /\ taken[h] = 0
    <3>1. protocol = "tcp"
      BY <1>1 DEF IInv, SocketInv
    <3> QED
      BY <3>1, <1>2 DEF IInv, ConnectedInv
  <2>2. Len(got') = 0
    BY <1>1
  <2> QED
    BY <1>1, <2>1, <2>2 DEF SessionInv
<1>8. MessageInv'
  <2>1. pc = "acceptSend" => msg = MsgUnits /\ out = <<>> /\ Len(out) = MsgUnits - msg /\ msg > 0
    <3>1. MsgUnits - MsgUnits = 0 /\ MsgUnits > 0
      BY RtiostreamAssumption
    <3> QED
      BY <3>1 DEF IInv, MessageInv
  <2> QED
    BY <1>1, <2>1 DEF MessageInv, Accepting
<1>9. InOrder' /\ SentInOrder'
  BY <1>1 DEF IInv, InOrder, SentInOrder
<1> QED
  BY <1>4, <1>5, <1>6, <1>7, <1>8, <1>9 DEF IInv

\* A datagram opens the session, and is in the buffer as a whole.
LEMMA AcceptUdpKeeps == ASSUME IInv, AcceptUdp PROVE IInv'
<1>1. PICK c \in Clients, n \in Nat : Head(queue) = <<c, n>>
  BY FirstDatagram DEF AcceptUdp, IInv
<1>2. /\ Accepting /\ queue # <<>> /\ listen = "open" /\ sock' = c /\ queue' = Tail(queue)
      /\ pc' = IF pc = "acceptRecv" THEN "recv" ELSE "send"
      /\ buf' = [from |-> c, num |-> n, left |-> DgramUnits]
      /\ expected' = n + 1 /\ first' = n /\ got' = <<>>
      /\ UNCHANGED <<protocol, isInUse, listen, backlog, msg, client, sent, taken, out>>
  BY <1>1 DEF AcceptUdp, Accepted, net
<1>3. c # None /\ protocol = "udp"
  BY <1>2, RtiostreamAssumption DEF IInv, SocketInv
<1>4. TypeOK'
  <2>1. Tail(queue) \in Seq(Clients \X Nat)
    BY <1>2, FirstDatagram DEF IInv
  <2>2. buf' \in [from: Clients \cup {None}, num: Nat, left: 0 .. DgramUnits]
    BY <1>2, RtiostreamAssumption
  <2>3. got' \in Seq(Clients \X Nat \X Nat) /\ first' \in Nat /\ pc' \in Calls /\ expected' \in Nat
    BY <1>2 DEF Calls
  <2> QED
    BY <1>2, <2>1, <2>2, <2>3 DEF IInv, TypeOK, Calls
<1>5. SocketInv'
  BY <1>2, <1>3 DEF IInv, SocketInv
<1>6. ConnectedInv'
  BY <1>2, <1>3 DEF ConnectedInv
<1>7. SessionInv'
  <2>1. Len(got') = 0 /\ buf'.num = n /\ buf'.left = DgramUnits
    BY <1>2
  <2>2. DgramUnits * (n - n) + (DgramUnits - DgramUnits) = 0 /\ n = n + 1 - 1
    BY RtiostreamAssumption
  <2> QED
    BY <1>2, <1>3, <2>1, <2>2 DEF SessionInv
<1>8. MessageInv'
  <2>1. pc = "acceptSend" => msg = MsgUnits /\ out = <<>> /\ Len(out) = MsgUnits - msg /\ msg > 0
    <3>1. MsgUnits - MsgUnits = 0 /\ MsgUnits > 0
      BY RtiostreamAssumption
    <3> QED
      BY <3>1 DEF IInv, MessageInv
  <2> QED
    BY <1>2, <2>1 DEF MessageInv, Accepting
<1>9. InOrder' /\ SentInOrder'
  BY <1>2 DEF IInv, InOrder, SentInOrder
<1> QED
  BY <1>4, <1>5, <1>6, <1>7, <1>8, <1>9 DEF IInv

-------------------------------------------------------------------------------
(***************************************************************************)
(* rtIOStreamRecv.                                                         *)
(***************************************************************************)
\* The steps that only choose what the target does next: a receive, one that
\* finds nothing, a close.
LEMMA CallsKeep ==
  ASSUME IInv, StreamRecv \/ RecvNothing \/ StreamClose
  PROVE  IInv'
<1>1. /\ UNCHANGED <<protocol, isInUse, listen, sock, backlog, queue, buf, expected,
                     msg, client, sent, taken, first, got, out>>
      /\ pc \in {"idle", "recv"} /\ pc' \in {"acceptRecv", "recv", "idle", "close"}
      /\ pc' = "recv" => sock # None
  BY DEF StreamRecv, RecvNothing, StreamClose, Receiving, link, net, hist
<1>2. TypeOK'
  BY <1>1 DEF IInv, TypeOK
<1>3. SocketInv' /\ ConnectedInv' /\ SessionInv' /\ MessageInv'
  BY <1>1 DEF IInv, SocketInv, ConnectedInv, SessionInv, MessageInv
<1> QED
  BY <1>1, <1>2, <1>3, SameData DEF IInv

\* Over TCP a receive takes units that the client has sent.
LEMMA RecvTcpKeeps == ASSUME IInv, RecvTcp PROVE IInv'
<1>1. PICK k \in 1 .. sent[sock] - taken[sock] :
        /\ taken' = [taken EXCEPT ![sock] = @ + k]
        /\ got' = got \o [i \in 1 .. k |-> <<sock, taken[sock] + i - 1, 0>>]
  BY DEF RecvTcp
<1> DEFINE e == [i \in 1 .. k |-> <<sock, taken[sock] + i - 1, 0>>]
<1>2. /\ pc = "recv" /\ pc' = "idle" /\ protocol = "tcp"
      /\ UNCHANGED <<protocol, isInUse, listen, sock, backlog, queue, buf, expected,
                     msg, client, sent, first, out>>
  BY DEF RecvTcp, Receiving, link, net
<1>3. /\ sock \in Clients /\ sock # None /\ first = 0
      /\ taken[sock] = Len(got) /\ (Len(got) > 0 => got[1][1] = sock)
  BY <1>2 DEF IInv, TypeOK, SocketInv, SessionInv
<1>4. /\ sent[sock] \in 0 .. MaxSent /\ taken[sock] \in 0 .. MaxSent /\ k \in Nat \ {0}
      /\ taken[sock] + k \in 0 .. MaxSent
  <2>1. sent[sock] \in 0 .. MaxSent /\ taken[sock] \in 0 .. MaxSent /\ MaxSent \in Nat
    BY <1>3, RtiostreamAssumption DEF IInv, TypeOK
  <2> QED
    BY <2>1
<1>5. e \in [1 .. k -> Pieces]
  <2>1. ASSUME NEW i \in 1 .. k PROVE <<sock, taken[sock] + i - 1, 0>> \in Pieces
    <3>1. taken[sock] + i - 1 \in Nat
      BY <1>4
    <3> QED
      BY <1>3, <3>1 DEF Pieces
  <2> QED
    BY <2>1
<1>6. /\ got' \in Seq(Pieces) /\ Len(got') = Len(got) + k /\ Len(got) \in Nat
      /\ \A i \in 1 .. Len(got) : got'[i] = got[i]
      /\ \A i \in 1 .. k : got'[Len(got) + i] = e[i]
  <2>1. got \in Seq(Pieces) /\ k \in Nat /\ got' = got \o e
    BY <1>1, <1>4, Types DEF IInv
  <2> QED
    BY <1>5, <2>1, GotJoined
<1>7. \A i \in 1 .. Len(got) : got[i][2] = i - 1 /\ got[i][3] = 0 /\ got[i][1] = sock
  <2>1. UnitsOf = 1
    BY <1>2 DEF UnitsOf
  <2>2. \A i \in 1 .. Len(got) : got[i][2] = first + (i - 1) \div 1 /\ got[i][3] = (i - 1) % 1
                                 /\ got[i][1] = got[1][1]
    BY <1>2, <2>1 DEF IInv, InOrder
  <2>3. \A i \in Int : (i - 1) \div 1 = i - 1 /\ (i - 1) % 1 = 0 /\ 0 + (i - 1) = i - 1
    OBVIOUS
  <2>4. \A i \in 1 .. Len(got) : Len(got) > 0 /\ i \in Int
    BY <1>6
  <2> QED
    BY <1>3, <2>2, <2>3, <2>4
<1>8. ASSUME NEW i \in 1 .. Len(got')
      PROVE  got'[i][2] = i - 1 /\ got'[i][3] = 0 /\ got'[i][1] = sock
  <2>1. CASE i \in 1 .. Len(got)
    BY <1>6, <1>7, <2>1
  <2>2. CASE i \notin 1 .. Len(got)
    <3>1. PICK j \in 1 .. k : i = Len(got) + j
      <4>1. i - Len(got) \in 1 .. k /\ i = Len(got) + (i - Len(got))
        BY <1>4, <1>6, <2>2
      <4> QED
        BY <4>1
    <3>2. got'[i] = <<sock, taken[sock] + j - 1, 0>>
      BY <1>6, <3>1
    <3>3. taken[sock] + j - 1 = i - 1
      BY <1>3, <1>6, <3>1
    <3> QED
      BY <3>2, <3>3
  <2> QED
    BY <2>1, <2>2
<1> HIDE DEF e
<1>9. InOrder' /\ SentInOrder'
  <2>1. UnitsOf' = 1
    BY <1>2 DEF UnitsOf
  <2>2. ASSUME NEW i \in 1 .. Len(got')
        PROVE  /\ got'[i][2] = first' + (i - 1) \div 1 /\ got'[i][3] = (i - 1) % 1
               /\ got'[i][1] = got'[1][1]
    <3>1. i \in Int /\ 1 \in 1 .. Len(got')
      BY <1>4, <1>6
    <3>2. (i - 1) \div 1 = i - 1 /\ (i - 1) % 1 = 0 /\ 0 + (i - 1) = i - 1
      BY <3>1
    <3> QED
      BY <1>2, <1>3, <1>8, <3>1, <3>2
  <2>3. InOrder'
    BY <2>1, <2>2 DEF InOrder
  <2> QED
    BY <1>2, <2>3 DEF IInv, SentInOrder
<1>10. taken' \in [Clients -> 0 .. MaxSent] /\ taken'[sock] = taken[sock] + k
       /\ \A c \in Clients : c # sock => taken'[c] = taken[c]
  BY <1>1, <1>3, <1>4 DEF IInv, TypeOK
<1>11. TypeOK'
  BY <1>2, <1>6, <1>10 DEF IInv, TypeOK, Pieces
<1>12. SocketInv' /\ MessageInv'
  BY <1>2 DEF IInv, SocketInv, MessageInv
<1>13. ConnectedInv'
  <2>1. \A i \in DOMAIN backlog : backlog[i] \in Clients
    BY DEF IInv, TypeOK
  <2> QED
    BY <1>2, <1>10, <2>1 DEF IInv, ConnectedInv
<1>14. SessionInv'
  <2>1. taken'[sock'] = Len(got') /\ got'[1][1] = sock'
    <3>1. 1 \in 1 .. Len(got') /\ taken[sock] + k = Len(got')
      BY <1>3, <1>4, <1>6
    <3> QED
      BY <1>2, <1>8, <1>10, <3>1
  <2> QED
    BY <1>2, <1>3, <2>1 DEF SessionInv
<1> QED
  BY <1>9, <1>11, <1>12, <1>13, <1>14 DEF IInv

\* What is left of a datagram goes on where the session is.
LEMMA RecvBufferedKeeps == ASSUME IInv, RecvBuffered PROVE IInv'
<1>1. PICK k \in 1 .. buf.left :
        /\ got' = got \o [i \in 1 .. k |-> <<buf.from, buf.num, UnitsOf - buf.left + i - 1>>]
        /\ buf' = [buf EXCEPT !.left = @ - k]
  BY DEF RecvBuffered, Delivered
<1> DEFINE r == DgramUnits - buf.left
           e == [i \in 1 .. k |-> <<buf.from, buf.num, r + i - 1>>]
<1>2. /\ pc = "recv" /\ pc' = "idle" /\ protocol = "udp"
      /\ UNCHANGED <<protocol, isInUse, listen, sock, backlog, queue, expected,
                     msg, client, sent, taken, first, out>>
  BY DEF RecvBuffered, Receiving, net
<1>3. /\ UnitsOf = DgramUnits /\ got' = got \o e /\ DgramUnits \in Nat /\ buf.left \in 0 .. DgramUnits
      /\ buf.num \in Nat /\ first \in Nat /\ k \in Nat \ {0} /\ k <= buf.left /\ got \in Seq(Pieces)
  BY <1>1, <1>2, Types DEF IInv, UnitsOf
<1>4. sock # None /\ buf.from \in Clients
  BY <1>2, <1>3 DEF IInv, SocketInv
<1>5. buf.num = expected - 1 /\ first <= buf.num /\ Len(got) = DgramUnits * (buf.num - first) + r
  BY <1>2, <1>4 DEF IInv, SessionInv
<1>6. r \in Nat /\ r + k <= DgramUnits
  BY <1>3
<1>7. e \in [1 .. k -> Pieces] /\ \A i \in 1 .. k : e[i][2] = buf.num /\ e[i][3] = r + i - 1
  <2>1. ASSUME NEW i \in 1 .. k PROVE <<buf.from, buf.num, r + i - 1>> \in Pieces
    <3>1. r + i - 1 \in Nat
      BY SMTT(30), <1>3, <1>6
    <3> QED
      BY <1>3, <1>4, <3>1 DEF Pieces
  <2> QED
    BY <2>1
<1> HIDE DEF e
<1>8. InOrder' /\ got' \in Seq(Pieces) /\ Len(got') = Len(got) + k
  BY <1>2, <1>3, <1>5, <1>6, <1>7, NextUnits
<1>9. buf' \in [from: Clients \cup {None}, num: Nat, left: 0 .. DgramUnits]
      /\ buf'.num = buf.num /\ buf'.from = buf.from /\ buf'.left = buf.left - k
  <2>1. buf.left - k \in 0 .. DgramUnits
    BY <1>3
  <2> QED
    BY <1>1, <2>1 DEF IInv, TypeOK
<1>10. TypeOK'
  BY <1>2, <1>8, <1>9 DEF IInv, TypeOK, Pieces
<1>11. SocketInv' /\ MessageInv' /\ ConnectedInv' /\ SentInOrder'
  <2>1. SocketInv'
    BY <1>2, <1>4, <1>9 DEF IInv, SocketInv
  <2>2. MessageInv' /\ ConnectedInv' /\ SentInOrder'
    BY <1>2 DEF IInv, MessageInv, ConnectedInv, SentInOrder
  <2> QED
    BY <2>1, <2>2
<1>12. SessionInv'
  <2>1. Len(got') = DgramUnits * (buf.num - first) + (DgramUnits - (buf.left - k))
    <3>1. DgramUnits * (buf.num - first) \in Int
      BY <1>3
    <3> QED
      BY SMTT(30), <1>3, <1>5, <1>8, <3>1
  <2> QED
    BY <1>2, <1>5, <1>9, <2>1 DEF SessionInv
<1> QED
  BY <1>8, <1>10, <1>11, <1>12 DEF IInv

\* A datagram with the expected number is the one that follows the last.
LEMMA RecvDatagramKeeps == ASSUME IInv, RecvDatagram PROVE IInv'
<1>1. PICK c \in Clients, n \in Nat : Head(queue) = <<c, n>>
  BY FirstDatagram DEF RecvDatagram, IInv
<1>2. PICK k \in 1 .. DgramUnits :
        /\ got' = got \o [i \in 1 .. k |-> <<c, n, UnitsOf - DgramUnits + i - 1>>]
        /\ buf' = [from |-> c, num |-> n, left |-> DgramUnits - k]
  <2>1. Head(queue)[1] = c /\ Head(queue)[2] = n
    BY <1>1
  <2>2. \E k \in 1 .. DgramUnits :
          /\ Delivered(Head(queue)[1], Head(queue)[2], DgramUnits, k)
          /\ buf' = [from |-> Head(queue)[1], num |-> Head(queue)[2], left |-> DgramUnits - k]
    BY DEF RecvDatagram
  <2>3. \E k \in 1 .. DgramUnits :
          /\ Delivered(c, n, DgramUnits, k)
          /\ buf' = [from |-> c, num |-> n, left |-> DgramUnits - k]
    BY <2>1, <2>2
  <2> QED
    BY <2>3 DEF Delivered
<1> DEFINE e == [i \in 1 .. k |-> <<c, n, i - 1>>]
<1>3. /\ pc = "recv" /\ pc' = "idle" /\ protocol = "udp" /\ buf.left = 0 /\ queue # <<>>
      /\ n = expected /\ expected' = expected + 1 /\ queue' = Tail(queue)
      /\ UNCHANGED <<protocol, isInUse, listen, sock, backlog, msg, client, sent, taken, first, out>>
  BY <1>1 DEF RecvDatagram, Receiving, ExpectedNumber, net
<1>4. /\ UnitsOf = DgramUnits /\ DgramUnits \in Nat \ {0} /\ buf.num \in Nat /\ first \in Nat
      /\ k \in Nat \ {0} /\ k <= DgramUnits /\ got \in Seq(Pieces)
  BY <1>3, Types DEF IInv, UnitsOf
<1>5. got' = got \o e
  <2>1. ASSUME NEW i \in 1 .. k PROVE UnitsOf - DgramUnits + i - 1 = i - 1
    BY <1>4
  <2>2. [i \in 1 .. k |-> <<c, n, UnitsOf - DgramUnits + i - 1>>] = e
    BY <2>1
  <2> QED
    BY <1>2, <2>2
<1>6. sock # None
  BY <1>3 DEF IInv, SocketInv
<1>7. n = buf.num + 1 /\ first <= n /\ Len(got) = DgramUnits * (n - first) + 0
  <2>1. /\ buf.num = expected - 1 /\ first <= buf.num
        /\ Len(got) = DgramUnits * (buf.num - first) + (DgramUnits - 0)
    BY <1>3, <1>6 DEF IInv, SessionInv
  <2>2. n = buf.num + 1
    BY <1>3, <1>4, <2>1
  <2>3. \A d, x \in Int : d * x + (d - 0) = d * (x + 1) + 0
    OBVIOUS
  <2>4. buf.num - first \in Int /\ n - first = (buf.num - first) + 1
    BY <1>4, <2>2
  <2> QED
    BY SMTT(30), <1>4, <2>1, <2>2, <2>3, <2>4
<1>8. e \in [1 .. k -> Pieces] /\ \A i \in 1 .. k : e[i][2] = n /\ e[i][3] = 0 + i - 1
  <2>1. \A i \in 1 .. k : <<c, n, i - 1>> \in Pieces /\ i - 1 = 0 + i - 1
    BY <1>4 DEF Pieces
  <2> QED
    BY <2>1
<1> HIDE DEF e
<1>9. InOrder' /\ got' \in Seq(Pieces) /\ Len(got') = Len(got) + k
  <2>1. 0 + k <= UnitsOf /\ 0 \in Nat /\ n >= first
    BY <1>4, <1>7
  <2> QED
    BY <1>3, <1>4, <1>5, <1>7, <1>8, <2>1, NextUnits
<1>10. /\ buf' \in [from: Clients \cup {None}, num: Nat, left: 0 .. DgramUnits]
       /\ queue' \in Seq(Clients \X Nat) /\ expected' \in Nat
  <2>1. DgramUnits - k \in 0 .. DgramUnits
    BY <1>4
  <2> QED
    BY <1>2, <1>3, <2>1, FirstDatagram DEF IInv, TypeOK
<1>11. TypeOK'
  BY <1>3, <1>9, <1>10 DEF IInv, TypeOK, Pieces
<1>12. MessageInv' /\ ConnectedInv' /\ SentInOrder'
  BY <1>3 DEF IInv, MessageInv, ConnectedInv, SentInOrder
<1>13. SocketInv'
  BY <1>2, <1>3 DEF IInv, SocketInv
<1>14. SessionInv'
  <2>1. Len(got') = DgramUnits * (n - first) + (DgramUnits - (DgramUnits - k))
    <3>1. DgramUnits * (n - first) \in Int
      BY <1>4
    <3> QED
      BY <1>4, <1>7, <1>9, <3>1
  <2>2. buf'.num = n /\ buf'.left = DgramUnits - k /\ n = expected' - 1
    BY <1>2, <1>3
  <2> QED
    BY <1>3, <1>7, <2>1, <2>2 DEF SessionInv
<1> QED
  BY <1>9, <1>11, <1>12, <1>13, <1>14 DEF IInv

\* The session ends: the socket is closed, over UDP with what waits at it.
LEMMA RecvEndsKeeps == ASSUME IInv, RecvMismatch \/ RecvClosed PROVE IInv'
<1>1. /\ pc = "recv" /\ pc' = "idle" /\ CloseSock
      /\ UNCHANGED <<protocol, isInUse, backlog, expected, msg, sent, taken, first, got, out>>
  BY DEF RecvMismatch, RecvClosed, Receiving, hist
<1>2. sock \in Clients /\ sock # None
  BY <1>1 DEF IInv, TypeOK, SocketInv
<1>3. /\ sock' = None
      /\ protocol = "udp" => listen' = "closed" /\ queue' = <<>>
      /\ protocol = "tcp" => UNCHANGED <<listen, queue>>
  BY <1>1 DEF CloseSock
<1>4. /\ client' \in [Clients -> {"out", "waiting", "in", "gone"}]
      /\ \A c \in Clients : client'[c] = "out" => client[c] = "out"
  BY <1>1, <1>2 DEF CloseSock, IInv, TypeOK
<1>5. /\ buf' \in [from: Clients \cup {None}, num: Nat, left: 0 .. DgramUnits]
      /\ buf'.left > 0 => buf'.from \in Clients
  <2>1. CASE RecvMismatch
    <3>1. PICK c \in Clients, n \in Nat : Head(queue) = <<c, n>>
      BY <2>1, FirstDatagram DEF RecvMismatch, IInv
    <3>2. buf' = [from |-> c, num |-> n, left |-> DgramUnits]
      BY <2>1, <3>1 DEF RecvMismatch
    <3> QED
      BY <3>2, Types DEF IInv
  <2>2. CASE RecvClosed
    BY <2>2 DEF RecvClosed, IInv, TypeOK, SocketInv
  <2> QED
    BY <2>1, <2>2
<1>6. protocol \in {"tcp", "udp"}
  BY DEF IInv, TypeOK
<1>7. TypeOK'
  <2>1. listen' \in {"open", "invalid", "closed"} /\ queue' \in Seq(Clients \X Nat)
    <3>1. CASE protocol = "udp"
      BY <1>3, <3>1
    <3>2. CASE protocol = "tcp"
      BY <1>3, <3>2 DEF IInv, TypeOK
    <3> QED
      BY <1>6, <3>1, <3>2
  <2> QED
    BY <1>1, <1>3, <1>4, <1>5, <2>1 DEF IInv, TypeOK
<1>8. SocketInv'
  BY <1>1, <1>3, <1>5, <1>6 DEF IInv, SocketInv
<1>9. ConnectedInv'
  <2>1. /\ \A c \in Clients : c # None
        /\ \A i \in DOMAIN backlog : backlog[i] \in Clients
    BY RtiostreamAssumption DEF IInv, TypeOK
  <2> QED
    BY <1>1, <1>3, <1>4, <2>1 DEF IInv, ConnectedInv
<1>10. SessionInv' /\ MessageInv'
  BY <1>1, <1>3 DEF IInv, SessionInv, MessageInv
<1> QED
  BY <1>1, <1>7, <1>8, <1>9, <1>10, SameData DEF IInv

-------------------------------------------------------------------------------
(***************************************************************************)
(* rtIOStreamBlockingSend.                                                 *)
(***************************************************************************)
\* A message is begun, or given up.
LEMMA SendBeginsOrFails == ASSUME IInv, BlockingSend \/ SendFails PROVE IInv'
<1>1. /\ out' = <<>> /\ msg' \in 0 .. MsgUnits /\ pc' \in {"acceptSend", "send", "idle"}
      /\ pc' # "idle" => msg' = MsgUnits /\ (pc' = "send" => sock # None)
      /\ UNCHANGED <<protocol, isInUse, listen, sock, backlog, queue, buf, expected,
                     client, sent, taken, first, got>>
  BY RtiostreamAssumption DEF BlockingSend, SendFails, link, net, hist
<1>2. pc \notin {"close", "done"}
  BY DEF BlockingSend, SendFails
<1>3. TypeOK'
  <2>1. out' \in Seq(Clients \X (1 .. MsgUnits))
    BY <1>1
  <2> QED
    BY <1>1, <2>1 DEF IInv, TypeOK
<1>4. SocketInv' /\ ConnectedInv' /\ SessionInv'
  BY <1>1, <1>2 DEF IInv, SocketInv, ConnectedInv, SessionInv
<1>5. MessageInv'
  <2>1. MsgUnits > 0 /\ MsgUnits - MsgUnits = 0 /\ Len(out') = 0
    BY <1>1, RtiostreamAssumption
  <2> QED
    BY <1>1, <2>1 DEF MessageInv
<1>6. InOrder' /\ SentInOrder'
  BY <1>1 DEF IInv, InOrder, SentInOrder, UnitsOf
<1> QED
  BY <1>3, <1>4, <1>5, <1>6 DEF IInv

\* The units that go out come behind those that are out.
LEMMA SendKeeps == ASSUME IInv, Send PROVE IInv'
<1>1. PICK k \in Transfers :
        /\ out' = out \o [i \in 1 .. k |-> <<sock, MsgUnits - msg + i>>]
        /\ msg' = msg - SizeSent(k)
  BY DEF Send
<1> DEFINE e == [i \in 1 .. k |-> <<sock, MsgUnits - msg + i>>]
<1>2. /\ pc = "send" /\ pc' = (IF msg' > 0 THEN "send" ELSE "idle")
      /\ UNCHANGED <<protocol, isInUse, listen, sock, backlog, queue, buf, expected,
                     client, sent, taken, first, got>>
  BY DEF Send, link, net, hist
<1>3. /\ sock \in Clients /\ sock # None /\ msg > 0 /\ Len(out) = MsgUnits - msg
      /\ (Len(out) > 0 => out[1][1] = sock)
  BY <1>2 DEF IInv, TypeOK, SocketInv, MessageInv
<1>4. /\ MsgUnits \in Nat /\ msg \in 0 .. MsgUnits /\ out \in Seq(Places)
      /\ k \in Nat \ {0} /\ k <= msg /\ msg' = msg - k
  <2>1. MsgUnits \in Nat /\ msg \in 0 .. MsgUnits /\ out \in Seq(Places)
    BY Types DEF IInv
  <2>2. k \in Nat \ {0} /\ k <= msg
    BY <1>3, <2>1, RtiostreamAssumption DEF Transfers, SeqNumSize
  <2> QED
    BY <1>1, <2>1, <2>2 DEF SizeSent
<1>5. e \in [1 .. k -> Places]
  <2>1. ASSUME NEW i \in 1 .. k PROVE <<sock, MsgUnits - msg + i>> \in Places
    <3>1. MsgUnits - msg + i \in 1 .. MsgUnits
      BY <1>4
    <3> QED
      BY <1>3, <3>1 DEF Places
  <2> QED
    BY <2>1
<1>6. /\ out' \in Seq(Places) /\ Len(out') = Len(out) + k /\ Len(out) \in Nat
      /\ \A i \in 1 .. Len(out) : out'[i] = out[i]
      /\ \A i \in 1 .. k : out'[Len(out) + i] = e[i]
  <2>1. out' = out \o e /\ k \in Nat
    BY <1>1, <1>4
  <2> QED
    BY <1>4, <1>5, <2>1, OutJoined
<1>7. ASSUME NEW i \in 1 .. Len(out') PROVE out'[i] = <<sock, i>>
  <2>1. CASE i \in 1 .. Len(out)
    <3>1. out[i] = <<out[1][1], i>> /\ Len(out) > 0
      BY <1>6, <2>1 DEF IInv, SentInOrder
    <3> QED
      BY <1>3, <1>6, <2>1, <3>1
  <2>2. CASE i \notin 1 .. Len(out)
    <3>1. PICK j \in 1 .. k : i = Len(out) + j
      <4>1. i - Len(out) \in 1 .. k /\ i = Len(out) + (i - Len(out))
        BY <1>4, <1>6, <2>2
      <4> QED
        BY <4>1
    <3>2. out'[i] = <<sock, MsgUnits - msg + j>> /\ MsgUnits - msg + j = i
      BY <1>3, <1>6, <3>1
    <3> QED
      BY <3>2
  <2> QED
    BY <2>1, <2>2
<1> HIDE DEF e
<1>8. out'[1][1] = sock /\ Len(out') = MsgUnits - msg'
  <2>1. 1 \in 1 .. Len(out') /\ Len(out') = MsgUnits - msg'
    BY <1>3, <1>4, <1>6
  <2> QED
    BY <1>7, <2>1
<1>9. SentInOrder'
  BY <1>7, <1>8 DEF SentInOrder
<1>10. InOrder'
  BY <1>2 DEF IInv, InOrder, UnitsOf
<1>11. TypeOK'
  <2>1. msg' \in 0 .. MsgUnits
    BY <1>4
  <2> QED
    BY <1>2, <1>6, <2>1 DEF IInv, TypeOK, Places
<1>12. SocketInv' /\ ConnectedInv' /\ SessionInv'
  BY <1>2 DEF IInv, SocketInv, ConnectedInv, SessionInv
<1>13. MessageInv'
  BY <1>2, <1>8 DEF MessageInv
<1> QED
  BY <1>9, <1>10, <1>11, <1>12, <1>13 DEF IInv

-------------------------------------------------------------------------------
(***************************************************************************)
(* rtIOStreamClose.                                                        *)
(***************************************************************************)
\* The connection is closed, after what still came was read.
LEMMA CloseKeeps == ASSUME IInv, waitForClientClose \/ freeConnectionData PROVE IInv'
<1>1. CASE waitForClientClose
  <2>1. PICK k \in 1 .. sent[sock] - taken[sock] : taken' = [taken EXCEPT ![sock] = @ + k]
    BY <1>1 DEF waitForClientClose
  <2>2. /\ pc = "close" /\ protocol = "tcp" /\ sock # None
        /\ UNCHANGED <<protocol, isInUse, listen, sock, backlog, queue, buf, expected, pc,
                       msg, client, sent, first, got, out>>
    BY <1>1 DEF waitForClientClose, link, net, hist
  <2>3. sock \in Clients
    BY <2>2 DEF IInv, TypeOK
  <2>4. taken[sock] + k \in 0 .. MaxSent
    <3>1. sent[sock] \in 0 .. MaxSent /\ taken[sock] \in 0 .. MaxSent /\ MaxSent \in Nat
      BY <2>3, RtiostreamAssumption DEF IInv, TypeOK
    <3> QED
      BY <3>1
  <2>5. taken' \in [Clients -> 0 .. MaxSent] /\ \A c \in Clients : c # sock => taken'[c] = taken[c]
    BY <2>1, <2>3, <2>4 DEF IInv, TypeOK
  <2>6. TypeOK'
    BY <2>2, <2>5 DEF IInv, TypeOK
  <2>7. ConnectedInv'
    <3>1. \A i \in DOMAIN backlog : backlog[i] \in Clients
      BY DEF IInv, TypeOK
    <3> QED
      BY <2>2, <2>5, <3>1 DEF IInv, ConnectedInv
  <2>8. SocketInv' /\ SessionInv' /\ MessageInv'
    BY <2>2 DEF IInv, SocketInv, SessionInv, MessageInv
  <2> QED
    BY <2>2, <2>6, <2>7, <2>8, SameData DEF IInv
<1>2. CASE freeConnectionData
  <2>1. /\ isInUse' = FALSE /\ sock' = None /\ listen' = "invalid" /\ pc' = "done"
        /\ backlog' = <<>> /\ queue' = <<>> /\ buf' = Empty
        /\ UNCHANGED <<protocol, expected, msg, sent, taken, first, got, out>>
    BY <1>2 DEF freeConnectionData, hist
  <2>2. /\ client' \in [Clients -> {"out", "waiting", "in", "gone"}]
        /\ \A c \in Clients : client'[c] = "out" => client[c] = "out"
    BY <1>2 DEF freeConnectionData, IInv, TypeOK
  <2>3. buf' \in [from: Clients \cup {None}, num: Nat, left: 0 .. DgramUnits] /\ buf'.left = 0
    BY <2>1, RtiostreamAssumption DEF Empty
  <2>4. TypeOK'
    <3>1. backlog' \in Seq(Clients) /\ queue' \in Seq(Clients \X Nat)
      BY <2>1
    <3> QED
      BY <2>1, <2>2, <2>3, <3>1 DEF IInv, TypeOK
  <2>5. SocketInv'
    BY <2>1, <2>3 DEF SocketInv
  <2>6. ConnectedInv'
    <3>1. DOMAIN backlog' = {} /\ \A c \in Clients : c # None
      BY <2>1, RtiostreamAssumption
    <3> QED
      BY <2>1, <2>2, <3>1 DEF IInv, ConnectedInv
  <2>7. SessionInv' /\ MessageInv'
    BY <2>1 DEF IInv, SessionInv, MessageInv
  <2> QED
    BY <2>1, <2>4, <2>5, <2>6, <2>7, SameData DEF IInv
<1> QED
  BY <1>1, <1>2

-------------------------------------------------------------------------------
(***************************************************************************)
(* The theorems.                                                           *)
(***************************************************************************)
\* Every step keeps the invariant.
LEMMA NextIInv == IInv /\ [Next]_vars => IInv'
<1> SUFFICES ASSUME IInv, [Next]_vars PROVE IInv'
  OBVIOUS
<1>1. CASE Network
  BY <1>1, NetworkKeeps
<1>2. CASE AcceptSocket
  <2>1. CASE Reopen \/ ReopenFails \/ AcceptNothing \/ AcceptFails \/ ConnectFails
    BY <2>1, AcceptNobodyKeeps
  <2>2. CASE AcceptTcp
    BY <2>2, AcceptTcpKeeps
  <2>3. CASE AcceptUdp
    BY <2>3, AcceptUdpKeeps
  <2> QED
    BY <1>2, <2>1, <2>2, <2>3 DEF AcceptSocket
<1>3. CASE Recv
  <2>1. CASE RecvNothing
    BY <2>1, CallsKeep
  <2>2. CASE RecvTcp
    BY <2>2, RecvTcpKeeps
  <2>3. CASE RecvBuffered
    BY <2>3, RecvBufferedKeeps
  <2>4. CASE RecvDatagram
    BY <2>4, RecvDatagramKeeps
  <2>5. CASE RecvMismatch \/ RecvClosed
    BY <2>5, RecvEndsKeeps
  <2> QED
    BY <1>3, <2>1, <2>2, <2>3, <2>4, <2>5 DEF Recv
<1>4. CASE StreamRecv \/ StreamClose
  BY <1>4, CallsKeep
<1>5. CASE BlockingSend \/ SendFails
  BY <1>5, SendBeginsOrFails
<1>6. CASE Send
  BY <1>6, SendKeeps
<1>7. CASE waitForClientClose \/ freeConnectionData
  BY <1>7, CloseKeeps
<1>8. CASE UNCHANGED vars
  <2>1. UNCHANGED <<protocol, isInUse, listen, sock, backlog, queue, buf, expected, pc,
                    msg, client, sent, taken, first, got, out>>
    BY <1>8 DEF vars, link, net, hist
  <2>2. TypeOK'
    BY <2>1 DEF IInv, TypeOK
  <2>3. SocketInv' /\ ConnectedInv' /\ SessionInv' /\ MessageInv'
    BY <2>1 DEF IInv, SocketInv, ConnectedInv, SessionInv, MessageInv
  <2> QED
    BY <2>1, <2>2, <2>3, SameData DEF IInv
<1> QED
  BY <1>1, <1>2, <1>3, <1>4, <1>5, <1>6, <1>7, <1>8 DEF Next, Target

\* The invariant holds in every state of every behaviour.
THEOREM Invariance == Spec => []IInv
BY InitIInv, NextIInv, PTL DEF Spec

\* Every variable keeps its type: a receive never takes more from a client than
\* it has sent, and never leaves less than nothing of a message or a datagram.
THEOREM TypeCorrect == Spec => []TypeOK
BY Invariance, PTL DEF IInv

\* rtIOStreamRecv delivers a session without a gap, a repetition or a change of
\* order, whatever datagrams are lost, come twice or late, and whatever an earlier
\* session left in the receive buffer.
THEOREM NoGaps == Spec => []InOrder
BY Invariance, PTL DEF IInv

\* rtIOStreamBlockingSend sends the units of a message once each, in order and to
\* one client, also when it had to wait for one.
THEOREM WholeMessage == Spec => []SentInOrder
BY Invariance, PTL DEF IInv

\* One step of a target whose UDP socket is closed and whose buffer is empty.
LEMMA StaysDeaf ==
  ASSUME IInv, [Next]_vars, listen = "closed", buf.left = 0, isInUse'
  PROVE  listen' = "closed" /\ buf'.left = 0 /\ sock' = None
<1>1. sock = None /\ pc \notin {"recv", "send"} /\ ~ListenPending /\ protocol = "udp"
  BY DEF IInv, SocketInv, ListenPending
<1>2. CASE UNCHANGED vars
  BY <1>1, <1>2 DEF vars, link
<1>3. CASE Network
  BY <1>1, <1>3 DEF Network, Connect, ClientSend, ClientGone, Deliver, link
<1>4. CASE AcceptSocket
  BY <1>1, <1>4 DEF AcceptSocket, Reopen, ReopenFails, AcceptNothing, AcceptTcp, AcceptUdp,
                    AcceptFails, ConnectFails, NotAccepted
<1>5. CASE Recv
  BY <1>1, <1>5 DEF Recv, Receiving, RecvNothing, RecvTcp, RecvBuffered, RecvDatagram,
                    RecvMismatch, RecvClosed
<1>6. CASE StreamRecv \/ BlockingSend \/ Send \/ SendFails \/ StreamClose \/ waitForClientClose
  BY <1>1, <1>6 DEF StreamRecv, BlockingSend, Send, SendFails, StreamClose, waitForClientClose, link
<1>7. CASE freeConnectionData
  BY <1>7 DEF freeConnectionData
<1> QED
  BY <1>2, <1>3, <1>4, <1>5, <1>6, <1>7 DEF Next, Target

\* A target over UDP that has closed its socket with an empty receive buffer is
\* never connected again and opens no other socket until rtIOStreamClose:
\* listenSock keeps the number of the closed socket.
THEOREM NeverConnectedAgain == Spec => DeafForEver
<1>1. IInv /\ [Next]_vars =>
        [listen = "closed" /\ buf.left = 0 /\ isInUse' =>
           listen' = "closed" /\ buf'.left = 0 /\ sock' = None]_vars
  BY StaysDeaf
<1> QED
  BY <1>1, Invariance, PTL DEF Spec, DeafForEver
===============================================================================
