---------------------------- MODULE PktServerProofs ----------------------------
(***************************************************************************)
(* Theorems about PktServer, for any number of clients, any packets and    *)
(* any table of parameters: packets stay in step with the stream, hosts    *)
(* are answered in order, and the parameters read back as they were set.   *)
(***************************************************************************)
EXTENDS PktServer, SequenceTheorems, FiniteSetTheorems, WellFoundedInduction, TLAPS

Byes == {"disconnect", "disconnectNoUpload"}

\* The words of client c's n-th packet.
Units(c, n) == HdrUnits + PayloadUnits(sent[c][n])

\* A word that was sent.
IsWord(w) ==
  w[1] \in Clients /\ w[2] \in 1 .. Len(sent[w[1]]) /\ w[3] \in 1 .. Units(w[1], w[2])

\* The word that comes after word i of client c's n-th packet.
Following(c, n, i) == IF i < Units(c, n) THEN <<c, n, i + 1>> ELSE <<c, n + 1, 1>>

\* A host shakes hands first, goes on when it was answered, and ends with its bye.
HostInv ==
  \A c \in Clients :
    /\ client[c] = "out" => sent[c] = <<>>
    /\ \A n \in DOMAIN sent[c] : sent[c][n] = Hello <=> n = 1
    /\ out[c] = <<>> => Len(sent[c]) <= 1
    /\ \A n \in DOMAIN sent[c] : sent[c][n].kind \in Byes => n = Len(sent[c])

\* What is on its way from client c is a run of the words it has sent: word j comes
\* j - i places behind word i of its packet, and packets follow each other.  Of a
\* client that is there, nothing is cut off.
IsRun(c, s) ==
  /\ \A i \in DOMAIN s : IsWord(s[i]) /\ s[i][1] = c
  /\ \A i, j \in DOMAIN s :
       i <= j /\ j - i <= Units(c, s[i][2]) - s[i][3] => s[j] = <<c, s[i][2], s[i][3] + (j - i)>>
  /\ \A i \in DOMAIN s :
       i < Len(s) /\ s[i][3] = Units(c, s[i][2]) => s[i + 1] = <<c, s[i][2] + 1, 1>>

IsWhole(c, s) ==
  /\ \A i \in DOMAIN s : i + (Units(c, s[i][2]) - s[i][3]) <= Len(s)
  /\ s # <<>> => s[Len(s)] = <<c, Len(sent[c]), Units(c, Len(sent[c]))>>

StreamInv ==
  \A c \in Clients :
    IsRun(c, stream[c]) /\ (client[c] # "gone" => IsWhole(c, stream[c]))

\* Nothing was read from client c yet.
Unread(c) ==
  /\ stream[c] # <<>> => stream[c][1] = <<c, 1, 1>>
  /\ stream[c] = <<>> => client[c] = "gone" \/ sent[c] = <<>>
  /\ out[c] = <<>>

\* A client has one connection in its life: in the backlog, or at the socket.
ConnectionInv ==
  /\ \A c \in Clients :
       /\ client[c] = "out" => c # sock /\ Unread(c) /\ \A i \in DOMAIN backlog : backlog[i] # c
       /\ client[c] = "waiting" => \E i \in DOMAIN backlog : backlog[i] = c
       /\ client[c] = "in" => c = sock
  /\ \A i \in DOMAIN backlog : backlog[i] # sock /\ Unread(backlog[i])
  /\ \A i, j \in DOMAIN backlog : backlog[i] = backlog[j] => i = j

\* What was taken of a packet, by the place in the packet server.
PlaceInv ==
  /\ \A i \in DOMAIN got : IsWord(got[i])
  /\ pc = "header" => Len(got) < HdrUnits
  /\ pc = "packet" => Len(got) = HdrUnits
  /\ pc \in {"payload", "clear", "install", "answer"} /\ kind # "shutdown" => Len(got) >= HdrUnits
  /\ kind = "shutdown" \/ pc = "done" => got = <<>>
  /\ pc \in {"header", "packet"} => kind = "none"
  /\ pc \in {"payload", "clear"} => left > 0
  /\ pc \in {"header", "packet", "payload", "clear", "install"} => answer = NoAnswer
  /\ pc \in {"payload", "clear", "install"} => kind \in WithPayload
  /\ pc = "crashed" => ~orderly
  /\ pc = "answer" => kind \notin {"none", "ext-mode", "stop", "disconnectNoUpload"}

\* The packet that is being handled, and what its client has on its way behind it.
PacketInv ==
  LET n == got[1][2]
  IN /\ OnePacket
     /\ got[1][1] = sock /\ kind # "shutdown"
     /\ Len(got) <= Units(sock, n)
     /\ stream[sock] # <<>> => stream[sock][1] = Following(sock, n, Len(got))
     /\ stream[sock] = <<>> => client[sock] = "gone" \/ (Len(got) = Units(sock, n) /\ n = Len(sent[sock]))
     /\ pc \in {"payload", "clear"} => left = Units(sock, n) - Len(got)
     /\ pc \in {"install", "answer"} => Len(got) = Units(sock, n)
     /\ pc \in {"payload", "clear", "install", "answer"} => kind = AnswerTo(sent[sock][n])
     /\ pc \in {"payload", "clear", "install"} => commInitialized

\* The session: its client was answered the handshake and not the bye, or there is
\* none, and the next packet shakes hands.
SessionInv ==
  IF commInitialized
  THEN /\ sock # None /\ out[sock] # <<>> /\ Last(out[sock])[1] # "disconnect"
       /\ sent[sock] # <<>>
       /\ IF got # <<>> THEN got[1][2] > 1 ELSE stream[sock] # <<>> => stream[sock][1][2] > 1
  ELSE sock # None =>
         IF got # <<>> THEN got[1] = <<sock, 1, 1>> /\ out[sock] = <<>>
         ELSE \/ Unread(sock)
              \/ /\ stream[sock] = <<>>
                 /\ client[sock] = "gone" \/ (sent[sock] # <<>> /\ Last(sent[sock]).kind \in Byes)

OrderlyInv ==
  orderly /\ pc # "done" =>
    /\ got # <<>> => sock # None /\ PacketInv
    /\ got = <<>> => /\ pc = "header" \/ (pc = "answer" /\ kind = "shutdown")
                     /\ sock # None /\ stream[sock] # <<>> => stream[sock][1][3] = 1
    /\ SessionInv

\* Every byte of a parameter is that of the element it belongs to.
MemInv ==
  \A t \in T : \A i \in Bytes(t) : mem[t][i] = view[t][i \div ElSize(t)]

\* What was sent of the parameters.
AnswerInv ==
  pc = "answer" /\ kind = "getParams" =>
    LET b == answer.bytes
    IN /\ answer.parts > 0 => answer.size = NBytesTotal
       /\ b \in Seq(UNION {[Bytes(t) -> Values] : t \in T})
       /\ Len(b) = IF answer.parts = 0 THEN 0 ELSE answer.parts - 1
       /\ \A t \in DOMAIN b : b[t] = [i \in Bytes(t) |-> mem[t][i]]

IInv ==
  /\ TypeOK /\ HostInv /\ StreamInv /\ ConnectionInv /\ PlaceInv /\ OrderlyInv
  /\ AnswersInOrder /\ MemInv /\ AnswerInv

-------------------------------------------------------------------------------
(* Packets and words. *)

LEMMA PacketTypes ==
  ASSUME NEW p \in HostPackets \cup {Hello}
  PROVE  /\ p.kind \in Kinds \cup {"ext-mode"} /\ p.size \in 0 .. MaxSize /\ p.size \in Nat
         /\ p.params \in Seq(Param)
         /\ PayloadUnits(p) \in Nat
         /\ p.kind \in WithPayload => PayloadUnits(p) = p.size /\ p.size > 0
         /\ p.kind \notin WithPayload => PayloadUnits(p) = 0
         /\ p.kind = "ext-mode" <=> p = Hello
<1>1. CASE p = Hello
  BY <1>1, PktServerAssumption DEF Hello, PayloadUnits, WithPayload
<1>2. CASE p \in HostPackets
  <2>1. /\ p.kind \in Kinds /\ p.size \in 0 .. MaxSize /\ (p.kind \in WithPayload <=> p.size > 0)
        /\ p.params \in Seq(Param)
    BY <1>2, PktServerAssumption
  <2>2. p.kind # "ext-mode" /\ Hello.kind = "ext-mode"
    BY <2>1 DEF Kinds, HeaderOnly, WithPayload, Hello
  <2>3. p.size \in Nat
    BY <2>1, PktServerAssumption
  <2> QED  BY <2>1, <2>2, <2>3 DEF PayloadUnits
<1> QED  BY <1>1, <1>2

LEMMA SentTypes ==
  ASSUME TypeOK, NEW c \in Clients, NEW n \in 1 .. Len(sent[c])
  PROVE  /\ sent[c][n] \in HostPackets \cup {Hello}
         /\ Units(c, n) \in Nat /\ Units(c, n) >= HdrUnits
         /\ sent[c][n].kind \in WithPayload =>
              Units(c, n) = HdrUnits + sent[c][n].size /\ sent[c][n].size > 0
         /\ sent[c][n].kind \notin WithPayload => Units(c, n) = HdrUnits
<1>1. sent[c][n] \in HostPackets \cup {Hello}
  BY DEF TypeOK
<1>2. QED
  BY <1>1, PacketTypes DEF Units, HdrUnits

LEMMA ClientsType == Clients \subseteq Nat /\ None \notin Clients
BY PktServerAssumption DEF Clients

\* A client's stream, when something is on its way.
LEMMA StreamTypes ==
  ASSUME TypeOK, StreamInv, NEW c \in Clients
  PROVE  /\ stream[c] \in Seq(Word) /\ Len(stream[c]) \in Nat
         /\ stream[c] # <<>> => Len(stream[c]) > 0
         /\ \A i \in DOMAIN stream[c] :
              /\ stream[c][i] = <<c, stream[c][i][2], stream[c][i][3]>>
              /\ stream[c][i][2] \in 1 .. Len(sent[c])
              /\ stream[c][i][3] \in 1 .. Units(c, stream[c][i][2])
              /\ Units(c, stream[c][i][2]) \in Nat /\ Units(c, stream[c][i][2]) >= HdrUnits
<1>1. stream[c] \in Seq(Word)
  BY DEF TypeOK
<1>2. ASSUME NEW i \in DOMAIN stream[c]
      PROVE  /\ stream[c][i] = <<c, stream[c][i][2], stream[c][i][3]>>
             /\ stream[c][i][2] \in 1 .. Len(sent[c])
             /\ stream[c][i][3] \in 1 .. Units(c, stream[c][i][2])
  <2>1. stream[c][i] \in Word
    BY <1>1
  <2>2. IsWord(stream[c][i]) /\ stream[c][i][1] = c
    BY <1>2 DEF StreamInv, IsRun, IsWhole
  <2> QED  BY <2>1, <2>2 DEF Word, IsWord
<1>3. ASSUME NEW i \in DOMAIN stream[c]
      PROVE  Units(c, stream[c][i][2]) \in Nat /\ Units(c, stream[c][i][2]) >= HdrUnits
  BY <1>2, <1>3, SentTypes
<1> QED  BY <1>1, <1>2, <1>3

\* The packet that the first word on its way from client c belongs to, and how many
\* words of that packet were taken before.
FirstPacket(c) == stream[c][1][2]
TakenOf(c) == stream[c][1][3] - 1

\* The first words of a stream belong to its first packet, as far as that goes; then
\* it is the next one's turn, unless the client is gone or has sent no other.
LEMMA FirstWords ==
  ASSUME TypeOK, StreamInv, NEW c \in Clients, NEW n \in Nat \ {0}, n <= Len(stream[c]),
         TakenOf(c) + n <= Units(c, FirstPacket(c))
  PROVE  /\ \A i \in 1 .. n : stream[c][i] = <<c, FirstPacket(c), TakenOf(c) + i>>
         /\ n < Len(stream[c]) => stream[c][n + 1] = Following(c, FirstPacket(c), TakenOf(c) + n)
         /\ n = Len(stream[c]) =>
              \/ client[c] = "gone"
              \/ TakenOf(c) + n = Units(c, FirstPacket(c)) /\ FirstPacket(c) = Len(sent[c])
<1> DEFINE s == stream[c]
<1>1. Len(s) \in Nat /\ s \in Seq(Word) /\ 1 \in DOMAIN s
  BY StreamTypes
<1>2. PICK m \in Nat, k \in Nat :
        /\ m = FirstPacket(c) /\ k = TakenOf(c)
        /\ s[1][2] = m /\ s[1][3] = k + 1 /\ Units(c, m) \in Nat /\ k + n <= Units(c, m)
  BY <1>1, StreamTypes DEF FirstPacket, TakenOf
<1>3. ASSUME NEW j \in DOMAIN s, 1 <= j, j - 1 <= Units(c, s[1][2]) - s[1][3]
      PROVE  s[j] = <<c, s[1][2], s[1][3] + (j - 1)>>
  BY <1>1, <1>3 DEF StreamInv, IsRun, IsWhole

<1>5. ASSUME NEW j \in DOMAIN s, k + j <= Units(c, m)
      PROVE  s[j] = <<c, m, k + j>>
  <2>0. j \in Nat /\ 1 <= j
    BY <1>1
  <2>4. PICK u : u = Units(c, m)
    OBVIOUS
  <2>5. u \in Nat /\ k + j <= u
    BY <1>2, <1>5, <2>4
  <2>6. (k + 1) + (j - 1) = k + j /\ j - 1 <= u - (k + 1)
    BY <2>0, <2>5
  <2>1. s[1][3] + (j - 1) = k + j /\ j - 1 <= Units(c, s[1][2]) - s[1][3]
    BY <1>2, <2>4, <2>6
  <2>2. s[j] = <<c, s[1][2], s[1][3] + (j - 1)>>
    BY <1>3, <2>0, <2>1
  <2>3. c \in Nat /\ m \in Nat
    BY ClientsType
  <2> QED  BY <1>2, <2>1, <2>2, <2>3
<1>6. ASSUME NEW i \in 1 .. n
      PROVE  s[i] = <<c, m, k + i>>
  <2>1. i \in DOMAIN s /\ k + i <= Units(c, m)
    BY SMTT(30), <1>1, <1>2
  <2> QED  BY <1>5, <2>1
<1>0. n \in DOMAIN s /\ n \in Nat /\ s[n] = <<c, m, k + n>>
  BY <1>1, <1>6
<1>7. n < Len(s) => s[n + 1] = Following(c, m, k + n)
  <2> SUFFICES ASSUME n < Len(s)
               PROVE  s[n + 1] = Following(c, m, k + n)
    OBVIOUS
  <2>1. CASE k + n < Units(c, m)
    <3>1. n + 1 \in DOMAIN s /\ k + (n + 1) <= Units(c, m) /\ k + (n + 1) = (k + n) + 1
      BY SMTT(30), <2>1, <1>1, <1>2
    <3>2. s[n + 1] = <<c, m, (k + n) + 1>>
      BY <1>5, <3>1
    <3> QED  BY <3>2, <2>1 DEF Following
  <2>2. CASE k + n = Units(c, m)
    <3>1. n \in DOMAIN s /\ s[n][2] = m /\ s[n][3] = Units(c, m)
      BY <2>2, <1>0
    <3>2. s[n + 1] = <<c, s[n][2] + 1, 1>>
      BY <3>1 DEF StreamInv, IsRun, IsWhole
    <3> QED  BY <3>1, <3>2, <2>2 DEF Following
  <2> QED  BY <2>1, <2>2, <1>2
<1>8. n = Len(s) => client[c] = "gone" \/ (k + n = Units(c, m) /\ m = Len(sent[c]))
  <2> SUFFICES ASSUME n = Len(s), client[c] # "gone"
               PROVE  k + n = Units(c, m) /\ m = Len(sent[c])
    OBVIOUS
  <2>1. 1 + Units(c, s[1][2]) - s[1][3] <= Len(s)
    BY <1>1 DEF StreamInv, IsRun, IsWhole
  <2>2. s[Len(s)] = <<c, Len(sent[c]), Units(c, Len(sent[c]))>>
    BY <1>1 DEF StreamInv, IsRun, IsWhole
  <2>3. m = Len(sent[c]) /\ k + n = Units(c, Len(sent[c]))
    BY <2>2, <1>0
  <2> QED  BY <2>3
<1> QED  BY <1>2, <1>6, <1>7, <1>8

-------------------------------------------------------------------------------
(* What becomes of the words on their way. *)

\* A part of a run is one; a part at its end is whole if the run is.
LEMMA PartOfRun ==
  ASSUME TypeOK, StreamInv, NEW c \in Clients, NEW a \in Nat \ {0}, NEW b \in 0 .. Len(stream[c])
  PROVE  LET r == SubSeq(stream[c], a, b)
         IN /\ r \in Seq(Word) /\ IsRun(c, r)
            /\ b = Len(stream[c]) /\ client[c] # "gone" => IsWhole(c, r)
<1> DEFINE s == stream[c]
           r == SubSeq(s, a, b)
           l == IF a <= b THEN b - a + 1 ELSE 0
<1>1. Len(s) \in Nat /\ s \in Seq(Word) /\ l \in Nat
  BY StreamTypes
<1>2. r \in Seq(Word) /\ Len(r) = l /\ DOMAIN r = 1 .. l
  BY <1>1
<1>3. \A i \in 1 .. l : r[i] = s[a - 1 + i] /\ a - 1 + i \in DOMAIN s
  BY <1>1
<1> HIDE DEF r, l
<1>4. IsRun(c, s) /\ (client[c] # "gone" => IsWhole(c, s))
  BY DEF StreamInv
<1>5. \A i \in DOMAIN r : IsWord(r[i]) /\ r[i][1] = c
  BY <1>2, <1>3, <1>4 DEF IsRun
<1>6. ASSUME NEW i \in DOMAIN r, NEW j \in DOMAIN r, i <= j, j - i <= Units(c, r[i][2]) - r[i][3]
      PROVE  r[j] = <<c, r[i][2], r[i][3] + (j - i)>>
  <2>1. r[i] = s[a - 1 + i] /\ r[j] = s[a - 1 + j] /\ a - 1 + i \in DOMAIN s /\ a - 1 + j \in DOMAIN s
    BY <1>2, <1>3
  <2>2. i \in Nat /\ j \in Nat /\ a - 1 + i <= a - 1 + j /\ (a - 1 + j) - (a - 1 + i) = j - i
    BY <1>1, <1>2, <1>6
  <2>3. s[a - 1 + j] = <<c, s[a - 1 + i][2], s[a - 1 + i][3] + ((a - 1 + j) - (a - 1 + i))>>
    BY <1>4, <1>6, <2>1, <2>2 DEF IsRun
  <2> QED  BY <2>1, <2>2, <2>3
<1>7. ASSUME NEW i \in DOMAIN r, i < Len(r), r[i][3] = Units(c, r[i][2])
      PROVE  r[i + 1] = <<c, r[i][2] + 1, 1>>
  <2>1. i \in Nat /\ i + 1 \in 1 .. l /\ a - 1 + i \in Nat /\ (a - 1 + i) + 1 = a - 1 + (i + 1)
    BY <1>1, <1>2, <1>7
  <2>2. /\ r[i] = s[a - 1 + i] /\ r[i + 1] = s[(a - 1 + i) + 1]
        /\ a - 1 + i \in DOMAIN s /\ (a - 1 + i) + 1 \in DOMAIN s
    BY <1>2, <1>3, <2>1
  <2>3. a - 1 + i < Len(s)
    BY <1>1, <2>1, <2>2
  <2> QED  BY <1>4, <1>7, <2>2, <2>3 DEF IsRun
<1>8. ASSUME b = Len(s), client[c] # "gone"
      PROVE  IsWhole(c, r)
  <2>1. ASSUME NEW i \in DOMAIN r
        PROVE  i + (Units(c, r[i][2]) - r[i][3]) <= Len(r)
    <3>1. i \in Nat /\ r[i] = s[a - 1 + i] /\ a - 1 + i \in DOMAIN s /\ l = Len(s) - (a - 1)
      BY SMTT(30), <1>1, <1>2, <1>3, <1>8 DEF l
    <3>2. (a - 1 + i) + (Units(c, s[a - 1 + i][2]) - s[a - 1 + i][3]) <= Len(s)
      BY <1>4, <1>8, <3>1 DEF IsWhole
    <3>3. Units(c, s[a - 1 + i][2]) \in Nat /\ s[a - 1 + i][3] \in Nat
      BY <3>1, StreamTypes
    <3>4. i + (Units(c, s[a - 1 + i][2]) - s[a - 1 + i][3]) <= l
      BY SMTT(30), <1>1, <3>1, <3>2, <3>3
    <3> QED  BY <1>2, <3>1, <3>4
  <2>2. ASSUME r # <<>>
        PROVE  r[Len(r)] = s[Len(s)] /\ s # <<>>
    <3>1. l > 0
      BY <1>1, <1>2, <2>2
    <3>2. l \in 1 .. l /\ a - 1 + l = Len(s)
      BY <1>1, <1>8, <3>1 DEF l
    <3>3. r[Len(r)] = s[Len(s)]
      BY <1>2, <1>3, <3>2
    <3>4. Len(s) > 0
      BY <1>1, <1>8, <3>1, <3>2
    <3> QED  BY <3>3, <3>4
  <2> QED  BY <1>4, <1>8, <2>1, <2>2 DEF IsWhole
<1> QED  BY <1>2, <1>5, <1>6, <1>7, <1>8 DEF IsRun, r

HostsInv == TypeOK /\ HostInv /\ StreamInv /\ ConnectionInv

\* Nothing is sent or read, and no client comes back.
LEMMA SameStream ==
  ASSUME StreamInv, UNCHANGED <<sent, stream>>,
         \A d \in Clients : client[d] = "gone" => client'[d] = "gone"
  PROVE  StreamInv'
<1>1. \A c, n : Units(c, n)' = Units(c, n)
  BY DEF Units, PayloadUnits
<1>2. \A c, s : IsRun(c, s)' = IsRun(c, s)
  BY <1>1 DEF IsRun, IsWord
<1>3. \A c, s : IsWhole(c, s)' = IsWhole(c, s)
  BY <1>1 DEF IsWhole
<1> QED  BY <1>2, <1>3 DEF StreamInv

LEMMA SameHosts ==
  ASSUME HostsInv, UNCHANGED <<client, sent, stream, backlog, out, sock>>
  PROVE  HostInv' /\ StreamInv' /\ ConnectionInv'
<1>1. HostInv'
  BY DEF HostsInv, HostInv
<1>2. StreamInv'
  BY SameStream DEF HostsInv
<1>3. ConnectionInv'
  BY DEF HostsInv, ConnectionInv, Unread
<1> QED  BY <1>1, <1>2, <1>3

\* The stream of one client is replaced by a part of it.
LEMMA StreamsStay ==
  ASSUME HostsInv, UNCHANGED <<client, sent>>, NEW d \in Clients, NEW r,
         stream' = [stream EXCEPT ![d] = r], r \in Seq(Word),
         IsRun(d, r), client[d] # "gone" => IsWhole(d, r)
  PROVE  /\ StreamInv' /\ stream' \in [Clients -> Seq(Word)]
         /\ stream'[d] = r /\ \A c \in Clients \ {d} : stream'[c] = stream[c]
<1>1. /\ stream'[d] = r /\ \A c \in Clients \ {d} : stream'[c] = stream[c]
      /\ stream' \in [Clients -> Seq(Word)]
  BY DEF HostsInv, TypeOK
<1>2. ASSUME NEW c \in Clients
      PROVE  IsRun(c, stream'[c]) /\ (client[c] # "gone" => IsWhole(c, stream'[c]))
  BY <1>1 DEF HostsInv, StreamInv
<1>3. ASSUME NEW c \in Clients, NEW s, s = stream'[c]
      PROVE  IsRun(c, s)' /\ (client[c] # "gone" => IsWhole(c, s)')
  <2>1. IsRun(c, s) /\ (client[c] # "gone" => IsWhole(c, s))
    BY <1>2, <1>3
  <2> QED  BY <2>1 DEF IsRun, IsWhole, IsWord, Units, PayloadUnits
<1>4. StreamInv'
  BY <1>3 DEF StreamInv
<1> QED  BY <1>1, <1>4

\* The socket's client is served, and may be lost: the others wait as they did.
LEMMA OthersUnread ==
  ASSUME TypeOK, ConnectionInv, sock \in Clients,
         UNCHANGED <<client, sent, backlog>>,
         \A c \in Clients \ {sock} : stream'[c] = stream[c] /\ out'[c] = out[c],
         sock' = sock \/ (sock' = None /\ client[sock] = "gone")
  PROVE  ConnectionInv'
<1>1. ASSUME NEW c \in Clients, c # sock, Unread(c)
      PROVE  Unread(c)'
  BY <1>1 DEF Unread
<1>2. ASSUME NEW c \in Clients
      PROVE  (/\ client[c] = "out" => c # sock /\ Unread(c) /\ \A i \in DOMAIN backlog : backlog[i] # c
              /\ client[c] = "waiting" => \E i \in DOMAIN backlog : backlog[i] = c
              /\ client[c] = "in" => c = sock)'
  BY <1>1, ClientsType DEF ConnectionInv
<1>3. ASSUME NEW i \in DOMAIN backlog, NEW c, c = backlog[i]
      PROVE  c # sock' /\ Unread(c)'
  <2>1. c \in Clients
    BY <1>3 DEF TypeOK
  <2>2. c # sock /\ Unread(c)
    BY <1>3 DEF ConnectionInv
  <2> QED  BY <1>1, <2>1, <2>2, ClientsType
<1>4. \A i, j \in DOMAIN backlog' : backlog'[i] = backlog'[j] => i = j
  BY DEF ConnectionInv
<1> QED  BY <1>2, <1>3, <1>4 DEF ConnectionInv

\* ExtGetHostPkt
LEMMA TakeHosts ==
  ASSUME HostsInv, NEW n \in Nat \ {0}, Take(n), UNCHANGED <<client, sent, backlog, sock, out>>
  PROVE  /\ HostInv' /\ StreamInv' /\ ConnectionInv'
         /\ stream' \in [Clients -> Seq(Word)] /\ got' \in Seq(Word)
         /\ sock \in Clients /\ n <= Len(stream[sock])
         /\ Len(got') = Len(got) + n
         /\ \A i \in DOMAIN got : got'[i] = got[i]
         /\ \A i \in 1 .. n : got'[Len(got) + i] = stream[sock][i]
         /\ stream'[sock] = SubSeq(stream[sock], n + 1, Len(stream[sock]))
         /\ n < Len(stream[sock]) => stream'[sock] # <<>> /\ stream'[sock][1] = stream[sock][n + 1]
         /\ n = Len(stream[sock]) => stream'[sock] = <<>>
         /\ \A i \in DOMAIN got' : i \in DOMAIN got \/ (i - Len(got) \in 1 .. n)
<1> DEFINE s == stream[sock]
           r == SubSeq(s, n + 1, Len(s))
<1>1. sock \in Clients /\ n <= Len(s) /\ stream' = [stream EXCEPT ![sock] = r]
      /\ got' = got \o SubSeq(s, 1, n)
  BY DEF Take, HostsInv, TypeOK
<1>2. Len(s) \in Nat /\ s \in Seq(Word) /\ got \in Seq(Word)
  BY <1>1, StreamTypes DEF HostsInv, TypeOK
<1>3. r \in Seq(Word) /\ IsRun(sock, r) /\ (client[sock] # "gone" => IsWhole(sock, r))
  BY <1>1, <1>2, PartOfRun DEF HostsInv
<1>4. StreamInv' /\ stream' \in [Clients -> Seq(Word)] /\ stream'[sock] = r
      /\ \A c \in Clients \ {sock} : stream'[c] = stream[c]
  BY <1>1, <1>3, StreamsStay
<1>5. HostInv'
  BY DEF HostsInv, HostInv
<1>6. ConnectionInv'
  BY <1>1, <1>4, OthersUnread DEF HostsInv
<1>7. SubSeq(s, 1, n) \in Seq(Word) /\ Len(SubSeq(s, 1, n)) = n
      /\ \A i \in 1 .. n : SubSeq(s, 1, n)[i] = s[i]
  BY <1>1, <1>2
<1>8. /\ got' \in Seq(Word) /\ Len(got') = Len(got) + n
      /\ \A i \in DOMAIN got : got'[i] = got[i]
      /\ \A i \in 1 .. n : got'[Len(got) + i] = s[i]
      /\ \A i \in DOMAIN got' : i \in DOMAIN got \/ (i - Len(got) \in 1 .. n)
  <2> DEFINE w == SubSeq(s, 1, n)
  <2> HIDE DEF w
  <2>1. w \in Seq(Word) /\ Len(w) = n /\ \A i \in 1 .. n : w[i] = s[i]
    BY <1>7 DEF w
  <2>2. got' = got \o w
    BY <1>1 DEF w
  <2>3. got' \in Seq(Word) /\ Len(got') = Len(got) + n
    BY <2>1, <2>2, <1>2, ConcatProperties
  <2>4. \A i \in DOMAIN got : got'[i] = got[i]
    BY <2>1, <2>2, <1>2
  <2>5. ASSUME NEW i \in 1 .. n
        PROVE  got'[Len(got) + i] = s[i]
    <3>1. /\ Len(got) + i \in 1 .. Len(got) + Len(w) /\ ~(Len(got) + i <= Len(got))
          /\ (Len(got) + i) - Len(got) = i
      BY <2>1, <1>2
    <3>2. got'[Len(got) + i] = w[i]
      BY <3>1, <2>1, <2>2, <1>2
    <3> QED  BY <2>1, <3>2
  <2>6. \A i \in DOMAIN got' : i \in DOMAIN got \/ (i - Len(got) \in 1 .. n)
    BY <2>3, <1>2
  <2> QED  BY <2>3, <2>4, <2>5, <2>6
<1>9. /\ n < Len(s) => r # <<>> /\ r[1] = s[n + 1]
      /\ n = Len(s) => r = <<>>
  <2>1. Len(r) = Len(s) - n /\ (n < Len(s) => r[1] = s[n + 1])
    BY <1>1, <1>2
  <2> HIDE DEF r
  <2>2. Len(r) > 0 => r # <<>>
    BY <1>3
  <2>3. Len(r) = 0 => r = <<>>
    BY <1>3
  <2> QED  BY <1>1, <1>2, <2>1, <2>2, <2>3
<1> QED  BY <1>1, <1>4, <1>5, <1>6, <1>8, <1>9

\* The client is lost.
LEMMA LostHosts ==
  ASSUME HostsInv, sock # None, client[sock] = "gone",
         sock' = None, stream' = [stream EXCEPT ![sock] = <<>>],
         UNCHANGED <<client, sent, backlog, out>>
  PROVE  HostInv' /\ StreamInv' /\ ConnectionInv' /\ stream' \in [Clients -> Seq(Word)]
<1>1. sock \in Clients /\ <<>> \in Seq(Word) /\ IsRun(sock, <<>>)
  BY DEF HostsInv, TypeOK, IsRun
<1>2. StreamInv' /\ stream' \in [Clients -> Seq(Word)]
      /\ \A c \in Clients \ {sock} : stream'[c] = stream[c]
  BY <1>1, StreamsStay
<1>3. HostInv'
  BY DEF HostsInv, HostInv
<1>4. ConnectionInv'
  BY <1>1, <1>2, OthersUnread, ClientsType DEF HostsInv, ConnectionInv
<1> QED  BY <1>2, <1>3, <1>4

\* The client at the socket is answered.
LEMMA AnsweredHosts ==
  ASSUME HostsInv, sock \in Clients, NEW a \in Answer, out' = [out EXCEPT ![sock] = Append(@, a)],
         UNCHANGED <<client, sent, stream, backlog, sock>>
  PROVE  HostInv' /\ StreamInv' /\ ConnectionInv' /\ out' \in [Clients -> Seq(Answer)]
         /\ out'[sock] # <<>> /\ Last(out'[sock]) = a
         /\ \A c \in Clients \ {sock} : out'[c] = out[c]
<1>1. out \in [Clients -> Seq(Answer)]
  BY DEF HostsInv, TypeOK
<1>2. Append(out[sock], a) \in Seq(Answer) /\ Append(out[sock], a) # <<>>
      /\ Append(out[sock], a)[Len(Append(out[sock], a))] = a
  BY <1>1
<1>3. out' \in [Clients -> Seq(Answer)] /\ out'[sock] = Append(out[sock], a)
      /\ \A c \in Clients \ {sock} : out'[c] = out[c]
  BY <1>1, <1>2
<1>4. HostInv'
  BY <1>2, <1>3 DEF HostsInv, HostInv
<1>5. StreamInv'
  BY SameStream DEF HostsInv
<1>6. ConnectionInv'
  BY <1>3, OthersUnread DEF HostsInv
<1> QED  BY <1>2, <1>3, <1>4, <1>5, <1>6 DEF Last

-------------------------------------------------------------------------------
(* What the hosts do. *)

\* Connections stay as they are, and who was not read from is not.
LEMMA UnreadStays ==
  ASSUME TypeOK, ConnectionInv, UNCHANGED <<backlog, sock>>,
         \A d \in Clients : Unread(d) => Unread(d)',
         \A d \in Clients : client'[d] = client[d] \/ (client'[d] = "gone" /\ client[d] # "out")
  PROVE  ConnectionInv'
<1>1. ASSUME NEW c \in Clients
      PROVE  (/\ client[c] = "out" => c # sock /\ Unread(c) /\ \A i \in DOMAIN backlog : backlog[i] # c
              /\ client[c] = "waiting" => \E i \in DOMAIN backlog : backlog[i] = c
              /\ client[c] = "in" => c = sock)'
  BY DEF ConnectionInv
<1>2. ASSUME NEW i \in DOMAIN backlog, NEW c, c = backlog[i]
      PROVE  c # sock /\ Unread(c)'
  <2>1. c \in Clients
    BY <1>2 DEF TypeOK
  <2>2. c # sock /\ Unread(c)
    BY <1>2 DEF ConnectionInv
  <2> QED  BY <2>1, <2>2
<1>3. \A i, j \in DOMAIN backlog' : backlog'[i] = backlog'[j] => i = j
  BY DEF ConnectionInv
<1> QED  BY <1>1, <1>2, <1>3 DEF ConnectionInv

\* A host sends a packet.
LEMMA SendHosts ==
  ASSUME HostsInv, NEW c \in Clients, client[c] \in {"waiting", "in"}, NEW p \in MaySend(c),
         sent' = [sent EXCEPT ![c] = Append(@, p)],
         stream' = [stream EXCEPT ![c] = @ \o Words(c, Len(sent[c]) + 1, p)],
         UNCHANGED <<client, backlog, sock, out>>
  PROVE  /\ HostInv' /\ StreamInv' /\ ConnectionInv'
         /\ sent' \in [Clients -> Seq(HostPackets \cup {Hello})]
         /\ stream' \in [Clients -> Seq(Word)]
         /\ \A d \in Clients \ {c} : stream'[d] = stream[d] /\ sent'[d] = sent[d]
         /\ \A d \in Clients : \A n \in 1 .. Len(sent[d]) : n \in 1 .. Len(sent'[d]) /\ sent'[d][n] = sent[d][n]
         /\ stream'[c] # <<>>
         /\ stream'[c][1] = IF stream[c] = <<>> THEN <<c, Len(sent[c]) + 1, 1>> ELSE stream[c][1]
         /\ sent'[c] # <<>> /\ Len(sent'[c]) = Len(sent[c]) + 1
         /\ sent[c] # <<>> => out[c] # <<>> /\ Last(sent[c]).kind \notin Byes
         /\ \A d \in Clients : Unread(d) => Unread(d)'
<1>0. PICK s, n0, w, r : s = stream[c] /\ n0 = Len(sent[c]) /\ w = Words(c, n0 + 1, p) /\ r = s \o w
  OBVIOUS
<1> DEFINE l == Len(s)
           u == HdrUnits + PayloadUnits(p)
<1>1. /\ p \in HostPackets \cup {Hello} /\ sent[c] \in Seq(HostPackets \cup {Hello}) /\ n0 \in Nat
      /\ IF sent[c] = <<>> THEN p = Hello
         ELSE p \in HostPackets /\ out[c] # <<>> /\ Last(sent[c]).kind \notin Byes
  BY <1>0 DEF MaySend, HostsInv, TypeOK, Byes
<1>2. sent[c] # <<>> => p # Hello
  <2>1. "ext-mode" \notin Kinds /\ \A q \in HostPackets : q.kind \in Kinds
    BY PktServerAssumption DEF Kinds, HeaderOnly, WithPayload
  <2> QED  BY <1>1, <2>1, PacketTypes
<1>3. u \in Nat /\ u >= HdrUnits /\ u > 0
  BY <1>1, PacketTypes DEF HdrUnits
<1>4. /\ sent' \in [Clients -> Seq(HostPackets \cup {Hello})]
      /\ Len(sent'[c]) = n0 + 1 /\ sent'[c][n0 + 1] = p /\ sent'[c] # <<>>
      /\ \A n \in 1 .. n0 : sent'[c][n] = sent[c][n]
      /\ \A d \in Clients \ {c} : sent'[d] = sent[d]
  <2>1. /\ Append(sent[c], p) \in Seq(HostPackets \cup {Hello})
        /\ Len(Append(sent[c], p)) = n0 + 1 /\ Append(sent[c], p)[n0 + 1] = p
        /\ \A n \in 1 .. n0 : Append(sent[c], p)[n] = sent[c][n]
    BY <1>0, <1>1
  <2>2. sent'[c] = Append(sent[c], p) /\ \A d \in Clients \ {c} : sent'[d] = sent[d]
    BY DEF HostsInv, TypeOK
  <2>3. sent' \in [Clients -> Seq(HostPackets \cup {Hello})]
    BY <2>1 DEF HostsInv, TypeOK
  <2>4. Append(sent[c], p) # <<>>
    BY <1>1
  <2> QED  BY <2>1, <2>2, <2>3, <2>4
<1>5. w \in Seq(Word) /\ Len(w) = u /\ \A i \in 1 .. u : w[i] = <<c, n0 + 1, i>>
  <2>1. \A i \in 1 .. u : <<c, n0 + 1, i>> \in Word
    BY <1>1, <1>3 DEF Word
  <2>2. w = [i \in 1 .. u |-> <<c, n0 + 1, i>>]
    BY <1>0 DEF Words
  <2>3. w \in [1 .. u -> Word] /\ \A i \in 1 .. u : w[i] = <<c, n0 + 1, i>>
    BY <2>1, <2>2
  <2>4. w \in Seq(Word)
    BY <1>3, <2>3, SeqDef
  <2>5. Len(w) = u
    BY <1>3, <2>3, <2>4
  <2> QED  BY <2>3, <2>4, <2>5
<1>6. s \in Seq(Word) /\ l \in Nat
  BY <1>0, StreamTypes DEF HostsInv
<1>7. r \in Seq(Word) /\ Len(r) = l + u
      /\ \A i \in 1 .. l + u : r[i] = IF i <= l THEN s[i] ELSE w[i - l]
  <2>1. /\ s \o w \in Seq(Word) /\ Len(s \o w) = l + Len(w)
        /\ \A i \in 1 .. l + Len(w) : (s \o w)[i] = IF i <= l THEN s[i] ELSE w[i - l]
    BY <1>5, <1>6, ConcatProperties
  <2> QED  BY <2>1, <1>0, <1>5
<1>8. /\ \A i \in 1 .. l : r[i] = s[i]
      /\ \A i \in l + 1 .. l + u : r[i] = <<c, n0 + 1, i - l>>
  BY <1>3, <1>5, <1>6, <1>7
<1>9. stream'[c] = r /\ stream' \in [Clients -> Seq(Word)]
      /\ \A d \in Clients \ {c} : stream'[d] = stream[d]
  BY <1>0, <1>7 DEF HostsInv, TypeOK
<1>10. /\ \A n \in 1 .. n0 : Units(c, n)' = Units(c, n)
       /\ Units(c, n0 + 1)' = u
  BY <1>1, <1>4 DEF Units, PayloadUnits
<1>11. client[c] # "gone" /\ IsRun(c, s) /\ IsWhole(c, s)
  BY <1>0 DEF HostsInv, StreamInv
<1>12. \A i \in 1 .. l : /\ s[i][1] = c /\ s[i][2] \in 1 .. n0 /\ s[i][3] \in 1 .. Units(c, s[i][2])
                        /\ Units(c, s[i][2])' = Units(c, s[i][2]) /\ Units(c, s[i][2]) \in Nat
  BY <1>0, <1>6, <1>10, StreamTypes DEF HostsInv
<1>13. \A i \in 1 .. l + u : i \in 1 .. l \/ i \in l + 1 .. l + u
  BY <1>6, <1>3
<1>14. \A i \in DOMAIN r : IsWord(r[i])' /\ r[i][1] = c
  <2>1. ASSUME NEW i \in 1 .. l PROVE IsWord(r[i])' /\ r[i][1] = c
    <3>1. r[i] = s[i] /\ s[i][1] = c /\ s[i][2] \in 1 .. n0 /\ s[i][3] \in 1 .. Units(c, s[i][2])'
      BY <1>8, <1>12
    <3>2. s[i][2] \in 1 .. Len(sent'[c])
      BY <3>1, <1>1, <1>4
    <3> QED  BY <3>1, <3>2 DEF IsWord
  <2>2. ASSUME NEW i \in l + 1 .. l + u PROVE IsWord(r[i])' /\ r[i][1] = c
    BY <1>1, <1>3, <1>4, <1>6, <1>8, <1>10 DEF IsWord
  <2> QED  BY <1>7, <1>13, <2>1, <2>2
<1>15. ASSUME NEW i \in DOMAIN r, NEW j \in DOMAIN r, i <= j, j - i <= Units(c, r[i][2])' - r[i][3]
       PROVE  r[j] = <<c, r[i][2], r[i][3] + (j - i)>>
  <2>1. CASE i \in 1 .. l /\ j \in 1 .. l
    <3>1. /\ r[i] = s[i] /\ r[j] = s[j] /\ Units(c, r[i][2])' = Units(c, s[i][2])
          /\ i \in DOMAIN s /\ j \in DOMAIN s
      BY <1>6, <1>8, <1>12, <2>1
    <3>2. j - i <= Units(c, s[i][2]) - s[i][3]
      BY <1>15, <3>1
    <3> QED  BY <1>11, <1>15, <3>1, <3>2 DEF IsRun
  <2>2. CASE i \in 1 .. l /\ j \in l + 1 .. l + u
    <3>1. i + (Units(c, s[i][2]) - s[i][3]) <= l
      BY <1>6, <1>11, <2>2 DEF IsWhole
    <3>2. j - i <= Units(c, s[i][2]) - s[i][3] /\ s[i][3] \in Nat /\ Units(c, s[i][2]) \in Nat
      BY <1>8, <1>12, <1>15, <2>2
    <3>3. i \in Nat /\ j \in Nat /\ i <= l /\ l + 1 <= j
      BY <2>2, <1>3, <1>6
    <3>4. j - i > Units(c, s[i][2]) - s[i][3]
      BY <3>1, <3>2, <3>3, <1>6
    <3> QED  BY <3>2, <3>3, <3>4
  <2>3. CASE i \in l + 1 .. l + u /\ j \in l + 1 .. l + u
    <3>1. PICK a, b : a = i - l /\ b = j - l
      OBVIOUS
    <3>2. r[i] = <<c, n0 + 1, a>> /\ r[j] = <<c, n0 + 1, b>>
      BY <1>8, <2>3, <3>1
    <3>3. a + (j - i) = b
      BY <1>3, <1>6, <2>3, <3>1
    <3>4. r[i][2] = n0 + 1 /\ r[i][3] = a
      BY <3>2
    <3> QED  BY <3>2, <3>3, <3>4
  <2> QED  BY <1>3, <1>6, <1>7, <1>13, <1>15, <2>1, <2>2, <2>3
<1>16. ASSUME NEW i \in DOMAIN r, i < Len(r), r[i][3] = Units(c, r[i][2])'
       PROVE  r[i + 1] = <<c, r[i][2] + 1, 1>>
  <2>1. CASE i \in 1 .. l /\ i < l
    <3>1. /\ r[i] = s[i] /\ r[i + 1] = s[i + 1] /\ Units(c, r[i][2])' = Units(c, s[i][2])
          /\ i \in DOMAIN s /\ i < Len(s)
      <4>1. i + 1 \in 1 .. l
        BY <1>6, <2>1
      <4> QED  BY <4>1, <1>6, <1>8, <1>12, <2>1
    <3>2. s[i][3] = Units(c, s[i][2])
      BY <1>16, <3>1
    <3> QED  BY <1>11, <3>1, <3>2 DEF IsRun
  <2>2. CASE i \in 1 .. l /\ i = l
    <3>1. s # <<>> /\ s[l] = <<c, n0, Units(c, n0)>>
      BY <1>0, <1>6, <1>11, <2>2 DEF IsWhole
    <3>2. r[i] = s[i] /\ r[i + 1] = <<c, n0 + 1, (i + 1) - l>> /\ (i + 1) - l = 1
      BY <1>3, <1>6, <1>8, <2>2
    <3> QED  BY <3>1, <3>2, <2>2
  <2>3. CASE i \in l + 1 .. l + u
    <3>1. r[i] = <<c, n0 + 1, i - l>>
      BY <1>8, <2>3
    <3>2. i - l = u
      BY <3>1, <1>10, <1>16
    <3> QED  BY <3>2, <1>3, <1>6, <1>7, <1>16, <2>3
  <2> QED  BY <1>3, <1>6, <1>7, <1>13, <1>16, <2>1, <2>2, <2>3
<1>17. ASSUME NEW i \in DOMAIN r
       PROVE  i + (Units(c, r[i][2])' - r[i][3]) <= Len(r)
  <2>1. CASE i \in 1 .. l
    <3>1. i + (Units(c, s[i][2]) - s[i][3]) <= l
      BY <1>6, <1>11, <2>1 DEF IsWhole
    <3>2. r[i] = s[i] /\ Units(c, r[i][2])' = Units(c, s[i][2]) /\ s[i][3] \in Nat /\ Units(c, s[i][2]) \in Nat
      BY <1>8, <1>12, <2>1
    <3>3. i + (Units(c, r[i][2])' - r[i][3]) = i + (Units(c, s[i][2]) - s[i][3])
      BY <3>2
    <3> QED  BY <3>1, <3>2, <3>3, <2>1, <1>3, <1>6, <1>7
  <2>2. CASE i \in l + 1 .. l + u
    <3>1. PICK a : a = i - l
      OBVIOUS
    <3>2. r[i] = <<c, n0 + 1, a>>
      BY <1>8, <2>2, <3>1
    <3>3. Units(c, r[i][2])' = u /\ r[i][3] = a
      BY <1>10, <3>2
    <3>4. i + (u - a) <= l + u
      BY <1>3, <1>6, <2>2, <3>1
    <3> QED  BY <1>7, <3>3, <3>4
  <2> QED  BY <1>7, <1>13, <2>1, <2>2
<1>18. r # <<>> /\ r[Len(r)] = <<c, Len(sent[c])', Units(c, Len(sent[c]))'>>
  <2>1. l + u \in l + 1 .. l + u /\ (l + u) - l = u
    BY <1>3, <1>6
  <2>2. r[Len(r)] = <<c, n0 + 1, u>>
    BY <1>7, <1>8, <2>1
  <2>3. Units(c, Len(sent[c]))' = u
    BY <1>4, <1>10
  <2>4. Len(r) > 0
    BY <1>3, <1>6, <1>7
  <2> QED  BY <1>4, <1>7, <2>2, <2>3, <2>4
<1>19. StreamInv'
  <2>1. ASSUME NEW d \in Clients \ {c}, NEW t, t = stream'[d]
        PROVE  IsRun(d, t)' /\ (client[d] # "gone" => IsWhole(d, t)')
    <3>1. IsRun(d, t) /\ (client[d] # "gone" => IsWhole(d, t)) /\ sent'[d] = sent[d]
      BY <1>4, <1>9, <2>1 DEF HostsInv, StreamInv
    <3> QED  BY <3>1 DEF IsRun, IsWhole, IsWord, Units, PayloadUnits
  <2>2. IsRun(c, r)' /\ IsWhole(c, r)'
    BY <1>14, <1>15, <1>16, <1>17, <1>18 DEF IsRun, IsWhole
  <2> QED  BY <1>9, <2>1, <2>2 DEF StreamInv
<1>20. HostInv'
  <2>1. ASSUME NEW n \in DOMAIN sent'[c]
        PROVE  /\ sent'[c][n] = Hello <=> n = 1
               /\ sent'[c][n].kind \in Byes => n = Len(sent'[c])
    <3>1. CASE n \in 1 .. n0
      <4>1. n \in DOMAIN sent[c] /\ sent'[c][n] = sent[c][n] /\ sent[c] # <<>>
        BY <3>1, <1>0, <1>1, <1>4
      <4>2. sent[c][n].kind \in Byes => n = Len(sent[c])
        BY <4>1 DEF HostsInv, HostInv
      <4>3. sent[c][n].kind \notin Byes
        BY <4>1, <4>2, <1>1 DEF Last
      <4> QED  BY <4>1, <4>3 DEF HostsInv, HostInv
    <3>2. CASE n = n0 + 1
      <4>1. n0 = 0 <=> sent[c] = <<>>
        BY <1>0, <1>1
      <4> QED  BY <3>2, <4>1, <1>1, <1>2, <1>4
    <3> QED  BY <1>1, <1>4, <3>1, <3>2
  <2>2. out[c] = <<>> => Len(sent'[c]) <= 1
    BY <1>0, <1>1, <1>4
  <2>3. ASSUME NEW d \in Clients
        PROVE  (/\ client[d] = "out" => sent[d] = <<>>
                /\ \A n \in DOMAIN sent[d] : sent[d][n] = Hello <=> n = 1
                /\ out[d] = <<>> => Len(sent[d]) <= 1
                /\ \A n \in DOMAIN sent[d] : sent[d][n].kind \in Byes => n = Len(sent[d]))'
    <3>1. CASE d = c
      BY <3>1, <2>1, <2>2
    <3>2. CASE d # c
      BY <3>2, <1>4 DEF HostsInv, HostInv
    <3> QED  BY <3>1, <3>2
  <2> QED  BY <2>3 DEF HostInv
<1>21. r # <<>> /\ r[1] = IF s = <<>> THEN <<c, n0 + 1, 1>> ELSE s[1]
  <2>1. CASE s = <<>>
    <3>1. l = 0 /\ 1 \in l + 1 .. l + u /\ 1 - l = 1
      BY <2>1, <1>3
    <3> QED  BY <3>1, <2>1, <1>8, <1>18
  <2>2. CASE s # <<>>
    BY <2>2, <1>6, <1>8, <1>18
  <2> QED  BY <2>1, <2>2
<1>24. ASSUME NEW d \in Clients, Unread(d)
       PROVE  Unread(d)'
  <2>1. CASE d = c
    <3>1. /\ s # <<>> => s[1] = <<c, 1, 1>>
          /\ s = <<>> => sent[c] = <<>>
          /\ out[c] = <<>>
      BY <2>1, <1>24, <1>0 DEF Unread
    <3>2. sent[c] = <<>> => n0 + 1 = 1
      BY <1>0
    <3>3. r[1] = <<c, 1, 1>>
      BY <3>1, <3>2, <1>21
    <3> QED  BY <2>1, <3>1, <3>3, <1>9, <1>21 DEF Unread
  <2>2. CASE d # c
    BY <2>2, <1>24, <1>4, <1>9 DEF Unread
  <2> QED  BY <2>1, <2>2
<1>22. ConnectionInv'
  BY <1>24, UnreadStays DEF HostsInv
<1>23. \A d \in Clients : \A n \in 1 .. Len(sent[d]) : n \in 1 .. Len(sent'[d]) /\ sent'[d][n] = sent[d][n]
  <2>1. ASSUME NEW n \in 1 .. n0
        PROVE  n \in 1 .. n0 + 1
    BY <1>1
  <2> QED  BY <1>0, <1>4, <2>1
<1> QED  BY <1>0, <1>1, <1>4, <1>9, <1>19, <1>20, <1>21, <1>22, <1>23, <1>24

\* A host connects.
LEMMA ConnectHosts ==
  ASSUME HostsInv, NEW c \in Clients, Connect(c)
  PROVE  /\ HostInv' /\ StreamInv' /\ ConnectionInv'
         /\ client' \in [Clients -> {"out", "waiting", "in", "gone"}] /\ backlog' \in Seq(Clients)
         /\ \A d \in Clients : client'[d] = "in" <=> client[d] = "in"
         /\ \A d \in Clients : client'[d] = "gone" <=> client[d] = "gone"
         /\ c # sock
<1> DEFINE l == Len(backlog)
<1>1. /\ client[c] = "out" /\ UNCHANGED <<sent, stream, sock, out>>
      /\ client' = [client EXCEPT ![c] = "waiting"] /\ backlog' = Append(backlog, c)
  BY DEF Connect, data, work
<1>2. backlog \in Seq(Clients) /\ l \in Nat /\ client \in [Clients -> {"out", "waiting", "in", "gone"}]
  BY DEF HostsInv, TypeOK
<1>3. /\ client'[c] = "waiting" /\ \A d \in Clients \ {c} : client'[d] = client[d]
      /\ client' \in [Clients -> {"out", "waiting", "in", "gone"}]
  BY <1>1, <1>2
<1>4. /\ backlog' \in Seq(Clients) /\ DOMAIN backlog' = 1 .. l + 1 /\ backlog'[l + 1] = c
      /\ \A i \in DOMAIN backlog : i \in DOMAIN backlog' /\ backlog'[i] = backlog[i]
      /\ \A i \in DOMAIN backlog' : i \in DOMAIN backlog \/ i = l + 1
  BY <1>1, <1>2
<1>5. HostInv'
  BY <1>1, <1>3 DEF HostsInv, HostInv
<1>6. StreamInv'
  <2>1. ASSUME NEW d \in Clients, NEW t, t = stream[d]
        PROVE  IsRun(d, t)' /\ (client'[d] # "gone" => IsWhole(d, t)')
    <3>1. IsRun(d, t) /\ (client'[d] # "gone" => IsWhole(d, t))
      BY <2>1, <1>1, <1>3 DEF HostsInv, StreamInv
    <3> QED  BY <3>1, <1>1 DEF IsRun, IsWhole, IsWord, Units, PayloadUnits
  <2> QED  BY <2>1, <1>1 DEF StreamInv
<1>7. c # sock /\ Unread(c) /\ \A i \in DOMAIN backlog : backlog[i] # c
  BY <1>1 DEF HostsInv, ConnectionInv
<1>8. ASSUME NEW d \in Clients, Unread(d)
      PROVE  Unread(d)'
  <2>1. client[d] = "gone" => client'[d] = "gone"
    BY <1>1, <1>3
  <2> QED  BY <1>8, <1>1, <2>1 DEF Unread
<1>9. ASSUME NEW d \in Clients
      PROVE  (/\ client[d] = "out" => d # sock /\ Unread(d) /\ \A i \in DOMAIN backlog : backlog[i] # d
              /\ client[d] = "waiting" => \E i \in DOMAIN backlog : backlog[i] = d
              /\ client[d] = "in" => d = sock)'
  <2>1. CASE d = c
    BY <2>1, <1>2, <1>3, <1>4
  <2>2. CASE d # c
    <3>1. /\ client[d] = "out" => d # sock /\ Unread(d) /\ \A i \in DOMAIN backlog : backlog[i] # d
          /\ client[d] = "waiting" => \E i \in DOMAIN backlog : backlog[i] = d
          /\ client[d] = "in" => d = sock
          /\ client'[d] = client[d]
      BY <2>2, <1>3 DEF HostsInv, ConnectionInv
    <3>2. client'[d] = "out" => \A i \in DOMAIN backlog' : backlog'[i] # d
      BY <3>1, <2>2, <1>4
    <3>3. client'[d] = "waiting" => \E i \in DOMAIN backlog' : backlog'[i] = d
      BY <3>1, <1>4
    <3> QED  BY <3>1, <3>2, <3>3, <1>1, <1>8
  <2> QED  BY <2>1, <2>2
<1>10. ASSUME NEW i \in DOMAIN backlog', NEW d, d = backlog'[i]
       PROVE  d # sock' /\ Unread(d)'
  <2>1. d \in Clients /\ d # sock /\ Unread(d)
    BY <1>2, <1>4, <1>7, <1>10 DEF HostsInv, ConnectionInv
  <2> QED  BY <2>1, <1>1, <1>8
<1>11. \A i, j \in DOMAIN backlog' : backlog'[i] = backlog'[j] => i = j
  BY <1>4, <1>7 DEF HostsInv, ConnectionInv
<1>12. ConnectionInv'
  BY <1>9, <1>10, <1>11 DEF ConnectionInv
<1>13. \A d \in Clients : /\ client'[d] = "in" <=> client[d] = "in"
                          /\ client'[d] = "gone" <=> client[d] = "gone"
  BY <1>1, <1>3
<1> QED  BY <1>3, <1>4, <1>5, <1>6, <1>7, <1>12, <1>13

\* A host goes, and what is on its way may be cut off.
LEMMA GoneHosts ==
  ASSUME HostsInv, NEW c \in Clients, HostGone(c)
  PROVE  /\ HostInv' /\ StreamInv' /\ ConnectionInv'
         /\ client' \in [Clients -> {"out", "waiting", "in", "gone"}]
         /\ stream' \in [Clients -> Seq(Word)]
         /\ client'[c] = "gone" /\ \A d \in Clients \ {c} : client'[d] = client[d]
         /\ stream'[c] # <<>> => stream[c] # <<>> /\ stream'[c][1] = stream[c][1]
         /\ \A d \in Clients \ {c} : stream'[d] = stream[d]
<1>1. /\ client[c] \in {"waiting", "in"} /\ UNCHANGED <<sent, backlog, sock, out>>
      /\ client' = [client EXCEPT ![c] = "gone"]
  BY DEF HostGone, data, work
<1>2. PICK n \in 0 .. Len(stream[c]) : stream' = [stream EXCEPT ![c] = SubSeq(@, 1, n)]
  BY DEF HostGone
<1>3. PICK s, r : s = stream[c] /\ r = SubSeq(s, 1, n)
  OBVIOUS
<1>4. s \in Seq(Word) /\ Len(s) \in Nat /\ n \in Nat /\ n <= Len(s)
  BY <1>3, StreamTypes DEF HostsInv
<1>5. r \in Seq(Word) /\ IsRun(c, r)
  BY <1>3, <1>4, PartOfRun DEF HostsInv
<1>6. r # <<>> => s # <<>> /\ r[1] = s[1]
  <2>1. Len(r) = n /\ \A i \in 1 .. n : r[i] = s[i]
    BY <1>3, <1>4
  <2>2. r # <<>> => n > 0
    BY <1>4, <1>5, <2>1
  <2>3. s = <<>> => Len(s) = 0
    OBVIOUS
  <2> QED  BY <1>4, <2>1, <2>2, <2>3
<1>7. /\ client'[c] = "gone" /\ \A d \in Clients \ {c} : client'[d] = client[d]
      /\ client' \in [Clients -> {"out", "waiting", "in", "gone"}]
  BY <1>1 DEF HostsInv, TypeOK
<1>8. /\ stream'[c] = r /\ \A d \in Clients \ {c} : stream'[d] = stream[d]
      /\ stream' \in [Clients -> Seq(Word)]
  BY <1>2, <1>3, <1>5 DEF HostsInv, TypeOK
<1>9. HostInv'
  BY <1>1, <1>7 DEF HostsInv, HostInv
<1>10. StreamInv'
  <2>1. ASSUME NEW d \in Clients, NEW t, t = stream'[d]
        PROVE  IsRun(d, t)' /\ (client'[d] # "gone" => IsWhole(d, t)')
    <3>1. IsRun(d, t) /\ (client'[d] # "gone" => IsWhole(d, t))
      BY <2>1, <1>5, <1>7, <1>8 DEF HostsInv, StreamInv
    <3> QED  BY <3>1, <1>1 DEF IsRun, IsWhole, IsWord, Units, PayloadUnits
  <2> QED  BY <2>1 DEF StreamInv
<1>11. ConnectionInv'
  <2>1. ASSUME NEW d \in Clients, Unread(d)
        PROVE  Unread(d)'
    <3>1. CASE d = c
      BY <3>1, <2>1, <1>1, <1>3, <1>6, <1>7, <1>8 DEF Unread
    <3>2. CASE d # c
      BY <3>2, <2>1, <1>1, <1>7, <1>8 DEF Unread
    <3> QED  BY <3>1, <3>2
  <2> QED  BY <2>1, <1>1, <1>7, UnreadStays DEF HostsInv
<1> QED  BY <1>3, <1>6, <1>7, <1>8, <1>9, <1>10, <1>11

\* The next client is accepted.
LEMMA AcceptHosts ==
  ASSUME HostsInv, Accept
  PROVE  /\ HostInv' /\ StreamInv' /\ ConnectionInv'
         /\ client' \in [Clients -> {"out", "waiting", "in", "gone"}] /\ backlog' \in Seq(Clients)
         /\ sock' \in Clients /\ Unread(sock)' /\ client'[sock'] \in {"in", "gone"}
         /\ \A d \in Clients \ {sock'} : client'[d] = client[d] /\ client'[d] # "in"
<1> DEFINE l == Len(backlog)
<1>0. PICK c : c = Head(backlog)
  OBVIOUS
<1>1. /\ sock = None /\ backlog # <<>> /\ UNCHANGED <<sent, stream, out>>
      /\ sock' = c /\ backlog' = Tail(backlog)
      /\ client' = [client EXCEPT ![c] = IF @ = "waiting" THEN "in" ELSE @]
  BY <1>0 DEF Accept, data, work
<1>2. backlog \in Seq(Clients) /\ l \in Nat /\ client \in [Clients -> {"out", "waiting", "in", "gone"}]
  BY DEF HostsInv, TypeOK
<1>3. /\ backlog' \in Seq(Clients) /\ l > 0 /\ c = backlog[1] /\ DOMAIN backlog' = 1 .. l - 1
      /\ \A i \in 1 .. l - 1 : i + 1 \in 1 .. l /\ backlog'[i] = backlog[i + 1]
  BY <1>0, <1>1, <1>2
<1>4. c \in Clients /\ 1 \in DOMAIN backlog /\ c # None
  BY <1>2, <1>3, ClientsType
<1>5. /\ client'[c] = (IF client[c] = "waiting" THEN "in" ELSE client[c])
      /\ \A d \in Clients \ {c} : client'[d] = client[d]
      /\ client' \in [Clients -> {"out", "waiting", "in", "gone"}]
  BY <1>1, <1>2, <1>4
<1>6. Unread(c) /\ client[c] # "out" /\ client[c] # "in"
  BY <1>1, <1>3, <1>4 DEF HostsInv, ConnectionInv
<1>7. client'[c] \in {"in", "gone"} /\ \A d \in Clients \ {c} : client'[d] # "in"
  <2>1. \A d \in Clients : client[d] = "in" => d = None
    BY <1>1 DEF HostsInv, ConnectionInv
  <2> QED  BY <1>2, <1>4, <1>5, <1>6, <2>1, ClientsType
<1>8. HostInv'
  BY <1>1, <1>5 DEF HostsInv, HostInv
<1>9. StreamInv'
  <2>1. \A d \in Clients : client[d] = "gone" => client'[d] = "gone"
    BY <1>4, <1>5
  <2> QED  BY <1>1, <2>1, SameStream DEF HostsInv
<1>10. ASSUME NEW d \in Clients, Unread(d)
       PROVE  Unread(d)'
  <2>1. client[d] = "gone" => client'[d] = "gone"
    BY <1>4, <1>5
  <2> QED  BY <1>1, <1>10, <2>1 DEF Unread
<1>11. \A i, j \in DOMAIN backlog : backlog[i] = backlog[j] => i = j
  BY DEF HostsInv, ConnectionInv
<1>12. ASSUME NEW d \in Clients
       PROVE  (/\ client[d] = "out" => d # sock /\ Unread(d) /\ \A i \in DOMAIN backlog : backlog[i] # d
               /\ client[d] = "waiting" => \E i \in DOMAIN backlog : backlog[i] = d
               /\ client[d] = "in" => d = sock)'
  <2>1. CASE d = c
    BY <2>1, <1>1, <1>7
  <2>2. CASE d # c
    <3>1. /\ client[d] = "out" => Unread(d) /\ \A i \in DOMAIN backlog : backlog[i] # d
          /\ client[d] = "waiting" => \E i \in DOMAIN backlog : backlog[i] = d
          /\ client'[d] = client[d] /\ client'[d] # "in"
      BY <2>2, <1>5, <1>7 DEF HostsInv, ConnectionInv
    <3>2. client'[d] = "out" => \A i \in DOMAIN backlog' : backlog'[i] # d
      BY <3>1, <1>2, <1>3
    <3>3. client'[d] = "waiting" => \E i \in DOMAIN backlog' : backlog'[i] = d
      <4> SUFFICES ASSUME client'[d] = "waiting"
                   PROVE  \E i \in DOMAIN backlog' : backlog'[i] = d
        OBVIOUS
      <4>1. PICK i \in DOMAIN backlog : backlog[i] = d
        BY <3>1
      <4>2. i \in Nat /\ i # 1 /\ i - 1 \in 1 .. l - 1 /\ (i - 1) + 1 = i
        BY <4>1, <2>2, <1>2, <1>3
      <4> QED  BY <4>1, <4>2, <1>3
    <3> QED  BY <3>1, <3>2, <3>3, <2>2, <1>1, <1>10
  <2> QED  BY <2>1, <2>2
<1>13. ASSUME NEW i \in DOMAIN backlog', NEW d, d = backlog'[i]
       PROVE  d # sock' /\ Unread(d)'
  <2>1. i + 1 \in DOMAIN backlog /\ d = backlog[i + 1] /\ i + 1 # 1
    BY <1>2, <1>3, <1>13
  <2>2. d \in Clients /\ Unread(d) /\ d # c
    BY <2>1, <1>2, <1>3, <1>4, <1>11 DEF HostsInv, ConnectionInv
  <2> QED  BY <2>2, <1>1, <1>10
<1>14. \A i, j \in DOMAIN backlog' : backlog'[i] = backlog'[j] => i = j
  <2> SUFFICES ASSUME NEW i \in DOMAIN backlog', NEW j \in DOMAIN backlog', backlog'[i] = backlog'[j]
               PROVE  i = j
    OBVIOUS
  <2>1. i \in 1 .. l - 1 /\ j \in 1 .. l - 1
    BY <1>3
  <2>2. i + 1 \in DOMAIN backlog /\ j + 1 \in DOMAIN backlog /\ backlog[i + 1] = backlog[j + 1]
    BY <2>1, <1>2, <1>3
  <2>3. i + 1 = j + 1
    BY <2>2, <1>11
  <2> QED  BY <2>1, <2>3
<1>15. ConnectionInv'
  BY <1>12, <1>13, <1>14 DEF ConnectionInv
<1>16. Unread(sock)'
  BY <1>1, <1>4, <1>6, <1>10
<1> QED  BY <1>1, <1>3, <1>4, <1>5, <1>7, <1>8, <1>9, <1>15, <1>16

-------------------------------------------------------------------------------
(* What stays. *)

\* Client c was answered its first n packets.
InOrder(c, n) ==
  /\ Len(out[c]) = Asked(c, n)
  /\ \A i \in 1 .. n : ToBeAnswered(sent[c][i]) => out[c][Asked(c, i)][1] = AnswerTo(sent[c][i])

LEMMA HandledType ==
  ASSUME TypeOK, StreamInv, PlaceInv, NEW c \in Clients
  PROVE  Handled(c) \in Nat /\ Handled(c) <= Len(sent[c])
<1>1. Len(sent[c]) \in Nat
  BY DEF TypeOK
<1>2. CASE got # <<>> /\ got[1][1] = c
  <2>1. 1 \in DOMAIN got
    BY <1>2 DEF TypeOK
  <2>2. got[1][2] \in 1 .. Len(sent[c])
    BY <2>1, <1>2 DEF PlaceInv, IsWord
  <2> QED  BY <1>1, <1>2, <2>2 DEF Handled
<1>3. CASE ~(got # <<>> /\ got[1][1] = c)
  <2>1. CASE stream[c] = <<>>
    BY <1>1, <1>3, <2>1 DEF Handled
  <2>2. CASE stream[c] # <<>>
    <3>1. 1 \in DOMAIN stream[c] /\ Head(stream[c]) = stream[c][1]
      BY <2>2, StreamTypes
    <3>2. stream[c][1][2] \in 1 .. Len(sent[c])
      BY <3>1, StreamTypes
    <3>3. Handled(c) = stream[c][1][2] - 1
      BY <1>3, <2>2, <3>1 DEF Handled
    <3> QED  BY <1>1, <3>2, <3>3
  <2> QED  BY <2>1, <2>2
<1> QED  BY <1>2, <1>3

LEMMA SameOrder ==
  ASSUME NEW c \in Clients, NEW n \in Nat, InOrder(c, n), out'[c] = out[c],
         \A i \in 1 .. n : sent'[c][i] = sent[c][i]
  PROVE  InOrder(c, n)'
<1>1. ASSUME NEW k \in 0 .. n
      PROVE  Asked(c, k)' = Asked(c, k)
  <2>1. {i \in 1 .. k : ToBeAnswered(sent'[c][i])} = {i \in 1 .. k : ToBeAnswered(sent[c][i])}
    OBVIOUS
  <2> QED  BY <2>1 DEF Asked
<1>2. Asked(c, n)' = Asked(c, n)
  BY <1>1
<1>3. ASSUME NEW i \in 1 .. n, ToBeAnswered(sent'[c][i])
      PROVE  out'[c][Asked(c, i)'][1] = AnswerTo(sent'[c][i])
  <2>1. Asked(c, i)' = Asked(c, i)
    BY <1>1
  <2> QED  BY <1>3, <2>1 DEF InOrder
<1> QED  BY <1>2, <1>3 DEF InOrder

\* Nobody is answered, and nothing is done with.
LEMMA OrderStays ==
  ASSUME TypeOK, StreamInv, PlaceInv, AnswersInOrder,
         orderly' /\ pc' # "done" =>
           /\ orderly /\ pc # "done"
           /\ \A c \in Clients : client'[c] = "in" =>
                /\ client[c] = "in" /\ Handled(c)' = Handled(c) /\ out'[c] = out[c]
                /\ \A i \in 1 .. Handled(c) : sent'[c][i] = sent[c][i]
  PROVE  AnswersInOrder'
<1>1. ASSUME orderly', pc' # "done", NEW c \in Clients, client'[c] = "in", NEW n, n = Handled(c)
      PROVE  InOrder(c, n)' /\ n = Handled(c)'
  <2>1. n \in Nat
    BY <1>1, HandledType
  <2>2. InOrder(c, n)
    BY <1>1 DEF AnswersInOrder, InOrder
  <2> QED  BY <1>1, <2>1, <2>2, SameOrder
<1> QED  BY <1>1 DEF AnswersInOrder, InOrder

LEMMA SameData ==
  ASSUME MemInv, AnswerInv, UNCHANGED <<mem, view>>,
         pc' = "answer" /\ kind' = "getParams" =>
           answer' = answer /\ (answer = NoAnswer \/ (pc = "answer" /\ kind = "getParams"))
  PROVE  MemInv' /\ AnswerInv'
<1>1. MemInv'
  BY DEF MemInv
<1>2. CASE pc' = "answer" /\ kind' = "getParams" /\ answer = NoAnswer
  <2>1. answer'.parts = 0 /\ answer'.bytes = <<>>
    BY <1>2 DEF NoAnswer
  <2> QED  BY <1>1, <1>2, <2>1 DEF AnswerInv
<1>3. CASE pc = "answer" /\ kind = "getParams" /\ answer' = answer
  BY <1>1, <1>3 DEF AnswerInv
<1>4. CASE ~(pc' = "answer" /\ kind' = "getParams")
  BY <1>1, <1>4 DEF AnswerInv
<1> QED  BY <1>2, <1>3, <1>4

LEMMA SendsOfType == \A k : SendsOf(k) \in Nat \ {0}
<1>1. Len(Transitions) \in Nat
  BY PktServerAssumption
<1> QED  BY <1>1 DEF SendsOf

-------------------------------------------------------------------------------
(* The actions of the hosts, and the next client. *)

LEMMA ConnectStep ==
  ASSUME IInv, NEW c \in Clients, Connect(c)
  PROVE  IInv'
<1>1. /\ HostInv' /\ StreamInv' /\ ConnectionInv'
      /\ client' \in [Clients -> {"out", "waiting", "in", "gone"}] /\ backlog' \in Seq(Clients)
      /\ \A d \in Clients : client'[d] = "in" <=> client[d] = "in"
      /\ \A d \in Clients : client'[d] = "gone" <=> client[d] = "gone"
      /\ c # sock
  BY ConnectHosts DEF IInv, HostsInv
<1>2. UNCHANGED <<sent, stream, sock, commInitialized, work, data, out, orderly>>
  BY DEF Connect
<1>3. TypeOK'
  BY <1>1, <1>2 DEF IInv, TypeOK, work, data, Bytes, Elements, Width
<1>4. PlaceInv'
  BY <1>2 DEF IInv, PlaceInv, work, data, IsWord, Units, PayloadUnits
<1>5. OrderlyInv'
  <2> SUFFICES ASSUME orderly', pc' # "done"
               PROVE  /\ got' # <<>> => sock' # None /\ PacketInv'
                      /\ got' = <<>> => /\ pc' = "header" \/ (pc' = "answer" /\ kind' = "shutdown")
                                        /\ sock' # None /\ stream'[sock'] # <<>> => stream'[sock'][1][3] = 1
                      /\ SessionInv'
    BY DEF OrderlyInv
  <2>1. /\ got # <<>> => sock # None /\ PacketInv
        /\ got = <<>> => /\ pc = "header" \/ (pc = "answer" /\ kind = "shutdown")
                         /\ sock # None /\ stream[sock] # <<>> => stream[sock][1][3] = 1
        /\ SessionInv
    BY <1>2 DEF IInv, OrderlyInv, work
  <2>2. sock # None => sock \in Clients /\ (client'[sock] = "gone" <=> client[sock] = "gone")
    BY <1>1 DEF IInv, TypeOK
  <2>3. got # <<>> => PacketInv'
    BY <1>2, <2>1, <2>2 DEF PacketInv, work, OnePacket, Units, PayloadUnits, Following
  <2>4. SessionInv'
    BY <1>2, <2>1, <2>2 DEF SessionInv, work, Unread
  <2> QED  BY <1>2, <2>1, <2>3, <2>4 DEF work
<1>6. AnswersInOrder'
  <2>1. \A d \in Clients : Handled(d)' = Handled(d)
    BY <1>2 DEF Handled, work
  <2> QED  BY <1>1, <1>2, <2>1, OrderStays DEF IInv, work
<1>7. MemInv' /\ AnswerInv'
  BY <1>2, SameData DEF IInv, work, data
<1> QED  BY <1>1, <1>3, <1>4, <1>5, <1>6, <1>7 DEF IInv

LEMMA HostSendStep ==
  ASSUME IInv, NEW c \in Clients, HostSend(c)
  PROVE  IInv'
<1>0. PICK p \in MaySend(c) :
        /\ sent' = [sent EXCEPT ![c] = Append(@, p)]
        /\ stream' = [stream EXCEPT ![c] = @ \o Words(c, Len(sent[c]) + 1, p)]
  BY DEF HostSend
<1>1. /\ client[c] \in {"waiting", "in"}
      /\ UNCHANGED <<client, backlog, sock, commInitialized, work, data, out, orderly>>
  BY DEF HostSend
<1>2. /\ HostInv' /\ StreamInv' /\ ConnectionInv'
      /\ sent' \in [Clients -> Seq(HostPackets \cup {Hello})]
      /\ stream' \in [Clients -> Seq(Word)]
      /\ \A d \in Clients \ {c} : stream'[d] = stream[d] /\ sent'[d] = sent[d]
      /\ \A d \in Clients : \A n \in 1 .. Len(sent[d]) : n \in 1 .. Len(sent'[d]) /\ sent'[d][n] = sent[d][n]
      /\ stream'[c] # <<>>
      /\ stream'[c][1] = IF stream[c] = <<>> THEN <<c, Len(sent[c]) + 1, 1>> ELSE stream[c][1]
      /\ sent'[c] # <<>> /\ Len(sent'[c]) = Len(sent[c]) + 1
      /\ sent[c] # <<>> => out[c] # <<>> /\ Last(sent[c]).kind \notin Byes
      /\ \A d \in Clients : Unread(d) => Unread(d)'
  BY <1>0, <1>1, SendHosts DEF IInv, HostsInv
<1>3. TypeOK'
  BY <1>1, <1>2 DEF IInv, TypeOK, work, data, Bytes, Elements, Width
<1>4. \A d \in Clients : \A n \in 1 .. Len(sent[d]) : Units(d, n)' = Units(d, n)
  BY <1>2 DEF Units, PayloadUnits
<1>5. \A w : IsWord(w) => IsWord(w)'
  BY <1>2, <1>4 DEF IsWord
<1>6. PlaceInv'
  BY <1>1, <1>5 DEF IInv, PlaceInv, work
<1>7. OrderlyInv'
  <2> SUFFICES ASSUME orderly', pc' # "done"
               PROVE  /\ got' # <<>> => sock' # None /\ PacketInv'
                      /\ got' = <<>> => /\ pc' = "header" \/ (pc' = "answer" /\ kind' = "shutdown")
                                        /\ sock' # None /\ stream'[sock'] # <<>> => stream'[sock'][1][3] = 1
                      /\ SessionInv'
    BY DEF OrderlyInv
  <2>1. /\ got # <<>> => sock # None /\ PacketInv
        /\ got = <<>> => /\ pc = "header" \/ (pc = "answer" /\ kind = "shutdown")
                         /\ sock # None /\ stream[sock] # <<>> => stream[sock][1][3] = 1
        /\ SessionInv
    BY <1>1 DEF IInv, OrderlyInv, work
  <2>2. sock # None => sock \in Clients
    BY DEF IInv, TypeOK
  <2>3. ASSUME got # <<>>
        PROVE  PacketInv'
    <3>1. PICK n : n = got[1][2]
      OBVIOUS
    <3>2. sock \in Clients /\ PacketInv
      BY <2>1, <2>2, <2>3
    <3>3. n \in 1 .. Len(sent[sock])
      <4>1. 1 \in DOMAIN got
        BY <2>3 DEF IInv, TypeOK
      <4> QED  BY <3>1, <3>2, <4>1 DEF IInv, PlaceInv, IsWord, PacketInv
    <3>4. Units(sock, n)' = Units(sock, n) /\ sent'[sock][n] = sent[sock][n]
      BY <1>1, <1>2, <1>4, <3>2, <3>3
    <3>5. Following(sock, n, Len(got))' = Following(sock, n, Len(got))
      BY <1>1, <3>4 DEF Following, work
    <3>6. stream'[sock] # <<>> => stream'[sock][1] = Following(sock, n, Len(got))
      <4>1. CASE sock = c /\ stream[sock] = <<>>
        <5>1. Len(got) = Units(sock, n) /\ n = Len(sent[sock]) /\ Len(got) \in Nat
          BY <1>1, <3>1, <3>2, <4>1 DEF PacketInv, IInv, TypeOK
        <5>2. Following(sock, n, Len(got)) = <<sock, n + 1, 1>>
          BY <5>1 DEF Following
        <5> QED  BY <1>2, <4>1, <5>1, <5>2
      <4>2. CASE ~(sock = c /\ stream[sock] = <<>>)
        BY <1>2, <3>1, <3>2, <4>2 DEF PacketInv
      <4> QED  BY <4>1, <4>2
    <3>7. stream'[sock] = <<>> => client[sock] = "gone" \/ (Len(got) = Units(sock, n) /\ n = Len(sent'[sock]))
      <4>1. CASE sock = c
        BY <4>1, <1>2
      <4>2. CASE sock # c
        BY <1>2, <3>1, <3>2, <4>2 DEF PacketInv
      <4> QED  BY <4>1, <4>2
    <3> QED
      BY <1>1, <3>1, <3>2, <3>4, <3>5, <3>6, <3>7 DEF PacketInv, work, OnePacket
  <2>4. ASSUME got = <<>>, sock # None, stream'[sock] # <<>>
        PROVE  stream'[sock][1][3] = 1
    BY <1>2, <2>1, <2>2, <2>4
  <2>5. SessionInv'
    <3>1. CASE commInitialized
      <4>1. /\ sock \in Clients /\ out[sock] # <<>> /\ Last(out[sock])[1] # "disconnect"
            /\ sent[sock] # <<>>
            /\ IF got # <<>> THEN got[1][2] > 1 ELSE stream[sock] # <<>> => stream[sock][1][2] > 1
        BY <2>1, <2>2, <3>1 DEF SessionInv
      <4>2. sent'[sock] # <<>>
        BY <1>2, <4>1
      <4>3. got = <<>> /\ stream'[sock] # <<>> => stream'[sock][1][2] > 1
        <5>1. Len(sent[sock]) \in Nat /\ Len(sent[sock]) # 0
          BY <4>1 DEF IInv, TypeOK
        <5> QED  BY <1>2, <4>1, <5>1
      <4> QED  BY <1>1, <3>1, <4>1, <4>2, <4>3, ClientsType DEF SessionInv, work
    <3>2. CASE ~commInitialized /\ sock # None /\ got # <<>>
      BY <1>1, <2>1, <3>2 DEF SessionInv, work
    <3>3. CASE ~commInitialized /\ sock # None /\ got = <<>>
      <4>1. \/ Unread(sock)
            \/ /\ stream[sock] = <<>>
               /\ client[sock] = "gone" \/ (sent[sock] # <<>> /\ Last(sent[sock]).kind \in Byes)
        BY <2>1, <3>3 DEF SessionInv
      <4>2. \/ Unread(sock)'
            \/ /\ stream'[sock] = <<>>
               /\ client[sock] = "gone" \/ (sent'[sock] # <<>> /\ Last(sent'[sock]).kind \in Byes)
        BY <1>1, <1>2, <2>2, <3>3, <4>1
      <4> QED  BY <1>1, <3>3, <4>2 DEF SessionInv, work
    <3>4. CASE ~commInitialized /\ sock = None
      BY <1>1, <3>4 DEF SessionInv
    <3> QED  BY <3>1, <3>2, <3>3, <3>4
  <2> QED  BY <1>1, <2>1, <2>3, <2>4, <2>5 DEF work
<1>8. AnswersInOrder'
  <2>1. ASSUME NEW d \in Clients
        PROVE  Handled(d)' = Handled(d)
    <3>1. CASE d = c
      <4>1. stream[c] # <<>> => Head(stream[c]) = stream[c][1]
        OBVIOUS
      <4>2. Head(stream'[c]) = stream'[c][1]
        OBVIOUS
      <4>3. Len(sent[c]) \in Nat
        BY DEF IInv, TypeOK
      <4>4. stream[c] = <<>> => Head(stream'[c])[2] - 1 = Len(sent[c])
        BY <1>2, <4>2, <4>3
      <4> QED  BY <1>1, <1>2, <3>1, <4>1, <4>2, <4>4 DEF Handled, work
    <3>2. CASE d # c
      BY <1>1, <1>2, <3>2 DEF Handled, work
    <3> QED  BY <3>1, <3>2
  <2>2. ASSUME NEW d \in Clients, NEW i \in 1 .. Handled(d)
        PROVE  sent'[d][i] = sent[d][i]
    <3>1. Handled(d) \in Nat /\ Handled(d) <= Len(sent[d]) /\ Len(sent[d]) \in Nat
      BY HandledType DEF IInv, TypeOK
    <3>2. i \in 1 .. Len(sent[d])
      BY <3>1
    <3> QED  BY <1>2, <3>2
  <2> QED  BY <1>1, <2>1, <2>2, OrderStays DEF IInv, work
<1>9. MemInv' /\ AnswerInv'
  BY <1>1, SameData DEF IInv, work, data
<1> QED  BY <1>2, <1>3, <1>6, <1>7, <1>8, <1>9 DEF IInv

LEMMA HostGoneStep ==
  ASSUME IInv, NEW c \in Clients, HostGone(c)
  PROVE  IInv'
<1>1. UNCHANGED <<sent, backlog, sock, commInitialized, work, data, out, orderly>>
  BY DEF HostGone
<1>2. /\ HostInv' /\ StreamInv' /\ ConnectionInv'
      /\ client' \in [Clients -> {"out", "waiting", "in", "gone"}]
      /\ stream' \in [Clients -> Seq(Word)]
      /\ client'[c] = "gone" /\ \A d \in Clients \ {c} : client'[d] = client[d]
      /\ stream'[c] # <<>> => stream[c] # <<>> /\ stream'[c][1] = stream[c][1]
      /\ \A d \in Clients \ {c} : stream'[d] = stream[d]
  BY GoneHosts DEF IInv, HostsInv
<1>3. TypeOK'
  BY <1>1, <1>2 DEF IInv, TypeOK, work, data, Bytes, Elements, Width
<1>4. PlaceInv'
  BY <1>1 DEF IInv, PlaceInv, work, IsWord, Units, PayloadUnits
<1>5. OrderlyInv'
  <2> SUFFICES ASSUME orderly', pc' # "done"
               PROVE  /\ got' # <<>> => sock' # None /\ PacketInv'
                      /\ got' = <<>> => /\ pc' = "header" \/ (pc' = "answer" /\ kind' = "shutdown")
                                        /\ sock' # None /\ stream'[sock'] # <<>> => stream'[sock'][1][3] = 1
                      /\ SessionInv'
    BY DEF OrderlyInv
  <2>1. /\ got # <<>> => sock # None /\ PacketInv
        /\ got = <<>> => /\ pc = "header" \/ (pc = "answer" /\ kind = "shutdown")
                         /\ sock # None /\ stream[sock] # <<>> => stream[sock][1][3] = 1
        /\ SessionInv
    BY <1>1 DEF IInv, OrderlyInv, work
  <2>2. ASSUME sock # None
        PROVE  /\ stream'[sock] # <<>> => stream[sock] # <<>> /\ stream'[sock][1] = stream[sock][1]
               /\ stream'[sock] = <<>> => client'[sock] = "gone" \/ stream[sock] = <<>>
               /\ client[sock] = "gone" => client'[sock] = "gone"
    <3>1. sock \in Clients
      BY <2>2 DEF IInv, TypeOK
    <3> QED  BY <3>1, <1>2
  <2>3. got # <<>> => PacketInv'
    BY <1>1, <2>1, <2>2 DEF PacketInv, work, OnePacket, Units, PayloadUnits, Following
  <2>4. SessionInv'
    BY <1>1, <2>1, <2>2 DEF SessionInv, work, Unread
  <2> QED  BY <1>1, <2>1, <2>2, <2>3, <2>4 DEF work
<1>6. AnswersInOrder'
  <2>1. \A d \in Clients : client'[d] = "in" => client[d] = "in" /\ Handled(d)' = Handled(d)
    BY <1>1, <1>2 DEF Handled, work
  <2> QED  BY <1>1, <2>1, OrderStays DEF IInv, work
<1>7. MemInv' /\ AnswerInv'
  BY <1>1, SameData DEF IInv, work, data
<1> QED  BY <1>2, <1>3, <1>4, <1>5, <1>6, <1>7 DEF IInv

LEMMA AcceptStep ==
  ASSUME IInv, Accept
  PROVE  IInv'
<1>1. /\ sock = None
      /\ UNCHANGED <<sent, stream, commInitialized, work, data, out, orderly>>
  BY DEF Accept
<1>2. /\ HostInv' /\ StreamInv' /\ ConnectionInv'
      /\ client' \in [Clients -> {"out", "waiting", "in", "gone"}] /\ backlog' \in Seq(Clients)
      /\ sock' \in Clients /\ Unread(sock)' /\ client'[sock'] \in {"in", "gone"}
      /\ \A d \in Clients \ {sock'} : client'[d] = client[d] /\ client'[d] # "in"
  BY AcceptHosts DEF IInv, HostsInv
<1>3. TypeOK'
  BY <1>1, <1>2 DEF IInv, TypeOK, work, data, Bytes, Elements, Width
<1>4. PlaceInv'
  BY <1>1 DEF IInv, PlaceInv, work, IsWord, Units, PayloadUnits
<1>5. ASSUME orderly, pc # "done"
      PROVE  /\ got = <<>> /\ ~commInitialized
             /\ pc = "header" \/ (pc = "answer" /\ kind = "shutdown")
  BY <1>1, <1>5 DEF IInv, OrderlyInv, SessionInv
<1>6. OrderlyInv'
  <2> SUFFICES ASSUME orderly', pc' # "done"
               PROVE  /\ got' # <<>> => sock' # None /\ PacketInv'
                      /\ got' = <<>> => /\ pc' = "header" \/ (pc' = "answer" /\ kind' = "shutdown")
                                        /\ sock' # None /\ stream'[sock'] # <<>> => stream'[sock'][1][3] = 1
                      /\ SessionInv'
    BY DEF OrderlyInv
  <2>1. /\ got' = <<>> /\ ~commInitialized'
        /\ pc' = "header" \/ (pc' = "answer" /\ kind' = "shutdown")
    BY <1>1, <1>5 DEF work
  <2>2. stream'[sock'] # <<>> => stream'[sock'][1][3] = 1
    BY <1>2 DEF Unread
  <2> QED  BY <1>2, <2>1, <2>2 DEF SessionInv
<1>7. AnswersInOrder'
  <2> SUFFICES ASSUME orderly', pc' # "done", NEW c \in Clients, client'[c] = "in"
               PROVE  InOrder(c, Handled(c))'
    BY DEF AnswersInOrder, InOrder
  <2>1. c = sock' /\ got' = <<>> /\ Unread(c)'
    BY <1>1, <1>2, <1>5 DEF work
  <2>2. Handled(c)' = 0
    <3>1. CASE stream'[c] = <<>>
      <4>1. sent'[c] = <<>>
        BY <2>1, <3>1 DEF Unread
      <4> QED  BY <2>1, <3>1, <4>1 DEF Handled
    <3>2. CASE stream'[c] # <<>>
      <4>1. Head(stream'[c]) = <<c, 1, 1>>
        BY <2>1, <3>2 DEF Unread
      <4> QED  BY <2>1, <3>2, <4>1 DEF Handled
    <3> QED  BY <3>1, <3>2
  <2>3. Asked(c, 0)' = 0
    <3>1. {i \in 1 .. 0 : ToBeAnswered(sent'[c][i])} = {}
      OBVIOUS
    <3> QED  BY <3>1, FS_EmptySet DEF Asked
  <2>4. out'[c] = <<>> /\ Len(out'[c]) = 0
    BY <2>1 DEF Unread
  <2> QED  BY <2>2, <2>3, <2>4 DEF InOrder
<1>8. MemInv' /\ AnswerInv'
  BY <1>1, SameData DEF IInv, work, data
<1> QED  BY <1>2, <1>3, <1>4, <1>6, <1>7, <1>8 DEF IInv

-------------------------------------------------------------------------------
(* The words of a packet are received. *)

\* Words that were sent are taken.
LEMMA TakeWords ==
  ASSUME IInv, NEW n \in Nat \ {0}, Take(n), UNCHANGED <<client, sent, backlog, sock, out>>
  PROVE  /\ (\A i \in DOMAIN got : IsWord(got[i]))'
         /\ got' # <<>> /\ Len(got) \in Nat /\ Len(got') = Len(got) + n
<1>1. /\ sock \in Clients /\ n <= Len(stream[sock])
      /\ got' \in Seq(Word) /\ Len(got') = Len(got) + n
      /\ \A i \in DOMAIN got : got'[i] = got[i]
      /\ \A i \in 1 .. n : got'[Len(got) + i] = stream[sock][i]
      /\ \A i \in DOMAIN got' : i \in DOMAIN got \/ (i - Len(got) \in 1 .. n)
  BY TakeHosts DEF IInv, HostsInv
<1>2. Len(got) \in Nat /\ got \in Seq(Word) /\ Len(stream[sock]) \in Nat
  BY <1>1, StreamTypes DEF IInv, TypeOK
<1>3. ASSUME NEW i \in DOMAIN got'
      PROVE  IsWord(got'[i])
  <2>1. CASE i \in DOMAIN got
    BY <1>1, <2>1 DEF IInv, PlaceInv
  <2>2. CASE i - Len(got) \in 1 .. n
    <3>1. i \in Nat /\ Len(got) + (i - Len(got)) = i
      BY <1>1, <1>2
    <3>2. i - Len(got) \in DOMAIN stream[sock] /\ got'[i] = stream[sock][i - Len(got)]
      <4>1. PICK j : j = i - Len(got)
        OBVIOUS
      <4>2. j \in 1 .. n /\ Len(got) + j = i
        BY <2>2, <3>1, <4>1
      <4> QED  BY <1>1, <1>2, <4>1, <4>2
    <3> QED  BY <1>1, <3>2 DEF IInv, StreamInv, IsRun
  <2> QED  BY <1>1, <1>3, <2>1, <2>2
<1>4. \A w : IsWord(w)' <=> IsWord(w)
  BY DEF IsWord, Units, PayloadUnits
<1>5. got' # <<>>
  <2>1. Len(got') # 0
    BY <1>1, <1>2
  <2> QED  BY <2>1
<1> QED  BY <1>1, <1>2, <1>3, <1>4, <1>5

\* In step, they are the next words of the packet.
LEMMA TakeOfPacket ==
  ASSUME IInv, orderly, pc # "done", NEW n \in Nat \ {0}, Take(n),
         UNCHANGED <<client, sent, backlog, sock, out>>,
         got # <<>> => Len(got) + n <= Units(sock, got[1][2]),
         got = <<>> => pc = "header" /\ n <= HdrUnits
  PROVE  /\ sock \in Clients /\ got'[1] = <<sock, got'[1][2], 1>> /\ OnePacket'
         /\ got'[1][2] \in 1 .. Len(sent[sock])
         /\ Len(got') <= Units(sock, got'[1][2])
         /\ stream'[sock] # <<>> => stream'[sock][1] = Following(sock, got'[1][2], Len(got'))
         /\ stream'[sock] = <<>> =>
              client[sock] = "gone" \/ (Len(got') = Units(sock, got'[1][2]) /\ got'[1][2] = Len(sent[sock]))
         /\ stream[sock] # <<>>
         /\ IF got # <<>> THEN got'[1] = got[1] ELSE got'[1] = stream[sock][1]
         /\ \A c \in Clients : Handled(c)' = Handled(c)
<1> DEFINE k == Len(got)
<1>1. /\ sock \in Clients /\ n <= Len(stream[sock])
      /\ got' \in Seq(Word) /\ Len(got') = k + n
      /\ \A i \in DOMAIN got : got'[i] = got[i]
      /\ \A i \in 1 .. n : got'[k + i] = stream[sock][i]
      /\ n < Len(stream[sock]) => stream'[sock] # <<>> /\ stream'[sock][1] = stream[sock][n + 1]
      /\ n = Len(stream[sock]) => stream'[sock] = <<>>
      /\ \A i \in DOMAIN got' : i \in DOMAIN got \/ (i - k \in 1 .. n)
  BY TakeHosts DEF IInv, HostsInv
<1>2. k \in Nat /\ got \in Seq(Word) /\ Len(stream[sock]) \in Nat /\ stream[sock] # <<>>
  <2>1. k \in Nat /\ got \in Seq(Word) /\ Len(stream[sock]) \in Nat
    BY <1>1, StreamTypes DEF IInv, TypeOK
  <2>2. Len(stream[sock]) # 0
    BY <1>1, <2>1
  <2> QED  BY <2>1, <2>2
<1>3. /\ got # <<>> => sock # None /\ PacketInv
      /\ got = <<>> => stream[sock][1][3] = 1
  BY <1>1, <1>2, ClientsType DEF IInv, OrderlyInv
<1>4. PICK m : m = IF got # <<>> THEN got[1][2] ELSE stream[sock][1][2]
  OBVIOUS
<1>5. stream[sock][1] = <<sock, m, k + 1>> /\ m \in 1 .. Len(sent[sock])
      /\ Units(sock, m) \in Nat /\ k + n <= Units(sock, m)
  <2>1. 1 \in DOMAIN stream[sock]
    BY <1>2
  <2>2. CASE got # <<>>
    <3>1. 1 \in DOMAIN got
      BY <1>2, <2>2
    <3>2. got[1][1] = sock /\ stream[sock][1] = Following(sock, m, k)
      BY <1>2, <1>3, <1>4, <2>2 DEF PacketInv
    <3>3. m \in 1 .. Len(sent[sock])
      BY <1>4, <2>2, <3>1, <3>2 DEF IInv, PlaceInv, IsWord
    <3>4. Units(sock, m) \in Nat
      BY <1>1, <3>3, SentTypes DEF IInv
    <3>5. k + n <= Units(sock, m)
      BY <1>4, <2>2
    <3>6. k < Units(sock, m)
      BY <1>2, <3>4, <3>5
    <3> QED  BY <3>2, <3>3, <3>4, <3>5, <3>6 DEF Following
  <2>3. CASE got = <<>>
    <3>1. /\ stream[sock][1] = <<sock, stream[sock][1][2], stream[sock][1][3]>>
          /\ m \in 1 .. Len(sent[sock]) /\ Units(sock, m) \in Nat /\ Units(sock, m) >= HdrUnits
      BY <1>1, <1>4, <2>1, <2>3, StreamTypes DEF IInv
    <3>2. k = 0
      BY <2>3
    <3>3. stream[sock][1] = <<sock, m, 0 + 1>>
      BY <1>3, <1>4, <2>3, <3>1
    <3>4. k + n <= Units(sock, m)
      BY <2>3, <3>1, <3>2 DEF HdrUnits
    <3> QED  BY <3>1, <3>2, <3>3, <3>4
  <2> QED  BY <2>2, <2>3
<1>6. m \in Nat /\ TypeOK /\ StreamInv
  BY <1>5 DEF IInv
<1>7. /\ \A i \in 1 .. n : stream[sock][i] = <<sock, m, k + i>>
      /\ n < Len(stream[sock]) => stream[sock][n + 1] = Following(sock, m, k + n)
      /\ n = Len(stream[sock]) => client[sock] = "gone" \/ (k + n = Units(sock, m) /\ m = Len(sent[sock]))
  <2>1. /\ sock \in Clients /\ m \in Nat /\ k \in Nat /\ n <= Len(stream[sock])
        /\ stream[sock][1] = <<sock, m, k + 1>> /\ k + n <= Units(sock, m)
    BY <1>1, <1>2, <1>5, <1>6
  <2> HIDE DEF k
  <2>2. FirstPacket(sock) = m /\ TakenOf(sock) = k
    BY <2>1 DEF FirstPacket, TakenOf
  <2> QED  BY <2>1, <2>2, <1>6, FirstWords
<1>8. ASSUME NEW i \in DOMAIN got'
      PROVE  got'[i] = <<sock, m, i>>
  <2>1. CASE i \in DOMAIN got
    <3>1. got # <<>>
      BY <2>1
    <3> QED  BY <3>1, <2>1, <1>1, <1>3, <1>4 DEF PacketInv, OnePacket
  <2>2. CASE i - k \in 1 .. n
    <3>1. PICK j : j = i - k
      OBVIOUS
    <3>2. j \in 1 .. n /\ k + j = i
      BY <1>1, <1>2, <2>2, <3>1
    <3>3. got'[k + j] = <<sock, m, k + j>>
      BY <1>1, <1>7, <3>2
    <3> QED  BY <3>2, <3>3
  <2> QED  BY <1>1, <1>8, <2>1, <2>2
<1>9. 1 \in DOMAIN got' /\ got' # <<>>
  BY <1>1, <1>2
<1>10. got'[1] = <<sock, m, 1>> /\ got'[1][1] = sock /\ got'[1][2] = m
  BY <1>8, <1>9
<1>11. OnePacket'
  BY <1>8, <1>10 DEF OnePacket
<1>12. IF got # <<>> THEN got'[1] = got[1] ELSE got'[1] = stream[sock][1]
  <2>1. CASE got # <<>>
    BY <1>1, <1>2, <2>1
  <2>2. CASE got = <<>>
    BY <1>5, <1>10, <2>2
  <2> QED  BY <2>1, <2>2
<1>13. ASSUME NEW c \in Clients
       PROVE  Handled(c)' = Handled(c)
  <2>1. CASE got # <<>>
    <3>1. got[1][1] = sock
      BY <1>3, <2>1 DEF PacketInv
    <3>2. c # sock => stream'[c] = stream[c]
      BY DEF Take, IInv, TypeOK
    <3> QED  BY <1>9, <1>12, <2>1, <3>1, <3>2 DEF Handled
  <2>2. CASE got = <<>>
    <3>1. c # sock => stream'[c] = stream[c]
      BY DEF Take, IInv, TypeOK
    <3>2. Head(stream[sock]) = got'[1]
      BY <1>12, <2>2
    <3> QED  BY <1>2, <1>9, <1>10, <2>2, <3>1, <3>2 DEF Handled
  <2> QED  BY <2>1, <2>2
<1>14. stream'[sock] # <<>> => n < Len(stream[sock])
  BY <1>1, <1>2
<1> QED  BY <1>1, <1>2, <1>5, <1>7, <1>10, <1>11, <1>12, <1>13, <1>14

\* And the session is that of the packet.
LEMMA TakeOrderly ==
  ASSUME IInv, orderly, pc # "done", NEW n \in Nat \ {0}, Take(n),
         UNCHANGED <<client, sent, backlog, sock, out, commInitialized, orderly, kind>>,
         got # <<>> => Len(got) + n <= Units(sock, got[1][2]),
         got = <<>> => pc = "header" /\ n <= HdrUnits,
         kind # "shutdown",
         pc' \in {"payload", "clear"} => left' = Units(sock, got'[1][2]) - Len(got'),
         pc' \in {"install", "answer"} => Len(got') = Units(sock, got'[1][2]),
         pc' \in {"payload", "clear", "install", "answer"} =>
           kind = AnswerTo(sent[sock][got'[1][2]]) /\ commInitialized
  PROVE  OrderlyInv' /\ AnswersInOrder'
<1>1. /\ sock \in Clients /\ got'[1] = <<sock, got'[1][2], 1>> /\ OnePacket'
      /\ got'[1][2] \in 1 .. Len(sent[sock])
      /\ Len(got') <= Units(sock, got'[1][2])
      /\ stream'[sock] # <<>> => stream'[sock][1] = Following(sock, got'[1][2], Len(got'))
      /\ stream'[sock] = <<>> =>
           client[sock] = "gone" \/ (Len(got') = Units(sock, got'[1][2]) /\ got'[1][2] = Len(sent[sock]))
      /\ stream[sock] # <<>>
      /\ IF got # <<>> THEN got'[1] = got[1] ELSE got'[1] = stream[sock][1]
      /\ \A c \in Clients : Handled(c)' = Handled(c)
  BY TakeOfPacket
<1>2. got' # <<>>
  BY TakeWords
<1>3. PICK m : m = got'[1][2]
  OBVIOUS
<1>4. Units(sock, m)' = Units(sock, m) /\ Following(sock, m, Len(got))' = Following(sock, m, Len(got'))
  BY DEF Units, PayloadUnits, Following
<1>5. PacketInv'
  BY <1>1, <1>3, <1>4 DEF PacketInv
<1>6. SessionInv
  BY DEF IInv, OrderlyInv
<1>7. SessionInv'
  <2>1. CASE commInitialized
    <3>1. got'[1][2] > 1
      BY <1>1, <1>6, <2>1 DEF SessionInv
    <3> QED  BY <1>2, <1>6, <2>1, <3>1 DEF SessionInv
  <2>2. CASE ~commInitialized
    <3>1. got'[1] = <<sock, 1, 1>> /\ out[sock] = <<>>
      BY <1>1, <1>6, <2>2, ClientsType DEF SessionInv, Unread
    <3> QED  BY <1>2, <2>2, <3>1 DEF SessionInv
  <2> QED  BY <2>1, <2>2
<1>8. OrderlyInv'
  BY <1>1, <1>2, <1>5, <1>7, ClientsType DEF OrderlyInv
<1>9. AnswersInOrder'
  BY <1>1, OrderStays DEF IInv
<1> QED  BY <1>8, <1>9

\* What a receive leaves as it is.
LEMMA NotOrderly ==
  ASSUME ~orderly'
  PROVE  OrderlyInv' /\ AnswersInOrder'
BY DEF OrderlyInv, AnswersInOrder

LEMMA GetPktHdrStep ==
  ASSUME IInv, GetPktHdr
  PROVE  IInv'
<1>1. PICK n \in 1 .. HdrUnits - Len(got) : Take(n)
  BY DEF GetPktHdr
<1>2. /\ pc = "header" /\ pc' = IF Len(got') = HdrUnits THEN "packet" ELSE "header"
      /\ UNCHANGED <<client, sent, backlog, sock, commInitialized, kind, left, status, answer,
                     pktBufSize, data, out, orderly>>
  BY DEF GetPktHdr
<1>3. Len(got) \in Nat /\ n \in Nat \ {0} /\ Len(got) + n <= HdrUnits /\ kind = "none" /\ answer = NoAnswer
  BY <1>1, <1>2 DEF IInv, TypeOK, HdrUnits, PlaceInv
<1>4. /\ HostInv' /\ StreamInv' /\ ConnectionInv'
      /\ stream' \in [Clients -> Seq(Word)] /\ got' \in Seq(Word)
  BY <1>1, <1>2, <1>3, TakeHosts DEF IInv, HostsInv
<1>5. /\ (\A i \in DOMAIN got : IsWord(got[i]))' /\ Len(got') = Len(got) + n
  BY <1>1, <1>2, <1>3, TakeWords
<1>6. TypeOK'
  BY <1>2, <1>4 DEF IInv, TypeOK, data, Bytes, Elements, Width, Places
<1>7. PlaceInv'
  BY <1>2, <1>3, <1>5 DEF PlaceInv, HdrUnits, WithPayload
<1>8. OrderlyInv' /\ AnswersInOrder'
  <2>1. CASE orderly
    <3>1. got # <<>> => Len(got) + n <= Units(sock, got[1][2])
      <4> SUFFICES ASSUME got # <<>>
                   PROVE  Len(got) + n <= Units(sock, got[1][2])
        OBVIOUS
      <4>1. 1 \in DOMAIN got /\ PacketInv /\ sock \in Clients
        BY <1>2, <2>1 DEF IInv, TypeOK, OrderlyInv
      <4>2. got[1][2] \in 1 .. Len(sent[sock])
        BY <4>1 DEF IInv, PlaceInv, IsWord, PacketInv
      <4>3. Units(sock, got[1][2]) \in Nat /\ Units(sock, got[1][2]) >= HdrUnits
        BY <4>1, <4>2, SentTypes DEF IInv
      <4> QED  BY <1>3, <4>3 DEF HdrUnits
    <3>2. n <= HdrUnits
      BY <1>3 DEF HdrUnits
    <3>3. pc' \notin {"payload", "clear", "install", "answer"} /\ pc # "done"
      BY <1>2
    <3> QED  BY <1>1, <1>2, <1>3, <2>1, <3>1, <3>2, <3>3, TakeOrderly
  <2>2. CASE ~orderly
    BY <1>2, <2>2, NotOrderly
  <2> QED  BY <2>1, <2>2
<1>9. MemInv' /\ AnswerInv'
  BY <1>2, SameData DEF IInv, data
<1> QED  BY <1>4, <1>6, <1>7, <1>8, <1>9 DEF IInv

\* In step, the rest of the packet is still to come.
LEMMA RestOfPacket ==
  ASSUME IInv, orderly, pc \in {"payload", "clear"}
  PROVE  /\ got # <<>> /\ sock \in Clients /\ PacketInv /\ commInitialized /\ Len(got) \in Nat
         /\ got[1][2] \in 1 .. Len(sent[sock])
         /\ Units(sock, got[1][2]) \in Nat
         /\ left = Units(sock, got[1][2]) - Len(got)
         /\ kind = AnswerTo(sent[sock][got[1][2]])
<1>1. Len(got) \in Nat /\ Len(got) >= HdrUnits
  BY DEF IInv, TypeOK, PlaceInv, WithPayload
<1>2. got # <<>> /\ 1 \in DOMAIN got
  BY <1>1 DEF HdrUnits
<1>3. sock \in Clients /\ PacketInv
  BY <1>2 DEF IInv, OrderlyInv, TypeOK
<1>4. got[1][2] \in 1 .. Len(sent[sock])
  BY <1>2, <1>3 DEF IInv, PlaceInv, IsWord, PacketInv
<1>5. Units(sock, got[1][2]) \in Nat
  BY <1>3, <1>4, SentTypes DEF IInv
<1> QED  BY <1>1, <1>2, <1>3, <1>4, <1>5 DEF PacketInv

LEMMA GetPktStep ==
  ASSUME IInv, GetPkt
  PROVE  IInv'
<1>1. PICK n \in 1 .. left : Take(n) /\ left' = left - n
  BY DEF GetPkt
<1>2. /\ pc = "payload" /\ pc' = IF left' = 0 THEN "install" ELSE "payload"
      /\ UNCHANGED <<client, sent, backlog, sock, commInitialized, kind, status, answer,
                     pktBufSize, data, out, orderly>>
  BY DEF GetPkt
<1>3. /\ n \in Nat \ {0} /\ left' \in Nat /\ Len(got) \in Nat /\ Len(got) >= HdrUnits
      /\ answer = NoAnswer /\ kind \in WithPayload /\ kind # "shutdown"
  BY <1>1, <1>2 DEF IInv, TypeOK, PlaceInv, WithPayload
<1>4. /\ HostInv' /\ StreamInv' /\ ConnectionInv'
      /\ stream' \in [Clients -> Seq(Word)] /\ got' \in Seq(Word)
  BY <1>1, <1>2, <1>3, TakeHosts DEF IInv, HostsInv
<1>5. /\ (\A i \in DOMAIN got : IsWord(got[i]))' /\ Len(got') = Len(got) + n /\ got' # <<>>
  BY <1>1, <1>2, <1>3, TakeWords
<1>6. TypeOK'
  BY <1>2, <1>3, <1>4 DEF IInv, TypeOK, data, Bytes, Elements, Width, Places
<1>7. PlaceInv'
  BY <1>2, <1>3, <1>5 DEF PlaceInv, HdrUnits, WithPayload
<1>8. OrderlyInv' /\ AnswersInOrder'
  <2>1. CASE orderly
    <3>1. PICK m : m = got[1][2]
      OBVIOUS
    <3>2. /\ got # <<>> /\ sock \in Clients /\ PacketInv /\ commInitialized
          /\ Units(sock, m) \in Nat /\ left = Units(sock, m) - Len(got)
          /\ kind = AnswerTo(sent[sock][m])
      BY <1>2, <2>1, <3>1, RestOfPacket
    <3>3. got'[1] = got[1]
      <4>1. 1 \in DOMAIN got
        BY <1>3 DEF HdrUnits
      <4> QED  BY <1>1, <1>2, <1>3, <4>1, TakeHosts DEF IInv, HostsInv
    <3>4. /\ Len(got) + n <= Units(sock, m)
          /\ pc' \in {"payload", "clear"} => left' = Units(sock, m) - Len(got')
          /\ pc' \in {"install", "answer"} => Len(got') = Units(sock, m)
      BY <1>1, <1>2, <1>3, <1>5, <3>2
    <3> QED  BY <1>1, <1>2, <1>3, <2>1, <3>1, <3>2, <3>3, <3>4, TakeOrderly
  <2>2. CASE ~orderly
    BY <1>2, <2>2, NotOrderly
  <2> QED  BY <2>1, <2>2
<1>9. MemInv' /\ AnswerInv'
  BY <1>2, SameData DEF IInv, data
<1> QED  BY <1>4, <1>6, <1>7, <1>8, <1>9 DEF IInv

LEMMA ClearPktStep ==
  ASSUME IInv, ClearPkt
  PROVE  IInv'
<1>1. Take(1) /\ left' = left - 1
  BY DEF ClearPkt
<1>2. /\ pc = "clear" /\ pc' = IF left' = 0 THEN "answer" ELSE "clear"
      /\ UNCHANGED <<client, sent, backlog, sock, commInitialized, kind, status, answer,
                     pktBufSize, data, out, orderly>>
  BY DEF ClearPkt
<1>3. /\ 1 \in Nat \ {0} /\ left \in Nat /\ left' \in Nat /\ Len(got) \in Nat /\ Len(got) >= HdrUnits
      /\ answer = NoAnswer /\ kind \in WithPayload
  <2>1. left > 0 /\ kind \in WithPayload /\ answer = NoAnswer
    BY <1>2 DEF IInv, PlaceInv
  <2>2. Len(got) >= HdrUnits
    BY <1>2, <2>1 DEF IInv, PlaceInv, WithPayload
  <2>3. left \in Nat /\ Len(got) \in Nat
    BY DEF IInv, TypeOK
  <2> QED  BY <1>1, <2>1, <2>2, <2>3
<1>4. /\ HostInv' /\ StreamInv' /\ ConnectionInv'
      /\ stream' \in [Clients -> Seq(Word)] /\ got' \in Seq(Word)
  BY <1>1, <1>2, <1>3, TakeHosts DEF IInv, HostsInv
<1>5. /\ (\A i \in DOMAIN got : IsWord(got[i]))' /\ Len(got') = Len(got) + 1 /\ got' # <<>>
  BY <1>1, <1>2, <1>3, TakeWords
<1>6. TypeOK'
  BY <1>2, <1>3, <1>4 DEF IInv, TypeOK, data, Bytes, Elements, Width, Places
<1>7. PlaceInv'
  BY <1>2, <1>3, <1>5 DEF PlaceInv, HdrUnits, WithPayload
<1>8. OrderlyInv' /\ AnswersInOrder'
  <2>1. CASE orderly
    <3>1. PICK m : m = got[1][2]
      OBVIOUS
    <3>2. /\ got # <<>> /\ sock \in Clients /\ PacketInv /\ commInitialized
          /\ Units(sock, m) \in Nat /\ left = Units(sock, m) - Len(got)
          /\ kind = AnswerTo(sent[sock][m])
      BY <1>2, <2>1, <3>1, RestOfPacket
    <3>3. got'[1] = got[1]
      <4>1. 1 \in DOMAIN got
        BY <1>3 DEF HdrUnits
      <4> QED  BY <1>1, <1>2, <1>3, <4>1, TakeHosts DEF IInv, HostsInv
    <3>4. /\ Len(got) + 1 <= Units(sock, m)
          /\ pc' \in {"payload", "clear"} => left' = Units(sock, m) - Len(got')
          /\ pc' \in {"install", "answer"} => Len(got') = Units(sock, m)
      BY <1>1, <1>2, <1>3, <1>5, <3>2
    <3>5. kind # "shutdown" /\ pc # "done"
      BY <1>2, <1>3 DEF WithPayload
    <3> QED  BY <1>1, <1>2, <1>3, <2>1, <3>1, <3>2, <3>3, <3>4, <3>5, TakeOrderly
  <2>2. CASE ~orderly
    BY <1>2, <2>2, NotOrderly
  <2> QED  BY <2>1, <2>2
<1>9. MemInv' /\ AnswerInv'
  <2>1. kind # "getParams"
    BY <1>3 DEF WithPayload
  <2> QED  BY <1>2, <2>1, SameData DEF IInv, data
<1> QED  BY <1>4, <1>6, <1>7, <1>8, <1>9 DEF IInv

-------------------------------------------------------------------------------
(* The client is lost. *)

LEMMA NobodyIn ==
  ASSUME ConnectionInv', sock' = None
  PROVE  AnswersInOrder'
BY ClientsType DEF ConnectionInv, AnswersInOrder

LEMMA HostClosedStep ==
  ASSUME IInv, HostClosed
  PROVE  IInv'
<1>1. /\ Receiving /\ sock # None /\ client[sock] = "gone"
      /\ sock' = None /\ stream' = [stream EXCEPT ![sock] = <<>>]
      /\ orderly' = (orderly /\ got = <<>> /\ (commInitialized => ToldBye(sock)))
      /\ UNCHANGED <<client, sent, backlog, commInitialized, work, data, out>>
  BY DEF HostClosed
<1>2. HostInv' /\ StreamInv' /\ ConnectionInv' /\ stream' \in [Clients -> Seq(Word)]
  BY <1>1, LostHosts DEF IInv, HostsInv
<1>3. orderly' \in BOOLEAN
  BY <1>1 DEF IInv, TypeOK
<1>4. TypeOK'
  BY <1>1, <1>2, <1>3 DEF IInv, TypeOK, work, data, Bytes, Elements, Width
<1>5. PlaceInv'
  BY <1>1 DEF IInv, PlaceInv, work, IsWord, Units, PayloadUnits
<1>6. OrderlyInv'
  <2> SUFFICES ASSUME orderly', pc' # "done"
               PROVE  OrderlyInv'
    BY DEF OrderlyInv
  <2>1. orderly /\ got = <<>> /\ (commInitialized => ToldBye(sock)) /\ pc # "done"
    BY <1>1 DEF work
  <2>2. ~commInitialized /\ (pc = "header" \/ (pc = "answer" /\ kind = "shutdown"))
    BY <2>1 DEF IInv, OrderlyInv, SessionInv, ToldBye
  <2> QED  BY <1>1, <2>1, <2>2 DEF OrderlyInv, SessionInv, work
<1>7. AnswersInOrder'
  BY <1>1, <1>2, NobodyIn
<1>8. MemInv' /\ AnswerInv'
  BY <1>1, SameData DEF IInv, work, data
<1> QED  BY <1>2, <1>4, <1>5, <1>6, <1>7, <1>8 DEF IInv

LEMMA HeaderErrorStep ==
  ASSUME IInv, HeaderError
  PROVE  IInv'
<1>1. /\ pc = "header" /\ sock # None /\ client[sock] = "gone"
      /\ sock' = None /\ stream' = [stream EXCEPT ![sock] = <<>>]
      /\ commInitialized' = FALSE /\ got' = <<>> /\ orderly' = TRUE
      /\ UNCHANGED <<client, sent, backlog, pc, kind, left, status, answer, pktBufSize, data, out>>
  BY DEF HeaderError
<1>2. HostInv' /\ StreamInv' /\ ConnectionInv' /\ stream' \in [Clients -> Seq(Word)]
  BY <1>1, LostHosts DEF IInv, HostsInv
<1>3. got' \in Seq(Word) /\ Len(got') = 0 /\ DOMAIN got' = {}
  BY <1>1
<1>4. TypeOK'
  BY <1>1, <1>2, <1>3 DEF IInv, TypeOK, data, Bytes, Elements, Width
<1>5. PlaceInv'
  BY <1>1, <1>3 DEF IInv, PlaceInv, HdrUnits
<1>6. OrderlyInv'
  BY <1>1 DEF OrderlyInv, SessionInv
<1>7. AnswersInOrder'
  BY <1>1, <1>2, NobodyIn
<1>8. MemInv' /\ AnswerInv'
  BY <1>1, SameData DEF IInv, data
<1> QED  BY <1>2, <1>4, <1>5, <1>6, <1>7, <1>8 DEF IInv

LEMMA PayloadErrorStep ==
  ASSUME IInv, PayloadError
  PROVE  IInv'
<1>1. /\ pc \in {"payload", "clear"} /\ sock # None /\ client[sock] = "gone"
      /\ sock' = None /\ stream' = [stream EXCEPT ![sock] = <<>>]
      /\ pc' = "answer" /\ left' = 0 /\ status' = "NOT_ENOUGH_MEMORY" /\ orderly' = FALSE
      /\ UNCHANGED <<client, sent, backlog, commInitialized, got, kind, answer, pktBufSize, data, out>>
  BY DEF PayloadError
<1>2. HostInv' /\ StreamInv' /\ ConnectionInv' /\ stream' \in [Clients -> Seq(Word)]
  BY <1>1, LostHosts DEF IInv, HostsInv
<1>3. kind \in WithPayload
  BY <1>1 DEF IInv, PlaceInv
<1>4. TypeOK'
  BY <1>1, <1>2 DEF IInv, TypeOK, data, Bytes, Elements, Width, Places
<1>5. PlaceInv'
  BY <1>1, <1>3 DEF IInv, PlaceInv, WithPayload, IsWord, Units, PayloadUnits
<1>6. OrderlyInv' /\ AnswersInOrder'
  BY <1>1, NotOrderly
<1>7. MemInv' /\ AnswerInv'
  BY <1>1, <1>3, SameData DEF IInv, data, WithPayload
<1> QED  BY <1>2, <1>4, <1>5, <1>6, <1>7 DEF IInv

-------------------------------------------------------------------------------
(* The branch of a packet. *)

\* What all steps between two receives leave as it is.
LEMMA SameLine ==
  ASSUME IInv, UNCHANGED <<host, sock, out>>
  PROVE  /\ HostInv' /\ StreamInv' /\ ConnectionInv'
         /\ \A w : IsWord(w)' <=> IsWord(w)
         /\ \A c, n, i : Units(c, n)' = Units(c, n) /\ Following(c, n, i)' = Following(c, n, i)
<1>1. HostInv' /\ StreamInv' /\ ConnectionInv'
  BY SameHosts DEF IInv, HostsInv, host
<1>2. \A c, n : Units(c, n)' = Units(c, n)
  BY DEF host, Units, PayloadUnits
<1>3. \A w : IsWord(w)' <=> IsWord(w)
  BY DEF host, IsWord, Units, PayloadUnits
<1>4. \A c, n, i : Following(c, n, i)' = Following(c, n, i)
  BY DEF host, Following, Units, PayloadUnits
<1> QED  BY <1>1, <1>2, <1>3, <1>4

\* Nothing is taken or done with.
LEMMA SameAnswers ==
  ASSUME IInv, UNCHANGED <<host, sock, out, got>>, orderly' => orderly, pc # "done"
  PROVE  AnswersInOrder'
<1>1. \A c \in Clients : Handled(c)' = Handled(c)
  BY DEF Handled, host
<1> QED  BY <1>1, OrderStays DEF IInv, host

\* In step, the header is what the client has sent.
LEMMA HeaderOfPacket ==
  ASSUME IInv, orderly, pc = "packet", NEW n, n = got[1][2]
  PROVE  /\ got # <<>> /\ sock \in Clients /\ PacketInv /\ SessionInv
         /\ Len(got) = HdrUnits /\ n \in 1 .. Len(sent[sock])
         /\ HdrTypes = {sent[sock][n].kind} /\ HdrSizes = {sent[sock][n].size}
<1>1. Len(got) = HdrUnits
  BY DEF IInv, PlaceInv
<1>2. got # <<>> /\ 1 \in DOMAIN got /\ 2 \in DOMAIN got
  <2>1. got \in Seq(Word) /\ Len(got) = 2
    BY <1>1 DEF HdrUnits, IInv, TypeOK
  <2> QED  BY <2>1
<1>3. sock \in Clients /\ PacketInv /\ SessionInv
  BY <1>2 DEF IInv, OrderlyInv, TypeOK
<1>4. got[1] = <<sock, n, 1>> /\ got[2] = <<sock, n, 2>>
  BY <1>2, <1>3 DEF PacketInv, OnePacket
<1>5. n \in 1 .. Len(sent[sock])
  BY <1>2, <1>4 DEF IInv, PlaceInv, IsWord
<1>6. HdrTypes = {sent[sock][n].kind} /\ HdrSizes = {sent[sock][n].size}
  BY <1>4 DEF HdrTypes, HdrSizes, PacketOf
<1> QED  BY <1>1, <1>2, <1>3, <1>5, <1>6

LEMMA ConnectPktStep ==
  ASSUME IInv, ConnectPkt
  PROVE  IInv'
<1>1. /\ pc = "packet" /\ ~commInitialized /\ pc' = "answer" /\ kind' = "connect"
      /\ UNCHANGED <<host, sock, commInitialized, got, left, status, answer, pktBufSize, data, out, orderly>>
  BY DEF ConnectPkt
<1>2. /\ HostInv' /\ StreamInv' /\ ConnectionInv'
      /\ \A w : IsWord(w)' <=> IsWord(w)
      /\ \A c, n, i : Units(c, n)' = Units(c, n) /\ Following(c, n, i)' = Following(c, n, i)
  BY <1>1, SameLine
<1>3. answer = NoAnswer /\ answer'.parts = 0 /\ 0 \in 0 .. SendsOf(kind') /\ Len(got) = HdrUnits
  BY <1>1, SendsOfType DEF IInv, PlaceInv, NoAnswer
<1>4. TypeOK'
  BY <1>1, <1>3 DEF IInv, TypeOK, host, data, Bytes, Elements, Width, Places
<1>5. PlaceInv'
  BY <1>1, <1>2, <1>3 DEF IInv, PlaceInv, HdrUnits
<1>6. OrderlyInv'
  <2> SUFFICES ASSUME orderly
               PROVE  OrderlyInv'
    BY <1>1 DEF OrderlyInv
  <2>1. PICK n : n = got[1][2]
    OBVIOUS
  <2>2. /\ got # <<>> /\ sock \in Clients /\ PacketInv /\ SessionInv
        /\ Len(got) = HdrUnits /\ n \in 1 .. Len(sent[sock])
    BY <1>1, <2>1, HeaderOfPacket
  <2>3. n = 1
    BY <1>1, <2>1, <2>2, ClientsType DEF SessionInv
  <2>4. sent[sock][n] = Hello
    BY <2>2, <2>3 DEF IInv, HostInv
  <2>5. Units(sock, n) = HdrUnits
    BY <2>2, <2>4, SentTypes DEF IInv, Hello, WithPayload
  <2>6. AnswerTo(sent[sock][n]) = "connect"
    BY <2>4 DEF AnswerTo
  <2>7. PacketInv'
    BY <1>1, <1>2, <2>1, <2>2, <2>5, <2>6 DEF PacketInv, OnePacket, host, AnswerTo
  <2>8. SessionInv'
    BY <1>1, <2>2 DEF SessionInv, host, Unread
  <2> QED  BY <1>1, <2>2, <2>7, <2>8, ClientsType DEF OrderlyInv
<1>7. AnswersInOrder'
  BY <1>1, SameAnswers
<1>8. MemInv' /\ AnswerInv'
  BY <1>1, SameData DEF IInv, data
<1> QED  BY <1>2, <1>4, <1>5, <1>6, <1>7, <1>8 DEF IInv

LEMMA AnswerPktStep ==
  ASSUME IInv, NEW k \in HeaderOnly \ {"stop", "disconnectNoUpload"}, AnswerPkt(k)
  PROVE  IInv'
<1>1. /\ pc = "packet" /\ commInitialized /\ k \in HdrTypes /\ pc' = "answer" /\ kind' = k
      /\ UNCHANGED <<host, sock, commInitialized, got, left, status, answer, pktBufSize, data, out, orderly>>
  BY DEF AnswerPkt, Got
<1>2. /\ HostInv' /\ StreamInv' /\ ConnectionInv'
      /\ \A w : IsWord(w)' <=> IsWord(w)
      /\ \A c, n, i : Units(c, n)' = Units(c, n) /\ Following(c, n, i)' = Following(c, n, i)
  BY <1>1, SameLine
<1>3. /\ answer = NoAnswer /\ answer'.parts = 0 /\ 0 \in 0 .. SendsOf(kind') /\ Len(got) = HdrUnits
      /\ k \in Kinds /\ k \notin WithPayload /\ k \notin {"none", "ext-mode", "stop", "disconnectNoUpload", "shutdown"}
  BY <1>1, SendsOfType DEF IInv, PlaceInv, NoAnswer, HeaderOnly, WithPayload, Kinds
<1>4. TypeOK'
  BY <1>1, <1>3 DEF IInv, TypeOK, host, data, Bytes, Elements, Width, Places
<1>5. PlaceInv'
  BY <1>1, <1>2, <1>3 DEF IInv, PlaceInv, HdrUnits
<1>6. OrderlyInv'
  <2> SUFFICES ASSUME orderly
               PROVE  OrderlyInv'
    BY <1>1 DEF OrderlyInv
  <2>1. PICK n : n = got[1][2]
    OBVIOUS
  <2>2. /\ got # <<>> /\ sock \in Clients /\ PacketInv /\ SessionInv
        /\ Len(got) = HdrUnits /\ n \in 1 .. Len(sent[sock]) /\ sent[sock][n].kind = k
    BY <1>1, <2>1, HeaderOfPacket
  <2>3. Units(sock, n) = HdrUnits
    BY <1>3, <2>2, SentTypes DEF IInv
  <2>4. AnswerTo(sent[sock][n]) = k
    BY <1>3, <2>2 DEF AnswerTo, Hello
  <2>5. PacketInv'
    BY <1>1, <1>2, <1>3, <2>1, <2>2, <2>3, <2>4 DEF PacketInv, OnePacket, host, AnswerTo
  <2>6. SessionInv'
    BY <1>1, <2>2 DEF SessionInv, host, Unread
  <2> QED  BY <1>1, <2>2, <2>5, <2>6, ClientsType DEF OrderlyInv
<1>7. AnswersInOrder'
  BY <1>1, SameAnswers
<1>8. MemInv' /\ AnswerInv'
  BY <1>1, <1>3, SameData DEF IInv, data
<1> QED  BY <1>2, <1>4, <1>5, <1>6, <1>7, <1>8 DEF IInv

LEMMA PayloadPktStep ==
  ASSUME IInv, NEW k \in WithPayload, PayloadPkt(k)
  PROVE  IInv'
<1>1. /\ pc = "packet" /\ commInitialized /\ k \in HdrTypes /\ kind' = k
      /\ UNCHANGED <<host, sock, commInitialized, got, answer, data, out, orderly>>
  BY DEF PayloadPkt, Got
<1>2. PICK size \in HdrSizes : Grow(size)
  BY DEF PayloadPkt
<1>3. /\ HostInv' /\ StreamInv' /\ ConnectionInv'
      /\ \A w : IsWord(w)' <=> IsWord(w)
      /\ \A c, n, i : Units(c, n)' = Units(c, n) /\ Following(c, n, i)' = Following(c, n, i)
  BY <1>1, SameLine
<1>4. /\ answer = NoAnswer /\ answer'.parts = 0 /\ 0 \in 0 .. SendsOf(kind') /\ Len(got) = HdrUnits
      /\ k \in Kinds /\ k \notin {"none", "ext-mode", "stop", "disconnectNoUpload", "shutdown", "getParams"}
  BY <1>1, SendsOfType DEF IInv, PlaceInv, NoAnswer, WithPayload, Kinds
<1>5. size \in 0 .. MaxSize /\ size \in Nat /\ MaxSize \in Nat
  <2>1. MaxSize \in Nat
    BY PktServerAssumption
  <2>2. CASE got[2][3] = 2
    <3>1. 2 \in DOMAIN got /\ size = sent[got[2][1]][got[2][2]].size
      <4>1. got \in Seq(Word) /\ Len(got) = 2
        BY <1>4 DEF HdrUnits, IInv, TypeOK
      <4> QED  BY <4>1, <2>2, <1>2 DEF HdrSizes, PacketOf
    <3>2. got[2][1] \in Clients /\ got[2][2] \in 1 .. Len(sent[got[2][1]])
      BY <3>1 DEF IInv, PlaceInv, IsWord
    <3>3. sent[got[2][1]][got[2][2]] \in HostPackets \cup {Hello}
      BY <3>2, SentTypes DEF IInv
    <3> QED  BY <2>1, <3>1, <3>3, PacketTypes
  <2>3. CASE got[2][3] # 2
    BY <1>2, <2>1, <2>3 DEF HdrSizes
  <2> QED  BY <2>1, <2>2, <2>3
<1>6. /\ pktBufSize' \in 0 .. MaxSize /\ left' = size
      /\ pc' \in {"install", "payload", "clear"} /\ status' \in {"ok", "NOT_ENOUGH_MEMORY"}
      /\ pc' = "install" <=> size = 0
  <2>1. pktBufSize \in 0 .. MaxSize /\ status \in {"ok", "NOT_ENOUGH_MEMORY"}
    BY DEF IInv, TypeOK
  <2> QED  BY <1>2, <1>5, <2>1 DEF Grow
<1>7. TypeOK'
  BY <1>1, <1>4, <1>5, <1>6 DEF IInv, TypeOK, host, data, Bytes, Elements, Width, Places
<1>8. PlaceInv'
  <2>1. pc' \in {"payload", "clear"} => left' > 0
    BY <1>5, <1>6
  <2>2. pc' \notin {"header", "packet", "answer", "crashed", "done"}
    BY <1>6
  <2>3. \A i \in DOMAIN got : IsWord(got[i])
    BY DEF IInv, PlaceInv
  <2> QED  BY <1>1, <1>3, <1>4, <2>1, <2>2, <2>3 DEF PlaceInv, HdrUnits
<1>9. OrderlyInv'
  <2> SUFFICES ASSUME orderly
               PROVE  OrderlyInv'
    BY <1>1 DEF OrderlyInv
  <2>1. PICK n : n = got[1][2]
    OBVIOUS
  <2>2. /\ got # <<>> /\ sock \in Clients /\ PacketInv /\ SessionInv
        /\ Len(got) = HdrUnits /\ n \in 1 .. Len(sent[sock])
        /\ sent[sock][n].kind = k /\ size = sent[sock][n].size
    BY <1>1, <1>2, <2>1, HeaderOfPacket
  <2>3. Units(sock, n) = HdrUnits + size /\ size > 0
    BY <2>2, SentTypes DEF IInv
  <2>4. AnswerTo(sent[sock][n]) = k
    BY <1>4, <2>2 DEF AnswerTo, Hello
  <2>5. pc' \in {"payload", "clear"} /\ left' = Units(sock, n) - Len(got)
    BY <1>5, <1>6, <2>2, <2>3 DEF HdrUnits
  <2>6. PacketInv'
    BY <1>1, <1>3, <1>4, <2>1, <2>2, <2>4, <2>5 DEF PacketInv, OnePacket, host, AnswerTo
  <2>7. SessionInv'
    BY <1>1, <2>2 DEF SessionInv, host, Unread
  <2> QED  BY <1>1, <2>2, <2>6, <2>7, ClientsType DEF OrderlyInv
<1>10. AnswersInOrder'
  BY <1>1, SameAnswers
<1>11. MemInv' /\ AnswerInv'
  BY <1>1, <1>4, SameData DEF IInv, data
<1> QED  BY <1>3, <1>7, <1>8, <1>9, <1>10, <1>11 DEF IInv

-------------------------------------------------------------------------------
(* A packet is done with. *)

LEMMA AskedType ==
  ASSUME NEW c, NEW n \in Nat
  PROVE  Asked(c, n) \in Nat /\ IsFiniteSet({i \in 1 .. n : ToBeAnswered(sent[c][i])})
<1>1. IsFiniteSet(1 .. n)
  BY FS_Interval
<1>2. IsFiniteSet({i \in 1 .. n : ToBeAnswered(sent[c][i])})
  <2>1. {i \in 1 .. n : ToBeAnswered(sent[c][i])} \subseteq 1 .. n
    OBVIOUS
  <2> QED  BY <1>1, <2>1, FS_Subset
<1> QED  BY <1>2, FS_CardinalityType DEF Asked

LEMMA AskedNext ==
  ASSUME NEW c, NEW n \in Nat \ {0}
  PROVE  Asked(c, n) = Asked(c, n - 1) + IF ToBeAnswered(sent[c][n]) THEN 1 ELSE 0
<1> DEFINE S == {i \in 1 .. n - 1 : ToBeAnswered(sent[c][i])}
           R == {i \in 1 .. n : ToBeAnswered(sent[c][i])}
<1>1. n - 1 \in Nat
  OBVIOUS
<1>2. IsFiniteSet(S) /\ Asked(c, n - 1) = Cardinality(S) /\ Asked(c, n) = Cardinality(R)
      /\ Cardinality(S) \in Nat
  BY <1>1, AskedType DEF Asked
<1>3. CASE ToBeAnswered(sent[c][n])
  <2>1. R = S \cup {n} /\ n \notin S
    BY <1>3
  <2>2. Cardinality(S \cup {n}) = Cardinality(S) + 1
    BY <1>2, <2>1, FS_AddElement
  <2> QED  BY <1>2, <1>3, <2>1, <2>2
<1>4. CASE ~ToBeAnswered(sent[c][n])
  <2>1. R = S
    BY <1>4
  <2> QED  BY <1>2, <1>4, <2>1
<1> QED  BY <1>3, <1>4

LEMMA AskedPlace ==
  ASSUME NEW c, NEW n \in Nat, NEW k \in 1 .. n, ToBeAnswered(sent[c][k])
  PROVE  Asked(c, k) \in 1 .. Asked(c, n)
<1> DEFINE S == {i \in 1 .. k : ToBeAnswered(sent[c][i])}
           R == {i \in 1 .. n : ToBeAnswered(sent[c][i])}
<1>1. k \in Nat /\ S \subseteq R /\ k \in S
  OBVIOUS
<1>2. IsFiniteSet(S) /\ IsFiniteSet(R) /\ Asked(c, k) = Cardinality(S) /\ Asked(c, n) = Cardinality(R)
      /\ Cardinality(S) \in Nat /\ Cardinality(R) \in Nat
  BY <1>1, AskedType DEF Asked
<1>3. Cardinality(S) <= Cardinality(R)
  BY <1>1, <1>2, FS_Subset
<1>4. Cardinality(S) # 0
  BY <1>1, <1>2, FS_EmptySet
<1> QED  BY <1>2, <1>3, <1>4

\* A packet that is not answered is done with.
LEMMA PassedOver ==
  ASSUME NEW c \in Clients, NEW n \in Nat \ {0}, InOrder(c, n - 1), ~ToBeAnswered(sent[c][n])
  PROVE  InOrder(c, n)
<1>1. Len(out[c]) = Asked(c, n)
  <2>1. Asked(c, n - 1) \in Nat
    <3>1. n - 1 \in Nat
      OBVIOUS
    <3> QED  BY <3>1, AskedType
  <2> QED  BY <2>1, AskedNext DEF InOrder
<1>2. ASSUME NEW i \in 1 .. n, ToBeAnswered(sent[c][i])
      PROVE  out[c][Asked(c, i)][1] = AnswerTo(sent[c][i])
  <2>1. i \in 1 .. n - 1
    BY <1>2
  <2> QED  BY <1>2, <2>1 DEF InOrder
<1> QED  BY <1>1, <1>2 DEF InOrder

\* One that is, when the answer is sent.
LEMMA AnsweredNext ==
  ASSUME TypeOK, NEW c \in Clients, NEW n \in Nat \ {0}, InOrder(c, n - 1), ToBeAnswered(sent[c][n]),
         NEW a \in Answer, a[1] = AnswerTo(sent[c][n]), out'[c] = Append(out[c], a), UNCHANGED sent
  PROVE  InOrder(c, n)'
<1>1. out[c] \in Seq(Answer) /\ n - 1 \in Nat
  BY DEF TypeOK
<1>2. \A i \in Nat : Asked(c, i)' = Asked(c, i)
  BY DEF Asked
<1>3. PICK l : l = Len(out[c])
  OBVIOUS
<1>4. l \in Nat /\ l = Asked(c, n - 1) /\ Asked(c, n) = l + 1
  BY <1>1, <1>3, AskedNext DEF InOrder
<1>5. Len(out'[c]) = l + 1 /\ out'[c][l + 1] = a /\ \A i \in 1 .. l : out'[c][i] = out[c][i]
  BY <1>1, <1>3
<1>6. ASSUME NEW i \in 1 .. n, ToBeAnswered(sent[c][i])
      PROVE  out'[c][Asked(c, i)][1] = AnswerTo(sent[c][i])
  <2>1. CASE i = n
    BY <2>1, <1>4, <1>5
  <2>2. CASE i # n
    <3>1. i \in 1 .. n - 1
      BY <2>2
    <3>2. Asked(c, i) \in 1 .. l
      BY <1>1, <1>4, <1>6, <3>1, AskedPlace
    <3> QED  BY <1>5, <1>6, <3>1, <3>2 DEF InOrder
  <2> QED  BY <2>1, <2>2
<1>7. Len(out'[c]) = Asked(c, n)'
  BY <1>2, <1>4, <1>5
<1>8. ASSUME NEW i \in 1 .. n, ToBeAnswered(sent'[c][i])
      PROVE  out'[c][Asked(c, i)'][1] = AnswerTo(sent'[c][i])
  <2>1. Asked(c, i)' = Asked(c, i)
    BY <1>2
  <2> QED  BY <1>6, <1>8, <2>1
<1> QED  BY <1>7, <1>8 DEF InOrder

\* In step, it is the next packet's turn.
LEMMA DoneWithPacket ==
  ASSUME IInv, orderly, pc # "done", got # <<>>, NEW n, n = got[1][2],
         Len(got) = Units(sock, n), got' = <<>>, UNCHANGED <<host, sock>>
  PROVE  /\ sock \in Clients /\ n \in Nat \ {0} /\ n \in 1 .. Len(sent[sock]) /\ got[1][1] = sock
         /\ stream[sock] # <<>> => stream[sock][1] = <<sock, n + 1, 1>> /\ n # Len(sent[sock])
         /\ stream[sock] = <<>> => client[sock] = "gone" \/ n = Len(sent[sock])
         /\ client[sock] = "in" => Handled(sock)' = n /\ InOrder(sock, n - 1)
         /\ sent[sock][n] # Hello => n # 1
<1>1. sock \in Clients /\ PacketInv
  BY DEF IInv, TypeOK, OrderlyInv
<1>2. 1 \in DOMAIN got /\ Len(got) \in Nat
  BY DEF IInv, TypeOK
<1>3. n \in 1 .. Len(sent[sock]) /\ got[1][1] = sock
  BY <1>1, <1>2 DEF IInv, PlaceInv, IsWord, PacketInv
<1>4. n \in Nat \ {0} /\ Len(sent[sock]) \in Nat
  BY <1>1, <1>3 DEF IInv, TypeOK
<1>5. Following(sock, n, Len(got)) = <<sock, n + 1, 1>>
  BY <1>2 DEF Following
<1>6. stream[sock] # <<>> => stream[sock][1] = <<sock, n + 1, 1>>
  BY <1>1, <1>5 DEF PacketInv
<1>7. stream[sock] # <<>> => n # Len(sent[sock])
  <2>1. stream[sock] # <<>> => 1 \in DOMAIN stream[sock]
    BY <1>1 DEF IInv, TypeOK
  <2>2. stream[sock] # <<>> => stream[sock][1][2] \in 1 .. Len(sent[sock])
    BY <1>1, <2>1, StreamTypes DEF IInv
  <2> QED  BY <1>4, <1>6, <2>2
<1>8. stream[sock] = <<>> => client[sock] = "gone" \/ n = Len(sent[sock])
  BY <1>1 DEF PacketInv
<1>9. ASSUME client[sock] = "in"
      PROVE  Handled(sock)' = n /\ InOrder(sock, n - 1)
  <2>1. Handled(sock) = n - 1
    BY <1>3 DEF Handled
  <2>2. InOrder(sock, n - 1)
    BY <1>1, <1>9, <2>1 DEF IInv, AnswersInOrder, InOrder
  <2>3. stream'[sock'] = stream[sock] /\ sent'[sock'] = sent[sock] /\ got' = <<>>
    BY DEF host
  <2>4. Handled(sock)' = n
    <3>1. CASE stream[sock] = <<>>
      BY <1>8, <1>9, <2>3, <3>1 DEF Handled
    <3>2. CASE stream[sock] # <<>>
      <4>1. Head(stream[sock])[2] - 1 = n
        BY <1>4, <1>6, <3>2
      <4> QED  BY <2>3, <3>2, <4>1 DEF Handled
    <3> QED  BY <3>1, <3>2
  <2> QED  BY <2>2, <2>4
<1>10. n = 1 => sent[sock][n] = Hello
  BY <1>1, <1>3 DEF IInv, HostInv
<1> QED  BY <1>1, <1>3, <1>4, <1>6, <1>7, <1>8, <1>9, <1>10

\* Polling for the next header.
LEMMA PollingTypes ==
  ASSUME IInv, Polling
  PROVE  /\ got' \in Seq(Word) /\ Len(got') = 0 /\ DOMAIN got' = {}
         /\ answer'.parts \in 0 .. SendsOf(kind') /\ answer'.size = 0
         /\ pc' = "header" /\ kind' = "none" /\ status' = "ok" /\ answer' = NoAnswer
<1>1. got' = <<>> /\ pc' = "header" /\ kind' = "none" /\ status' = "ok" /\ answer' = NoAnswer
  BY DEF Polling
<1>2. answer'.parts \in 0 .. SendsOf(kind') /\ answer'.size = 0
  BY <1>1, SendsOfType DEF NoAnswer
<1> QED  BY <1>1, <1>2

LEMMA IgnorePktStep ==
  ASSUME IInv, IgnorePkt
  PROVE  IInv'
<1>1. /\ pc = "packet" /\ commInitialized /\ ("stop" \in HdrTypes \/ "ext-mode" \in HdrTypes)
      /\ Polling
      /\ UNCHANGED <<host, sock, commInitialized, left, pktBufSize, data, out, orderly>>
  BY DEF IgnorePkt, Got
<1>2. /\ HostInv' /\ StreamInv' /\ ConnectionInv'
  BY <1>1, SameLine
<1>3. /\ got' = <<>> /\ got' \in Seq(Word) /\ Len(got') = 0 /\ DOMAIN got' = {}
      /\ answer'.parts \in 0 .. SendsOf(kind') /\ answer'.size = 0
      /\ pc' = "header" /\ kind' = "none" /\ status' = "ok" /\ answer' = NoAnswer
  BY <1>1, PollingTypes DEF Polling
<1>4. TypeOK'
  BY <1>1, <1>3 DEF IInv, TypeOK, host, data, Bytes, Elements, Width, Places
<1>5. PlaceInv'
  BY <1>3 DEF PlaceInv, HdrUnits
<1>6. OrderlyInv' /\ AnswersInOrder'
  <2>1. CASE ~orderly
    BY <1>1, <2>1, NotOrderly
  <2>2. CASE orderly
    <3>1. PICK n : n = got[1][2]
      OBVIOUS
    <3>2. /\ got # <<>> /\ sock \in Clients /\ PacketInv /\ SessionInv
          /\ Len(got) = HdrUnits /\ n \in 1 .. Len(sent[sock]) /\ sent[sock][n].kind \in {"stop", "ext-mode"}
      BY <1>1, <2>2, <3>1, HeaderOfPacket
    <3>3. Units(sock, n) = Len(got)
      BY <3>2, SentTypes DEF IInv, WithPayload
    <3>4. /\ n \in Nat \ {0} /\ got[1][1] = sock
          /\ stream[sock] # <<>> => stream[sock][1] = <<sock, n + 1, 1>>
          /\ client[sock] = "in" => Handled(sock)' = n /\ InOrder(sock, n - 1)
      BY <1>1, <1>3, <2>2, <3>1, <3>2, <3>3, DoneWithPacket
    <3>5. n > 1
      BY <1>1, <3>1, <3>2 DEF SessionInv
    <3>6. sent[sock][n] # Hello
      BY <3>2, <3>4, <3>5 DEF IInv, HostInv
    <3>7. sent[sock][n].kind = "stop"
      BY <3>2, <3>6, SentTypes, PacketTypes DEF IInv
    <3>8. SessionInv'
      BY <1>1, <1>3, <3>2, <3>4 DEF SessionInv, host
    <3>9. OrderlyInv'
      BY <1>1, <1>3, <3>4, <3>8 DEF OrderlyInv, host
    <3>10. ASSUME NEW c \in Clients, client'[c] = "in"
           PROVE  InOrder(c, Handled(c))'
      <4>1. c = sock /\ client[sock] = "in"
        BY <1>1, <1>2, <3>10 DEF ConnectionInv, host
      <4>2. InOrder(sock, n)
        BY <3>2, <3>4, <3>7, <4>1, PassedOver DEF ToBeAnswered
      <4>3. InOrder(c, n)'
        BY <1>1, <3>4, <4>1, <4>2, SameOrder DEF host
      <4>4. Handled(c)' = n
        BY <1>1, <3>4, <4>1
      <4> QED  BY <4>3, <4>4
    <3>11. AnswersInOrder'
      BY <3>10 DEF AnswersInOrder, InOrder
    <3> QED  BY <3>9, <3>11
  <2> QED  BY <2>1, <2>2
<1>7. MemInv' /\ AnswerInv'
  BY <1>1, <1>3, SameData DEF IInv, data
<1> QED  BY <1>2, <1>4, <1>5, <1>6, <1>7 DEF IInv

LEMMA DisconnectNoUploadPktStep ==
  ASSUME IInv, DisconnectNoUploadPkt
  PROVE  IInv'
<1>1. /\ pc = "packet" /\ commInitialized /\ "disconnectNoUpload" \in HdrTypes
      /\ commInitialized' = FALSE /\ Polling
      /\ UNCHANGED <<host, sock, left, pktBufSize, data, out, orderly>>
  BY DEF DisconnectNoUploadPkt, Got
<1>2. /\ HostInv' /\ StreamInv' /\ ConnectionInv'
  BY <1>1, SameLine
<1>3. /\ got' = <<>> /\ got' \in Seq(Word) /\ Len(got') = 0 /\ DOMAIN got' = {}
      /\ answer'.parts \in 0 .. SendsOf(kind') /\ answer'.size = 0
      /\ pc' = "header" /\ kind' = "none" /\ status' = "ok" /\ answer' = NoAnswer
  BY <1>1, PollingTypes DEF Polling
<1>4. TypeOK'
  BY <1>1, <1>3 DEF IInv, TypeOK, host, data, Bytes, Elements, Width, Places
<1>5. PlaceInv'
  BY <1>3 DEF PlaceInv, HdrUnits
<1>6. OrderlyInv' /\ AnswersInOrder'
  <2>1. CASE ~orderly
    BY <1>1, <2>1, NotOrderly
  <2>2. CASE orderly
    <3>1. PICK n : n = got[1][2]
      OBVIOUS
    <3>2. /\ got # <<>> /\ sock \in Clients /\ PacketInv /\ SessionInv
          /\ Len(got) = HdrUnits /\ n \in 1 .. Len(sent[sock]) /\ sent[sock][n].kind = "disconnectNoUpload"
      BY <1>1, <2>2, <3>1, HeaderOfPacket
    <3>3. Units(sock, n) = Len(got)
      BY <3>2, SentTypes DEF IInv, WithPayload
    <3>4. /\ n \in Nat \ {0} /\ got[1][1] = sock
          /\ stream[sock] # <<>> => n # Len(sent[sock])
          /\ client[sock] = "in" => Handled(sock)' = n /\ InOrder(sock, n - 1)
      BY <1>1, <1>3, <2>2, <3>1, <3>2, <3>3, DoneWithPacket
    <3>5. n = Len(sent[sock])
      BY <3>2 DEF IInv, HostInv, Byes
    <3>6. stream[sock] = <<>> /\ sent[sock] # <<>> /\ Last(sent[sock]).kind \in Byes
      <4>1. sent[sock] # <<>>
        BY <3>2
      <4> QED  BY <3>2, <3>4, <3>5, <4>1 DEF Last, Byes
    <3>7. SessionInv'
      BY <1>1, <1>3, <3>6 DEF SessionInv, host
    <3>8. OrderlyInv'
      BY <1>1, <1>3, <3>6, <3>7 DEF OrderlyInv, host
    <3>9. ASSUME NEW c \in Clients, client'[c] = "in"
          PROVE  InOrder(c, Handled(c))'
      <4>1. c = sock /\ client[sock] = "in"
        BY <1>1, <1>2, <3>9 DEF ConnectionInv, host
      <4>2. InOrder(sock, n)
        BY <3>2, <3>4, <4>1, PassedOver DEF ToBeAnswered
      <4>3. InOrder(c, n)'
        BY <1>1, <3>4, <4>1, <4>2, SameOrder DEF host
      <4>4. Handled(c)' = n
        BY <1>1, <3>4, <4>1
      <4> QED  BY <4>3, <4>4
    <3>10. AnswersInOrder'
      BY <3>9 DEF AnswersInOrder, InOrder
    <3> QED  BY <3>8, <3>10
  <2> QED  BY <2>1, <2>2
<1>7. MemInv' /\ AnswerInv'
  BY <1>1, <1>3, SameData DEF IInv, data
<1> QED  BY <1>2, <1>4, <1>5, <1>6, <1>7 DEF IInv

-------------------------------------------------------------------------------
(* The answers. *)

LEMMA ShutdownStep ==
  ASSUME IInv, Shutdown
  PROVE  IInv'
<1>1. /\ pc = "header" /\ got = <<>>
      /\ IF commInitialized THEN pc' = "answer" /\ kind' = "shutdown" ELSE pc' = "done" /\ kind' = kind
      /\ UNCHANGED <<host, sock, commInitialized, got, left, status, answer, pktBufSize, data, out, orderly>>
  BY DEF Shutdown
<1>2. /\ HostInv' /\ StreamInv' /\ ConnectionInv'
  BY <1>1, SameLine
<1>3. /\ answer = NoAnswer /\ answer'.parts = 0 /\ 0 \in 0 .. SendsOf(kind') /\ kind = "none"
      /\ DOMAIN got = {}
  BY <1>1, SendsOfType DEF IInv, PlaceInv, NoAnswer
<1>4. TypeOK'
  BY <1>1, <1>3 DEF IInv, TypeOK, host, data, Bytes, Elements, Width, Places
<1>5. PlaceInv'
  BY <1>1, <1>3 DEF PlaceInv
<1>6. OrderlyInv'
  <2> SUFFICES ASSUME orderly, pc' # "done"
               PROVE  OrderlyInv'
    BY <1>1 DEF OrderlyInv
  <2>1. SessionInv /\ (sock # None /\ stream[sock] # <<>> => stream[sock][1][3] = 1)
    BY <1>1 DEF IInv, OrderlyInv
  <2>2. SessionInv'
    BY <1>1, <2>1 DEF SessionInv, host, Unread
  <2> QED  BY <1>1, <2>1, <2>2 DEF OrderlyInv, host
<1>7. AnswersInOrder'
  BY <1>1, SameAnswers
<1>8. MemInv' /\ AnswerInv'
  BY <1>1, <1>3, SameData DEF IInv, data
<1> QED  BY <1>2, <1>4, <1>5, <1>6, <1>7, <1>8 DEF IInv

\* In step, the packet that is answered was taken.
LEMMA AnswerOfPacket ==
  ASSUME IInv, orderly, pc \in {"install", "answer"}, kind # "shutdown", NEW n, n = got[1][2]
  PROVE  /\ got # <<>> /\ sock \in Clients /\ PacketInv /\ SessionInv
         /\ n \in 1 .. Len(sent[sock]) /\ Len(got) = Units(sock, n)
         /\ kind = AnswerTo(sent[sock][n])
<1>1. Len(got) \in Nat /\ Len(got) >= HdrUnits
  BY DEF IInv, TypeOK, PlaceInv
<1>2. got # <<>> /\ 1 \in DOMAIN got
  BY <1>1 DEF HdrUnits
<1>3. sock \in Clients /\ PacketInv /\ SessionInv
  BY <1>2 DEF IInv, OrderlyInv, TypeOK
<1>4. n \in 1 .. Len(sent[sock])
  BY <1>2, <1>3 DEF IInv, PlaceInv, IsWord, PacketInv
<1> QED  BY <1>2, <1>3, <1>4 DEF PacketInv

LEMMA SendFailsStep ==
  ASSUME IInv, SendFails
  PROVE  IInv'
<1>1. /\ pc = "answer" /\ sock # None /\ client[sock] = "gone"
      /\ UNCHANGED <<host, sock, left, pktBufSize, data, out, orderly>>
  BY DEF SendFails, Sending
<1>2. HostInv' /\ StreamInv' /\ ConnectionInv'
  BY <1>1, SameLine
<1>3. AnswersInOrder'
  BY <1>1, <1>2 DEF ConnectionInv, AnswersInOrder, host
<1>4. CASE kind = "shutdown"
  <2>1. pc' = "done" /\ commInitialized' = FALSE /\ UNCHANGED <<got, kind, status, answer>>
    BY <1>4 DEF SendFails
  <2>2. TypeOK'
    BY <1>1, <2>1 DEF IInv, TypeOK, host, data, Bytes, Elements, Width, Places
  <2>3. PlaceInv'
    <3>1. got = <<>> /\ DOMAIN got = {}
      BY <1>4 DEF IInv, PlaceInv
    <3> QED  BY <1>1, <2>1, <3>1 DEF PlaceInv
  <2>4. OrderlyInv'
    BY <2>1 DEF OrderlyInv
  <2>5. MemInv' /\ AnswerInv'
    BY <1>1, <2>1, SameData DEF IInv, data
  <2> QED  BY <1>2, <1>3, <2>2, <2>3, <2>4, <2>5 DEF IInv
<1>5. CASE kind # "shutdown"
  <2>1. Polling /\ UNCHANGED commInitialized
    BY <1>5 DEF SendFails
  <2>2. /\ got' = <<>> /\ got' \in Seq(Word) /\ Len(got') = 0 /\ DOMAIN got' = {}
        /\ answer'.parts \in 0 .. SendsOf(kind') /\ answer'.size = 0
        /\ pc' = "header" /\ kind' = "none" /\ status' = "ok" /\ answer' = NoAnswer
    BY <2>1, PollingTypes DEF Polling
  <2>3. TypeOK'
    BY <1>1, <2>1, <2>2 DEF IInv, TypeOK, host, data, Bytes, Elements, Width, Places
  <2>4. PlaceInv'
    BY <2>2 DEF PlaceInv, HdrUnits
  <2>5. OrderlyInv'
    <3> SUFFICES ASSUME orderly
                 PROVE  OrderlyInv'
      BY <1>1 DEF OrderlyInv
    <3>1. PICK n : n = got[1][2]
      OBVIOUS
    <3>2. /\ got # <<>> /\ sock \in Clients /\ SessionInv
          /\ n \in 1 .. Len(sent[sock]) /\ Len(got) = Units(sock, n)
      BY <1>1, <1>5, <3>1, AnswerOfPacket
    <3>3. /\ n \in Nat \ {0}
          /\ stream[sock] # <<>> => stream[sock][1] = <<sock, n + 1, 1>> /\ n # Len(sent[sock])
      BY <1>1, <2>2, <3>1, <3>2, DoneWithPacket
    <3>4. SessionInv'
      <4>1. CASE commInitialized
        BY <1>1, <2>1, <2>2, <3>2, <3>3, <4>1 DEF SessionInv, host
      <4>2. CASE ~commInitialized
        <5>1. n = 1 /\ out[sock] = <<>>
          BY <1>1, <3>1, <3>2, <4>2, ClientsType DEF SessionInv
        <5>2. Len(sent[sock]) <= 1 /\ Len(sent[sock]) \in Nat
          BY <3>2, <5>1 DEF IInv, HostInv, TypeOK
        <5>4. n = Len(sent[sock])
          <6>1. PICK l : l = Len(sent[sock])
            OBVIOUS
          <6>2. l \in Nat /\ l <= 1 /\ 1 \in 1 .. l
            BY <3>2, <5>1, <5>2, <6>1
          <6>3. l = 1
            BY <6>2
          <6> QED  BY <5>1, <6>1, <6>3
        <5>3. stream[sock] = <<>>
          BY <3>3, <5>4
        <5> QED  BY <1>1, <2>1, <2>2, <4>2, <5>3 DEF SessionInv, host
      <4> QED  BY <4>1, <4>2
    <3> QED  BY <1>1, <2>2, <3>3, <3>4 DEF OrderlyInv, host
  <2>6. MemInv' /\ AnswerInv'
    BY <1>1, <2>2, SameData DEF IInv, data
  <2> QED  BY <1>2, <1>3, <2>3, <2>4, <2>5, <2>6 DEF IInv
<1> QED  BY <1>4, <1>5

LEMMA HandshakeFailsStep ==
  ASSUME IInv, HandshakeFails
  PROVE  IInv'
<1>1. /\ Polling /\ orderly' = FALSE
      /\ UNCHANGED <<host, sock, commInitialized, left, pktBufSize, data, out>>
  BY DEF HandshakeFails
<1>2. HostInv' /\ StreamInv' /\ ConnectionInv'
  BY <1>1, SameLine
<1>3. /\ got' \in Seq(Word) /\ Len(got') = 0 /\ DOMAIN got' = {}
      /\ answer'.parts \in 0 .. SendsOf(kind') /\ answer'.size = 0
      /\ pc' = "header" /\ kind' = "none" /\ status' = "ok" /\ answer' = NoAnswer
  BY <1>1, PollingTypes
<1>4. TypeOK'
  BY <1>1, <1>3 DEF IInv, TypeOK, host, data, Bytes, Elements, Width, Places
<1>5. PlaceInv'
  BY <1>3 DEF PlaceInv, HdrUnits
<1>6. OrderlyInv' /\ AnswersInOrder'
  BY <1>1, NotOrderly
<1>7. MemInv' /\ AnswerInv'
  BY <1>1, <1>3, SameData DEF IInv, data
<1> QED  BY <1>2, <1>4, <1>5, <1>6, <1>7 DEF IInv

LEMMA AnsweredStep ==
  ASSUME IInv, Answered
  PROVE  IInv'
<1> DEFINE a == <<kind, status>>
<1>1. /\ pc = "answer" /\ sock # None /\ out' = [out EXCEPT ![sock] = Append(@, a)]
      /\ commInitialized' = SessionAfter(kind)
      /\ UNCHANGED <<host, sock, left, pktBufSize, data, orderly>>
  BY DEF Answered
<1>2. /\ sock \in Clients /\ a \in Answer /\ a[1] = kind
      /\ kind \notin {"none", "ext-mode", "stop", "disconnectNoUpload"}
  BY <1>1 DEF IInv, TypeOK, Answer, PlaceInv
<1> HIDE DEF a
<1>3. /\ HostInv' /\ StreamInv' /\ ConnectionInv' /\ out' \in [Clients -> Seq(Answer)]
      /\ out'[sock] # <<>> /\ Last(out'[sock]) = a
      /\ \A c \in Clients \ {sock} : out'[c] = out[c]
  BY <1>1, <1>2, AnsweredHosts DEF IInv, HostsInv, host
<1>4. commInitialized' \in BOOLEAN
  BY <1>1 DEF SessionAfter, IInv, TypeOK
<1>5. CASE kind = "shutdown"
  <2>1. pc' = "done" /\ UNCHANGED <<got, kind, status, answer>>
    BY <1>5 DEF Answered
  <2>2. TypeOK'
    BY <1>1, <1>3, <1>4, <2>1 DEF IInv, TypeOK, host, data, Bytes, Elements, Width, Places
  <2>3. PlaceInv'
    <3>1. got = <<>> /\ DOMAIN got = {}
      BY <1>5 DEF IInv, PlaceInv
    <3> QED  BY <1>1, <2>1, <3>1 DEF PlaceInv
  <2>4. OrderlyInv' /\ AnswersInOrder'
    BY <2>1 DEF OrderlyInv, AnswersInOrder
  <2>5. MemInv' /\ AnswerInv'
    BY <1>1, <2>1, SameData DEF IInv, data
  <2> QED  BY <1>3, <2>2, <2>3, <2>4, <2>5 DEF IInv
<1>6. CASE kind # "shutdown"
  <2>1. Polling
    BY <1>6 DEF Answered
  <2>2. /\ got' = <<>> /\ got' \in Seq(Word) /\ Len(got') = 0 /\ DOMAIN got' = {}
        /\ answer'.parts \in 0 .. SendsOf(kind') /\ answer'.size = 0
        /\ pc' = "header" /\ kind' = "none" /\ status' = "ok" /\ answer' = NoAnswer
    BY <2>1, PollingTypes DEF Polling
  <2>3. TypeOK'
    BY <1>1, <1>3, <1>4, <2>2 DEF IInv, TypeOK, host, data, Bytes, Elements, Width, Places
  <2>4. PlaceInv'
    BY <2>2 DEF PlaceInv, HdrUnits
  <2>5. OrderlyInv' /\ AnswersInOrder'
    <3>1. CASE ~orderly
      BY <1>1, <3>1, NotOrderly
    <3>2. CASE orderly
      <4>1. PICK n : n = got[1][2]
        OBVIOUS
      <4>2. /\ got # <<>> /\ SessionInv
            /\ n \in 1 .. Len(sent[sock]) /\ Len(got) = Units(sock, n)
            /\ kind = AnswerTo(sent[sock][n])
        BY <1>1, <1>6, <3>2, <4>1, AnswerOfPacket
      <4>3. /\ n \in Nat \ {0}
            /\ stream[sock] # <<>> => stream[sock][1] = <<sock, n + 1, 1>> /\ n # Len(sent[sock])
            /\ client[sock] = "in" => Handled(sock)' = n /\ InOrder(sock, n - 1)
            /\ sent[sock][n] # Hello => n # 1
        BY <1>1, <2>2, <3>2, <4>1, <4>2, DoneWithPacket
      <4>4. ToBeAnswered(sent[sock][n])
        BY <1>2, <4>2 DEF AnswerTo, ToBeAnswered, Hello
      <4>5. sent[sock] # <<>>
        BY <4>2
      <4>6. SessionInv'
        <5>1. CASE kind = "disconnect"
          <6>1. sent[sock][n].kind \in Byes /\ n \in DOMAIN sent[sock]
            BY <4>2, <5>1 DEF AnswerTo, Byes
          <6>2. n = Len(sent[sock])
            BY <1>2, <6>1 DEF IInv, HostInv
          <6>3. stream[sock] = <<>> /\ Last(sent[sock]).kind \in Byes
            BY <4>3, <4>5, <6>1, <6>2 DEF Last
          <6>4. ~commInitialized'
            BY <1>1, <5>1 DEF SessionAfter
          <6> QED  BY <1>1, <2>2, <4>5, <6>3, <6>4 DEF SessionInv, host
        <5>2. CASE kind # "disconnect"
          <6>1. commInitialized'
            <7>1. CASE commInitialized
              BY <1>1, <1>6, <5>2, <7>1 DEF SessionAfter
            <7>2. CASE ~commInitialized
              <8>1. n = 1
                BY <1>1, <4>1, <4>2, <7>2, ClientsType DEF SessionInv
              <8>2. kind = "connect"
                BY <4>2, <4>3, <8>1 DEF AnswerTo
              <8> QED  BY <1>1, <8>2 DEF SessionAfter
            <7> QED  BY <7>1, <7>2
          <6>2. Last(out'[sock])[1] # "disconnect"
            BY <1>2, <1>3, <5>2
          <6>3. stream[sock] # <<>> => stream[sock][1][2] > 1
            BY <4>3
          <6> QED  BY <1>1, <1>3, <2>2, <4>5, <6>1, <6>2, <6>3 DEF SessionInv, host
        <5> QED  BY <5>1, <5>2
      <4>7. OrderlyInv'
        BY <1>1, <2>2, <4>3, <4>6 DEF OrderlyInv, host
      <4>8. ASSUME NEW c \in Clients, client'[c] = "in"
            PROVE  InOrder(c, Handled(c))'
        <5>1. c = sock /\ client[sock] = "in"
          BY <1>1, <1>3, <4>8 DEF ConnectionInv, host
        <5>2. out'[sock] = Append(out[sock], a)
          BY <1>1, <1>2 DEF IInv, TypeOK
        <5>3. a[1] = AnswerTo(sent[sock][n]) /\ UNCHANGED sent /\ TypeOK /\ InOrder(sock, n - 1)
          BY <1>1, <1>2, <4>2, <4>3, <5>1 DEF IInv, host
        <5>4. InOrder(c, n)'
          BY <1>2, <4>3, <4>4, <5>1, <5>2, <5>3, AnsweredNext
        <5>5. Handled(c)' = n
          BY <1>1, <4>3, <5>1
        <5> QED  BY <5>4, <5>5
      <4>9. AnswersInOrder'
        BY <4>8 DEF AnswersInOrder, InOrder
      <4> QED  BY <4>7, <4>9
    <3> QED  BY <3>1, <3>2
  <2>6. MemInv' /\ AnswerInv'
    BY <1>1, <2>2, SameData DEF IInv, data
  <2> QED  BY <1>3, <2>3, <2>4, <2>5, <2>6 DEF IInv
<1> QED  BY <1>5, <1>6

-------------------------------------------------------------------------------
(* The parameters. *)

\* Of natural numbers there is a first one, and of finitely many a last one.
Before == {ss \in Nat \X Nat : ss[1] < ss[2]}

LEMMA NatWellFounded == IsWellFoundedOn(Before, Nat)
BY NatLessThanWellFounded DEF OpToRel, Before

LEMMA Least ==
  ASSUME NEW S \in SUBSET Nat, S # {}
  PROVE  \E x \in S : \A y \in S : x <= y
<1>1. PICK x \in S : \A y \in S : <<y, x>> \notin Before
  BY NatWellFounded, WFMin
<1>2. ASSUME NEW y \in S
      PROVE  x <= y
  <2>1. x \in Nat /\ y \in Nat
    OBVIOUS
  <2>2. y < x => <<y, x>> \in Before
    BY <2>1 DEF Before
  <2> QED  BY <1>1, <2>1, <2>2
<1> QED  BY <1>2

LEMMA MaxOf ==
  ASSUME NEW n \in Nat, NEW S \in SUBSET (1 .. n), S # {}
  PROVE  Max(S) \in S
<1> DEFINE Bounds == {u \in Nat : \A y \in S : y <= u}
<1>1. n \in Bounds
  OBVIOUS
<1>2. PICK u \in Bounds : \A v \in Bounds : u <= v
  BY <1>1, Least
<1>3. u \in Nat /\ \A y \in S : y <= u /\ y \in Nat /\ y >= 1
  BY <1>2
<1>4. u \in S
  <2> SUFFICES ASSUME u \notin S
               PROVE  FALSE
    OBVIOUS
  <2>1. \A y \in S : y <= u - 1
    BY <1>3
  <2>2. PICK y \in S : TRUE
    OBVIOUS
  <2>3. u - 1 \in Nat
    BY <1>3, <2>2
  <2>4. u - 1 \in Bounds
    BY <2>1, <2>3
  <2> QED  BY <1>2, <1>3, <2>4
<1>5. \E x \in S : \A y \in S : x >= y
  BY <1>3, <1>4
<1> QED  BY <1>5 DEF Max

LEMMA DivFacts ==
  ASSUME NEW e \in Nat \ {0}, NEW i \in Nat
  PROVE  i \div e \in Nat /\ (i \div e) * e <= i /\ i < (i \div e + 1) * e
<1>1. i = e * (i \div e) + (i % e) /\ i % e \in 0 .. e - 1 /\ i \div e \in Int
  OBVIOUS
<1>2. PICK q : q = i \div e
  OBVIOUS
<1>3. q \in Int /\ e * q <= i /\ i < e * q + e
  BY <1>1, <1>2
<1>4. q >= 0
  BY <1>3
<1>5. q * e = e * q /\ (q + 1) * e = e * q + e
  BY <1>3
<1> QED  BY <1>2, <1>3, <1>4, <1>5

LEMMA TimesMonotonic ==
  ASSUME NEW e \in Nat, NEW a \in Nat, NEW b \in Nat, a <= b
  PROVE  a * e <= b * e
OBVIOUS

\* The bytes from that of element s on.
LEMMA ElementOfByte ==
  ASSUME NEW e \in Nat \ {0}, NEW i \in Nat, NEW s \in Nat
  PROVE  s * e <= i <=> s <= i \div e
<1>0. PICK q : q = i \div e
  OBVIOUS
<1>1. q \in Nat /\ q * e <= i /\ i < (q + 1) * e /\ q + 1 \in Nat
  BY <1>0, DivFacts
<1>2. CASE s <= q
  <2>1. s * e <= q * e
    BY <1>1, <1>2, TimesMonotonic
  <2> QED  BY <1>0, <1>1, <1>2, <2>1
<1>3. CASE q + 1 <= s
  <2>1. (q + 1) * e <= s * e
    BY <1>1, <1>3, TimesMonotonic
  <2> QED  BY <1>0, <1>1, <1>3, <2>1
<1> QED  BY <1>0, <1>1, <1>2, <1>3

LEMMA TableTypes ==
  ASSUME NEW t \in T
  PROVE  /\ Transitions[t].dtSize \in Nat \ {0} /\ Transitions[t].nEls \in Nat
         /\ Width(t) \in {1, 2} /\ ElSize(t) \in Nat \ {0} /\ NBytes(t) \in Nat
         /\ Bytes(t) = 0 .. NBytes(t) - 1
         /\ \A i \in Bytes(t) : i \in Nat /\ i \div ElSize(t) \in Elements(t)
<1>1. /\ Transitions[t] \in [dtSize: Nat \ {0}, complex: BOOLEAN, nEls: Nat]
      /\ Transitions[t].complex => Transitions[t].nEls % 2 = 0
  <2>1. Transitions \in Seq([dtSize: Nat \ {0}, complex: BOOLEAN, nEls: Nat])
    BY PktServerAssumption
  <2>4. t \in DOMAIN Transitions
    BY DEF T
  <2>5. PICK S : S = [dtSize: Nat \ {0}, complex: BOOLEAN, nEls: Nat]
    OBVIOUS
  <2>6. Transitions \in Seq(S)
    BY <2>1, <2>5
  <2>7. Transitions[t] \in S
    BY <2>4, <2>6
  <2>2. Transitions[t] \in [dtSize: Nat \ {0}, complex: BOOLEAN, nEls: Nat]
    BY <2>5, <2>7
  <2>3. Transitions[t].complex => Transitions[t].nEls % 2 = 0
    BY PktServerAssumption
  <2> QED  BY <2>2, <2>3
<1>2. PICK d, n, w, q : /\ d = Transitions[t].dtSize /\ n = Transitions[t].nEls /\ w = Width(t)
                        /\ q = n \div w
  OBVIOUS
<1>3. d \in Nat \ {0} /\ n \in Nat /\ w \in {1, 2} /\ (w = 2 => n % 2 = 0)
  BY <1>1, <1>2 DEF Width
<1>4. n = w * q /\ q \in Nat
  <2>1. CASE w = 1
    BY <2>1, <1>2, <1>3
  <2>2. CASE w = 2
    BY <2>2, <1>2, <1>3
  <2> QED  BY <1>3, <2>1, <2>2
<1>5. PICK e : e = d * w
  OBVIOUS
<1>6. e \in Nat \ {0}
  <2>1. w = 1 => e = d
    BY <1>3, <1>5
  <2>2. w = 2 => e = 2 * d
    BY <1>3, <1>5
  <2> QED  BY <1>3, <2>1, <2>2
<1>7. d * n = q * e
  <2>1. CASE w = 1
    BY <2>1, <1>3, <1>4, <1>5
  <2>2. CASE w = 2
    <3>1. n = q + q /\ e = d + d
      BY <2>2, <1>3, <1>4, <1>5
    <3>2. d * (q + q) = d * q + d * q /\ q * (d + d) = q * d + q * d /\ q * d = d * q
      BY <1>3, <1>4
    <3> QED  BY <3>1, <3>2
  <2> QED  BY <1>3, <2>1, <2>2
<1>8. d * n \in Nat
  BY <1>3
<1>9. ASSUME NEW i \in 0 .. d * n - 1
      PROVE  i \in Nat /\ i \div e \in 0 .. q - 1
  <2>1. i \in Nat /\ ~(q * e <= i)
    BY <1>7, <1>8
  <2>2. ~(q <= i \div e) /\ i \div e \in Nat
    BY <1>4, <1>6, <2>1, ElementOfByte, DivFacts
  <2> QED  BY <1>4, <2>1, <2>2
<1>10. ElSize(t) = e /\ NBytes(t) = d * n /\ Bytes(t) = 0 .. d * n - 1 /\ Elements(t) = 0 .. q - 1
  BY <1>2, <1>5 DEF ElSize, NBytes, Bytes, Elements
<1>11. \A i \in Bytes(t) : i \in Nat /\ i \div ElSize(t) \in Elements(t)
  BY <1>9, <1>10
<1> QED  BY <1>2, <1>3, <1>6, <1>8, <1>10, <1>11

LEMMA WrittenType ==
  ASSUME NEW params \in Seq(Param), NEW js \in SUBSET DOMAIN params, NEW before \in Values
  PROVE  Written(params, js, before) \in Values
<1>1. CASE js = {}
  BY <1>1 DEF Written
<1>2. CASE js # {}
  <2>1. Len(params) \in Nat /\ DOMAIN params = 1 .. Len(params)
    OBVIOUS
  <2>2. Max(js) \in DOMAIN params
    BY <1>2, <2>1, MaxOf
  <2>3. params[Max(js)] \in Param
    BY <2>2
  <2> QED  BY <1>2, <2>3 DEF Written, Param
<1> QED  BY <1>1, <1>2

\* A parameter is written where its elements are.
LEMMA SetParamOfElements ==
  ASSUME MemInv, NEW params \in Seq(Param), NEW t \in T, NEW i \in Bytes(t)
  PROVE  SetParam(mem, params)[t][i] = SetElements(view, params)[t][i \div ElSize(t)]
<1>1. PICK e : e = i \div ElSize(t)
  OBVIOUS
<1>2. /\ ElSize(t) \in Nat \ {0} /\ i \in Nat /\ e \in Elements(t) /\ mem[t][i] = view[t][e]
  BY <1>1, TableTypes DEF MemInv
<1> DEFINE js == {j \in DOMAIN params : /\ params[j].b = t
                                        /\ params[j].s * ElSize(t) <= i
                                        /\ i < (params[j].s + params[j].w) * ElSize(t)}
           es == {j \in DOMAIN params : /\ params[j].b = t
                                        /\ params[j].s <= e /\ e < params[j].s + params[j].w}
<1>3. ASSUME NEW j \in DOMAIN params
      PROVE  /\ params[j].s * ElSize(t) <= i <=> params[j].s <= e
             /\ i < (params[j].s + params[j].w) * ElSize(t) <=> e < params[j].s + params[j].w
  <2>1. params[j] \in Param
    OBVIOUS
  <2>2. PICK s, r : s = params[j].s /\ r = params[j].s + params[j].w
    OBVIOUS
  <2>3. s \in Nat /\ r \in Nat /\ e \in Nat
    <3>1. params[j].s \in Nat /\ params[j].w \in Nat
      BY <2>1 DEF Param
    <3>2. \A k \in Elements(t) : k \in Nat
      BY DEF Elements
    <3> QED  BY <1>2, <2>2, <3>1, <3>2
  <2>4. (s * ElSize(t) <= i <=> s <= e) /\ (r * ElSize(t) <= i <=> r <= e)
    BY <1>1, <1>2, <2>3, ElementOfByte
  <2>5. r * ElSize(t) \in Nat
    BY <1>2, <2>3
  <2> QED  BY <1>2, <2>2, <2>3, <2>4, <2>5
<1>4. js = es
  BY <1>3
<1>5. SetParam(mem, params)[t][i] = Written(params, js, mem[t][i])
  BY DEF SetParam
<1>6. SetElements(view, params)[t][e] = Written(params, es, view[t][e])
  BY <1>2 DEF SetElements
<1> QED  BY <1>1, <1>2, <1>4, <1>5, <1>6

LEMMA InstallParamsStep ==
  ASSUME IInv, InstallParams
  PROVE  IInv'
<1>0. PICK params : params = PacketOf(got[1]).params
  OBVIOUS
<1>1. /\ pc = "install" /\ kind = "setParam" /\ pc' = "answer"
      /\ mem' = SetParam(mem, params) /\ view' = SetElements(view, params)
      /\ UNCHANGED <<host, sock, commInitialized, got, kind, left, status, answer, pktBufSize,
                     garbage, out, orderly>>
  BY <1>0 DEF InstallParams
<1>2. /\ HostInv' /\ StreamInv' /\ ConnectionInv'
      /\ \A w : IsWord(w)' <=> IsWord(w)
      /\ \A c, n, i : Units(c, n)' = Units(c, n) /\ Following(c, n, i)' = Following(c, n, i)
  BY <1>1, SameLine
<1>3. Len(got) \in Nat /\ Len(got) >= HdrUnits
  BY <1>1 DEF IInv, TypeOK, PlaceInv
<1>4. params \in Seq(Param)
  <2>1. 1 \in DOMAIN got
    BY <1>3 DEF HdrUnits
  <2>2. got[1][1] \in Clients /\ got[1][2] \in 1 .. Len(sent[got[1][1]])
    BY <2>1 DEF IInv, PlaceInv, IsWord
  <2>3. PacketOf(got[1]) \in HostPackets \cup {Hello}
    BY <2>2, SentTypes DEF IInv, PacketOf
  <2> QED  BY <1>0, <2>3, PacketTypes
<1>5. ASSUME NEW t \in T
      PROVE  mem'[t] \in [Bytes(t) -> Values] /\ view'[t] \in [Elements(t) -> Values]
  <2>1. mem[t] \in [Bytes(t) -> Values] /\ view[t] \in [Elements(t) -> Values]
    BY DEF IInv, TypeOK
  <2>2. ASSUME NEW i \in Bytes(t), NEW js \in SUBSET DOMAIN params
        PROVE  Written(params, js, mem[t][i]) \in Values
    <3>1. mem[t][i] \in Values
      BY <2>1
    <3> QED  BY <1>4, <3>1, WrittenType
  <2>3. ASSUME NEW e \in Elements(t), NEW js \in SUBSET DOMAIN params
        PROVE  Written(params, js, view[t][e]) \in Values
    <3>1. view[t][e] \in Values
      BY <2>1
    <3> QED  BY <1>4, <3>1, WrittenType
  <2>4. mem'[t] \in [Bytes(t) -> Values]
    BY <1>1, <2>2 DEF SetParam
  <2>5. view'[t] \in [Elements(t) -> Values]
    BY <1>1, <2>3 DEF SetElements
  <2> QED  BY <2>4, <2>5
<1>6. TypeOK'
  BY <1>1, <1>5 DEF IInv, TypeOK, host, Places, Bytes, Elements, Width
<1>7. PlaceInv'
  BY <1>1, <1>2, <1>3 DEF IInv, PlaceInv
<1>8. OrderlyInv'
  <2> SUFFICES ASSUME orderly
               PROVE  OrderlyInv'
    BY <1>1 DEF OrderlyInv
  <2>1. PICK n : n = got[1][2]
    OBVIOUS
  <2>2. /\ got # <<>> /\ sock \in Clients /\ PacketInv /\ SessionInv
        /\ Len(got) = Units(sock, n) /\ kind = AnswerTo(sent[sock][n])
    BY <1>1, <2>1, AnswerOfPacket
  <2>3. PacketInv'
    BY <1>1, <1>2, <2>1, <2>2 DEF PacketInv, OnePacket, host, AnswerTo
  <2>4. SessionInv'
    BY <1>1, <2>2 DEF SessionInv, host, Unread
  <2> QED  BY <1>1, <2>2, <2>3, <2>4, ClientsType DEF OrderlyInv
<1>9. AnswersInOrder'
  BY <1>1, SameAnswers
<1>10. MemInv'
  <2>1. ASSUME NEW t \in T, NEW i \in Bytes(t)
        PROVE  mem'[t][i] = view'[t][i \div ElSize(t)]
    BY <1>1, <1>4, SetParamOfElements DEF IInv
  <2> QED  BY <2>1 DEF MemInv
<1>11. AnswerInv'
  BY <1>1 DEF AnswerInv
<1> QED  BY <1>2, <1>6, <1>7, <1>8, <1>9, <1>10, <1>11 DEF IInv

LEMMA InstallGarbageStep ==
  ASSUME IInv, InstallGarbage
  PROVE  IInv'
<1>1. /\ pc = "install" /\ ~OnePacket /\ garbage' = TRUE
      /\ pc' \in {"answer", "crashed"} /\ status' \in {"ok", "NOT_ENOUGH_MEMORY"}
      /\ UNCHANGED <<host, sock, commInitialized, got, kind, left, answer, pktBufSize,
                     mem, view, out, orderly>>
  BY DEF InstallGarbage
<1>2. /\ HostInv' /\ StreamInv' /\ ConnectionInv'
      /\ \A w : IsWord(w)' <=> IsWord(w)
  BY <1>1, SameLine
<1>3. kind \in WithPayload /\ Len(got) >= HdrUnits
  BY <1>1 DEF IInv, PlaceInv, WithPayload
<1>4. ~orderly
  <2>1. kind # "shutdown"
    BY <1>3 DEF WithPayload
  <2>2. orderly => OnePacket
    BY <1>1, <2>1, AnswerOfPacket DEF PacketInv
  <2> QED  BY <1>1, <2>2
<1>5. TypeOK'
  BY <1>1 DEF IInv, TypeOK, host, Bytes, Elements, Width, Places
<1>6. PlaceInv'
  BY <1>1, <1>2, <1>3, <1>4 DEF IInv, PlaceInv, WithPayload
<1>7. OrderlyInv' /\ AnswersInOrder'
  BY <1>1, <1>4, NotOrderly
<1>8. MemInv' /\ AnswerInv'
  BY <1>1, <1>3, SameData DEF IInv, WithPayload
<1> QED  BY <1>2, <1>5, <1>6, <1>7, <1>8 DEF IInv

LEMMA SelectStep ==
  ASSUME IInv, Select
  PROVE  IInv'
<1>1. /\ pc = "install" /\ kind = "select" /\ pc' = "answer" /\ status' \in {"ok", "NOT_ENOUGH_MEMORY"}
      /\ UNCHANGED <<host, sock, commInitialized, got, kind, left, answer, pktBufSize, data, out, orderly>>
  BY DEF Select
<1>2. /\ HostInv' /\ StreamInv' /\ ConnectionInv'
      /\ \A w : IsWord(w)' <=> IsWord(w)
      /\ \A c, n, i : Units(c, n)' = Units(c, n) /\ Following(c, n, i)' = Following(c, n, i)
  BY <1>1, SameLine
<1>3. TypeOK'
  BY <1>1 DEF IInv, TypeOK, host, data, Bytes, Elements, Width, Places
<1>4. PlaceInv'
  BY <1>1, <1>2 DEF IInv, PlaceInv
<1>5. OrderlyInv'
  <2> SUFFICES ASSUME orderly
               PROVE  OrderlyInv'
    BY <1>1 DEF OrderlyInv
  <2>1. PICK n : n = got[1][2]
    OBVIOUS
  <2>2. /\ got # <<>> /\ sock \in Clients /\ PacketInv /\ SessionInv
        /\ Len(got) = Units(sock, n) /\ kind = AnswerTo(sent[sock][n])
    BY <1>1, <2>1, AnswerOfPacket
  <2>3. PacketInv'
    BY <1>1, <1>2, <2>1, <2>2 DEF PacketInv, OnePacket, host, AnswerTo
  <2>4. SessionInv'
    BY <1>1, <2>2 DEF SessionInv, host, Unread
  <2> QED  BY <1>1, <2>2, <2>3, <2>4, ClientsType DEF OrderlyInv
<1>6. AnswersInOrder'
  BY <1>1, SameAnswers
<1>7. MemInv' /\ AnswerInv'
  BY <1>1, SameData DEF IInv, data
<1> QED  BY <1>2, <1>3, <1>4, <1>5, <1>6, <1>7 DEF IInv

\* The parts of the parameters are sent.
LEMMA SendParts ==
  ASSUME TypeOK, AnswerInv, Send
  PROVE  /\ answer'.parts \in 0 .. SendsOf(kind) /\ answer'.size \in {0, NBytesTotal}
         /\ AnswerInv'
<1>1. /\ pc = "answer" /\ answer.parts < SendsOf(kind) /\ UNCHANGED <<pc, kind, data>>
      /\ answer' =
           [parts |-> answer.parts + 1,
            size  |-> IF kind = "getParams" /\ answer.parts = 0 THEN NBytesTotal ELSE answer.size,
            bytes |-> IF kind = "getParams" /\ answer.parts > 0
                      THEN Append(answer.bytes, [i \in 0 .. NBytes(answer.parts) - 1 |-> mem[answer.parts][i]])
                      ELSE answer.bytes]
  BY DEF Send, Sending
<1>2. SendsOf(kind) \in Nat /\ answer.parts \in 0 .. SendsOf(kind) /\ answer.size \in {0, NBytesTotal}
  BY SendsOfType DEF TypeOK
<1>3. PICK p : p = answer.parts
  OBVIOUS
<1>4. /\ p \in Nat /\ p + 1 \in 0 .. SendsOf(kind)
      /\ answer'.parts = p + 1 /\ answer'.size \in {0, NBytesTotal}
  BY <1>1, <1>2, <1>3
<1>5. ASSUME kind = "getParams", p = 0
      PROVE  AnswerInv'
  <2>1. answer'.size = NBytesTotal /\ answer'.bytes = answer.bytes
    BY <1>1, <1>3, <1>5
  <2>2. answer.bytes \in Seq(UNION {[Bytes(t) -> Values] : t \in T}) /\ Len(answer.bytes) = 0
    BY <1>1, <1>3, <1>5 DEF AnswerInv
  <2>3. DOMAIN answer.bytes = {}
    BY <2>2
  <2> QED  BY <1>1, <1>4, <1>5, <2>1, <2>2, <2>3 DEF AnswerInv, data
<1>6. ASSUME kind = "getParams", p > 0
      PROVE  AnswerInv'
  <2>1. PICK b, m : b = answer.bytes /\ m = [i \in Bytes(p) |-> mem[p][i]]
    OBVIOUS
  <2>2. /\ b \in Seq(UNION {[Bytes(t) -> Values] : t \in T}) /\ Len(b) = p - 1
        /\ \A t \in DOMAIN b : b[t] = [i \in Bytes(t) |-> mem[t][i]]
        /\ answer.size = NBytesTotal
    BY <1>1, <1>3, <1>4, <1>6, <2>1 DEF AnswerInv
  <2>3. p \in T
    <3>1. Len(Transitions) \in Nat /\ SendsOf(kind) = 1 + Len(Transitions) /\ T = 1 .. Len(Transitions)
      BY <1>6, PktServerAssumption DEF SendsOf, T
    <3> QED  BY <1>4, <1>6, <3>1
  <2>4. Bytes(p) = 0 .. NBytes(p) - 1
    BY <2>3, TableTypes
  <2>5. m \in UNION {[Bytes(t) -> Values] : t \in T}
    <3>1. mem[p] \in [Bytes(p) -> Values]
      BY <2>3 DEF TypeOK
    <3>2. m \in [Bytes(p) -> Values]
      BY <2>1, <3>1
    <3> QED  BY <2>3, <3>2
  <2>6. answer'.bytes = Append(b, m) /\ answer'.size = NBytesTotal
    BY <1>1, <1>3, <1>6, <2>1, <2>2, <2>4
  <2>7. /\ Append(b, m) \in Seq(UNION {[Bytes(t) -> Values] : t \in T}) /\ Len(Append(b, m)) = p
        /\ Append(b, m)[p] = m /\ \A t \in 1 .. p - 1 : Append(b, m)[t] = b[t]
    BY <1>4, <1>6, <2>2, <2>5
  <2>8. ASSUME NEW t \in 1 .. p
        PROVE  Append(b, m)[t] = [i \in Bytes(t) |-> mem[t][i]]
    <3>1. CASE t = p
      BY <2>1, <2>7, <3>1
    <3>2. CASE t # p
      <4>1. t \in 1 .. p - 1 /\ t \in DOMAIN b
        BY <1>4, <2>2, <3>2
      <4> QED  BY <2>2, <2>7, <4>1
    <3> QED  BY <3>1, <3>2
  <2>9. DOMAIN Append(b, m) = 1 .. p
    BY <2>7
  <2>10. PICK b1 : b1 = answer'.bytes
    OBVIOUS
  <2>11. /\ b1 \in Seq(UNION {[Bytes(t) -> Values] : t \in T}) /\ Len(b1) = p
         /\ \A t \in DOMAIN b1 : b1[t] = [i \in Bytes(t) |-> mem'[t][i]]
    BY <1>1, <2>6, <2>7, <2>8, <2>9, <2>10 DEF data
  <2>12. Len(b1) = IF answer'.parts = 0 THEN 0 ELSE answer'.parts - 1
    BY <1>4, <2>11
  <2> QED  BY <2>6, <2>10, <2>11, <2>12 DEF AnswerInv
<1>7. kind # "getParams" => AnswerInv'
  BY <1>1 DEF AnswerInv
<1> QED  BY <1>4, <1>5, <1>6, <1>7, <1>1

LEMMA SendStep ==
  ASSUME IInv, Send
  PROVE  IInv'
<1>1. /\ pc = "answer"
      /\ UNCHANGED <<host, sock, commInitialized, pc, got, kind, left, status, pktBufSize, data, out, orderly>>
  BY DEF Send, Sending
<1>2. /\ HostInv' /\ StreamInv' /\ ConnectionInv'
      /\ \A w : IsWord(w)' <=> IsWord(w)
      /\ \A c, n, i : Units(c, n)' = Units(c, n) /\ Following(c, n, i)' = Following(c, n, i)
  BY <1>1, SameLine
<1>3. answer'.parts \in 0 .. SendsOf(kind) /\ answer'.size \in {0, NBytesTotal} /\ AnswerInv'
  BY SendParts DEF IInv
<1>4. TypeOK'
  BY <1>1, <1>3 DEF IInv, TypeOK, host, data, Bytes, Elements, Width
<1>5. PlaceInv'
  BY <1>1, <1>2 DEF IInv, PlaceInv
<1>6. OrderlyInv'
  <2> SUFFICES ASSUME orderly
               PROVE  OrderlyInv'
    BY <1>1 DEF OrderlyInv
  <2>1. /\ got # <<>> => sock # None /\ PacketInv
        /\ got = <<>> => /\ kind = "shutdown"
                         /\ sock # None /\ stream[sock] # <<>> => stream[sock][1][3] = 1
        /\ SessionInv
    BY <1>1 DEF IInv, OrderlyInv
  <2>2. got # <<>> => PacketInv'
    BY <1>1, <1>2, <2>1 DEF PacketInv, OnePacket, host, AnswerTo
  <2>3. SessionInv'
    BY <1>1, <2>1 DEF SessionInv, host, Unread
  <2> QED  BY <1>1, <2>1, <2>2, <2>3 DEF OrderlyInv, host
<1>7. AnswersInOrder'
  BY <1>1, SameAnswers
<1>8. MemInv'
  BY <1>1 DEF IInv, MemInv, data
<1> QED  BY <1>2, <1>3, <1>4, <1>5, <1>6, <1>7, <1>8 DEF IInv

-------------------------------------------------------------------------------
(* The invariant, and what follows from it. *)

LEMMA InitIInv == Init => IInv
<1> SUFFICES ASSUME Init
             PROVE  IInv
  OBVIOUS
<1>1. \A c \in Clients : client[c] = "out" /\ sent[c] = <<>> /\ stream[c] = <<>> /\ out[c] = <<>>
  BY DEF Init
<1>2. /\ backlog = <<>> /\ sock = None /\ commInitialized = FALSE /\ pc = "header" /\ got = <<>>
      /\ kind = "none" /\ left = 0 /\ status = "ok" /\ answer = NoAnswer /\ pktBufSize = 0
      /\ garbage = FALSE /\ orderly = TRUE
  BY DEF Init
<1>3. TypeOK
  <2>1. /\ client \in [Clients -> {"out", "waiting", "in", "gone"}]
        /\ sent \in [Clients -> Seq(HostPackets \cup {Hello})]
        /\ stream \in [Clients -> Seq(Word)] /\ out \in [Clients -> Seq(Answer)]
    BY DEF Init
  <2>2. answer.parts \in 0 .. SendsOf(kind) /\ answer.size = 0
    BY <1>2, SendsOfType DEF NoAnswer
  <2>3. ASSUME NEW t \in T
        PROVE  mem[t] \in [Bytes(t) -> Values] /\ view[t] \in [Elements(t) -> Values]
    BY PktServerAssumption DEF Init
  <2>4. pktBufSize \in 0 .. MaxSize
    BY <1>2, PktServerAssumption
  <2>5. got \in Seq(Word) /\ backlog \in Seq(Clients)
    BY <1>2
  <2> QED  BY <1>2, <2>1, <2>2, <2>3, <2>4, <2>5 DEF TypeOK, Places
<1>4. HostInv
  BY <1>1 DEF HostInv
<1>5. StreamInv
  BY <1>1 DEF StreamInv, IsRun, IsWhole
<1>6. ConnectionInv
  BY <1>1, <1>2, ClientsType DEF ConnectionInv, Unread
<1>7. PlaceInv
  BY <1>2 DEF PlaceInv, HdrUnits
<1>8. OrderlyInv
  BY <1>2 DEF OrderlyInv, SessionInv
<1>9. AnswersInOrder
  BY <1>1 DEF AnswersInOrder
<1>10. MemInv
  <2>1. ASSUME NEW t \in T, NEW i \in Bytes(t)
        PROVE  mem[t][i] = view[t][i \div ElSize(t)]
    <3>1. i \div ElSize(t) \in Elements(t)
      BY TableTypes
    <3> QED  BY <3>1 DEF Init
  <2> QED  BY <2>1 DEF MemInv
<1>11. AnswerInv
  BY <1>2 DEF AnswerInv
<1> QED  BY <1>3, <1>4, <1>5, <1>6, <1>7, <1>8, <1>9, <1>10, <1>11 DEF IInv

LEMMA StutterStep ==
  ASSUME IInv, UNCHANGED vars
  PROVE  IInv'
<1>1. UNCHANGED <<host, sock, commInitialized, work, data, out, orderly>>
  BY DEF vars
<1>2. HostInv' /\ StreamInv' /\ ConnectionInv' /\ \A w : IsWord(w)' <=> IsWord(w)
  BY <1>1, SameLine
<1>3. TypeOK'
  BY <1>1 DEF IInv, TypeOK, host, work, data, Bytes, Elements, Width
<1>4. PlaceInv'
  BY <1>1, <1>2 DEF IInv, PlaceInv, work
<1>5. OrderlyInv'
  BY <1>1 DEF IInv, OrderlyInv, PacketInv, SessionInv, OnePacket, Unread, Following, Units, PayloadUnits,
               AnswerTo, host, work
<1>6. AnswersInOrder'
  BY <1>1, OrderStays DEF IInv, host, work, Handled
<1>7. MemInv' /\ AnswerInv'
  BY <1>1 DEF IInv, MemInv, AnswerInv, work, data
<1> QED  BY <1>2, <1>3, <1>4, <1>5, <1>6, <1>7 DEF IInv

LEMMA UploadFailsStep ==
  ASSUME IInv, UploadFails
  PROVE  IInv'
<1>1. /\ pc = "header" /\ got = <<>> /\ sock # None /\ client[sock] = "gone"
      /\ commInitialized' = FALSE /\ orderly' = (orderly /\ stream[sock] = <<>>)
      /\ UNCHANGED <<host, sock, work, data, out>>
  BY DEF UploadFails
<1>2. HostInv' /\ StreamInv' /\ ConnectionInv' /\ \A w : IsWord(w)' <=> IsWord(w)
  BY <1>1, SameLine
<1>3. orderly' \in BOOLEAN
  BY <1>1 DEF IInv, TypeOK
<1>4. TypeOK'
  BY <1>1, <1>3 DEF IInv, TypeOK, host, work, data, Bytes, Elements, Width
<1>5. PlaceInv'
  BY <1>1, <1>2 DEF IInv, PlaceInv, work
<1>6. OrderlyInv'
  BY <1>1 DEF OrderlyInv, SessionInv, host, work
<1>7. AnswersInOrder'
  BY <1>1, SameAnswers DEF work
<1>8. MemInv' /\ AnswerInv'
  BY <1>1, SameData DEF IInv, work, data
<1> QED  BY <1>2, <1>4, <1>5, <1>6, <1>7, <1>8 DEF IInv

LEMMA NextIInv == IInv /\ [Next]_vars => IInv'
<1> SUFFICES ASSUME IInv, [Next]_vars
             PROVE  IInv'
  OBVIOUS
<1>1. CASE Hosts
  BY <1>1, ConnectStep, HostSendStep, HostGoneStep DEF Hosts
<1>2. CASE Target
  <2>1. CASE Accept
    BY <2>1, AcceptStep
  <2>2. CASE GetPktHdr
    BY <2>2, GetPktHdrStep
  <2>3. CASE GetPkt
    BY <2>3, GetPktStep
  <2>4. CASE ClearPkt
    BY <2>4, ClearPktStep
  <2>5. CASE HostClosed \/ HeaderError \/ UploadFails \/ PayloadError
    BY <2>5, HostClosedStep, HeaderErrorStep, UploadFailsStep, PayloadErrorStep
  <2>6. CASE ConnectPkt \/ IgnorePkt \/ DisconnectNoUploadPkt
    BY <2>6, ConnectPktStep, IgnorePktStep, DisconnectNoUploadPktStep
  <2>7. CASE \E k \in HeaderOnly \ {"stop", "disconnectNoUpload"} : AnswerPkt(k)
    BY <2>7, AnswerPktStep
  <2>8. CASE \E k \in WithPayload : PayloadPkt(k)
    BY <2>8, PayloadPktStep
  <2>9. CASE InstallParams \/ InstallGarbage \/ Select
    BY <2>9, InstallParamsStep, InstallGarbageStep, SelectStep
  <2>10. CASE Send
    BY <2>10, SendStep
  <2>11. CASE SendFails \/ HandshakeFails
    BY <2>11, SendFailsStep, HandshakeFailsStep
  <2>12. CASE Answered
    BY <2>12, AnsweredStep
  <2> QED
    BY <1>2, <2>1, <2>2, <2>3, <2>4, <2>5, <2>6, <2>7, <2>8, <2>9, <2>10, <2>11, <2>12 DEF Target
<1>3. CASE Shutdown
  BY <1>3, ShutdownStep
<1>4. CASE UNCHANGED vars
  BY <1>4, StutterStep
<1> QED  BY <1>1, <1>2, <1>3, <1>4 DEF Next

\* The inductive invariant.
THEOREM Invariant == Spec => []IInv
BY InitIInv, NextIInv, PTL DEF Spec

\* Every variable has its type in every behaviour: what hosts send, what is on its
\* way, what the packet server has of a packet and of an answer, the parameters.
THEOREM TypeCorrect == Spec => []TypeOK
<1>1. IInv => TypeOK
  BY DEF IInv
<1> QED  BY <1>1, Invariant, PTL

\* What rt_PktServerWork takes for a packet is one, in whatever portions its words
\* arrive, as long as clients leave between packets and after their session.
THEOREM PacketsInStep == Spec => []InStep
<1>1. IInv => InStep
  <2> SUFFICES ASSUME IInv, orderly
               PROVE  OnePacket
    BY DEF InStep
  <2>1. CASE got = <<>>
    BY <2>1 DEF OnePacket
  <2>2. CASE got # <<>>
    BY <2>2 DEF IInv, OrderlyInv, PlaceInv, PacketInv
  <2> QED  BY <2>1, <2>2
<1> QED  BY <1>1, Invariant, PTL

\* Under the same condition each host that is connected was answered once for every
\* packet that the server has done with, in their order, by their kind, and was sent
\* nothing else.
THEOREM HostsAnsweredInOrder == Spec => []AnswersInOrder
<1>1. IInv => AnswersInOrder
  BY DEF IInv
<1> QED  BY <1>1, Invariant, PTL

\* ProcessGetParamsPkt sends as many bytes as its header says, and they hold for
\* each element, real or complex and of any size, what SetParam was last given for
\* it; for any transition table.
THEOREM ParametersReadBack == Spec => []ParamsReadBack
<1>1. IInv => ParamsReadBack
  <2> SUFFICES ASSUME IInv, pc = "answer", kind = "getParams", answer.parts = SendsOf(kind)
               PROVE  /\ answer.size = SumFunction([t \in T |-> Cardinality(DOMAIN answer.bytes[t])])
                      /\ \A t \in T : \A i \in DOMAIN answer.bytes[t] :
                           answer.bytes[t][i] = view[t][i \div (Transitions[t].dtSize * Width(t))]
    BY DEF ParamsReadBack
  <2>1. Len(Transitions) \in Nat /\ T = 1 .. Len(Transitions) /\ SendsOf(kind) = 1 + Len(Transitions)
    BY PktServerAssumption DEF SendsOf, T
  <2>2. PICK b : b = answer.bytes
    OBVIOUS
  <2>3. /\ answer.size = NBytesTotal /\ DOMAIN b = T
        /\ \A t \in T : b[t] = [i \in Bytes(t) |-> mem[t][i]]
    <3>1. /\ answer.size = NBytesTotal /\ Len(b) = Len(Transitions)
          /\ b \in Seq(UNION {[Bytes(t) -> Values] : t \in T})
          /\ \A t \in DOMAIN b : b[t] = [i \in Bytes(t) |-> mem[t][i]]
      BY <2>1, <2>2 DEF IInv, AnswerInv
    <3>2. DOMAIN b = T
      BY <2>1, <3>1
    <3> QED  BY <3>1, <3>2
  <2>4. ASSUME NEW t \in T
        PROVE  Cardinality(DOMAIN b[t]) = NBytes(t)
    <3>1. DOMAIN b[t] = 0 .. NBytes(t) - 1 /\ NBytes(t) \in Nat
      BY <2>3, TableTypes
    <3>2. Cardinality(0 .. NBytes(t) - 1) = NBytes(t)
      BY <3>1, FS_Interval
    <3> QED  BY <3>1, <3>2
  <2>5. [t \in T |-> Cardinality(DOMAIN b[t])] = [t \in T |-> NBytes(t)]
    BY <2>4
  <2>6. answer.size = SumFunction([t \in T |-> Cardinality(DOMAIN b[t])])
    BY <2>3, <2>5 DEF NBytesTotal
  <2>7. ASSUME NEW t \in T, NEW i \in DOMAIN b[t]
        PROVE  b[t][i] = view[t][i \div (Transitions[t].dtSize * Width(t))]
    <3>1. i \in Bytes(t) /\ b[t][i] = mem[t][i]
      BY <2>3, <2>7
    <3> QED  BY <3>1 DEF IInv, MemInv, ElSize
  <2> QED  BY <2>2, <2>6, <2>7
<1> QED  BY <1>1, Invariant, PTL
===============================================================================
