------------------------------- MODULE PktServer -------------------------------
(***************************************************************************)
(* The packet line of external mode: how the packet server of ext_svr.c    *)
(* cuts the bytes of the connection into packets, answers each of them,    *)
(* and installs and reports the parameters of the model (SetParam of       *)
(* updown.c, ProcessGetParamsPkt), over TCP.                               *)
(*                                                                         *)
(* A packet is a header of two words, type and size, and a payload.  TCP   *)
(* delivers words in any portions.  The target does not learn who sent     *)
(* them: the transport accepts the next client by itself when the last one *)
(* is gone, in the middle of a packet if need be.  What packets do to the  *)
(* signals' triggers and to the model's status is in modules ExtModeUpload *)
(* and ErtMain.                                                            *)
(***************************************************************************)
EXTENDS Integers, Sequences, FiniteSets, SequencesExt

CONSTANTS
  NumClients,
  None,          \* INVALID_SOCKET, as a client
  HostPackets,   \* the packets a host may send after its first one
  MaxPackets,    \* bound: how many packets each client sends
  MaxTotal,      \* bound: how many packets all clients send
  MaxSize,       \* bound: the size that foreign words in a header may give
  Transitions,   \* the parameters' data type transition table
  Values,        \* of a parameter's element
  Initial        \* what the generated code initialises them with

Clients == 1 .. NumClients   \* in the order in which they connect

HdrUnits == 2    \* sizeof(PktHeader), in words

\* The packets after a host's first one, by the branch of rt_PktServerWork:
\* "control" is EXT_MODEL_START, _PAUSE, _STEP and _CONTINUE, "select" what takes
\* signals or a trigger.
HeaderOnly == {"getTime", "getParams", "control", "stop", "disconnect", "disconnectNoUpload"}
WithPayload == {"setParam", "select"}
Kinds == HeaderOnly \cup WithPayload

\* The size field of the packet that shakes hands is part of a text.
Hello == [kind |-> "ext-mode", size |-> MaxSize, params |-> <<>>]

T == DOMAIN Transitions

\* What a parameter's element takes of its transition, in elements: dtTransNEls
\* counts a complex element as two.
Width(t) == IF Transitions[t].complex THEN 2 ELSE 1
Elements(t) == 0 .. Transitions[t].nEls \div Width(t) - 1

\* A parameter in an EXT_SETPARAM packet: elements s .. s + w - 1 of transition b.
Param == [b: T, s: Nat, w: Nat, value: Values]

ASSUME PktServerAssumption ==
  /\ NumClients \in Nat /\ None \notin Clients /\ Initial \in Values
  /\ MaxPackets \in [Clients -> Nat] /\ MaxTotal \in Nat /\ MaxSize \in Nat
  /\ Transitions \in Seq([dtSize: Nat \ {0}, complex: BOOLEAN, nEls: Nat])
  /\ \A t \in T : Transitions[t].complex => Transitions[t].nEls % 2 = 0
  /\ \A p \in HostPackets :
       /\ p.kind \in Kinds /\ p.size \in 0 .. MaxSize
       /\ p.kind \in WithPayload <=> p.size > 0
       /\ p.params \in Seq(Param)
       /\ \A i \in DOMAIN p.params :
            /\ p.params[i].b \in T
            /\ p.params[i].s .. p.params[i].s + p.params[i].w - 1 \subseteq Elements(p.params[i].b)

VARIABLES
  client,      \* what each client does: "out", "waiting", "in", "gone"
  sent,        \* the packets each client has sent
  stream,      \* the words on their way from each client
  backlog,     \* connections that wait to be accepted
  sock,        \* the client the transport's socket is connected to
  commInitialized,
  pc,          \* where rt_PktServerWork is
  got,         \* the words it has taken of the current packet
  kind,        \* the branch it is in
  left,        \* the words of the payload that are still to come
  status,      \* the status it is going to answer
  answer,      \* the parts of the answer it has sent
  pktBufSize,
  mem,         \* the bytes of the parameters, by transition
  out,         \* what each client was answered
  orderly,     \* history: no client was lost in the middle of something
  garbage,     \* history: words of no packet were installed as parameters
  view         \* history: the parameters' elements, as the hosts set them

host == <<client, sent, stream, backlog>>
work == <<pc, got, kind, left, status, answer, pktBufSize>>
data == <<mem, garbage, view>>
vars == <<host, sock, commInitialized, work, data, out, orderly>>

\* An answer of which nothing was sent: the parts sent, and of the parameters the
\* size in the header and the bytes.
NoAnswer == [parts |-> 0, size |-> 0, bytes |-> <<>>]

Bytes(t) == 0 .. Transitions[t].dtSize * Transitions[t].nEls - 1

Init ==
  /\ client = [c \in Clients |-> "out"]
  /\ sent = [c \in Clients |-> <<>>] /\ stream = [c \in Clients |-> <<>>]
  /\ backlog = <<>> /\ sock = None /\ commInitialized = FALSE
  /\ pc = "header" /\ got = <<>> /\ kind = "none" /\ left = 0
  /\ status = "ok" /\ answer = NoAnswer /\ pktBufSize = 0
  /\ mem = [t \in T |-> [i \in Bytes(t) |-> Initial]]
  /\ view = [t \in T |-> [e \in Elements(t) |-> Initial]]
  /\ garbage = FALSE /\ orderly = TRUE
  /\ out = [c \in Clients |-> <<>>]

-------------------------------------------------------------------------------
(***************************************************************************)
(* The hosts.  One sends its first packet at once, and others when it was  *)
(* answered.  What is on its way when it goes may be cut off anywhere.     *)
(***************************************************************************)
Connect(c) ==
  /\ client[c] = "out" /\ pc # "done" /\ \A d \in 1 .. c - 1 : client[d] # "out"
  /\ client' = [client EXCEPT ![c] = "waiting"]
  /\ backlog' = Append(backlog, c)
  /\ UNCHANGED <<sent, stream, sock, commInitialized, work, data, out, orderly>>

PayloadUnits(p) == IF p.kind \in WithPayload THEN p.size ELSE 0

\* The words of client c's packet p, its n-th.
Words(c, n, p) == [i \in 1 .. HdrUnits + PayloadUnits(p) |-> <<c, n, i>>]

MaySend(c) ==
  IF sent[c] = <<>> THEN {Hello}
  ELSE {p \in HostPackets :
          /\ out[c] # <<>>
          /\ Last(sent[c]).kind \notin {"disconnect", "disconnectNoUpload"}}

HostSend(c) ==
  /\ client[c] \in {"waiting", "in"} /\ Len(sent[c]) < MaxPackets[c]
  /\ SumFunction([d \in Clients |-> Len(sent[d])]) < MaxTotal
  /\ \E p \in MaySend(c) :
       /\ sent' = [sent EXCEPT ![c] = Append(@, p)]
       /\ stream' = [stream EXCEPT ![c] = @ \o Words(c, Len(sent[c]) + 1, p)]
  /\ UNCHANGED <<client, backlog, sock, commInitialized, work, data, out, orderly>>

HostGone(c) ==
  /\ client[c] \in {"waiting", "in"}
  /\ client' = [client EXCEPT ![c] = "gone"]
  /\ \E n \in 0 .. Len(stream[c]) : stream' = [stream EXCEPT ![c] = SubSeq(@, 1, n)]
  /\ UNCHANGED <<sent, backlog, sock, commInitialized, work, data, out, orderly>>

Hosts == \E c \in Clients : Connect(c) \/ HostSend(c) \/ HostGone(c)

-------------------------------------------------------------------------------
(***************************************************************************)
(* ExtGetHostPkt, from the places that call it: GetPktHdr ("header"),      *)
(* GetPkt ("payload") and ClearPkt ("clear").  Each of them polls until it *)
(* has what it needs, GetPktHdr only if it has a part of it.               *)
(***************************************************************************)
Receiving == pc \in {"header", "payload", "clear"}

\* A receive, or a send that finds no socket, accepts who is next.
Accept ==
  /\ (Receiving \/ pc = "answer") /\ sock = None /\ backlog # <<>>
  /\ sock' = Head(backlog) /\ backlog' = Tail(backlog)
  /\ client' = [client EXCEPT ![Head(backlog)] = IF @ = "waiting" THEN "in" ELSE @]
  /\ UNCHANGED <<sent, stream, commInitialized, work, data, out, orderly>>

\* The next n words of the stream are received.
Take(n) ==
  /\ sock # None /\ n <= Len(stream[sock])
  /\ got' = got \o SubSeq(stream[sock], 1, n)
  /\ stream' = [stream EXCEPT ![sock] = SubSeq(@, n + 1, Len(@))]

\* Mutant: a header that comes in two portions is begun anew.
ForgetHalfHeader ==
  /\ pc = "header"
  /\ \E n \in 1 .. HdrUnits :
       /\ sock # None /\ n <= Len(stream[sock])
       /\ stream' = [stream EXCEPT ![sock] = SubSeq(@, n + 1, Len(@))]
       /\ got' = IF n = HdrUnits THEN SubSeq(stream[sock], 1, n) ELSE <<>>
       /\ pc' = IF n = HdrUnits THEN "packet" ELSE "header"
  /\ UNCHANGED <<client, sent, backlog, sock, commInitialized, kind, left, status, answer,
                 pktBufSize, data, out, orderly>>

GetPktHdr ==
  /\ pc = "header"
  /\ \E n \in 1 .. HdrUnits - Len(got) : Take(n)
  /\ pc' = IF Len(got') = HdrUnits THEN "packet" ELSE "header"
  /\ UNCHANGED <<client, sent, backlog, sock, commInitialized, kind, left, status, answer,
                 pktBufSize, data, out, orderly>>

GetPkt ==
  /\ pc = "payload"
  /\ \E n \in 1 .. left : Take(n) /\ left' = left - n
  /\ pc' = IF left' = 0 THEN "install" ELSE "payload"
  /\ UNCHANGED <<client, sent, backlog, sock, commInitialized, kind, status, answer,
                 pktBufSize, data, out, orderly>>

\* One after the other.
ClearPkt ==
  /\ pc = "clear"
  /\ Take(1) /\ left' = left - 1
  /\ pc' = IF left' = 0 THEN "answer" ELSE "clear"
  /\ UNCHANGED <<client, sent, backlog, sock, commInitialized, kind, status, answer,
                 pktBufSize, data, out, orderly>>

\* Client c was told that its session is over.
ToldBye(c) == out[c] # <<>> /\ Last(out[c])[1] = "disconnect"

\* The client's end is read, or a reset: the transport closes the socket and
\* reports no error.  Session and packet go on, with whoever comes next.
HostClosed ==
  /\ Receiving /\ sock # None /\ client[sock] = "gone"
  /\ sock' = None /\ stream' = [stream EXCEPT ![sock] = <<>>]
  /\ orderly' = (orderly /\ got = <<>> /\ (commInitialized => ToldBye(sock)))
  /\ UNCHANGED <<client, sent, backlog, commInitialized, work, data, out>>

\* The connection fails in another way.  In the header that forces the
\* disconnect, and what came of the header is dropped.
HeaderError ==
  /\ pc = "header" /\ sock # None /\ client[sock] = "gone"
  /\ sock' = None /\ stream' = [stream EXCEPT ![sock] = <<>>]
  /\ commInitialized' = FALSE
  /\ got' = <<>> /\ orderly' = TRUE
  /\ UNCHANGED <<client, sent, backlog, pc, kind, left, status, answer, pktBufSize, data, out>>

\* Between two packets an upload to a client that is gone forces it as well.
UploadFails ==
  /\ pc = "header" /\ got = <<>> /\ commInitialized
  /\ sock # None /\ client[sock] = "gone"
  /\ commInitialized' = FALSE
  /\ orderly' = (orderly /\ stream[sock] = <<>>)
  /\ UNCHANGED <<host, sock, work, data, out>>

\* In the payload it counts as lack of memory, and is answered, to whoever
\* comes next.
PayloadError ==
  /\ pc \in {"payload", "clear"} /\ sock # None /\ client[sock] = "gone"
  /\ sock' = None /\ stream' = [stream EXCEPT ![sock] = <<>>]
  /\ pc' = "answer" /\ left' = 0 /\ status' = "NOT_ENOUGH_MEMORY"
  /\ orderly' = FALSE
  /\ UNCHANGED <<client, sent, backlog, commInitialized, got, kind, answer, pktBufSize, data, out>>

-------------------------------------------------------------------------------
(***************************************************************************)
(* rt_PktServerWork: the branch is chosen by the first word of the header. *)
(* A word that belongs elsewhere may be anything.                          *)
(***************************************************************************)
PacketOf(word) == sent[word[1]][word[2]]

HdrTypes == IF got[1][3] = 1 THEN {PacketOf(got[1]).kind} ELSE Kinds \cup {"ext-mode"}
HdrSizes == IF got[2][3] = 2 THEN {PacketOf(got[2]).size} ELSE 0 .. MaxSize

\* A packet of the session has type k.
Got(k) == pc = "packet" /\ commInitialized /\ k \in HdrTypes

Polling == /\ pc' = "header"
           /\ got' = <<>> /\ kind' = "none" /\ status' = "ok" /\ answer' = NoAnswer

\* Whatever the first packet is, it shakes hands.
ConnectPkt ==
  /\ pc = "packet" /\ ~commInitialized
  /\ pc' = "answer" /\ kind' = "connect"
  /\ UNCHANGED <<host, sock, commInitialized, got, left, status, answer, pktBufSize, data, out, orderly>>

\* Packets that are answered without looking at a payload.
AnswerPkt(k) ==
  /\ Got(k)
  /\ pc' = "answer" /\ kind' = k
  /\ UNCHANGED <<host, sock, commInitialized, got, left, status, answer, pktBufSize, data, out, orderly>>

\* EXT_MODEL_STOP is not answered.  A type that is unknown, that of a host's
\* first packet in a session that goes on above all, is passed over.
IgnorePkt ==
  /\ Got("stop") \/ Got("ext-mode")
  /\ Polling
  /\ UNCHANGED <<host, sock, commInitialized, left, pktBufSize, data, out, orderly>>

DisconnectNoUploadPkt ==
  /\ Got("disconnectNoUpload")
  /\ commInitialized' = FALSE
  /\ Polling
  /\ UNCHANGED <<host, sock, left, pktBufSize, data, out, orderly>>

\* Mutant: a header too many is cleared.
GrowClearsHeader(size) ==
  \/ /\ pktBufSize' = IF size > pktBufSize THEN size ELSE pktBufSize
     /\ pc' = IF size = 0 THEN "install" ELSE "payload"
     /\ left' = size /\ status' = status
  \/ /\ size > pktBufSize
     /\ pktBufSize' = 0
     /\ pc' = "clear"
     /\ left' = size + HdrUnits /\ status' = "NOT_ENOUGH_MEMORY"

\* GrowRecvBufIfNeeded, and where GetPkt goes from there.
Grow(size) ==
  \/ /\ pktBufSize' = IF size > pktBufSize THEN size ELSE pktBufSize
     /\ pc' = IF size = 0 THEN "install" ELSE "payload"
     /\ left' = size /\ status' = status
  \/ /\ size > pktBufSize
     /\ pktBufSize' = 0
     /\ pc' = "clear"
     /\ left' = size /\ status' = "NOT_ENOUGH_MEMORY"

PayloadPkt(k) ==
  /\ Got(k)
  /\ \E size \in HdrSizes : Grow(size)
  /\ kind' = k
  /\ UNCHANGED <<host, sock, commInitialized, got, answer, data, out, orderly>>

-------------------------------------------------------------------------------
(***************************************************************************)
(* The parameters.                                                         *)
(***************************************************************************)
\* Mutant: complex elements are not taken for two.
ElSizeReal(t) == Transitions[t].dtSize

ElSize(t) == Transitions[t].dtSize * Width(t)

\* What is in a place after a loop over params has written it in its passes js.
Written(params, js, before) == IF js = {} THEN before ELSE params[Max(js)].value

\* SetParam's loop: for each parameter nBytes = W * elSize from SI * elSize on.
SetParam(m, params) ==
  [t \in T |-> [i \in Bytes(t) |->
     Written(params,
             {j \in DOMAIN params : /\ params[j].b = t
                                    /\ params[j].s * ElSize(t) <= i
                                    /\ i < (params[j].s + params[j].w) * ElSize(t)},
             m[t][i])]]

\* The same, of the elements the host means.
SetElements(v, params) ==
  [t \in T |-> [e \in Elements(t) |->
     Written(params,
             {j \in DOMAIN params : /\ params[j].b = t
                                    /\ params[j].s <= e /\ e < params[j].s + params[j].w},
             v[t][e])]]

\* All words of got are those of one packet.
OnePacket == \A i \in DOMAIN got : got[i] = <<got[1][1], got[1][2], i>>

InstallParams ==
  /\ pc = "install" /\ kind = "setParam" /\ OnePacket
  /\ mem' = SetParam(mem, PacketOf(got[1]).params)
  /\ view' = SetElements(view, PacketOf(got[1]).params)
  /\ pc' = "answer"
  /\ UNCHANGED <<host, sock, commInitialized, got, kind, left, status, answer, pktBufSize,
                 garbage, out, orderly>>

\* Foreign words as indices and values: the parameters end up anyhow, if the
\* program survives.
InstallGarbage ==
  /\ pc = "install" /\ ~OnePacket
  /\ garbage' = TRUE
  /\ pc' \in {"answer", "crashed"} /\ status' \in {"ok", "NOT_ENOUGH_MEMORY"}
  /\ UNCHANGED <<host, sock, commInitialized, got, kind, left, answer, pktBufSize,
                 mem, view, out, orderly>>

\* Selecting signals or a trigger may fail, arming and cancelling does not.
Select ==
  /\ pc = "install" /\ kind = "select" /\ OnePacket
  /\ status' \in {"ok", "NOT_ENOUGH_MEMORY"}
  /\ pc' = "answer"
  /\ UNCHANGED <<host, sock, commInitialized, got, kind, left, answer, pktBufSize, data, out, orderly>>

\* What both passes of ProcessGetParamsPkt take for the bytes of a transition.
NBytes(t) == Transitions[t].dtSize * Transitions[t].nEls

NBytesTotal == SumFunction([t \in T |-> NBytes(t)])

-------------------------------------------------------------------------------
(***************************************************************************)
(* The answer, part by part.  A send may fail if the client is gone.       *)
(***************************************************************************)
SendsOf(k) ==
  CASE k = "connect" -> 3                      \* bits per byte; header; checksums, sizes
    [] k = "getParams" -> 1 + Len(Transitions) \* header; each transition
    [] k \in {"getTime", "setParam", "select"} -> 2
    [] OTHER -> 1

Sending == pc = "answer" /\ sock # None /\ answer.parts < SendsOf(kind)

Send ==
  /\ Sending
  /\ answer' =
       [parts |-> answer.parts + 1,
        size  |-> IF kind = "getParams" /\ answer.parts = 0 THEN NBytesTotal ELSE answer.size,
        bytes |-> IF kind = "getParams" /\ answer.parts > 0
                  THEN Append(answer.bytes, [i \in 0 .. NBytes(answer.parts) - 1 |-> mem[answer.parts][i]])
                  ELSE answer.bytes]
  /\ UNCHANGED <<host, sock, commInitialized, pc, got, kind, left, status, pktBufSize, data, out, orderly>>

\* The packet is done with, and nothing else changes: a handshake that failed is
\* none, and a request to disconnect is forgotten.
SendFails ==
  /\ Sending /\ client[sock] = "gone"
  /\ IF kind = "shutdown"
     THEN pc' = "done" /\ commInitialized' = FALSE /\ UNCHANGED <<got, kind, status, answer>>
     ELSE Polling /\ UNCHANGED commInitialized
  /\ UNCHANGED <<host, sock, left, pktBufSize, data, out, orderly>>

\* There is no memory for the second packet of the handshake: nothing tells the
\* host, and there is no session.
HandshakeFails ==
  /\ Sending /\ kind = "connect" /\ answer.parts = 1
  /\ Polling
  /\ orderly' = FALSE
  /\ UNCHANGED <<host, sock, commInitialized, left, pktBufSize, data, out>>

\* Mutant: the session goes on after its end was asked for.
SessionAfterKeeps(k) == k = "connect" \/ commInitialized

\* commInitialized, after the answer to k.
SessionAfter(k) == (k = "connect" \/ commInitialized) /\ k \notin {"disconnect", "shutdown"}

Answered ==
  /\ pc = "answer" /\ sock # None /\ answer.parts = SendsOf(kind)
  /\ out' = [out EXCEPT ![sock] = Append(@, <<kind, status>>)]
  /\ commInitialized' = SessionAfter(kind)
  /\ IF kind = "shutdown"
     THEN pc' = "done" /\ UNCHANGED <<got, kind, status, answer>>
     ELSE Polling
  /\ UNCHANGED <<host, sock, left, pktBufSize, data, orderly>>

\* rt_ExtModeShutdown, between two calls of the packet server.
Shutdown ==
  /\ pc = "header" /\ got = <<>>
  /\ IF commInitialized
     THEN pc' = "answer" /\ kind' = "shutdown"
     ELSE pc' = "done" /\ UNCHANGED kind
  /\ UNCHANGED <<host, sock, commInitialized, got, left, status, answer, pktBufSize, data, out, orderly>>

-------------------------------------------------------------------------------
Target ==
  \/ Accept \/ GetPktHdr \/ GetPkt \/ ClearPkt \/ HostClosed \/ HeaderError \/ UploadFails \/ PayloadError
  \/ ConnectPkt \/ IgnorePkt \/ DisconnectNoUploadPkt
  \/ \E k \in HeaderOnly \ {"stop", "disconnectNoUpload"} : AnswerPkt(k)
  \/ \E k \in WithPayload : PayloadPkt(k)
  \/ InstallParams \/ InstallGarbage \/ Select
  \/ Send \/ SendFails \/ HandshakeFails \/ Answered

Next == Hosts \/ Target \/ Shutdown

Spec == Init /\ [][Next]_vars

\* The thread that runs the packet server goes on.
FairSpec == Spec /\ WF_vars(Target)

-------------------------------------------------------------------------------
Places == {"header", "packet", "payload", "clear", "install", "answer", "done", "crashed"}

Word == Clients \X (Nat \ {0}) \X (Nat \ {0})
Answer == (Kinds \cup {"none", "connect", "shutdown"}) \X {"ok", "NOT_ENOUGH_MEMORY"}

TypeOK ==
  /\ client \in [Clients -> {"out", "waiting", "in", "gone"}]
  /\ sent \in [Clients -> Seq(HostPackets \cup {Hello})]
  /\ stream \in [Clients -> Seq(Word)] /\ got \in Seq(Word)
  /\ backlog \in Seq(Clients) /\ sock \in Clients \cup {None}
  /\ commInitialized \in BOOLEAN /\ pc \in Places
  /\ kind \in Kinds \cup {"none", "connect", "shutdown"}
  /\ left \in Nat /\ status \in {"ok", "NOT_ENOUGH_MEMORY"}
  /\ answer.parts \in 0 .. SendsOf(kind) /\ answer.size \in {0, NBytesTotal}
  /\ pktBufSize \in 0 .. MaxSize
  /\ \A t \in T : mem[t] \in [Bytes(t) -> Values] /\ view[t] \in [Elements(t) -> Values]
  /\ orderly \in BOOLEAN /\ garbage \in BOOLEAN
  /\ out \in [Clients -> Seq(Answer)]

\* As long as clients leave between two packets and after their session (and
\* the handshake finds the little memory it needs), what is
\* taken for a packet is one: its words come from one packet of one client, in
\* whatever portions they arrive, and whether or not there was memory for the
\* packet before it.  A connection error that is noticed makes up for a client
\* that left in the middle.
InStep == orderly => OnePacket

\* The packets of client c that the target has done with.
Handled(c) ==
  IF got # <<>> /\ got[1][1] = c THEN got[1][2] - 1
  ELSE IF stream[c] = <<>> THEN Len(sent[c]) ELSE Head(stream[c])[2] - 1

ToBeAnswered(p) == p.kind \notin {"stop", "disconnectNoUpload"}
AnswerTo(p) == IF p = Hello THEN "connect" ELSE p.kind

\* How many answers the first n packets of client c ask for.
Asked(c, n) == Cardinality({i \in 1 .. n : ToBeAnswered(sent[c][i])})

\* Under the same condition a host is answered once for each of its packets, in
\* their order and by their kind, and nothing that was meant for another host
\* comes in between: not a status, not a part of the parameters.
AnswersInOrder ==
  orderly /\ pc # "done" =>
    \A c \in Clients : client[c] = "in" =>
      /\ Len(out[c]) = Asked(c, Handled(c))
      /\ \A i \in 1 .. Handled(c) :
           ToBeAnswered(sent[c][i]) => out[c][Asked(c, i)][1] = AnswerTo(sent[c][i])

\* A host that asks for the parameters is sent as many bytes as the header says,
\* and they hold for each element the value that was last set: by a packet that
\* came whole, never by one that there was no memory for.
ParamsReadBack ==
  pc = "answer" /\ kind = "getParams" /\ answer.parts = SendsOf(kind) /\ ~garbage =>
    /\ answer.size = SumFunction([t \in T |-> Cardinality(DOMAIN answer.bytes[t])])
    /\ \A t \in T : \A i \in DOMAIN answer.bytes[t] :
         answer.bytes[t][i] = view[t][i \div (Transitions[t].dtSize * Width(t))]

\* A packet that has begun is finished, and the thread gets on with the model,
\* unless its client is lost on the way.
PollsAgain == got # <<>> ~> got = <<>> \/ ~orderly \/ pc = "done"

\* A host's first packet shakes hands (see the findings: it is passed over if the
\* host before closed the connection without a request to disconnect).
FirstPacketShakesHands ==
  [][pc = "packet" /\ OnePacket /\ PacketOf(got[1]) = Hello /\ pc' # pc => kind' = "connect"]_vars
===============================================================================
