---------------------------- MODULE ExtModeUpload ----------------------------
(***************************************************************************)
(* Signal upload of the external-mode target, as the base-rate thread runs *)
(* it: the packet server and the upload server of ext_svr.c, the trigger   *)
(* functions of updown.c (module UploadInfo), for NumUpInfos upInfos that  *)
(* share one connection and the flag host_upstatus_is_uploading.           *)
(*                                                                         *)
(* One pass of the loop in baseRateTask is                                 *)
(*    (packet, upload)+ ; check ; add ; end                                *)
(* where the (packet, upload) pair repeats while the model is paused or    *)
(* waits for its start packet.  How long it repeats is left open here;     *)
(* module ErtMain models the flags that decide it.                         *)
(***************************************************************************)
EXTENDS UploadInfo

CONSTANTS
  NumUpInfos,    \* NUM_UPINFOS
  TriggerPkts,   \* the triggers the host selects
  Capacities     \* the buffer sizes the host selects, in whole time points

\* The host asks for at least one point per event and for fewer pre-trigger
\* points than the event is long.
ASSUME UploadAssumption ==
  /\ NumUpInfos \in Nat \ {0}
  /\ TriggerPkts \subseteq TriggerPkt
  /\ Capacities \subseteq Nat
  /\ \A p \in TriggerPkts : p.duration > 0 /\ -p.delay < p.duration

UpInfos == 0 .. NumUpInfos - 1

VARIABLES
  info,            \* uploadInfoArray
  uploading,       \* host_upstatus_is_uploading
  connected,
  commInitialized,
  link,            \* the client socket, and who is at its other end
  pc,              \* where the thread is
  up,              \* the upInfo its current loop has reached
  caller,          \* who flushes: DisconnectFromHost or rt_ExtModeShutdown
  log              \* history: what the host has of the current event

vars == <<info, uploading, connected, commInitialized, link, pc, up, caller, log>>

(***************************************************************************)
(* The client socket:                                                      *)
(*   none   the target has no client                                       *)
(*   open   a client that has not shaken hands                             *)
(*   host   the host of the session                                        *)
(*   gone   the client closed or failed and the target has not seen it     *)
(***************************************************************************)
Links == {"none", "open", "host", "gone"}

(***************************************************************************)
(* The history, from the arming of an event on:                            *)
(*   got    time points handed to the socket                               *)
(*   stale  buffer memory that holds no recorded point was handed to it    *)
(*   end    the terminator handed to it                                    *)
(*   why    what moved the trigger to TERMINATING                          *)
(*   want   the points the selected duration asks for                      *)
(*   since  base-rate steps since the trigger signal crossed               *)
(*   final  logging was cancelled or is being flushed for the last time    *)
(***************************************************************************)
LogType == [got: Nat, stale: BOOLEAN, end: {"none", "event", "session"},
            why: {"none", "duration", "overflow", "cancel", "flush"},
            want: Nat, since: Nat, final: BOOLEAN]

NoLog == [got |-> 0, stale |-> FALSE, end |-> "none", why |-> "none",
          want |-> 0, since |-> 0, final |-> FALSE]

ArmedLog(i) == [NoLog EXCEPT !.want = IF i.cap = 0 THEN 0 ELSE i.duration]

Init ==
  /\ info = [u \in UpInfos |-> UploadLogInfoReset]
  /\ uploading = FALSE
  /\ connected = FALSE
  /\ commInitialized = FALSE
  /\ link = "none"
  /\ pc = "packet"
  /\ up = 0
  /\ caller = "none"
  /\ log = [u \in UpInfos |-> NoLog]

\* Control goes to place p, to the first upInfo of the loop there.
Goto(p) == pc' = p /\ up' = 0

\* The next upInfo of the loop at place p, or, after the last one, place next.
Advance(p, next) ==
  IF up + 1 \in UpInfos THEN pc' = p /\ up' = up + 1 ELSE Goto(next)

-------------------------------------------------------------------------------
(***************************************************************************)
(* The environment.  A client takes the place of one that is gone as soon  *)
(* as the target has closed that one's socket, whatever became of the old  *)
(* session; and a client may be lost at any time.                          *)
(***************************************************************************)
LinkUp ==
  /\ link = "none" /\ pc # "done"
  /\ link' = "open"
  /\ UNCHANGED <<info, uploading, connected, commInitialized, pc, up, caller, log>>

LinkDown ==
  /\ link \in {"open", "host"}
  /\ link' = "gone"
  /\ UNCHANGED <<info, uploading, connected, commInitialized, pc, up, caller, log>>

-------------------------------------------------------------------------------
(* rt_PktServerWork: at most one packet, then the upload server. *)

\* ExtOpenConnection reports a connection whether or not a host is there.
ToUpload == connected' = TRUE /\ Goto("upload")

\* Nothing has arrived, or nothing that changes the state: a packet of another
\* kind, or that of a client that cannot shake hands while the old session
\* lasts.  A socket that was closed or reset is closed without an error.
NoPacket ==
  /\ pc = "packet"
  /\ link' = IF link = "gone" THEN "none" ELSE link
  /\ ToUpload
  /\ UNCHANGED <<info, uploading, commInitialized, caller, log>>

\* Mutant: the connection ends and the logging sessions do not.
ForceDisconnectOnly ==
  connected' = FALSE /\ commInitialized' = FALSE /\ UNCHANGED info

ForceDisconnectFromHost ==
  /\ connected' = FALSE
  /\ commInitialized' = FALSE
  /\ info' = [u \in UpInfos |-> UploadEndLoggingSession(info[u])]

HeaderError ==
  /\ pc = "packet" /\ link = "gone"
  /\ link' = "none"
  /\ ForceDisconnectFromHost
  /\ Goto("upload")
  /\ UNCHANGED <<uploading, caller, log>>

\* Whatever the first packet is, it is taken for EXT_CONNECT.
ConnectPkt ==
  /\ pc = "packet" /\ link = "open" /\ ~commInitialized
  /\ commInitialized' = TRUE
  /\ link' = "host"
  /\ ToUpload
  /\ UNCHANGED <<info, uploading, caller, log>>

\* A packet of an established connection.
Packet == pc = "packet" /\ link = "host" /\ commInitialized

\* The host selects signals, whatever the trigger does.  When memory runs out
\* UploadLogInfoInit frees what it had allocated, if it survives that (module
\* UploadMemory).
SelectSignals(u) ==
  /\ Packet
  /\ \/ \E cap \in Capacities : info' = [info EXCEPT ![u] = UploadLogInfoInit(@, cap)]
     \/ info' = [info EXCEPT ![u] = UploadLogInfoReset]
  /\ ToUpload
  /\ UNCHANGED <<uploading, commInitialized, link, caller, log>>

\* The host selects a trigger once for the selected signals, and then arms it.
SelectTrigger(u) ==
  /\ Packet
  /\ info[u].sys /\ info[u].state = "UNARMED" /\ info[u].duration = 0
  /\ \E pkt \in TriggerPkts : info' = [info EXCEPT ![u] = UploadInitTrigger(@, pkt)]
  /\ ToUpload
  /\ UNCHANGED <<uploading, commInitialized, link, caller, log>>

ArmTrigger(u) ==
  /\ Packet
  /\ info[u].sys /\ info[u].state = "UNARMED" /\ info[u].duration > 0
  /\ info' = [info EXCEPT ![u] = UploadArmTrigger(@)]
  /\ uploading' = FALSE
  /\ log' = [log EXCEPT ![u] = ArmedLog(info[u])]
  /\ ToUpload
  /\ UNCHANGED <<commInitialized, link, caller>>

\* The history when a host command, or the shutdown, ends logging for good.
Finally(l, i, cause) ==
  [l EXCEPT !.final = TRUE, !.why = IF i.state = "TERMINATING" THEN @ ELSE cause]

\* A cancel may cross the end of the session: it finds the trigger in any state.
CancelLogging(u) ==
  /\ Packet
  /\ info' = [info EXCEPT ![u] = UploadCancelLogging(@)]
  /\ log' = IF info[u].state = "UNARMED" THEN log
            ELSE [log EXCEPT ![u] = Finally(@, info[u], "cancel")]
  /\ ToUpload
  /\ UNCHANGED <<uploading, commInitialized, link, caller>>

DisconnectRequest ==
  /\ Packet
  /\ Goto("prepare")
  /\ caller' = "disconnect"
  /\ UNCHANGED <<info, uploading, connected, commInitialized, link, log>>

DisconnectRequestNoFinalUpload ==
  /\ Packet
  /\ ForceDisconnectFromHost
  /\ link' = "gone"
  /\ Goto("upload")
  /\ UNCHANGED <<uploading, caller, log>>

PktServerWork ==
  \/ NoPacket
  \/ HeaderError
  \/ ConnectPkt
  \/ \E u \in UpInfos : SelectSignals(u)
  \/ \E u \in UpInfos : SelectTrigger(u)
  \/ \E u \in UpInfos : ArmTrigger(u)
  \/ \E u \in UpInfos : CancelLogging(u)
  \/ DisconnectRequest
  \/ DisconnectRequestNoFinalUpload

-------------------------------------------------------------------------------
(***************************************************************************)
(* UploadServerWork(u): everything buffered is sent, then the terminator   *)
(* if the event is over.  Without a client a send waits until one comes.   *)
(* With one, and even when that one is gone, it may succeed or fail.       *)
(* Failing to send data forces the disconnect, which leaves the socket as  *)
(* it is: packets that are still to be read there count as those of a new  *)
(* client.  Failing to send a terminator is ignored.                       *)
(***************************************************************************)
ServedInfo(i) == IF AtEnd(i) THEN EventEnded(Drained(i)) ELSE Drained(i)

Handed(l, i) ==
  IF HasData(i) THEN [l EXCEPT !.got = @ + i.points, !.stale = @ \/ i.points = 0] ELSE l

Terminated(l, i) ==
  IF AtEnd(i)
  THEN [l EXCEPT !.end = IF i.holdOff = ONESHOT THEN "session" ELSE "event"]
  ELSE l

\* UploadBufDataSent sets the flag and the end of an event clears it.
ServedUploading(i) == IF AtEnd(i) THEN FALSE ELSE uploading \/ HasData(i)

NothingToSend(u) ==
  /\ ~connected \/ (~HasData(info[u]) /\ ~AtEnd(info[u]))
  /\ UNCHANGED <<info, uploading, connected, commInitialized, link, log>>

SendAll(u) ==
  /\ connected /\ link # "none" /\ (HasData(info[u]) \/ AtEnd(info[u]))
  /\ info' = [info EXCEPT ![u] = ServedInfo(@)]
  /\ uploading' = ServedUploading(info[u])
  /\ log' = [log EXCEPT ![u] = Terminated(Handed(@, info[u]), info[u])]
  /\ UNCHANGED <<connected, commInitialized, link>>

DataSendFails(u) ==
  /\ connected /\ link # "none" /\ HasData(info[u])
  /\ ForceDisconnectFromHost
  /\ link' \in {"open", "gone"}
  /\ UNCHANGED <<uploading, log>>

TerminatorSendFails(u) ==
  /\ connected /\ link # "none" /\ AtEnd(info[u])
  /\ info' = [info EXCEPT ![u] = ServedInfo(@)]
  /\ uploading' = FALSE
  /\ log' = [log EXCEPT ![u] = Handed(@, info[u])]
  /\ link' \in {link, "gone"}
  /\ UNCHANGED <<connected, commInitialized>>

UploadServerWork(u) ==
  \/ NothingToSend(u)
  \/ SendAll(u)
  \/ DataSendFails(u)
  \/ TerminatorSendFails(u)

\* After the upload server the thread runs a step, polls for packets again (the
\* model is paused or waits for its start), or leaves its loop to shut down.
Upload ==
  /\ pc = "upload"
  /\ UploadServerWork(up)
  /\ \E next \in {"check", "packet", "prepare"} : Advance("upload", next)
  /\ caller' = IF pc' = "prepare" THEN "shutdown" ELSE caller

-------------------------------------------------------------------------------
(***************************************************************************)
(* The final flush, for each upInfo in turn, of DisconnectFromHost and of  *)
(* rt_ExtModeShutdown.  DisconnectFromHost runs the upload server only if  *)
(* host_upstatus_is_uploading.                                             *)
(***************************************************************************)
\* Mutant: the shutdown goes by the flag as well.
PrepareByFlag ==
  /\ pc = "prepare"
  /\ info' = [info EXCEPT ![up] = UploadPrepareForFinalFlush(@)]
  /\ pc' = IF uploading THEN "flush" ELSE "term"
  /\ UNCHANGED <<uploading, connected, commInitialized, link, up, caller, log>>

Prepare ==
  /\ pc = "prepare"
  /\ info' = [info EXCEPT ![up] = UploadPrepareForFinalFlush(@)]
  /\ log' = IF Uploading(info[up])
            THEN [log EXCEPT ![up] = Finally(@, info[up], "flush")]
            ELSE log
  /\ pc' = IF caller = "shutdown" \/ uploading THEN "flush" ELSE "term"
  /\ UNCHANGED <<uploading, connected, commInitialized, link, up, caller>>

Flush ==
  /\ pc = "flush"
  /\ UploadServerWork(up)
  /\ pc' = "term"
  /\ UNCHANGED <<up, caller>>

\* UploadLogInfoTerm, and after the last upInfo the end of the connection.
Term ==
  /\ pc = "term"
  /\ info' = [info EXCEPT ![up] = UploadLogInfoTerm(@)]
  /\ Advance("prepare", IF caller = "shutdown" THEN "done" ELSE "upload")
  /\ IF pc' = "prepare"
     THEN UNCHANGED <<connected, commInitialized, link, caller>>
     ELSE /\ connected' = FALSE
          /\ commInitialized' = FALSE
          /\ link' = IF link = "none" THEN link ELSE "gone"
          /\ caller' = "none"
  /\ UNCHANGED <<uploading, log>>

-------------------------------------------------------------------------------
(* One model step: rt_UploadCheckTrigger, rt_UploadBufAddTimePoint and       *)
(* rt_UploadCheckEndTrigger, each for every upInfo.                          *)

CheckTrigger ==
  /\ pc = "check"
  /\ info' = [u \in UpInfos |-> UploadCheckTrigger(info[u])]
  /\ uploading' = (uploading /\ \A u \in UpInfos : ~HoldOffOver(info[u]))
  /\ log' = [u \in UpInfos |->
               IF HoldOffOver(info[u])
               THEN [ArmedLog(info[u]) EXCEPT !.final = log[u].final]
               ELSE IF info[u].state = "DELAYED" THEN [log[u] EXCEPT !.since = @ + 1]
               ELSE log[u]]
  /\ Goto("add")
  /\ UNCHANGED <<connected, commInitialized, link, caller>>

\* The signals of the upInfos in "edge" cross their trigger level in this step.
AddTimePoint ==
  /\ pc = "add"
  /\ \E edge \in SUBSET UpInfos :
       info' = [u \in UpInfos |-> UploadBufAddTimePoint(info[u], u \in edge)]
  /\ log' = [u \in UpInfos |->
               IF info'[u].state = "TERMINATING" /\ info[u].state # "TERMINATING"
               THEN [log[u] EXCEPT !.why = "overflow"]
               ELSE log[u]]
  /\ Goto("end")
  /\ UNCHANGED <<uploading, connected, commInitialized, link, caller>>

CheckEndTrigger ==
  /\ pc = "end"
  /\ info' = [u \in UpInfos |-> UploadCheckEndTrigger(info[u])]
  /\ log' = [u \in UpInfos |->
               IF DurationMet(info[u]) THEN [log[u] EXCEPT !.why = "duration"] ELSE log[u]]
  /\ \E next \in {"packet", "prepare"} : Goto(next)
  /\ caller' = IF pc' = "prepare" THEN "shutdown" ELSE caller
  /\ UNCHANGED <<uploading, connected, commInitialized, link>>

-------------------------------------------------------------------------------
Environment == LinkUp \/ LinkDown

Thread == PktServerWork \/ Upload \/ Prepare \/ Flush \/ Term
            \/ CheckTrigger \/ AddTimePoint \/ CheckEndTrigger

Next == Environment \/ Thread

Spec == Init /\ [][Next]_vars

\* The thread goes on: the base rate's timer keeps ticking, and where the thread
\* waits, for a client to send to, clients keep coming.
FairSpec == Spec /\ WF_vars(Thread) /\ WF_vars(LinkUp)

-------------------------------------------------------------------------------
Places == {"packet", "upload", "check", "add", "end", "prepare", "flush", "term", "done"}

TypeOK ==
  /\ info \in [UpInfos -> Info]
  /\ uploading \in BOOLEAN
  /\ connected \in BOOLEAN
  /\ commInitialized \in BOOLEAN
  /\ link \in Links
  /\ pc \in Places
  /\ up \in UpInfos
  /\ caller \in {"none", "disconnect", "shutdown"}
  /\ log \in [UpInfos -> LogType]

\* Outside a session with a host nothing is armed, so no step records or sends.
UnarmedWithoutHost ==
  ~commInitialized => \A u \in UpInfos : info[u].state = "UNARMED"

\* A trigger that is not unarmed has its buffers: no function follows the NULL
\* circBufs of an upInfo whose signals were not selected or were freed.
ArmedHasBuffers ==
  \A u \in UpInfos : info[u].state # "UNARMED" => info[u].sys

\* An event that ends because its duration is over has handed to the socket
\* exactly the points asked for, pre-trigger points included: none lost in the
\* buffer, none sent twice, none recorded after the end.
DurationExact ==
  \A u \in UpInfos :
    log[u].end # "none" /\ log[u].why = "duration" => log[u].got = log[u].want

\* A signal trigger fires the selected number of base-rate steps after the
\* crossing, whichever of UploadBufAddTimePoint and UploadCheckTrigger fires it.
DelayExact ==
  \A u \in UpInfos :
    info[u].state = "FIRED" /\ ~info[u].manual => log[u].since = info[u].delay

\* Once logging is cancelled or flushed for the last time the trigger only
\* terminates: it is not armed again, not even by an event that was already
\* ending when the command came.
CancelIsFinal ==
  \A u \in UpInfos :
    log[u].final => info[u].state \in {"UNARMED", "TERMINATING"}

\* rt_ExtModeShutdown frees no buffer before its points and the terminator were
\* handed to the connection.
ShutdownFlushes ==
  pc = "term" /\ caller = "shutdown" => ~Uploading(info[up])

\* The host receives no buffer memory that holds no recorded time point (see
\* the findings: it does not hold with a pre-trigger of one point).
OnlyRecordedData == \A u \in UpInfos : ~log[u].stale

\* Every event that is over is closed, with its terminator or with the session.
EventsEnd ==
  \A u \in UpInfos : info[u].state = "TERMINATING" ~> info[u].state # "TERMINATING"
===============================================================================
