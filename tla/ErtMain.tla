-------------------------------- MODULE ErtMain --------------------------------
(***************************************************************************)
(* The two threads of the program and how they start, pause, step and stop *)
(* the model: main and baseRateTask of ert_main.c, the waiting loops of    *)
(* ext_work.c, the packets of ext_svr.c that act on the model's status,    *)
(* and the places where a thread waits for a host: in the loops, for the   *)
(* rest of a packet, and in rtIOStreamBlockingSend for a client.           *)
(*                                                                         *)
(* What the packet server and the upload server do to the logging of       *)
(* signals is in module ExtModeUpload.  No final time is set: main does    *)
(* not read option -tf, and the model's own final time is infinite.        *)
(***************************************************************************)
EXTENDS Integers

CONSTANT MaxSignals   \* bound: the signals the process gets

ASSUME ErtMainAssumption == MaxSignals \in Nat

VARIABLES
  mainPc,          \* where main is
  base,            \* where baseRateTask is; "none" until it is created
  modelStatus,     \* TARGET_STATUS_WAITING_TO_START, _PAUSED, _RUNNING
  startModel,
  stopReq,         \* rtmStopReq, of the thread that runs the packet server
  session,         \* commInitialized
  link,            \* the transport's socket: "none", a client "there", or "gone"
  packet,          \* on the line: "none", "begun", "whole"; "failed" and not yet answered
  errorStatus,     \* rtmGetErrorStatus is not NULL
  stopRequested,   \* rtmGetStopRequested
  stopSem,         \* the semaphore's value
  signals,         \* history: the signals so far
  asked,           \* history: a start or a step was asked for, and not yet run
  stopAsked        \* history: a stop packet was processed

server == <<modelStatus, startModel, session, asked, stopAsked>>
transport == <<link, packet>>
model == <<errorStatus, stopRequested>>
vars == <<mainPc, base, server, stopReq, transport, model, stopSem, signals>>

Init ==
  /\ mainPc = "initialize" /\ base = "none"
  /\ modelStatus = "waiting" /\ startModel = FALSE /\ stopReq = FALSE
  /\ session = FALSE /\ link = "none" /\ packet = "none"
  /\ errorStatus = FALSE /\ stopRequested = FALSE /\ stopSem = 0
  /\ signals = 0 /\ asked = FALSE /\ stopAsked = FALSE

-------------------------------------------------------------------------------
(***************************************************************************)
(* The packets of rt_PktServerWork.  Whether the answer can be sent makes  *)
(* no difference to the flags; a socket that a packet came from is still   *)
(* open when it is answered, so the answer does not wait.                  *)
(***************************************************************************)
Connect ==
  /\ ~session /\ session' = TRUE
  /\ UNCHANGED <<modelStatus, startModel, stopReq, asked, stopAsked>>

\* A request to disconnect, with or without final upload.
Disconnect ==
  /\ session /\ session' = FALSE
  /\ UNCHANGED <<modelStatus, startModel, stopReq, asked, stopAsked>>

ModelStart ==
  /\ session
  /\ startModel' = TRUE
  /\ asked' = TRUE
  /\ UNCHANGED <<modelStatus, stopReq, session, stopAsked>>

ModelStop ==
  /\ session
  /\ stopReq' = TRUE /\ stopAsked' = TRUE
  /\ UNCHANGED <<modelStatus, startModel, session, asked>>

ModelPause ==
  /\ session
  /\ modelStatus' = "paused" /\ startModel' = FALSE
  /\ asked' = FALSE
  /\ UNCHANGED <<stopReq, session, stopAsked>>

ModelStep ==
  /\ session
  /\ startModel' = (startModel \/ modelStatus = "paused")
  /\ asked' = TRUE
  /\ UNCHANGED <<modelStatus, stopReq, session, stopAsked>>

ModelContinue ==
  /\ session
  /\ IF modelStatus = "paused"
     THEN modelStatus' = "running" /\ startModel' = FALSE
     ELSE UNCHANGED <<modelStatus, startModel>>
  /\ UNCHANGED <<stopReq, session, asked, stopAsked>>

\* One that is about parameters or signals, or whose answer failed before it took effect.
OtherPacket == UNCHANGED <<server, stopReq>>

ProcessPacket ==
  /\ packet = "whole" /\ packet' = "none" /\ UNCHANGED link
  /\ \/ Connect \/ Disconnect
     \/ ModelStart \/ ModelStop \/ ModelPause \/ ModelStep \/ ModelContinue
     \/ OtherPacket

(***************************************************************************)
(* The rest of rt_PktServerWork.  A packet that has begun is received to   *)
(* its end, whoever sends it: while it does not come, no step is enabled.  *)
(***************************************************************************)
NoPacket == packet = "none" /\ link # "gone" /\ UNCHANGED <<server, stopReq, transport>>

\* serverStreamRecv closes the socket of a client that is gone, and that is no error,
\* even if the connection was reset and what was not read is lost.
HostClosed ==
  /\ link = "gone" /\ packet # "failed"
  /\ link' = "none"
  /\ packet' = IF packet = "begun" THEN "begun" ELSE "none"
  /\ UNCHANGED <<server, stopReq>>

\* The connection fails in a header: ForceDisconnectFromHost.
HeaderError ==
  /\ link = "gone" /\ packet # "failed"
  /\ link' = "none" /\ packet' = "none" /\ session' = FALSE
  /\ UNCHANGED <<modelStatus, startModel, stopReq, asked, stopAsked>>

\* It fails in the payload, which the handler answers with an error.
PayloadError ==
  /\ link = "gone" /\ packet = "begun"
  /\ link' = "none" /\ packet' = "failed"
  /\ UNCHANGED <<server, stopReq>>

\* That answer waits for a client.
AnswerError ==
  /\ packet = "failed" /\ link # "none"
  /\ packet' = "none"
  /\ UNCHANGED <<link, server, stopReq>>

PktServerWork == ProcessPacket \/ NoPacket \/ HostClosed \/ HeaderError \/ PayloadError \/ AnswerError

\* Where the thread may be after it: still in it, done, or sending what was recorded.
After(here, next, upload) ==
  IF packet' \in {"begun", "failed"} THEN {here}
  ELSE IF session' THEN {next, upload} ELSE {next}

\* Sending data, or the end of an event, to the host: rtIOStreamBlockingSend polls
\* until a client is there.  If the client is gone it may fail.
UploadServerWork ==
  /\ link # "none"
  /\ session' \in IF link = "gone" THEN {session, FALSE} ELSE {session}
  /\ UNCHANGED <<modelStatus, startModel, asked, stopAsked, stopReq, transport>>

-------------------------------------------------------------------------------
(***************************************************************************)
(* main, from where the signal handlers are installed.                     *)
(***************************************************************************)
\* ImageInversion_initialize clears the whole model structure.
Initialize ==
  /\ mainPc = "initialize"
  /\ errorStatus' = FALSE /\ stopRequested' = FALSE
  /\ mainPc' = "waitStart"
  /\ UNCHANGED <<base, server, stopReq, transport, stopSem, signals>>

WaitForStart ==
  /\ mainPc = "waitStart" /\ ~startModel /\ ~stopReq
  /\ PktServerWork
  /\ mainPc' \in After("waitStart", "waitStart", "startUpload")
  /\ UNCHANGED <<base, model, stopSem, signals>>

StartUpload ==
  /\ mainPc = "startUpload"
  /\ UploadServerWork
  /\ mainPc' = "waitStart"
  /\ UNCHANGED <<base, model, stopSem, signals>>

StartBaseRate ==
  /\ mainPc = "waitStart" /\ (startModel \/ stopReq)
  /\ modelStatus' = IF modelStatus = "paused" THEN "paused" ELSE "running"
  /\ stopRequested' = (stopRequested \/ stopReq)
  /\ base' = "test"
  /\ mainPc' = "semWait"
  /\ UNCHANGED <<startModel, stopReq, session, asked, stopAsked, transport, errorStatus, stopSem, signals>>

SemWait ==
  /\ mainPc = "semWait" /\ stopSem > 0
  /\ stopSem' = stopSem - 1
  /\ mainPc' = "join"
  /\ UNCHANGED <<base, server, stopReq, transport, model, signals>>

\* What rt_ExtModeShutdown begins with: a last upload, if a host is to get something.
ToShutdown == mainPc' \in IF session THEN {"shutdown", "shutdownUpload"} ELSE {"shutdown"}

\* Mutant: main does not wait for the thread.
JoinDetached ==
  /\ mainPc = "join" /\ ToShutdown
  /\ UNCHANGED <<base, server, stopReq, transport, model, stopSem, signals>>

Join ==
  /\ mainPc = "join" /\ base = "exited"
  /\ ToShutdown
  /\ UNCHANGED <<base, server, stopReq, transport, model, stopSem, signals>>

ShutdownUpload ==
  /\ mainPc = "shutdownUpload"
  /\ UploadServerWork
  /\ mainPc' = "shutdown"
  /\ UNCHANGED <<base, model, stopSem, signals>>

\* EXT_MODEL_SHUTDOWN goes to whoever is connected, or waits for a client.  The
\* status is reset if the target is still connected.
Shutdown ==
  /\ mainPc = "shutdown"
  /\ session => link # "none"
  /\ session' = FALSE
  /\ modelStatus' \in IF session THEN {"waiting"} ELSE {"waiting", modelStatus}
  /\ mainPc' = "done"
  /\ UNCHANGED <<base, startModel, stopReq, asked, stopAsked, transport, model, stopSem, signals>>

Main ==
  \/ Initialize \/ WaitForStart \/ StartUpload \/ StartBaseRate
  \/ SemWait \/ Join \/ ShutdownUpload \/ Shutdown

\* MW_exitHandler, in whichever thread the signal interrupts.
ExitHandler ==
  /\ mainPc # "done" /\ signals < MaxSignals
  /\ signals' = signals + 1
  /\ errorStatus' = TRUE
  /\ stopSem' = stopSem + 1
  /\ UNCHANGED <<mainPc, base, server, stopReq, transport, stopRequested>>

-------------------------------------------------------------------------------
(***************************************************************************)
(* baseRateTask.  It waits for the timer between the test of its loop and  *)
(* rtExtModePauseIfNeeded.                                                 *)
(***************************************************************************)
\* Mutant: the loop does not look at the error status.
TestLoopStopOnly ==
  /\ base = "test"
  /\ base' = IF stopRequested THEN "post" ELSE "pause"
  /\ stopReq' = FALSE
  /\ UNCHANGED <<mainPc, server, transport, model, stopSem, signals>>

TestLoop ==
  /\ base = "test"
  /\ base' = IF errorStatus \/ stopRequested THEN "post" ELSE "pause"
  /\ stopReq' = FALSE
  /\ UNCHANGED <<mainPc, server, transport, model, stopSem, signals>>

\* Mutants: the pause ends only by a continue or a stop; only by a continue or a step.
HeldOnStep == modelStatus = "paused" /\ ~stopReq
HeldOnStop == modelStatus = "paused" /\ ~startModel

Held == modelStatus = "paused" /\ ~startModel /\ ~stopReq

PausePoll ==
  /\ base = "pause" /\ Held
  /\ PktServerWork
  /\ base' \in After("pause", "pause", "pauseUpload")
  /\ UNCHANGED <<mainPc, model, stopSem, signals>>

PauseUpload ==
  /\ base = "pauseUpload"
  /\ UploadServerWork
  /\ base' = "pause"
  /\ UNCHANGED <<mainPc, model, stopSem, signals>>

\* What baseRateTask does about a stop request before the step.
BreakIfStopped ==
  /\ base' = IF stopRequested' THEN "post" ELSE "oneStep"
  /\ errorStatus' = (errorStatus \/ stopRequested')

\* Mutant: the flag is not reset after a step.
PauseOverKeepsFlag ==
  /\ base = "pause" /\ ~Held
  /\ asked' = FALSE
  /\ stopRequested' = (stopRequested \/ stopReq)
  /\ BreakIfStopped
  /\ stopReq' = FALSE
  /\ UNCHANGED <<mainPc, modelStatus, startModel, session, stopAsked, transport, stopSem, signals>>

PauseOver ==
  /\ base = "pause" /\ ~Held
  /\ startModel' = FALSE /\ asked' = FALSE
  /\ stopRequested' = (stopRequested \/ stopReq)
  /\ BreakIfStopped
  /\ stopReq' = FALSE
  /\ UNCHANGED <<mainPc, modelStatus, session, stopAsked, transport, stopSem, signals>>

OneStep ==
  /\ base = "oneStep"
  /\ IF modelStatus = "paused"
     THEN base' = "step" /\ UNCHANGED <<server, stopReq, transport>>
     ELSE PktServerWork /\ base' \in After("oneStep", "step", "stepUpload")
  /\ UNCHANGED <<mainPc, model, stopSem, signals>>

StepUpload ==
  /\ base = "stepUpload"
  /\ UploadServerWork
  /\ base' = "step"
  /\ UNCHANGED <<mainPc, model, stopSem, signals>>

\* Mutant: the stop that came in the step's own packet server is not noted.
StopForgotten ==
  /\ base = "step"
  /\ errorStatus' = (errorStatus \/ stopRequested)
  /\ base' = "test"
  /\ UNCHANGED <<mainPc, server, stopReq, transport, stopRequested, stopSem, signals>>

\* A stop is noted; the model's output, the upload calls of the step, and
\* ImageInversion_update.
ModelOutputUpdate ==
  /\ base = "step"
  /\ stopRequested' = (stopRequested \/ stopReq)
  /\ errorStatus' = (errorStatus \/ stopRequested')
  /\ base' = "test"
  /\ UNCHANGED <<mainPc, server, stopReq, transport, stopSem, signals>>

Post ==
  /\ base = "post"
  /\ stopSem' = stopSem + 1
  /\ base' = "exited"
  /\ UNCHANGED <<mainPc, server, stopReq, transport, model, signals>>

BaseRateTask ==
  \/ TestLoop \/ PausePoll \/ PauseUpload \/ PauseOver
  \/ OneStep \/ StepUpload \/ ModelOutputUpdate \/ Post

-------------------------------------------------------------------------------
(***************************************************************************)
(* The host's side.  A client is accepted by whoever receives or sends.    *)
(***************************************************************************)
Receiving ==
  \/ mainPc = "waitStart" /\ ~startModel /\ ~stopReq
  \/ base = "pause" /\ Held
  \/ base = "oneStep" /\ modelStatus # "paused"

Sending ==
  \/ mainPc \in {"startUpload", "shutdownUpload"} \/ base \in {"pauseUpload", "stepUpload"}
  \/ mainPc = "shutdown" /\ session

HostComes ==
  /\ link = "none" /\ (Receiving \/ Sending)
  /\ link' = "there"
  /\ UNCHANGED <<mainPc, base, server, stopReq, packet, model, stopSem, signals>>

HostGoes ==
  /\ link = "there" /\ link' = "gone"
  /\ UNCHANGED <<mainPc, base, server, stopReq, packet, model, stopSem, signals>>

\* A packet, or a part of one.
HostSends ==
  /\ link = "there"
  /\ \/ packet = "none" /\ packet' \in {"begun", "whole"}
     \/ packet = "begun" /\ packet' = "whole"
  /\ UNCHANGED <<mainPc, base, server, stopReq, link, model, stopSem, signals>>

Host == HostComes \/ HostGoes \/ HostSends

-------------------------------------------------------------------------------
Next == Main \/ ExitHandler \/ BaseRateTask \/ Host

Spec == Init /\ [][Next]_vars

\* Both threads are scheduled, and the timer of the base rate goes on ticking.
\* Nothing is assumed of hosts.
FairSpec == Spec /\ WF_vars(Main) /\ WF_vars(BaseRateTask)

-------------------------------------------------------------------------------
TypeOK ==
  /\ mainPc \in {"initialize", "waitStart", "startUpload", "semWait", "join",
                 "shutdownUpload", "shutdown", "done"}
  /\ base \in {"none", "test", "pause", "pauseUpload", "oneStep", "stepUpload", "step", "post", "exited"}
  /\ modelStatus \in {"waiting", "paused", "running"}
  /\ startModel \in BOOLEAN /\ stopReq \in BOOLEAN /\ session \in BOOLEAN
  /\ link \in {"none", "there", "gone"}
  /\ packet \in {"none", "begun", "whole", "failed"}
  /\ errorStatus \in BOOLEAN /\ stopRequested \in BOOLEAN
  /\ stopSem \in Nat /\ signals \in Nat
  /\ asked \in BOOLEAN /\ stopAsked \in BOOLEAN

\* The servers of external mode, which lock nothing, are run by one thread: main
\* uses them only before baseRateTask is created and after it has exited.
OneServer ==
  mainPc \in {"initialize", "waitStart", "startUpload", "shutdownUpload", "shutdown", "done"}
    => base \in {"none", "exited"}

\* Once a stop packet was processed no step begins, whichever thread got the packet
\* and wherever: before the thread exists, in the pause loop, or in a step's own call
\* of the packet server, which passes it on in a local variable.
NoStepAfterStop == [][base' = "oneStep" /\ base # "oneStep" => ~stopAsked]_vars

\* While the model is paused, each start or step packet lets at most one step
\* through and nothing else does.
PausedStepsAsked ==
  [][base' = "oneStep" /\ base # "oneStep" /\ modelStatus = "paused" => asked]_vars

\* A step that is asked for while the model is paused is run, unless the program
\* stops, even if the host is gone by then.
AskedStepRuns ==
  base \in {"pause", "pauseUpload"} /\ modelStatus = "paused" /\ startModel
    ~> base \in {"step", "exited"}

\* The host's stop packet ends the program, in whatever state the model is and
\* even if the host goes at once: no receive closes the socket after the packet, so
\* nothing that is still sent waits for a client.
StopEnds == stopAsked ~> mainPc = "done"

\* What the program waits for a host with: the start packet, a packet that lets the
\* paused model go, the rest of a packet, or a client to send to.
WaitsForHost ==
  \/ mainPc \in {"waitStart", "startUpload"}
  \/ base \in {"pause", "pauseUpload"} /\ modelStatus = "paused"
  \/ Receiving /\ (packet = "begun" \/ (packet = "failed" /\ link = "none"))
  \/ Sending /\ link = "none"

\* A signal that the initialization did not wipe out ends the program, or else a host
\* holds it, and for good: the code tests the error status nowhere but at the
\* beginning of a pass.
SignalEnds ==
  errorStatus /\ mainPc # "initialize" ~> (mainPc = "done" \/ []WaitsForHost)
===============================================================================
