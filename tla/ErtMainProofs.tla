----------------------------- MODULE ErtMainProofs -----------------------------
(***************************************************************************)
(* Theorems about the two threads (module ErtMain), for any number of      *)
(* signals.                                                                *)
(***************************************************************************)
EXTENDS ErtMain, TLAPS

\* The base-rate thread exists exactly between its creation and main's join.
ThreadsInv ==
  /\ mainPc \in {"initialize", "waitStart", "startUpload"} => base = "none"
  /\ mainPc \in {"shutdownUpload", "shutdown", "done"} => base = "exited"

\* A flag that lets the model go was raised by a packet nobody has used yet.
AskedInv == startModel => asked

\* A stop packet is known to the model, or still in a local variable of a caller of the
\* packet server that will copy it before the next step.
StopInv ==
  /\ mainPc = "initialize" => ~stopAsked
  /\ stopAsked => \/ stopRequested
                  \/ stopReq /\ base \in {"none", "pause", "pauseUpload", "stepUpload", "step"}

IInv == TypeOK /\ ThreadsInv /\ AskedInv /\ StopInv

-------------------------------------------------------------------------------
\* The variables of the packet server and of the transport have their types.
ServerTypes ==
  /\ modelStatus \in {"waiting", "paused", "running"}
  /\ startModel \in BOOLEAN /\ stopReq \in BOOLEAN /\ session \in BOOLEAN
  /\ link \in {"none", "there", "gone"}
  /\ packet \in {"none", "begun", "whole", "failed"}
  /\ asked \in BOOLEAN /\ stopAsked \in BOOLEAN

\* What the handling of one packet keeps.
LEMMA ProcessPacketKeeps ==
  ASSUME ServerTypes, AskedInv, ProcessPacket
  PROVE  /\ ServerTypes' /\ AskedInv'
         /\ stopAsked' => stopAsked \/ stopReq'
         /\ stopReq => stopReq'
         /\ packet' = "none"
<1> USE DEF ServerTypes, AskedInv, server
<1>1. packet' = "none" /\ link' = link
  BY Zenon DEF ProcessPacket
<1>2. CASE Connect
  BY <1>1, <1>2 DEF Connect
<1>3. CASE Disconnect
  BY <1>1, <1>3 DEF Disconnect
<1>4. CASE ModelStart
  BY <1>1, <1>4 DEF ModelStart
<1>5. CASE ModelStop
  BY <1>1, <1>5 DEF ModelStop
<1>6. CASE ModelPause
  BY <1>1, <1>6 DEF ModelPause
<1>7. CASE ModelStep
  <2>1. startModel' \in BOOLEAN
    BY <1>7, Zenon DEF ModelStep
  <2> QED  BY <1>1, <1>7, <2>1 DEF ModelStep
<1>8. CASE ModelContinue
  BY <1>1, <1>8 DEF ModelContinue
<1>9. CASE OtherPacket
  BY <1>1, <1>9 DEF OtherPacket
<1> QED  BY <1>2, <1>3, <1>4, <1>5, <1>6, <1>7, <1>8, <1>9, Zenon DEF ProcessPacket

\* What a call of the packet server keeps, in whichever thread it is made.  It goes on
\* to another place only with the packet done.
LEMMA PktServerKeeps ==
  ASSUME ServerTypes, AskedInv, PktServerWork
  PROVE  /\ ServerTypes' /\ AskedInv'
         /\ stopAsked' => stopAsked \/ (stopReq' /\ packet' = "none")
         /\ stopReq => stopReq'
<1> USE DEF ServerTypes, AskedInv, server, transport
<1>1. CASE ProcessPacket
  BY <1>1, ProcessPacketKeeps
<1>2. CASE NoPacket
  BY <1>2 DEF NoPacket
<1>3. CASE HostClosed
  BY <1>3 DEF HostClosed
<1>4. CASE HeaderError
  BY <1>4 DEF HeaderError
<1>5. CASE PayloadError
  BY <1>5 DEF PayloadError
<1>6. CASE AnswerError
  BY <1>6 DEF AnswerError
<1> QED  BY <1>1, <1>2, <1>3, <1>4, <1>5, <1>6, Zenon DEF PktServerWork

\* An upload changes nothing but the session.
LEMMA UploadKeeps ==
  ASSUME ServerTypes, AskedInv, UploadServerWork
  PROVE  ServerTypes' /\ AskedInv' /\ stopAsked' = stopAsked /\ stopReq' = stopReq
BY DEF ServerTypes, AskedInv, UploadServerWork, transport

LEMMA InitIInv == Init => IInv
<1> SUFFICES ASSUME Init PROVE IInv
  OBVIOUS
<1>1. stopSem \in Nat /\ signals \in Nat
  BY DEF Init
<1>2. TypeOK
  BY <1>1, Zenon DEF Init, TypeOK
<1>3. ThreadsInv /\ AskedInv /\ StopInv
  BY Zenon DEF Init, ThreadsInv, AskedInv, StopInv
<1> QED  BY <1>2, <1>3 DEF IInv

LEMMA MainKeeps == IInv /\ Main => IInv'
<1> SUFFICES ASSUME IInv, Main PROVE IInv'
  OBVIOUS
<1>1. ServerTypes /\ AskedInv
  BY Zenon DEF IInv, TypeOK, ServerTypes
<1> USE DEF IInv, TypeOK, ThreadsInv, AskedInv, StopInv, server, transport, model
<1>2. CASE Initialize
  BY <1>2 DEF Initialize
<1>3. CASE WaitForStart
  <2>1. ServerTypes' /\ AskedInv' /\ (stopAsked' => stopAsked \/ stopReq') /\ (stopReq => stopReq')
    BY <1>1, <1>3, PktServerKeeps DEF WaitForStart
  <2>2. mainPc = "waitStart" /\ mainPc' \in {"waitStart", "startUpload"}
    BY <1>3 DEF WaitForStart, After
  <2> QED  BY <1>3, <2>1, <2>2 DEF WaitForStart, ServerTypes
<1>4. CASE StartUpload
  BY <1>1, <1>4, UploadKeeps DEF StartUpload, ServerTypes
<1>5. CASE StartBaseRate
  BY <1>5 DEF StartBaseRate
<1>6. CASE SemWait
  BY <1>6 DEF SemWait
<1>7. CASE Join
  BY <1>7 DEF Join, ToShutdown
<1>8. CASE ShutdownUpload
  BY <1>1, <1>8, UploadKeeps DEF ShutdownUpload, ServerTypes
<1>9. CASE Shutdown
  BY ZenonT(40), <1>9 DEF Shutdown
<1> QED  BY <1>2, <1>3, <1>4, <1>5, <1>6, <1>7, <1>8, <1>9 DEF Main

LEMMA ExitHandlerKeeps == IInv /\ ExitHandler => IInv'
BY DEF IInv, TypeOK, ThreadsInv, AskedInv, StopInv, server, transport, ExitHandler

LEMMA HostKeeps == IInv /\ Host => IInv'
<1> SUFFICES ASSUME IInv, Host PROVE IInv'
  OBVIOUS
<1> USE DEF IInv, TypeOK, ThreadsInv, AskedInv, StopInv, server, model
<1>1. CASE HostComes
  BY <1>1 DEF HostComes
<1>2. CASE HostGoes
  BY <1>2 DEF HostGoes
<1>3. CASE HostSends
  BY <1>3 DEF HostSends
<1> QED  BY <1>1, <1>2, <1>3 DEF Host

LEMMA BaseRateKeeps == IInv /\ BaseRateTask => IInv'
<1> SUFFICES ASSUME IInv, BaseRateTask PROVE IInv'
  OBVIOUS
<1>1. ServerTypes /\ AskedInv
  BY Zenon DEF IInv, TypeOK, ServerTypes
<1> USE DEF IInv, TypeOK, ThreadsInv, AskedInv, StopInv, server, transport, model
<1>2. CASE TestLoop
  <2>1. /\ base = "test" /\ base' \in {"post", "pause"}
        /\ stopReq' = FALSE
        /\ UNCHANGED <<mainPc, server, transport, model, stopSem, signals>>
    BY <1>2, Zenon DEF TestLoop
  <2>2. stopAsked => stopRequested
    BY <2>1
  <2>3. StopInv'
    BY <2>1, <2>2
  <2>4. ThreadsInv' /\ AskedInv'
    BY <2>1
  <2>5. stopReq' \in BOOLEAN
    BY <2>1
  <2>6. stopSem' = stopSem /\ signals' = signals /\ errorStatus' = errorStatus
        /\ stopRequested' = stopRequested
    BY <2>1
  <2>7. TypeOK'
    BY <2>1, <2>5, <2>6
  <2> QED  BY <2>3, <2>4, <2>7
<1>3. CASE PausePoll
  <2>1. ServerTypes' /\ AskedInv' /\ (stopAsked' => stopAsked \/ stopReq') /\ (stopReq => stopReq')
    BY <1>1, <1>3, PktServerKeeps DEF PausePoll
  <2>2. base = "pause" /\ base' \in {"pause", "pauseUpload"}
    BY <1>3 DEF PausePoll, After
  <2> QED  BY <1>3, <2>1, <2>2 DEF PausePoll, ServerTypes
<1>4. CASE PauseUpload
  BY <1>1, <1>4, UploadKeeps DEF PauseUpload, ServerTypes
<1>5. CASE PauseOver
  BY ZenonT(40), <1>5 DEF PauseOver, BreakIfStopped
<1>6. CASE OneStep
  <2>1. CASE modelStatus = "paused"
    BY <1>6, <2>1 DEF OneStep
  <2>2. CASE modelStatus # "paused"
    <3>1. ServerTypes' /\ AskedInv'
          /\ (stopAsked' => stopAsked \/ (stopReq' /\ packet' = "none"))
      BY <1>1, <1>6, <2>2, PktServerKeeps DEF OneStep
    <3>2. base' \in {"oneStep", "step", "stepUpload"}
          /\ (packet' = "none" => base' \in {"step", "stepUpload"})
      BY <1>6, <2>2 DEF OneStep, After
    <3> QED  BY <1>6, <3>1, <3>2 DEF OneStep, ServerTypes
  <2> QED  BY <2>1, <2>2
<1>7. CASE StepUpload
  BY <1>1, <1>7, UploadKeeps DEF StepUpload, ServerTypes
<1>8. CASE ModelOutputUpdate
  BY <1>8 DEF ModelOutputUpdate
<1>9. CASE Post
  BY <1>9 DEF Post
<1> QED  BY <1>2, <1>3, <1>4, <1>5, <1>6, <1>7, <1>8, <1>9 DEF BaseRateTask

LEMMA NextIInv == IInv /\ [Next]_vars => IInv'
<1> SUFFICES ASSUME IInv, [Next]_vars PROVE IInv'
  OBVIOUS
<1>1. CASE UNCHANGED vars
  BY <1>1 DEF vars, server, transport, model, IInv, TypeOK, ThreadsInv, AskedInv, StopInv
<1> QED  BY <1>1, MainKeeps, ExitHandlerKeeps, BaseRateKeeps, HostKeeps DEF Next

\* The inductive invariant holds in every reachable state.
THEOREM Invariance == Spec => []IInv
BY InitIInv, NextIInv, PTL DEF Spec

\* Every variable keeps its type, whatever packets and signals come.
THEOREM TypeCorrect == Spec => []TypeOK
<1>1. IInv => TypeOK
  BY DEF IInv
<1> QED  BY <1>1, Invariance, PTL

\* Main and baseRateTask are never in the packet server or the upload server at
\* the same time: main joins the thread before it shuts external mode down.
THEOREM ServersAreOneThreads == Spec => []OneServer
<1>1. IInv => OneServer
  BY DEF IInv, ThreadsInv, OneServer
<1> QED  BY <1>1, Invariance, PTL

-------------------------------------------------------------------------------
\* A pass of baseRateTask reaches rtExtModeOneStep from its pause loop only.
LEMMA OneStepFromPause ==
  ASSUME IInv, [Next]_vars, base' = "oneStep", base # "oneStep"
  PROVE  PauseOver
<1>1. CASE UNCHANGED vars
  BY <1>1 DEF vars
<1>2. CASE Main
  BY <1>2 DEF Main, Initialize, WaitForStart, StartUpload, StartBaseRate, SemWait, Join,
              ShutdownUpload, Shutdown
<1>3. CASE ExitHandler
  BY <1>3 DEF ExitHandler
<1>4. CASE BaseRateTask
  BY <1>4 DEF BaseRateTask, TestLoop, PausePoll, PauseUpload, OneStep, StepUpload,
              ModelOutputUpdate, Post, After
<1>5. CASE Host
  BY <1>5 DEF Host, HostComes, HostGoes, HostSends
<1> QED  BY <1>1, <1>2, <1>3, <1>4, <1>5 DEF Next

\* After a stop packet no step begins, wherever the packet came in: StopInv follows it
\* from the local variable it is noted in to the flag that the pass tests.
THEOREM StopStopsSteps == Spec => NoStepAfterStop
<1>1. ASSUME IInv, [Next]_vars, base' = "oneStep", base # "oneStep"
      PROVE  ~stopAsked
  <2>1. PauseOver
    BY <1>1, OneStepFromPause
  <2>2. ~stopRequested /\ ~stopReq
    BY <1>1, <2>1 DEF PauseOver, BreakIfStopped, IInv, TypeOK
  <2> QED  BY <1>1, <2>2 DEF IInv, StopInv
<1>2. IInv /\ [Next]_vars => [base' = "oneStep" /\ base # "oneStep" => ~stopAsked]_vars
  BY <1>1
<1> QED  BY <1>2, Invariance, PTL DEF Spec, NoStepAfterStop

\* A paused model takes no step that the host did not ask for.
THEOREM PausedModelWaits == Spec => PausedStepsAsked
<1>1. ASSUME IInv, [Next]_vars, base' = "oneStep", base # "oneStep", modelStatus = "paused"
      PROVE  asked
  <2>1. PauseOver
    BY <1>1, OneStepFromPause
  <2>2. ~stopReq
    BY <1>1, <2>1 DEF PauseOver, BreakIfStopped
  <2>3. startModel
    BY <1>1, <2>1, <2>2 DEF PauseOver, Held
  <2> QED  BY <1>1, <2>3 DEF IInv, AskedInv
<1>2. IInv /\ [Next]_vars
        => [base' = "oneStep" /\ base # "oneStep" /\ modelStatus = "paused" => asked]_vars
  BY <1>1
<1> QED  BY <1>2, Invariance, PTL DEF Spec, PausedStepsAsked
===============================================================================
