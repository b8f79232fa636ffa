------------------------------ MODULE V4l2Capture ------------------------------
(***************************************************************************)
(* Video capture: v4l2_capture.c and v4l2_capture_linux.c, the table of    *)
(* devices and the buffers that each shares with its driver.  A model has  *)
(* one or more capture blocks; it initializes them all, reads a frame for  *)
(* each in every step, and terminates them.                                *)
(*                                                                         *)
(* The driver and the camera are the environment: a frame is captured, a   *)
(* read fails, a camera is unplugged at any time.  Frames are numbered.    *)
(* The descriptor of an open device is not 0, the driver grants no more    *)
(* buffers than it was asked for, and every index it returns is one of     *)
(* them (the README says what the code does otherwise).                    *)
(***************************************************************************)
EXTENDS Integers, Sequences, FiniteSets

CONSTANTS
  Blocks,       \* capture blocks of the model
  Devices,      \* names of video devices
  NoName,
  MaxDevices,   \* MW_NUM_MAX_VIDEO_DEVICES
  NumBuffers,   \* MW_NUM_V4L2_BUFFERS
  Grants,       \* the numbers of buffers a driver may grant
  MaxFrames     \* bound: the frames each camera takes

ASSUME V4l2CaptureAssumption ==
  /\ NoName \notin Devices
  /\ MaxDevices \in Nat /\ NumBuffers \in Nat /\ MaxFrames \in [Devices -> Nat]
  /\ Grants \subseteq 0 .. NumBuffers

Slots == 1 .. MaxDevices
Buffers == 0 .. NumBuffers - 1

VARIABLES
  name,       \* the device each block names
  hVideoDev,  \* the table of devices
  driver,     \* what the driver of each device has
  mapped,     \* the buffers of each device that are mapped
  plugged,    \* the devices whose camera is there
  block,      \* which blocks are initialized, which are terminated
  ending,     \* the step loop is over
  pc,         \* the call that comes next
  h,          \* the slot in use
  buf,        \* buf.index, or the index of a loop over the buffers
  acquired,   \* VIDIOC_DQBUF succeeded
  shot,       \* the frames the camera of each device has taken
  last,       \* history: the last frame acquired from each device
  lost        \* history: the buffers of each open device that could not be returned

env == <<name, plugged, shot>>
hist == <<last, lost>>
vars == <<env, hVideoDev, driver, mapped, block, ending, pc, h, buf, acquired, hist>>

\* fd is 0 in an unused slot and -1 before the device is open.
Unused == [devName |-> NoName, fd |-> 0, count |-> 0, started |-> FALSE, frm |-> {}]

Released == [open |-> FALSE, on |-> FALSE, fault |-> FALSE, queue |-> <<>>, done |-> <<>>,
             frame |-> [b \in Buffers |-> 0]]

Init ==
  /\ name \in [Blocks -> Devices]
  /\ hVideoDev = [k \in Slots |-> Unused]
  /\ driver = [d \in Devices |-> Released]
  /\ mapped = [d \in Devices |-> {}] /\ plugged \in SUBSET Devices
  /\ block = [b \in Blocks |-> "new"] /\ ending = FALSE
  /\ pc = "idle" /\ h = 1 /\ buf = 0 /\ acquired = FALSE
  /\ shot = [d \in Devices |-> 0]
  /\ last = [d \in Devices |-> 0] /\ lost = [d \in Devices |-> {}]

devName == hVideoDev[h].devName

-------------------------------------------------------------------------------
(***************************************************************************)
(* The driver and the camera.                                              *)
(***************************************************************************)
Capture(d) ==
  /\ d \in plugged /\ driver[d].on /\ driver[d].queue # <<>>
  /\ shot[d] < MaxFrames[d]
  /\ LET b == Head(driver[d].queue)
     IN driver' = [driver EXCEPT ![d].queue = Tail(@), ![d].done = Append(@, b),
                                 ![d].frame[b] = shot[d] + 1]
  /\ shot' = [shot EXCEPT ![d] = @ + 1]
  /\ UNCHANGED <<name, plugged, hVideoDev, mapped, block, ending, pc, h, buf, acquired, hist>>

Fault(d) ==
  /\ driver[d].on /\ ~driver[d].fault
  /\ driver' = [driver EXCEPT ![d].fault = TRUE]
  /\ UNCHANGED <<env, hVideoDev, mapped, block, ending, pc, h, buf, acquired, hist>>

Unplug(d) ==
  /\ d \in plugged /\ plugged' = plugged \ {d}
  /\ UNCHANGED <<name, shot, hVideoDev, driver, mapped, block, ending, pc, h, buf, acquired, hist>>

Environment == \E d \in Devices : Capture(d) \/ Fault(d) \/ Unplug(d)

-------------------------------------------------------------------------------
(***************************************************************************)
(* MW_videoCaptureInit.  Each of its system calls may fail.                *)
(***************************************************************************)
\* MW_ERROR_EXIT: videoCaptureCleanup terminates all devices, and the program exits.
ErrorExit == pc' = "cleanup" /\ h' = 1

\* getDeviceHandle
Handle(d) == {k \in Slots : hVideoDev[k].fd # 0 /\ hVideoDev[k].devName = d}

Free == {k \in Slots : hVideoDev[k].fd = 0}

VideoCaptureInit(b) ==
  /\ pc = "idle" /\ ~ending /\ block[b] = "new"
  /\ Handle(name[b]) = {}
  /\ \E k \in Free :
       /\ \A j \in Free : k <= j
       /\ hVideoDev' = [hVideoDev EXCEPT ![k] = [Unused EXCEPT !.devName = name[b], !.fd = -1]]
       /\ h' = k
  /\ block' = [block EXCEPT ![b] = "ready"]
  /\ pc' = "open"
  /\ UNCHANGED <<env, driver, mapped, ending, buf, acquired, hist>>

\* checkDeviceParams finds the name in use, or newDevice no free slot.
InitRefused(b) ==
  /\ pc = "idle" /\ ~ending /\ block[b] = "new"
  /\ Handle(name[b]) # {} \/ Free = {}
  /\ ErrorExit
  /\ UNCHANGED <<env, hVideoDev, driver, mapped, block, ending, buf, acquired, hist>>

OpenV4L2Device ==
  /\ pc = "open" /\ devName \in plugged
  /\ hVideoDev' = [hVideoDev EXCEPT ![h].fd = 1]
  /\ driver' = [driver EXCEPT ![devName].open = TRUE]
  /\ pc' = "request"
  /\ UNCHANGED <<env, mapped, block, ending, h, buf, acquired, hist>>

\* VIDIOC_REQBUFS, after the device's capabilities and format were agreed on.
InitMmap ==
  /\ pc = "request" /\ devName \in plugged
  /\ \E n \in Grants :
       /\ n >= 2
       /\ hVideoDev' = [hVideoDev EXCEPT ![h].count = n]
  /\ buf' = 0 /\ pc' = "map"
  /\ UNCHANGED <<env, driver, mapped, block, ending, h, acquired, hist>>

\* Mutant: the loop goes one buffer too far.
MoreThanAll == buf <= hVideoDev[h].count

\* The condition of the loops over the buffers.
More == buf < hVideoDev[h].count

MapBuffer ==
  /\ pc = "map" /\ More /\ devName \in plugged
  /\ hVideoDev' = [hVideoDev EXCEPT ![h].frm = @ \cup {buf}]
  /\ mapped' = [mapped EXCEPT ![devName] = @ \cup {buf}]
  /\ buf' = buf + 1
  /\ UNCHANGED <<env, driver, block, ending, pc, h, acquired, hist>>

StartCapture ==
  /\ pc = "map" /\ ~More
  /\ buf' = 0 /\ pc' = "queue"
  /\ UNCHANGED <<env, hVideoDev, driver, mapped, block, ending, h, acquired, hist>>

QueueBuffer ==
  /\ pc = "queue" /\ More /\ devName \in plugged
  /\ driver' = [driver EXCEPT ![devName].queue = Append(@, buf)]
  /\ buf' = buf + 1
  /\ UNCHANGED <<env, hVideoDev, mapped, block, ending, pc, h, acquired, hist>>

StreamOn ==
  /\ pc = "queue" /\ ~More /\ devName \in plugged
  /\ driver' = [driver EXCEPT ![devName].on = TRUE]
  /\ hVideoDev' = [hVideoDev EXCEPT ![h].started = TRUE]
  /\ pc' = "idle"
  /\ UNCHANGED <<env, mapped, block, ending, h, buf, acquired, hist>>

\* A call fails: the device is not there or not suitable, memory is short, the
\* driver grants one buffer only.
InitFails ==
  /\ pc \in {"open", "request", "map", "queue"}
  /\ pc = "map" => More
  /\ ErrorExit
  /\ UNCHANGED <<env, hVideoDev, driver, mapped, block, ending, buf, acquired, hist>>

-------------------------------------------------------------------------------
(***************************************************************************)
(* MW_videoCaptureOutput, readV4L2Frame.                                   *)
(***************************************************************************)
VideoCaptureOutput(b) ==
  /\ pc = "idle" /\ ~ending /\ \A c \in Blocks : block[c] = "ready"
  /\ h' \in Handle(name[b])
  /\ pc' = "dequeue"
  /\ UNCHANGED <<env, hVideoDev, driver, mapped, block, ending, buf, acquired, hist>>

\* Mutant: the buffer goes back to the driver before it is copied.
TakenAndQueued(dr) == [dr EXCEPT !.done = Tail(@), !.queue = Append(@, Head(dr.done))]

Taken(dr) == [dr EXCEPT !.done = Tail(@)]

\* VIDIOC_DQBUF blocks until a frame is there.
DequeueFrame ==
  /\ pc = "dequeue" /\ devName \in plugged
  /\ ~driver[devName].fault /\ driver[devName].done # <<>>
  /\ buf' = Head(driver[devName].done) /\ acquired' = TRUE
  /\ driver' = [driver EXCEPT ![devName] = Taken(@)]
  /\ pc' = "copy"
  /\ UNCHANGED <<env, hVideoDev, mapped, block, ending, h, hist>>

\* After the message the code goes on with buffer 0.
DequeueFails ==
  /\ pc = "dequeue" /\ (driver[devName].fault \/ devName \notin plugged)
  /\ buf' = 0 /\ acquired' = FALSE
  /\ driver' = [driver EXCEPT ![devName].fault = FALSE]
  /\ pc' = "copy"
  /\ UNCHANGED <<env, hVideoDev, mapped, block, ending, h, hist>>

CopyFrame ==
  /\ pc = "copy"
  /\ last' = IF acquired THEN [last EXCEPT ![devName] = driver[devName].frame[buf]] ELSE last
  /\ pc' = "requeue"
  /\ UNCHANGED <<env, hVideoDev, driver, mapped, block, ending, h, buf, acquired, lost>>

Held(d) == {driver[d].queue[i] : i \in DOMAIN driver[d].queue}
             \cup {driver[d].done[i] : i \in DOMAIN driver[d].done}

\* Mutant: the buffer of a frame is not returned.
Kept(dr) == dr

Returned(dr) == [dr EXCEPT !.queue = Append(@, buf)]

RequeueFrame ==
  /\ pc = "requeue" /\ devName \in plugged /\ buf \notin Held(devName)
  /\ driver' = [driver EXCEPT ![devName] = Returned(@)]
  /\ lost' = [lost EXCEPT ![devName] = @ \ {buf}]
  /\ pc' = "idle"
  /\ UNCHANGED <<env, hVideoDev, mapped, block, ending, h, buf, acquired, last>>

\* VIDIOC_QBUF fails, whatever the reason: a message, and the code goes on.
RequeueFails ==
  /\ pc = "requeue"
  /\ lost' = [lost EXCEPT ![devName] = @ \cup ({buf} \ Held(devName))]
  /\ pc' = "idle"
  /\ UNCHANGED <<env, hVideoDev, driver, mapped, block, ending, h, buf, acquired, last>>

-------------------------------------------------------------------------------
(***************************************************************************)
(* MW_videoCaptureTerminate, and the cleanup after an error.               *)
(***************************************************************************)
EndOfModel ==
  /\ pc = "idle" /\ ~ending /\ \A b \in Blocks : block[b] = "ready"
  /\ ending' = TRUE
  /\ UNCHANGED <<env, hVideoDev, driver, mapped, block, pc, h, buf, acquired, hist>>

VideoCaptureTerminate(b) ==
  /\ pc = "idle" /\ ending /\ block[b] = "ready"
  /\ block' = [block EXCEPT ![b] = "gone"]
  /\ h' \in Handle(name[b])
  /\ pc' = "terminate"
  /\ UNCHANGED <<env, hVideoDev, driver, mapped, ending, buf, acquired, hist>>

\* Mutant: a device that was not started is forgotten as it is.
OpenIfStarted(s) == s.fd > 0 /\ s.started

Open(s) == s.fd > 0

\* stopCapture fails in closeV4L2Device.
StopFails ==
  /\ pc \in {"terminate", "cleanup"} /\ h \in Slots
  /\ Open(hVideoDev[h]) /\ hVideoDev[h].started
  /\ ErrorExit
  /\ UNCHANGED <<env, hVideoDev, driver, mapped, block, ending, buf, acquired, hist>>

\* terminateDevice: stop, unmap, close, and clear the slot.
TerminateDevice ==
  /\ pc \in {"terminate", "cleanup"} /\ h \in Slots
  /\ Open(hVideoDev[h]) /\ hVideoDev[h].started => devName \in plugged
  /\ IF Open(hVideoDev[h])
     THEN /\ mapped' = [mapped EXCEPT ![devName] = @ \ hVideoDev[h].frm]
          /\ driver' = [driver EXCEPT ![devName] = Released]
          /\ lost' = [lost EXCEPT ![devName] = {}]
     ELSE UNCHANGED <<mapped, driver, lost>>
  /\ hVideoDev' = [hVideoDev EXCEPT ![h] = Unused]
  /\ IF pc = "cleanup" THEN h' = h + 1 /\ pc' = pc ELSE h' = h /\ pc' = "idle"
  /\ UNCHANGED <<env, block, ending, buf, acquired, last>>

Exit ==
  /\ \/ pc = "cleanup" /\ h > MaxDevices
     \/ pc = "idle" /\ \A b \in Blocks : block[b] = "gone"
  /\ pc' = "exited" /\ h' = 1
  /\ UNCHANGED <<env, hVideoDev, driver, mapped, block, ending, buf, acquired, hist>>

-------------------------------------------------------------------------------
Program ==
  \/ \E b \in Blocks :
       VideoCaptureInit(b) \/ InitRefused(b) \/ VideoCaptureOutput(b) \/ VideoCaptureTerminate(b)
  \/ OpenV4L2Device \/ InitMmap \/ MapBuffer \/ StartCapture \/ QueueBuffer \/ StreamOn \/ InitFails
  \/ DequeueFrame \/ DequeueFails \/ CopyFrame \/ RequeueFrame \/ RequeueFails
  \/ EndOfModel \/ StopFails \/ TerminateDevice \/ Exit

Next == Environment \/ Program

Spec == Init /\ [][Next]_vars

\* The program goes on, and a camera that has a buffer takes its next frame.
FairSpec == Spec /\ WF_vars(Program) /\ \A d \in Devices : WF_vars(Capture(d))

-------------------------------------------------------------------------------
SlotType == [devName: Devices \cup {NoName}, fd: {-1, 0, 1}, count: 0 .. NumBuffers,
             started: BOOLEAN, frm: SUBSET Buffers]

DriverType == [open: BOOLEAN, on: BOOLEAN, fault: BOOLEAN, queue: Seq(Buffers),
               done: Seq(Buffers), frame: [Buffers -> Nat]]

TypeOK ==
  /\ name \in [Blocks -> Devices]
  /\ hVideoDev \in [Slots -> SlotType]
  /\ driver \in [Devices -> DriverType]
  /\ mapped \in [Devices -> SUBSET Buffers] /\ plugged \subseteq Devices
  /\ block \in [Blocks -> {"new", "ready", "gone"}] /\ ending \in BOOLEAN
  /\ pc \in {"idle", "open", "request", "map", "queue", "dequeue", "copy", "requeue",
             "terminate", "cleanup", "exited"}
  /\ h \in 1 .. MaxDevices + 1 /\ buf \in 0 .. NumBuffers /\ acquired \in BOOLEAN
  /\ shot \in [Devices -> Nat]
  /\ last \in [Devices -> Nat] /\ lost \in [Devices -> SUBSET Buffers]

\* Between the steps the driver has every buffer of a started device, each once,
\* except those that readV4L2Frame took and failed to return: no other step loses
\* a buffer, a read that failed returns none twice, and one that took a lost
\* buffer for its own gives it back.
BuffersConserved ==
  pc = "idle" =>
    \A k \in Slots :
      LET s == hVideoDev[k]  d == driver[s.devName]
      IN s.started =>
           /\ Held(s.devName) = (0 .. s.count - 1) \ lost[s.devName]
           /\ Len(d.queue) + Len(d.done) = Cardinality(Held(s.devName))

\* A frame that was acquired is newer than all that were acquired before: the
\* driver does not write into a buffer that is still to be copied.
FramesInOrder == [][\A d \in Devices : last'[d] = last[d] \/ last'[d] > last[d]]_last

\* However the program ends, it has stopped, unmapped and closed every device,
\* also one whose initialization failed half way.
CleanEnd ==
  pc = "exited" => \A d \in Devices : mapped[d] = {} /\ ~driver[d].open /\ ~driver[d].on

\* Reading a frame returns, as long as the camera goes on, unless every buffer is
\* lost: readV4L2Frame never tries a failed VIDIOC_QBUF again, and once all have
\* failed its VIDIOC_DQBUF may wait for ever.
OutputReturns ==
  \A d \in Devices :
    pc = "dequeue" /\ devName = d ~>
      pc # "dequeue" \/ shot[d] = MaxFrames[d] \/ lost[d] = 0 .. hVideoDev[h].count - 1
===============================================================================
