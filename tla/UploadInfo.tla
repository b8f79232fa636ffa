------------------------------ MODULE UploadInfo ------------------------------
(***************************************************************************)
(* The data-logging state of one upInfo (BdUploadInfo with its TriggerInfo *)
(* in updown.c) and the functions of updown.c that act on it, each as an   *)
(* operator from the old record to the new one.                            *)
(*                                                                         *)
(* One sample time (NUMST = 1), so an upInfo has one circular buffer.  Its *)
(* bytes are abstracted to the number of whole time points it holds;       *)
(* module CircBuf models the bytes.  The signal values are abstracted to   *)
(* whether two successive samples cross the trigger level.                 *)
(***************************************************************************)
EXTENDS Integers

ONESHOT == -1     \* TRIGMODE_ONESHOT; any other holdOff is "normal" mode

TriggerStates == {"UNARMED", "HOLDING_OFF", "ARMED", "DELAYED", "FIRED", "TERMINATING"}

(***************************************************************************)
(*   sys       nSys > 0: the tables and buffers are allocated              *)
(*   cap       whole time points that fit the buffer; 0 is bufSize = 0     *)
(*   points    time points between tail and head                           *)
(*   empty     the CircularBuf flag that tells empty from full when        *)
(*             head = tail                                                 *)
(*   manual    trigSignals.nSections = 0                                   *)
(*   haveOld   haveOldTrigSigVal: a sample was seen since arming           *)
(***************************************************************************)
Info == [sys: BOOLEAN, cap: Nat, points: Nat, empty: BOOLEAN,
         state: TriggerStates, manual: BOOLEAN, haveOld: BOOLEAN,
         duration: Nat, holdOff: Nat \cup {ONESHOT}, delay: Nat, count: Nat,
         preDur: Nat, preCount: Nat, overFlow: BOOLEAN]

\* A trigger as the host selects it; a negative delay asks for pre-triggering.
TriggerPkt == [manual: BOOLEAN, duration: Nat, holdOff: Nat \cup {ONESHOT}, delay: Int]

UploadLogInfoReset ==
  [sys |-> FALSE, cap |-> 0, points |-> 0, empty |-> TRUE,
   state |-> "UNARMED", manual |-> TRUE, haveOld |-> FALSE,
   duration |-> 0, holdOff |-> 0, delay |-> 0, count |-> 0,
   preDur |-> 0, preCount |-> 0, overFlow |-> FALSE]

\* Mutant: the tables are freed and the trigger is left as it was.
TermKeepsTrigger(i) ==
  IF i.sys THEN [UploadLogInfoReset EXCEPT !.state = i.state] ELSE i

UploadLogInfoTerm(i) == IF i.sys THEN UploadLogInfoReset ELSE i

UploadLogInfoInit(i, cap) ==
  [UploadLogInfoTerm(i) EXCEPT !.sys = TRUE, !.cap = cap, !.points = 0, !.empty = TRUE]

UploadInitTrigger(i, pkt) ==
  [i EXCEPT !.manual   = pkt.manual,
            !.duration = pkt.duration,
            !.holdOff  = pkt.holdOff,
            !.delay    = IF pkt.delay < 0 THEN 0 ELSE pkt.delay,
            !.preDur   = IF pkt.delay < 0 THEN -pkt.delay ELSE 0]

UploadArmTrigger(i) ==
  [i EXCEPT !.overFlow = FALSE, !.points = 0, !.empty = TRUE,
            !.count = 0, !.haveOld = FALSE, !.preCount = 0,
            !.state = "ARMED"]

UploadEndLoggingSession(i) == UploadLogInfoTerm([i EXCEPT !.state = "UNARMED"])

\* Mutant: an event that is ending anyway is not made the last one.
CancelSkipsEnding(i) ==
  IF i.state \in {"UNARMED", "TERMINATING"} THEN i
  ELSE [i EXCEPT !.holdOff = ONESHOT, !.state = "TERMINATING"]

UploadCancelLogging(i) ==
  IF i.state = "UNARMED" THEN i
  ELSE [i EXCEPT !.holdOff = ONESHOT, !.state = "TERMINATING"]

UploadPrepareForFinalFlush(i) ==
  IF i.state \in {"FIRED", "TERMINATING"}
  THEN [i EXCEPT !.holdOff = ONESHOT, !.state = "TERMINATING"]
  ELSE i

-------------------------------------------------------------------------------
(***************************************************************************)
(* The base-rate calls, in the order a step makes them: UploadCheckTrigger,*)
(* UploadBufAddTimePoint (trigger detection, then recording) and           *)
(* UploadCheckEndTrigger.                                                  *)
(***************************************************************************)
HoldOffOver(i) == i.state = "HOLDING_OFF" /\ i.count = i.holdOff

UploadCheckTrigger(i) ==
  CASE HoldOffOver(i) -> UploadArmTrigger([i EXCEPT !.count = @ + 1])
    [] i.state = "HOLDING_OFF" /\ ~HoldOffOver(i) -> [i EXCEPT !.count = @ + 1]
    [] i.state = "DELAYED" /\ i.count >= i.delay ->
         [i EXCEPT !.count = i.preCount, !.state = "FIRED"]
    [] i.state = "DELAYED" /\ i.count < i.delay -> [i EXCEPT !.count = @ + 1]
    [] OTHER -> i

\* The trigger signal crossed its level: it takes two samples since arming.
Crossed(i, edge) == i.state = "ARMED" /\ ~i.manual /\ i.haveOld /\ edge

\* Mutant: the delay is counted from 0 on.
DetectCountsFromZero(i, edge) ==
  CASE i.state = "ARMED" /\ i.manual -> [i EXCEPT !.state = "FIRED"]
    [] Crossed(i, edge) -> [i EXCEPT !.state = "DELAYED", !.count = 0]
    [] OTHER -> [i EXCEPT !.haveOld = TRUE]

Detect(i, edge) ==
  CASE i.state = "ARMED" /\ i.manual -> [i EXCEPT !.state = "FIRED"]
    [] Crossed(i, edge) /\ i.delay = 0 ->
         [i EXCEPT !.state = "FIRED", !.count = i.preCount]
    [] Crossed(i, edge) /\ i.delay # 0 ->
         [i EXCEPT !.state = "DELAYED", !.count = 1]
    [] i.state = "ARMED" /\ ~i.manual /\ ~Crossed(i, edge) ->
         [i EXCEPT !.haveOld = TRUE]
    [] OTHER -> i

PreTriggering(i) == i.state = "ARMED" /\ i.preDur > 0

\* The oldest point is given up for the new one.  "empty" is left as it is.
MoveTailOneStep(i) ==
  IF PreTriggering(i) /\ i.preCount = i.preDur
  THEN [i EXCEPT !.points = @ - 1, !.preCount = @ - 1]
  ELSE i

\* head = tail with "empty" unset is a full buffer for UploadBufAssignMem.
HasRoom(i) == i.empty \/ (0 < i.points /\ i.points < i.cap)

Record(i) ==
  LET j == MoveTailOneStep(i)
  IN CASE ~(i.state = "FIRED" \/ PreTriggering(i)) \/ i.cap = 0 -> i
       [] (i.state = "FIRED" \/ PreTriggering(i)) /\ i.cap # 0 /\ HasRoom(j) ->
            [j EXCEPT !.points = @ + 1, !.empty = FALSE,
                      !.preCount = IF PreTriggering(i) THEN @ + 1 ELSE @]
       [] PreTriggering(i) /\ i.cap # 0 /\ ~HasRoom(j) -> j
       [] i.state = "FIRED" /\ i.cap # 0 /\ ~HasRoom(j) ->
            [j EXCEPT !.overFlow = TRUE, !.state = "TERMINATING"]

UploadBufAddTimePoint(i, edge) == Record(Detect(i, edge))

\* Mutant: the count is compared before it counts the step.
DurationMetLate(i) == i.state = "FIRED" /\ i.count = i.duration

DurationMet(i) == i.state = "FIRED" /\ i.count + 1 = i.duration

UploadCheckEndTrigger(i) ==
  CASE DurationMet(i) -> [i EXCEPT !.count = @ + 1, !.state = "TERMINATING"]
    [] i.state = "FIRED" /\ ~DurationMet(i) -> [i EXCEPT !.count = @ + 1]
    [] OTHER -> i

-------------------------------------------------------------------------------
(***************************************************************************)
(* UploadBufGetData and UploadBufDataSent.  The list of buffer memory is   *)
(* not empty exactly when HasData; Drained is the record once it was sent; *)
(* AtEnd is UploadBufGetData's test for the end of the event.              *)
(***************************************************************************)
Uploading(i) == i.state \in {"FIRED", "TERMINATING"}

HasData(i) == Uploading(i) /\ ~i.empty

Drained(i) == IF HasData(i) THEN [i EXCEPT !.points = 0, !.empty = TRUE] ELSE i

\* Mutant: an event is closed only together with data.
AtEndWithData(i) == i.state = "TERMINATING" /\ HasData(i)

AtEnd(i) == i.state = "TERMINATING"

EventEnded(i) ==
  IF i.holdOff = ONESHOT
  THEN UploadEndLoggingSession(i)
  ELSE [i EXCEPT !.count = 0, !.state = "HOLDING_OFF"]
===============================================================================
