------------------------- MODULE ExtModeUploadProofs -------------------------
(***************************************************************************)
(* The inductive invariant of ExtModeUpload and the theorems that follow   *)
(* from it, for any number of upInfos, any triggers the host may select    *)
(* and any buffer capacities.                                              *)
(***************************************************************************)
EXTENDS ExtModeUpload, TLAPS

(***************************************************************************)
(* One upInfo i with its history l.  "extra" is 1 between the call that    *)
(* records a point of the step and the call that counts it.                *)
(***************************************************************************)
Selected(i) ==
  /\ i.state # "UNARMED" => i.sys
  /\ i.delay > 0 => i.preDur = 0
  /\ i.preDur = 0 \/ i.state = "UNARMED" => i.preCount = 0
  /\ i.cap = 0 \/ i.empty => i.points = 0

WantOK(i, l) == i.state # "UNARMED" => l.want = IF i.cap = 0 THEN 0 ELSE i.duration

ArmedOK(i, l) ==
  i.state = "ARMED" =>
    /\ l.got = 0 /\ l.since = 0 /\ l.end = "none" /\ ~l.final
    /\ i.points = i.preCount
    /\ i.manual => i.points = 0
    /\ i.count = 0

DelayedOK(i, l) ==
  i.state = "DELAYED" =>
    /\ l.got = 0 /\ l.end = "none" /\ ~l.final
    /\ i.points = 0 /\ i.preCount = 0
    /\ i.count = l.since + 1 /\ i.count <= i.delay

FiredOK(i, l, extra) ==
  i.state = "FIRED" =>
    /\ l.end = "none" /\ ~l.final
    /\ i.manual \/ l.since = i.delay
    /\ l.got + i.points = IF i.cap = 0 THEN 0 ELSE i.count + extra

EndingOK(i, l) ==
  /\ i.state = "HOLDING_OFF" => ~l.final
  /\ i.state = "TERMINATING" /\ l.final => i.holdOff = ONESHOT
  /\ i.state = "TERMINATING" /\ l.why = "duration" =>
       l.end = "none" /\ l.got + i.points = l.want

EndedOK(l) == l.end # "none" /\ l.why = "duration" => l.got = l.want

UpInfoOK(i, l, extra) ==
  /\ Selected(i)
  /\ WantOK(i, l)
  /\ ArmedOK(i, l)
  /\ DelayedOK(i, l)
  /\ FiredOK(i, l, extra)
  /\ EndingOK(i, l)
  /\ EndedOK(l)

UpInfosOK(inf, lg, extra) ==
  /\ inf \in [UpInfos -> Info]
  /\ lg \in [UpInfos -> LogType]
  /\ \A u \in UpInfos : UpInfoOK(inf[u], lg[u], extra)

Extra == IF pc = "end" THEN 1 ELSE 0

\* A session with a host needs a connection.
FlagsOK ==
  /\ uploading \in BOOLEAN /\ connected \in BOOLEAN
  /\ commInitialized \in BOOLEAN /\ link \in Links
  /\ commInitialized => connected

ThreadOK ==
  /\ pc \in Places
  /\ up \in UpInfos
  /\ caller \in {"none", "disconnect", "shutdown"}

\* The final flush has freed the upInfos before the current one, and the upload
\* server it runs finds a trigger that terminates or one that was not fired.
FlushOK ==
  /\ pc \in {"prepare", "flush", "term"} =>
       \A u \in UpInfos : u < up => info[u].state = "UNARMED"
  /\ pc = "flush" => info[up].state # "FIRED"
  /\ pc = "term" /\ caller = "shutdown" => ~Uploading(info[up])

IInv ==
  /\ UpInfosOK(info, log, Extra)
  /\ FlagsOK
  /\ ThreadOK
  /\ UnarmedWithoutHost
  /\ FlushOK

-------------------------------------------------------------------------------
(* What an update leaves alone, and the types of the fields. *)

SameSettings(j, i) ==
  /\ j.sys = i.sys /\ j.cap = i.cap /\ j.manual = i.manual
  /\ j.duration = i.duration /\ j.delay = i.delay /\ j.preDur = i.preDur

SameBuffer(j, i) == j.points = i.points /\ j.empty = i.empty /\ j.preCount = i.preCount

LEMMA FieldTypes ==
  ASSUME NEW i \in Info
  PROVE  /\ i.sys \in BOOLEAN /\ i.empty \in BOOLEAN /\ i.manual \in BOOLEAN
         /\ i.cap \in Nat /\ i.points \in Nat /\ i.count \in Nat /\ i.duration \in Nat
         /\ i.delay \in Nat /\ i.preDur \in Nat /\ i.preCount \in Nat
         /\ i.state \in TriggerStates /\ i.holdOff \in Nat \cup {ONESHOT}
  BY DEF Info

LEMMA LogTypes ==
  ASSUME NEW l \in LogType
  PROVE  l.got \in Nat /\ l.want \in Nat /\ l.since \in Nat /\ l.final \in BOOLEAN
  BY DEF LogType

LEMMA States ==
  /\ "UNARMED" \in TriggerStates /\ "HOLDING_OFF" \in TriggerStates
  /\ "ARMED" \in TriggerStates /\ "DELAYED" \in TriggerStates
  /\ "FIRED" \in TriggerStates /\ "TERMINATING" \in TriggerStates
  BY DEF TriggerStates

-------------------------------------------------------------------------------
(* What each function of updown.c makes of one upInfo. *)

\* UploadLogInfoTerm and UploadEndLoggingSession leave an unarmed trigger.
LEMMA TermOK ==
  ASSUME NEW i \in Info, NEW l \in LogType, Selected(i), EndedOK(l)
  PROVE  /\ UploadLogInfoReset \in Info
         /\ UploadLogInfoTerm(i) \in Info
         /\ UploadEndLoggingSession(i) \in Info
         /\ UploadLogInfoTerm(i).state = "UNARMED"
         /\ UploadEndLoggingSession(i).state = "UNARMED"
         /\ \A d \in {0, 1} : /\ UpInfoOK(UploadLogInfoReset, l, d)
                              /\ UpInfoOK(UploadLogInfoTerm(i), l, d)
                              /\ UpInfoOK(UploadEndLoggingSession(i), l, d)
  BY DEF Info, LogType, TriggerStates, ONESHOT, UpInfoOK, Selected, WantOK, ArmedOK, DelayedOK,
         FiredOK, EndingOK, EndedOK, UploadLogInfoReset, UploadLogInfoTerm,
         UploadEndLoggingSession

LEMMA InitTriggerOK ==
  ASSUME NEW i \in Info, NEW l \in LogType, NEW pkt \in TriggerPkt,
         UpInfoOK(i, l, 0), i.state = "UNARMED"
  PROVE  /\ UploadInitTrigger(i, pkt) \in Info
         /\ UploadInitTrigger(i, pkt).state = "UNARMED"
         /\ UpInfoOK(UploadInitTrigger(i, pkt), l, 0)
<1> DEFINE j == UploadInitTrigger(i, pkt)
           manual == pkt.manual
           duration == pkt.duration
           holdOff == pkt.holdOff
           delay == IF pkt.delay < 0 THEN 0 ELSE pkt.delay
           preDur == IF pkt.delay < 0 THEN -pkt.delay ELSE 0
<1>1. /\ manual \in BOOLEAN /\ duration \in Nat /\ holdOff \in Nat \cup {ONESHOT}
      /\ delay \in Nat /\ preDur \in Nat /\ (delay > 0 => preDur = 0)
  BY DEF TriggerPkt
<1>2. j = [i EXCEPT !.manual = manual, !.duration = duration, !.holdOff = holdOff,
                    !.delay = delay, !.preDur = preDur]
  BY DEF UploadInitTrigger
<1> HIDE DEF j, manual, duration, holdOff, delay, preDur
<1>3. /\ j \in Info /\ SameBuffer(j, i) /\ j.sys = i.sys /\ j.cap = i.cap
      /\ j.state = i.state /\ j.delay = delay /\ j.preDur = preDur
  BY <1>1, <1>2 DEF Info, SameBuffer
<1>4. UpInfoOK(j, l, 0)
  BY <1>1, <1>3 DEF SameBuffer, UpInfoOK, Selected, WantOK, ArmedOK,
     DelayedOK, FiredOK, EndingOK, EndedOK
<1>5. QED
  BY <1>3, <1>4 DEF j

LEMMA ArmOK ==
  ASSUME NEW i \in Info, Selected(i), i.sys, NEW k \in LogType,
         k.got = 0, k.since = 0, k.end = "none", ~k.final,
         k.want = IF i.cap = 0 THEN 0 ELSE i.duration
  PROVE  /\ UploadArmTrigger(i) \in Info
         /\ \A d \in {0, 1} : UpInfoOK(UploadArmTrigger(i), k, d)
<1> DEFINE j == UploadArmTrigger(i)
<1>1. j \in Info
  BY DEF Info, TriggerStates, UploadArmTrigger
<1>2. /\ j.state = "ARMED" /\ j.sys /\ j.points = 0 /\ j.count = 0 /\ j.preCount = 0
      /\ j.cap = i.cap /\ j.duration = i.duration /\ j.delay = i.delay /\ j.preDur = i.preDur
  BY DEF Info, UploadArmTrigger
<1>3. i.delay > 0 => i.preDur = 0
  BY DEF Selected
<1> HIDE DEF j
<1>4. ASSUME NEW d \in {0, 1} PROVE UpInfoOK(j, k, d)
  BY <1>2, <1>3 DEF UpInfoOK, Selected, WantOK, ArmedOK, DelayedOK, FiredOK, EndingOK, EndedOK
<1>5. QED
  BY <1>1, <1>4 DEF j

\* The history of an event that is being armed.
LEMMA ArmedLogOK ==
  ASSUME NEW i \in Info
  PROVE  /\ ArmedLog(i) \in LogType
         /\ ArmedLog(i).got = 0 /\ ArmedLog(i).since = 0 /\ ArmedLog(i).end = "none"
         /\ ArmedLog(i).final = FALSE
         /\ ArmedLog(i).want = IF i.cap = 0 THEN 0 ELSE i.duration
  BY DEF Info, LogType, ArmedLog, NoLog

\* What makes the logging of i the last one: a cancel, or the final flush.
Terminating(i) == [i EXCEPT !.holdOff = ONESHOT, !.state = "TERMINATING"]

LEMMA TerminatingOK ==
  ASSUME NEW i \in Info, NEW l \in LogType, NEW cause \in {"cancel", "flush"},
         UpInfoOK(i, l, 0), i.state # "UNARMED"
  PROVE  /\ Terminating(i) \in Info
         /\ Terminating(i).state = "TERMINATING"
         /\ Finally(l, i, cause) \in LogType
         /\ UpInfoOK(Terminating(i), Finally(l, i, cause), 0)
<1> DEFINE j == Terminating(i)
           k == Finally(l, i, cause)
<1>1. k \in LogType
  BY DEF LogType, Finally
<1>2. /\ k.got = l.got /\ k.want = l.want /\ k.end = l.end
      /\ k.why = IF i.state = "TERMINATING" THEN l.why ELSE cause
  BY DEF LogType, Finally
<1>3. /\ j \in Info /\ SameSettings(j, i) /\ SameBuffer(j, i)
      /\ j.state = "TERMINATING" /\ j.holdOff = ONESHOT
  BY States DEF Info, SameSettings, SameBuffer, Terminating
<1> HIDE DEF j, k
<1>4. UpInfoOK(j, k, 0)
  BY <1>2, <1>3 DEF SameSettings, SameBuffer, UpInfoOK, Selected, WantOK, ArmedOK,
     DelayedOK, FiredOK, EndingOK, EndedOK
<1>5. QED
  BY <1>1, <1>3, <1>4 DEF j, k

\* A recorded point is counted in the step that recorded it.
LEMMA CheckEndOK ==
  ASSUME NEW i \in Info, NEW l \in LogType, UpInfoOK(i, l, 1)
  PROVE  LET k == IF DurationMet(i) THEN [l EXCEPT !.why = "duration"] ELSE l
         IN  /\ UploadCheckEndTrigger(i) \in Info
             /\ k \in LogType
             /\ UploadCheckEndTrigger(i).state = "UNARMED" <=> i.state = "UNARMED"
             /\ UpInfoOK(UploadCheckEndTrigger(i), k, 0)
<1> DEFINE n == i.count + 1
<1>n. n \in Nat
  BY FieldTypes
<1>1. CASE DurationMet(i)
  <2> DEFINE j == [i EXCEPT !.count = n, !.state = "TERMINATING"]
             k == [l EXCEPT !.why = "duration"]
  <2>1. UploadCheckEndTrigger(i) = j /\ i.state = "FIRED" /\ n = i.duration
    BY <1>1 DEF UploadCheckEndTrigger, DurationMet
  <2>2. /\ k \in LogType /\ k.got = l.got /\ k.want = l.want /\ k.end = l.end
        /\ k.final = l.final
    BY DEF LogType
  <2>3. l.got + i.points = l.want /\ l.end = "none" /\ ~l.final
    BY <2>1, FieldTypes DEF UpInfoOK, Selected, WantOK, FiredOK
  <2> HIDE DEF n
  <2>4. /\ j \in Info /\ SameSettings(j, i) /\ SameBuffer(j, i)
        /\ j.count = n /\ j.state = "TERMINATING" /\ j.holdOff = i.holdOff
    BY <1>n, States DEF Info, SameSettings, SameBuffer
  <2> HIDE DEF j, k
  <2>5. UpInfoOK(j, k, 0)
    BY <2>1, <2>2, <2>3, <2>4 DEF SameSettings, SameBuffer, UpInfoOK, Selected,
       WantOK, ArmedOK, DelayedOK, FiredOK, EndingOK, EndedOK
  <2>6. QED
    BY <1>1, <2>1, <2>2, <2>4, <2>5 DEF k
<1>2. CASE i.state = "FIRED" /\ ~DurationMet(i)
  <2> DEFINE j == [i EXCEPT !.count = n]
  <2>1. UploadCheckEndTrigger(i) = j
    BY <1>2 DEF UploadCheckEndTrigger
  <2> HIDE DEF n
  <2>2. /\ j \in Info /\ SameSettings(j, i) /\ SameBuffer(j, i)
        /\ j.count = n /\ j.state = i.state /\ j.holdOff = i.holdOff
    BY <1>n DEF Info, SameSettings, SameBuffer
  <2> HIDE DEF j
  <2>3. UpInfoOK(j, l, 0)
    BY <1>2, <2>2, FieldTypes, LogTypes DEF n, SameSettings, SameBuffer, UpInfoOK, Selected, WantOK,
       ArmedOK, DelayedOK, FiredOK, EndingOK, EndedOK
  <2>4. QED
    BY <1>2, <2>1, <2>2, <2>3
<1>3. CASE i.state # "FIRED"
  <2>1. UploadCheckEndTrigger(i) = i /\ ~DurationMet(i)
    BY <1>3 DEF UploadCheckEndTrigger, DurationMet
  <2>2. UpInfoOK(i, l, 0)
    BY <1>3 DEF UpInfoOK, FiredOK
  <2>3. QED
    BY <2>1, <2>2
<1>4. QED
  BY <1>1, <1>2, <1>3

\* A hold-off that is over arms the trigger again; a delay that is over fires it.
LEMMA CheckTriggerOK ==
  ASSUME NEW i \in Info, NEW l \in LogType, UpInfoOK(i, l, 0)
  PROVE  LET k == IF HoldOffOver(i) THEN [ArmedLog(i) EXCEPT !.final = l.final]
                  ELSE IF i.state = "DELAYED" THEN [l EXCEPT !.since = @ + 1]
                  ELSE l
         IN  /\ UploadCheckTrigger(i) \in Info
             /\ k \in LogType
             /\ UploadCheckTrigger(i).state = "UNARMED" <=> i.state = "UNARMED"
             /\ UpInfoOK(UploadCheckTrigger(i), k, 0)
<1> DEFINE n == i.count + 1
<1>n. n \in Nat
  BY FieldTypes
<1>1. CASE HoldOffOver(i)
  <2> DEFINE j == [i EXCEPT !.count = n]
             k == [ArmedLog(i) EXCEPT !.final = l.final]
  <2>1. UploadCheckTrigger(i) = UploadArmTrigger(j) /\ i.state = "HOLDING_OFF"
    BY <1>1 DEF UploadCheckTrigger, HoldOffOver
  <2>2. l.final = FALSE /\ i.sys
    BY <2>1, LogTypes, FieldTypes DEF UpInfoOK, Selected, EndingOK
  <2>3. /\ k \in LogType /\ k.got = 0 /\ k.since = 0 /\ k.end = "none" /\ k.final = FALSE
        /\ k.want = IF i.cap = 0 THEN 0 ELSE i.duration
    BY <2>2, ArmedLogOK DEF LogType
  <2> HIDE DEF n, k
  <2>4. j \in Info /\ SameSettings(j, i) /\ SameBuffer(j, i) /\ j.state = i.state
    BY <1>n DEF Info, SameSettings, SameBuffer
  <2> HIDE DEF j
  <2>5. Selected(j) /\ j.sys
    BY <2>2, <2>4 DEF UpInfoOK, Selected, SameSettings, SameBuffer
  <2>6. k.want = IF j.cap = 0 THEN 0 ELSE j.duration
    BY <2>3, <2>4 DEF SameSettings
  <2>7. UploadArmTrigger(j) \in Info /\ UpInfoOK(UploadArmTrigger(j), k, 0)
    BY <2>3, <2>4, <2>5, <2>6, ArmOK
  <2>8. UploadArmTrigger(j).state = "ARMED"
    BY <2>4 DEF UploadArmTrigger, Info
  <2>9. QED
    BY <1>1, <2>1, <2>3, <2>7, <2>8 DEF k
<1>2. CASE i.state = "HOLDING_OFF" /\ ~HoldOffOver(i)
  <2> DEFINE j == [i EXCEPT !.count = n]
  <2>1. UploadCheckTrigger(i) = j
    BY <1>2 DEF UploadCheckTrigger
  <2> HIDE DEF n
  <2>2. j \in Info /\ SameSettings(j, i) /\ SameBuffer(j, i) /\ j.state = i.state
    BY <1>n DEF Info, SameSettings, SameBuffer
  <2> HIDE DEF j
  <2>3. UpInfoOK(j, l, 0)
    BY <1>2, <2>2 DEF SameSettings, SameBuffer, UpInfoOK, Selected, WantOK, ArmedOK, DelayedOK,
       FiredOK, EndingOK, EndedOK
  <2>4. QED
    BY <1>2, <2>1, <2>2, <2>3
<1>3. CASE i.state = "DELAYED"
  <2> DEFINE k == [l EXCEPT !.since = @ + 1]
  <2>1. /\ k \in LogType /\ k.got = l.got /\ k.want = l.want /\ k.end = l.end
        /\ k.why = l.why /\ k.final = l.final /\ k.since = l.since + 1
    BY LogTypes DEF LogType
  <2>2. ~HoldOffOver(i)
    BY <1>3 DEF HoldOffOver
  <2> HIDE DEF k
  <2>3. CASE i.count >= i.delay
    <3> DEFINE j == [i EXCEPT !.count = i.preCount, !.state = "FIRED"]
    <3>1. UploadCheckTrigger(i) = j
      BY <1>3, <2>2, <2>3, FieldTypes DEF UploadCheckTrigger, HoldOffOver
    <3>2. /\ j \in Info /\ SameSettings(j, i) /\ SameBuffer(j, i)
          /\ j.count = i.preCount /\ j.state = "FIRED"
      BY FieldTypes, States DEF Info, SameSettings, SameBuffer
    <3> HIDE DEF j
    <3>3. UpInfoOK(j, k, 0)
      BY <1>3, <2>1, <2>3, <3>2, FieldTypes, LogTypes DEF SameSettings, SameBuffer, UpInfoOK,
         Selected, WantOK, ArmedOK, DelayedOK, FiredOK, EndingOK, EndedOK
    <3>4. QED
      BY <1>3, <2>1, <2>2, <3>1, <3>2, <3>3 DEF k
  <2>4. CASE i.count < i.delay
    <3> DEFINE j == [i EXCEPT !.count = n]
    <3>1. UploadCheckTrigger(i) = j
      BY <1>3, <2>2, <2>4, FieldTypes DEF UploadCheckTrigger, HoldOffOver
    <3> HIDE DEF n
    <3>2. /\ j \in Info /\ SameSettings(j, i) /\ SameBuffer(j, i)
          /\ j.count = n /\ j.state = "DELAYED"
      BY <1>n, <1>3 DEF Info, SameSettings, SameBuffer
    <3> HIDE DEF j
    <3>3. UpInfoOK(j, k, 0)
      BY <1>3, <2>1, <2>4, <3>2, FieldTypes, LogTypes DEF n, SameSettings, SameBuffer, UpInfoOK,
         Selected, WantOK, ArmedOK, DelayedOK, FiredOK, EndingOK, EndedOK
    <3>4. QED
      BY <1>3, <2>1, <2>2, <3>1, <3>2, <3>3 DEF k
  <2>5. QED
    BY <2>3, <2>4, FieldTypes
<1>4. CASE i.state \notin {"HOLDING_OFF", "DELAYED"}
  BY <1>4 DEF UploadCheckTrigger, HoldOffOver
<1>5. QED
  BY <1>1, <1>2, <1>3, <1>4

\* Detection fires a trigger, or starts its delay, on the points it already has.
LEMMA DetectOK ==
  ASSUME NEW i \in Info, NEW l \in LogType, NEW edge \in BOOLEAN, UpInfoOK(i, l, 0)
  PROVE  /\ Detect(i, edge) \in Info
         /\ Detect(i, edge).state = "UNARMED" <=> i.state = "UNARMED"
         /\ Detect(i, edge).state = "TERMINATING" <=> i.state = "TERMINATING"
         /\ Detect(i, edge).state = "ARMED" => ~Detect(i, edge).manual
         /\ UpInfoOK(Detect(i, edge), l, 0)
<1> DEFINE j == Detect(i, edge)
<1>1. CASE i.state = "ARMED" /\ i.manual
  <2>1. j = [i EXCEPT !.state = "FIRED"]
    BY <1>1 DEF Detect, Crossed
  <2> HIDE DEF j
  <2>2. /\ j \in Info /\ SameSettings(j, i) /\ SameBuffer(j, i)
        /\ j.count = i.count /\ j.state = "FIRED"
    BY <2>1, States DEF Info, SameSettings, SameBuffer
  <2>3. UpInfoOK(j, l, 0)
    BY <1>1, <2>2, FieldTypes, LogTypes DEF SameSettings, SameBuffer, UpInfoOK,
       Selected, WantOK, ArmedOK, DelayedOK, FiredOK, EndingOK, EndedOK
  <2>4. QED
    BY <1>1, <2>2, <2>3 DEF j
<1>2. CASE Crossed(i, edge) /\ i.delay = 0
  <2>1. j = [i EXCEPT !.state = "FIRED", !.count = i.preCount]
    BY <1>2 DEF Detect, Crossed
  <2> HIDE DEF j
  <2>2. /\ j \in Info /\ SameSettings(j, i) /\ SameBuffer(j, i)
        /\ j.count = i.preCount /\ j.state = "FIRED"
    BY <2>1, States, FieldTypes DEF Info, SameSettings, SameBuffer
  <2>3. UpInfoOK(j, l, 0)
    BY <1>2, <2>2, FieldTypes, LogTypes DEF Crossed, SameSettings, SameBuffer, UpInfoOK,
       Selected, WantOK, ArmedOK, DelayedOK, FiredOK, EndingOK, EndedOK
  <2>4. QED
    BY <1>2, <2>2, <2>3 DEF j, Crossed
<1>3. CASE Crossed(i, edge) /\ i.delay # 0
  <2>1. j = [i EXCEPT !.state = "DELAYED", !.count = 1]
    BY <1>3 DEF Detect, Crossed
  <2> HIDE DEF j
  <2>2. /\ j \in Info /\ SameSettings(j, i) /\ SameBuffer(j, i)
        /\ j.count = 1 /\ j.state = "DELAYED"
    BY <2>1, States DEF Info, SameSettings, SameBuffer
  <2>3. UpInfoOK(j, l, 0)
    BY <1>3, <2>2, FieldTypes, LogTypes DEF Crossed, SameSettings, SameBuffer, UpInfoOK,
       Selected, WantOK, ArmedOK, DelayedOK, FiredOK, EndingOK, EndedOK
  <2>4. QED
    BY <1>3, <2>2, <2>3 DEF j, Crossed
<1>4. CASE i.state = "ARMED" /\ ~i.manual /\ ~Crossed(i, edge)
  <2>1. j = [i EXCEPT !.haveOld = TRUE]
    BY <1>4 DEF Detect
  <2> HIDE DEF j
  <2>2. /\ j \in Info /\ SameSettings(j, i) /\ SameBuffer(j, i)
        /\ j.count = i.count /\ j.state = i.state
    BY <2>1 DEF Info, SameSettings, SameBuffer
  <2>3. UpInfoOK(j, l, 0)
    BY <1>4, <2>2, FieldTypes, LogTypes DEF SameSettings, SameBuffer, UpInfoOK,
       Selected, WantOK, ArmedOK, DelayedOK, FiredOK, EndingOK, EndedOK
  <2>4. QED
    BY <1>4, <2>2, <2>3 DEF j, SameSettings
<1>5. CASE i.state # "ARMED"
  BY <1>5 DEF Detect, Crossed
<1>6. QED
  BY <1>1, <1>2, <1>3, <1>4, <1>5 DEF Crossed

\* Before the trigger fires a recorded point counts as a pre-trigger point; a
\* fired trigger that finds no room ends.
LEMMA RecordOK ==
  ASSUME NEW i \in Info, NEW l \in LogType, UpInfoOK(i, l, 0), i.state = "ARMED" => ~i.manual
  PROVE  LET k == IF Record(i).state = "TERMINATING" /\ i.state # "TERMINATING"
                  THEN [l EXCEPT !.why = "overflow"] ELSE l
         IN  /\ Record(i) \in Info
             /\ k \in LogType
             /\ Record(i).state = "UNARMED" <=> i.state = "UNARMED"
             /\ UpInfoOK(Record(i), k, 1)
<1> DEFINE r == Record(i)
           m == MoveTailOneStep(i)
<1>1. CASE ~(i.state = "FIRED" \/ PreTriggering(i)) \/ i.cap = 0
  <2>1. r = i
    BY <1>1 DEF Record, PreTriggering
  <2> HIDE DEF r
  <2>2. UpInfoOK(i, l, 1)
    BY <1>1, FieldTypes DEF UpInfoOK, FiredOK
  <2>3. QED
    BY <2>1, <2>2 DEF r
<1>2. CASE i.state = "FIRED" /\ i.cap # 0
  <2>1. m = i /\ ~PreTriggering(i)
    BY <1>2 DEF MoveTailOneStep, PreTriggering
  <2>2. CASE HasRoom(i)
    <3> DEFINE p == i.points + 1
    <3>1. r = [i EXCEPT !.points = p, !.empty = FALSE, !.preCount = i.preCount]
      BY <1>2, <2>1, <2>2 DEF Record
    <3>2. p \in Nat
      BY FieldTypes
    <3> HIDE DEF r, m, p
    <3>3. /\ r \in Info /\ SameSettings(r, i)
          /\ r.points = p /\ r.empty = FALSE /\ r.preCount = i.preCount
          /\ r.count = i.count /\ r.state = i.state /\ r.holdOff = i.holdOff
      BY <3>1, <3>2, FieldTypes DEF Info, SameSettings
    <3>4. UpInfoOK(r, l, 1)
      BY <1>2, <3>3, FieldTypes, LogTypes DEF p, SameSettings, UpInfoOK,
         Selected, WantOK, ArmedOK, DelayedOK, FiredOK, EndingOK, EndedOK
    <3>5. QED
      BY <1>2, <3>3, <3>4 DEF r
  <2>3. CASE ~HasRoom(i)
    <3> DEFINE k == [l EXCEPT !.why = "overflow"]
    <3>1. r = [i EXCEPT !.overFlow = TRUE, !.state = "TERMINATING"]
      BY <1>2, <2>1, <2>3 DEF Record
    <3>2. /\ k \in LogType /\ k.got = l.got /\ k.want = l.want /\ k.end = l.end
          /\ k.why = "overflow" /\ k.final = l.final
      BY DEF LogType
    <3> HIDE DEF r, m, k
    <3>3. /\ r \in Info /\ SameSettings(r, i) /\ SameBuffer(r, i) /\ r.state = "TERMINATING"
      BY <3>1, States DEF Info, SameSettings, SameBuffer
    <3>4. UpInfoOK(r, k, 1)
      BY <1>2, <3>2, <3>3, FieldTypes, LogTypes DEF SameSettings, SameBuffer, UpInfoOK,
         Selected, WantOK, ArmedOK, DelayedOK, FiredOK, EndingOK, EndedOK
    <3>5. QED
      BY <1>2, <3>2, <3>3, <3>4 DEF r, k
  <2>4. QED
    BY <2>2, <2>3
<1>3. CASE PreTriggering(i) /\ i.cap # 0
  <2>1. i.state = "ARMED" /\ i.preDur > 0 /\ ~i.manual /\ i.points = i.preCount
    BY <1>3 DEF PreTriggering, UpInfoOK, ArmedOK
  <2>2. /\ m \in Info /\ SameSettings(m, i) /\ m.points = m.preCount
        /\ m.empty = i.empty /\ (m.points = 0 \/ m.points = i.points \/ ~i.empty)
        /\ m.count = i.count /\ m.state = i.state /\ m.holdOff = i.holdOff
    <3>1. CASE i.preCount = i.preDur
      <4> DEFINE p == i.points - 1
      <4>1. m = [i EXCEPT !.points = p, !.preCount = p]
        BY <1>3, <2>1, <3>1 DEF MoveTailOneStep
      <4>2. p \in Nat /\ ~i.empty
        BY <2>1, <3>1, FieldTypes DEF UpInfoOK, Selected
      <4> HIDE DEF m, p
      <4>3. QED
        BY <2>1, <4>1, <4>2 DEF Info, SameSettings
    <3>2. CASE i.preCount # i.preDur
      BY <2>1, <3>2 DEF MoveTailOneStep, SameSettings
    <3>3. QED
      BY <3>1, <3>2
  <2> HIDE DEF m
  <2>3. CASE HasRoom(m)
    <3> DEFINE p == m.points + 1
    <3>1. r = [m EXCEPT !.points = p, !.empty = FALSE, !.preCount = m.preCount + 1]
      BY <1>3, <2>1, <2>3 DEF Record, m
    <3>2. p \in Nat /\ m.preCount + 1 = p
      BY <2>2, FieldTypes
    <3> HIDE DEF r, p
    <3>3. /\ r \in Info /\ SameSettings(r, m)
          /\ r.points = p /\ r.empty = FALSE /\ r.preCount = p
          /\ r.count = m.count /\ r.state = m.state /\ r.holdOff = m.holdOff
      BY <2>2, <3>1, <3>2 DEF Info, SameSettings
    <3>4. UpInfoOK(r, l, 1)
      BY <1>3, <2>1, <2>2, <3>3, FieldTypes, LogTypes DEF SameSettings, UpInfoOK,
         Selected, WantOK, ArmedOK, DelayedOK, FiredOK, EndingOK, EndedOK
    <3>5. QED
      BY <2>1, <2>2, <3>3, <3>4 DEF r
  <2>4. CASE ~HasRoom(m)
    <3>1. r = m
      BY <1>3, <2>1, <2>4 DEF Record, m
    <3> HIDE DEF r
    <3>2. UpInfoOK(m, l, 1)
      BY <1>3, <2>1, <2>2, FieldTypes, LogTypes DEF SameSettings, UpInfoOK,
         Selected, WantOK, ArmedOK, DelayedOK, FiredOK, EndingOK, EndedOK
    <3>3. QED
      BY <2>1, <2>2, <3>1, <3>2 DEF r
  <2>5. QED
    BY <2>3, <2>4
<1>4. QED
  BY <1>1, <1>2, <1>3 DEF PreTriggering

\* The upload server sends what is buffered and ends the event that is over.
LEMMA DrainedOK ==
  ASSUME NEW i \in Info, NEW l \in LogType, UpInfoOK(i, l, 0)
  PROVE  /\ Drained(i) \in Info
         /\ Handed(l, i) \in LogType
         /\ Drained(i).state = i.state
         /\ Drained(i).holdOff = i.holdOff
         /\ i.state = "TERMINATING" => Drained(i).points = 0
         /\ UpInfoOK(Drained(i), Handed(l, i), 0)
<1>1. CASE HasData(i)
  <2> DEFINE j == Drained(i)
             k == Handed(l, i)
             g == l.got + i.points
  <2>1. j = [i EXCEPT !.points = 0, !.empty = TRUE] /\ g \in Nat
    BY <1>1, FieldTypes, LogTypes DEF Drained
  <2>2. k = [l EXCEPT !.got = g, !.stale = l.stale \/ i.points = 0]
    BY <1>1 DEF Handed
  <2> HIDE DEF j, k, g
  <2>3. /\ k \in LogType /\ k.got = g /\ k.want = l.want /\ k.end = l.end
        /\ k.why = l.why /\ k.final = l.final /\ k.since = l.since
    BY <2>1, <2>2 DEF LogType
  <2>4. /\ j \in Info /\ SameSettings(j, i)
        /\ j.points = 0 /\ j.empty = TRUE /\ j.preCount = i.preCount
        /\ j.count = i.count /\ j.state = i.state /\ j.holdOff = i.holdOff
    BY <2>1 DEF Info, SameSettings
  <2>5. i.state \in {"FIRED", "TERMINATING"}
    BY <1>1 DEF HasData, Uploading
  <2>6. UpInfoOK(j, k, 0)
    BY <2>3, <2>4, <2>5, FieldTypes, LogTypes DEF g, SameSettings, UpInfoOK,
       Selected, WantOK, ArmedOK, DelayedOK, FiredOK, EndingOK, EndedOK
  <2>7. QED
    BY <2>3, <2>4, <2>6 DEF j, k
<1>2. CASE ~HasData(i)
  <2>1. Drained(i) = i /\ Handed(l, i) = l
    BY <1>2 DEF Drained, Handed
  <2>2. i.state = "TERMINATING" => i.points = 0
    BY <1>2 DEF HasData, Uploading, UpInfoOK, Selected
  <2>3. QED
    BY <2>1, <2>2
<1>3. QED
  BY <1>1, <1>2

LEMMA ServedOK ==
  ASSUME NEW i \in Info, NEW l \in LogType, UpInfoOK(i, l, 0)
  PROVE  /\ ServedInfo(i) \in Info
         /\ Handed(l, i) \in LogType
         /\ Terminated(Handed(l, i), i) \in LogType
         /\ i.state = "UNARMED" => ServedInfo(i).state = "UNARMED"
         /\ ServedInfo(i).state = "FIRED" => i.state = "FIRED"
         /\ ServedInfo(i).state # "TERMINATING"
         /\ UpInfoOK(ServedInfo(i), Handed(l, i), 0)
         /\ UpInfoOK(ServedInfo(i), Terminated(Handed(l, i), i), 0)
<1> DEFINE j == Drained(i)
           k == Handed(l, i)
           t == Terminated(k, i)
<1>1. /\ j \in Info /\ k \in LogType /\ j.state = i.state /\ j.holdOff = i.holdOff
      /\ i.state = "TERMINATING" => j.points = 0
      /\ UpInfoOK(j, k, 0)
  BY DrainedOK
<1> HIDE DEF j, k
<1>2. CASE i.state = "TERMINATING"
  <2>1. ServedInfo(i) = EventEnded(j)
    BY <1>2 DEF ServedInfo, AtEnd, j
  <2>2. t = [k EXCEPT !.end = IF i.holdOff = ONESHOT THEN "session" ELSE "event"]
    BY <1>2 DEF Terminated, AtEnd
  <2>3. /\ t \in LogType /\ t.end # "none" /\ t.got = k.got /\ t.want = k.want
        /\ t.why = k.why /\ t.final = k.final
    BY <1>1, <2>2 DEF LogType
  <2> HIDE DEF t
  <2>4. Selected(j) /\ EndedOK(k) /\ EndedOK(t)
    BY <1>1, <1>2, <2>3, FieldTypes, LogTypes DEF UpInfoOK, EndingOK, EndedOK
  <2>5. CASE j.holdOff = ONESHOT
    <3>1. EventEnded(j) = UploadEndLoggingSession(j)
      BY <2>5 DEF EventEnded
    <3>2. QED
      BY <1>1, <2>1, <2>3, <2>4, <3>1, TermOK DEF k, t
  <2>6. CASE j.holdOff # ONESHOT
    <3> DEFINE h == [j EXCEPT !.count = 0, !.state = "HOLDING_OFF"]
    <3>1. EventEnded(j) = h
      BY <2>6 DEF EventEnded
    <3>2. h \in Info /\ SameSettings(h, j) /\ SameBuffer(h, j) /\ h.state = "HOLDING_OFF"
      BY <1>1, States DEF Info, SameSettings, SameBuffer
    <3> HIDE DEF h
    <3>3. ~k.final
      BY <1>1, <1>2, <2>6 DEF UpInfoOK, EndingOK
    <3>4. UpInfoOK(h, k, 0) /\ UpInfoOK(h, t, 0)
      BY <1>1, <1>2, <2>3, <2>4, <3>2, <3>3 DEF SameSettings, SameBuffer, UpInfoOK,
         Selected, WantOK, ArmedOK, DelayedOK, FiredOK, EndingOK
    <3>5. QED
      BY <1>1, <1>2, <2>1, <2>3, <3>1, <3>2, <3>4 DEF k, t
  <2>7. QED
    BY <2>5, <2>6
<1>3. CASE i.state # "TERMINATING"
  BY <1>1, <1>3 DEF ServedInfo, Terminated, AtEnd, j, k
<1>4. QED
  BY <1>2, <1>3

-------------------------------------------------------------------------------
(* What an action makes of the upInfos it changes. *)

LEMMA UpdateOK ==
  ASSUME NEW inf, NEW lg, UpInfosOK(inf, lg, 0), NEW u \in UpInfos,
         NEW x \in Info, NEW y \in LogType, UpInfoOK(x, y, 0)
  PROVE  UpInfosOK([inf EXCEPT ![u] = x], [lg EXCEPT ![u] = y], 0)
  BY DEF UpInfosOK

LEMMA InfoUpdateOK ==
  ASSUME NEW inf, NEW lg, UpInfosOK(inf, lg, 0), NEW u \in UpInfos,
         NEW x \in Info, UpInfoOK(x, lg[u], 0)
  PROVE  UpInfosOK([inf EXCEPT ![u] = x], lg, 0)
  BY DEF UpInfosOK

LEMMA EachUpInfo ==
  ASSUME NEW inf, NEW lg, NEW e, UpInfosOK(inf, lg, e), NEW u \in UpInfos
  PROVE  /\ inf[u] \in Info /\ lg[u] \in LogType /\ UpInfoOK(inf[u], lg[u], e)
         /\ Selected(inf[u]) /\ EndedOK(lg[u])
  BY DEF UpInfosOK, UpInfoOK

LEMMA EndAllOK ==
  ASSUME UpInfosOK(info, log, 0)
  PROVE  /\ UpInfosOK([u \in UpInfos |-> UploadEndLoggingSession(info[u])], log, 0)
         /\ \A u \in UpInfos : UploadEndLoggingSession(info[u]).state = "UNARMED"
<1>1. ASSUME NEW u \in UpInfos
      PROVE  /\ UploadEndLoggingSession(info[u]) \in Info
             /\ UploadEndLoggingSession(info[u]).state = "UNARMED"
             /\ UpInfoOK(UploadEndLoggingSession(info[u]), log[u], 0)
  BY EachUpInfo, TermOK
<1>2. QED
  BY <1>1 DEF UpInfosOK

\* The places where no recorded point waits to be counted.
LEMMA NoExtra == pc # "end" => Extra = 0
  BY DEF Extra

LEMMA FirstUpInfo == 0 \in UpInfos /\ \A u \in UpInfos : u \in Nat
  BY UploadAssumption DEF UpInfos

\* The upload server, wherever it is called from.
LEMMA UploadServerWorkOK ==
  ASSUME UpInfosOK(info, log, 0), FlagsOK, ThreadOK, UnarmedWithoutHost, UploadServerWork(up)
  PROVE  /\ UpInfosOK(info', log', 0)
         /\ FlagsOK'
         /\ UnarmedWithoutHost'
         /\ \A u \in UpInfos : info[u].state = "UNARMED" => info'[u].state = "UNARMED"
         /\ info[up].state # "FIRED" => ~Uploading(info'[up])
<1> DEFINE i == info[up]
           l == log[up]
<1>1. /\ up \in UpInfos /\ i \in Info /\ l \in LogType /\ UpInfoOK(i, l, 0)
      /\ info \in [UpInfos -> Info] /\ log \in [UpInfos -> LogType]
  BY EachUpInfo DEF ThreadOK, UpInfosOK
<1>2. /\ ServedInfo(i) \in Info
      /\ Handed(l, i) \in LogType
      /\ Terminated(Handed(l, i), i) \in LogType
      /\ i.state = "UNARMED" => ServedInfo(i).state = "UNARMED"
      /\ ServedInfo(i).state = "FIRED" => i.state = "FIRED"
      /\ ServedInfo(i).state # "TERMINATING"
      /\ UpInfoOK(ServedInfo(i), Handed(l, i), 0)
      /\ UpInfoOK(ServedInfo(i), Terminated(Handed(l, i), i), 0)
  BY <1>1, ServedOK
<1>3. CASE NothingToSend(up)
  <2>1. UNCHANGED <<info, uploading, connected, commInitialized, link, log>>
    BY <1>3 DEF NothingToSend
  <2>2. i.state # "FIRED" => ~Uploading(i)
    <3>1. CASE ~connected
      BY <1>1, <3>1 DEF FlagsOK, UnarmedWithoutHost, Uploading
    <3>2. CASE ~AtEnd(i)
      BY <3>2 DEF AtEnd, Uploading
    <3>3. QED
      BY <1>3, <3>1, <3>2 DEF NothingToSend
  <2>3. FlagsOK' /\ UnarmedWithoutHost'
    BY <2>1 DEF FlagsOK, UnarmedWithoutHost
  <2>4. QED
    BY <2>1, <2>2, <2>3
<1>4. CASE SendAll(up)
  <2>1. /\ info' = [info EXCEPT ![up] = ServedInfo(i)]
        /\ log' = [log EXCEPT ![up] = Terminated(Handed(l, i), i)]
        /\ UNCHANGED <<connected, commInitialized, link>>
    BY <1>4, <1>1 DEF SendAll
  <2>2. UpInfosOK(info', log', 0)
    BY <1>1, <1>2, <2>1, UpdateOK
  <2>3. uploading' \in BOOLEAN
    BY <1>4 DEF SendAll, ServedUploading, FlagsOK
  <2>4. FlagsOK'
    BY <2>1, <2>3 DEF FlagsOK
  <2>5. \A u \in UpInfos : info[u].state = "UNARMED" => info'[u].state = "UNARMED"
    BY <1>1, <1>2, <2>1
  <2>6. UnarmedWithoutHost'
    BY <2>1, <2>5 DEF UnarmedWithoutHost
  <2>7. i.state # "FIRED" => ~Uploading(info'[up])
    BY <1>1, <1>2, <2>1 DEF Uploading
  <2>8. QED
    BY <2>2, <2>4, <2>5, <2>6, <2>7
<1>5. CASE DataSendFails(up)
  <2>1. /\ info' = [u \in UpInfos |-> UploadEndLoggingSession(info[u])]
        /\ log' = log /\ uploading' = uploading /\ link' \in {"open", "gone"}
        /\ connected' = FALSE /\ commInitialized' = FALSE
    BY <1>5 DEF DataSendFails, ForceDisconnectFromHost
  <2>2. UpInfosOK(info', log', 0) /\ \A u \in UpInfos : info'[u].state = "UNARMED"
    BY <2>1, EndAllOK
  <2>3. FlagsOK'
    BY <2>1 DEF FlagsOK, Links
  <2>4. QED
    BY <1>1, <2>2, <2>3 DEF UnarmedWithoutHost, Uploading
<1>6. CASE TerminatorSendFails(up)
  <2>1. /\ info' = [info EXCEPT ![up] = ServedInfo(i)]
        /\ log' = [log EXCEPT ![up] = Handed(l, i)]
        /\ uploading' = FALSE /\ link' \in {link, "gone"}
        /\ UNCHANGED <<connected, commInitialized>>
    BY <1>6, <1>1 DEF TerminatorSendFails
  <2>2. UpInfosOK(info', log', 0)
    BY <1>1, <1>2, <2>1, UpdateOK
  <2>3. FlagsOK'
    BY <2>1 DEF FlagsOK, Links
  <2>4. \A u \in UpInfos : info[u].state = "UNARMED" => info'[u].state = "UNARMED"
    BY <1>1, <1>2, <2>1
  <2>5. UnarmedWithoutHost'
    BY <2>1, <2>4 DEF UnarmedWithoutHost
  <2>6. i.state # "FIRED" => ~Uploading(info'[up])
    BY <1>1, <1>2, <2>1 DEF Uploading
  <2>7. QED
    BY <2>2, <2>3, <2>4, <2>5, <2>6
<1>7. QED
  BY <1>3, <1>4, <1>5, <1>6 DEF UploadServerWork

-------------------------------------------------------------------------------
(* The invariant is inductive: one lemma for each place of the thread. *)

LEMMA InitIInv == Init => IInv
<1> SUFFICES ASSUME Init PROVE IInv
  OBVIOUS
<1>1. UploadLogInfoReset \in Info /\ UploadLogInfoReset.state = "UNARMED"
      /\ NoLog \in LogType /\ UpInfoOK(UploadLogInfoReset, NoLog, 0)
  BY DEF UploadLogInfoReset, NoLog, Info, LogType, TriggerStates, ONESHOT, UpInfoOK, Selected,
     WantOK, ArmedOK, DelayedOK, FiredOK, EndingOK, EndedOK
<1>2. UpInfosOK(info, log, Extra)
  BY <1>1 DEF Init, UpInfosOK, Extra
<1>3. FlagsOK
  BY DEF Init, FlagsOK, Links
<1>4. ThreadOK
  BY FirstUpInfo DEF Init, ThreadOK, Places
<1>5. UnarmedWithoutHost /\ FlushOK
  BY <1>1 DEF Init, UnarmedWithoutHost, FlushOK
<1>6. QED
  BY <1>2, <1>3, <1>4, <1>5 DEF IInv

\* The invariant in the form the steps use.
LEMMA IInvParts ==
  ASSUME IInv, pc # "end"
  PROVE  /\ UpInfosOK(info, log, 0) /\ FlagsOK /\ ThreadOK /\ UnarmedWithoutHost /\ FlushOK
         /\ up \in UpInfos /\ 0 \in UpInfos
  BY NoExtra, FirstUpInfo DEF IInv, ThreadOK

\* What a step to a place outside of the final flush has to show.
LEMMA IInvOutside ==
  ASSUME UpInfosOK(info', log', 0), FlagsOK', ThreadOK', UnarmedWithoutHost',
         (pc' \in {"packet", "upload", "check", "add", "done"})
  PROVE  IInv'
<1>1. FlushOK'
  BY DEF FlushOK
<1>2. QED
  BY <1>1 DEF IInv, Extra

LEMMA EnvironmentIInv ==
  ASSUME IInv, Environment
  PROVE  IInv'
<1>1. /\ UNCHANGED <<info, uploading, connected, commInitialized, pc, up, caller, log>>
      /\ link' \in Links
  BY DEF Environment, LinkUp, LinkDown, Links
<1>2. FlagsOK' /\ ThreadOK'
  BY <1>1 DEF IInv, FlagsOK, ThreadOK
<1>3. UnarmedWithoutHost' /\ FlushOK'
  BY <1>1 DEF IInv, UnarmedWithoutHost, FlushOK
<1>4. UpInfosOK(info', log', Extra')
  BY <1>1 DEF IInv, Extra
<1>5. QED
  BY <1>2, <1>3, <1>4 DEF IInv

\* A packet after which the upload server runs: it changed the upInfos, and
\* perhaps the session, as the step has shown.
LEMMA PacketToUpload ==
  ASSUME IInv, pc # "end", ToUpload, UpInfosOK(info', log', 0), (uploading' \in BOOLEAN),
         commInitialized' \in BOOLEAN, (link' \in Links), caller' = caller, UnarmedWithoutHost'
  PROVE  IInv'
<1>1. connected' = TRUE /\ pc' = "upload" /\ up' = 0
  BY DEF ToUpload, Goto
<1>2. FlagsOK'
  BY <1>1 DEF FlagsOK
<1>3. ThreadOK'
  BY <1>1, IInvParts DEF ThreadOK, Places
<1>4. QED
  BY <1>1, <1>2, <1>3, IInvOutside

LEMMA ForceDisconnectOK ==
  ASSUME IInv, pc # "end", ForceDisconnectFromHost, log' = log, uploading' = uploading,
         (link' \in Links)
  PROVE  /\ UpInfosOK(info', log', 0) /\ FlagsOK' /\ UnarmedWithoutHost'
<1>1. /\ info' = [u \in UpInfos |-> UploadEndLoggingSession(info[u])]
      /\ connected' = FALSE /\ commInitialized' = FALSE
  BY DEF ForceDisconnectFromHost
<1>2. UpInfosOK(info', log', 0) /\ \A u \in UpInfos : info'[u].state = "UNARMED"
  BY <1>1, IInvParts, EndAllOK
<1>3. FlagsOK'
  BY <1>1 DEF IInv, FlagsOK
<1>4. QED
  BY <1>2, <1>3 DEF UnarmedWithoutHost

LEMMA SelectSignalsOK ==
  ASSUME NEW i \in Info, NEW l \in LogType, NEW cap \in Nat, UpInfoOK(i, l, 0)
  PROVE  /\ UploadLogInfoInit(i, cap) \in Info
         /\ UpInfoOK(UploadLogInfoInit(i, cap), l, 0)
<1> DEFINE t == UploadLogInfoTerm(i)
           x == UploadLogInfoInit(i, cap)
<1>1. t \in Info /\ t.state = "UNARMED" /\ UpInfoOK(t, l, 0)
  BY TermOK DEF UpInfoOK
<1>2. x = [t EXCEPT !.sys = TRUE, !.cap = cap, !.points = 0, !.empty = TRUE]
  BY DEF UploadLogInfoInit
<1> HIDE DEF t, x
<1>3. /\ x \in Info /\ x.sys /\ x.points = 0 /\ x.state = "UNARMED"
      /\ x.delay = t.delay /\ x.preDur = t.preDur /\ x.preCount = t.preCount
  BY <1>1, <1>2 DEF Info
<1>4. UpInfoOK(x, l, 0)
  BY <1>1, <1>3 DEF UpInfoOK, Selected, WantOK, ArmedOK, DelayedOK, FiredOK, EndingOK
<1>5. QED
  BY <1>3, <1>4 DEF x

LEMMA PktServerIInv ==
  ASSUME IInv, PktServerWork
  PROVE  IInv'
<1>1. pc = "packet"
  BY DEF PktServerWork, NoPacket, HeaderError, ConnectPkt, SelectSignals, SelectTrigger,
     ArmTrigger, CancelLogging, DisconnectRequest, DisconnectRequestNoFinalUpload, Packet
<1>2. /\ UpInfosOK(info, log, 0) /\ FlagsOK /\ ThreadOK /\ UnarmedWithoutHost
      /\ up \in UpInfos /\ 0 \in UpInfos /\ info \in [UpInfos -> Info]
      /\ log \in [UpInfos -> LogType] /\ uploading \in BOOLEAN /\ commInitialized \in BOOLEAN
      /\ link \in Links
  BY <1>1, IInvParts DEF UpInfosOK, FlagsOK
<1>3. CASE NoPacket
  <2>1. /\ ToUpload /\ link' \in Links
        /\ UNCHANGED <<info, uploading, commInitialized, caller, log>>
    BY <1>2, <1>3 DEF NoPacket, Links
  <2>2. UnarmedWithoutHost'
    BY <1>2, <2>1 DEF UnarmedWithoutHost
  <2>3. QED
    BY <1>1, <1>2, <2>1, <2>2, PacketToUpload
<1>4. CASE HeaderError
  <2>1. /\ ForceDisconnectFromHost /\ pc' = "upload" /\ up' = 0
        /\ UNCHANGED <<uploading, caller, log>> /\ link' \in Links
    BY <1>4 DEF HeaderError, Goto, Links
  <2>2. ThreadOK'
    BY <1>2, <2>1 DEF ThreadOK, Places
  <2>3. QED
    BY <1>1, <2>1, <2>2, ForceDisconnectOK, IInvOutside
<1>5. CASE ConnectPkt
  <2>1. /\ ToUpload /\ commInitialized' = TRUE /\ link' \in Links
        /\ UNCHANGED <<info, uploading, caller, log>>
    BY <1>5 DEF ConnectPkt, Links
  <2>2. UnarmedWithoutHost'
    BY <2>1 DEF UnarmedWithoutHost
  <2>3. QED
    BY <1>1, <1>2, <2>1, <2>2, PacketToUpload
<1>6. ASSUME NEW u \in UpInfos, SelectSignals(u) PROVE IInv'
  <2>1. /\ info[u] \in Info /\ log[u] \in LogType /\ UpInfoOK(info[u], log[u], 0)
        /\ Selected(info[u]) /\ EndedOK(log[u])
    BY <1>2, EachUpInfo
  <2>2. /\ ToUpload /\ commInitialized
        /\ UNCHANGED <<uploading, commInitialized, link, caller, log>>
    BY <1>6 DEF SelectSignals, Packet
  <2>3. UpInfosOK(info', log', 0)
    <3>1. CASE info' = [info EXCEPT ![u] = UploadLogInfoReset]
      BY <1>2, <2>1, <2>2, <3>1, TermOK, InfoUpdateOK
    <3>2. ASSUME NEW cap \in Capacities, info' = [info EXCEPT ![u] = UploadLogInfoInit(@, cap)]
          PROVE  UpInfosOK(info', log', 0)
      <4>1. info' = [info EXCEPT ![u] = UploadLogInfoInit(info[u], cap)]
        BY <1>2, <3>2
      <4>2. cap \in Nat
        BY UploadAssumption
      <4>3. QED
        BY <1>2, <2>1, <2>2, <4>1, <4>2, SelectSignalsOK, InfoUpdateOK
    <3>3. QED
      BY <1>6, <3>1, <3>2 DEF SelectSignals
  <2>4. UnarmedWithoutHost'
    BY <2>2 DEF UnarmedWithoutHost
  <2>5. QED
    BY <1>1, <1>2, <2>2, <2>3, <2>4, PacketToUpload
<1>7. ASSUME NEW u \in UpInfos, SelectTrigger(u) PROVE IInv'
  <2>1. info[u] \in Info /\ log[u] \in LogType /\ UpInfoOK(info[u], log[u], 0)
    BY <1>2, EachUpInfo
  <2>2. /\ ToUpload /\ commInitialized /\ info[u].state = "UNARMED"
        /\ UNCHANGED <<uploading, commInitialized, link, caller, log>>
    BY <1>7 DEF SelectTrigger, Packet
  <2>3. PICK pkt \in TriggerPkts : info' = [info EXCEPT ![u] = UploadInitTrigger(@, pkt)]
    BY <1>7 DEF SelectTrigger
  <2>4. /\ pkt \in TriggerPkt
        /\ info' = [info EXCEPT ![u] = UploadInitTrigger(info[u], pkt)]
    BY <1>2, <2>3, UploadAssumption
  <2>5. UpInfosOK(info', log', 0)
    BY <1>2, <2>1, <2>2, <2>4, InitTriggerOK, InfoUpdateOK
  <2>6. UnarmedWithoutHost'
    BY <2>2 DEF UnarmedWithoutHost
  <2>7. QED
    BY <1>1, <1>2, <2>2, <2>5, <2>6, PacketToUpload
<1>8. ASSUME NEW u \in UpInfos, ArmTrigger(u) PROVE IInv'
  <2>1. info[u] \in Info /\ Selected(info[u])
    BY <1>2, EachUpInfo
  <2>2. /\ ToUpload /\ commInitialized /\ info[u].sys /\ uploading' = FALSE
        /\ UNCHANGED <<commInitialized, link, caller>>
    BY <1>8 DEF ArmTrigger, Packet
  <2>3. /\ info' = [info EXCEPT ![u] = UploadArmTrigger(info[u])]
        /\ log' = [log EXCEPT ![u] = ArmedLog(info[u])]
    BY <1>2, <1>8 DEF ArmTrigger
  <2>4. /\ UploadArmTrigger(info[u]) \in Info /\ ArmedLog(info[u]) \in LogType
        /\ UpInfoOK(UploadArmTrigger(info[u]), ArmedLog(info[u]), 0)
    BY <2>1, <2>2, ArmOK, ArmedLogOK
  <2>5. UpInfosOK(info', log', 0)
    BY <1>2, <2>3, <2>4, UpdateOK
  <2>6. UnarmedWithoutHost'
    BY <2>2 DEF UnarmedWithoutHost
  <2>7. QED
    BY <1>1, <1>2, <2>2, <2>5, <2>6, PacketToUpload
<1>9. ASSUME NEW u \in UpInfos, CancelLogging(u) PROVE IInv'
  <2>1. info[u] \in Info /\ log[u] \in LogType /\ UpInfoOK(info[u], log[u], 0)
    BY <1>2, EachUpInfo
  <2>2. /\ ToUpload /\ commInitialized
        /\ UNCHANGED <<uploading, commInitialized, link, caller>>
    BY <1>9 DEF CancelLogging, Packet
  <2>3. UpInfosOK(info', log', 0)
    <3>1. CASE info[u].state = "UNARMED"
      <4>1. info' = info /\ log' = log
        BY <1>2, <1>9, <3>1 DEF CancelLogging, UploadCancelLogging
      <4>2. QED
        BY <1>2, <4>1
    <3>2. CASE info[u].state # "UNARMED"
      <4>1. /\ info' = [info EXCEPT ![u] = Terminating(info[u])]
            /\ log' = [log EXCEPT ![u] = Finally(log[u], info[u], "cancel")]
        BY <1>2, <1>9, <3>2 DEF CancelLogging, UploadCancelLogging, Terminating
      <4>2. /\ Terminating(info[u]) \in Info /\ Finally(log[u], info[u], "cancel") \in LogType
            /\ UpInfoOK(Terminating(info[u]), Finally(log[u], info[u], "cancel"), 0)
        BY <2>1, <3>2, TerminatingOK
      <4>3. QED
        BY <1>2, <4>1, <4>2, UpdateOK
    <3>3. QED
      BY <3>1, <3>2
  <2>4. UnarmedWithoutHost'
    BY <2>2 DEF UnarmedWithoutHost
  <2>5. QED
    BY <1>1, <1>2, <2>2, <2>3, <2>4, PacketToUpload
<1>10. CASE DisconnectRequest
  <2>1. /\ pc' = "prepare" /\ up' = 0 /\ caller' = "disconnect"
        /\ UNCHANGED <<info, uploading, connected, commInitialized, link, log>>
    BY <1>10 DEF DisconnectRequest, Goto
  <2>2. FlagsOK' /\ UnarmedWithoutHost'
    BY <1>2, <2>1 DEF FlagsOK, UnarmedWithoutHost
  <2>3. ThreadOK'
    BY <1>2, <2>1 DEF ThreadOK, Places
  <2>4. FlushOK'
    BY <2>1, FirstUpInfo DEF FlushOK
  <2>5. UpInfosOK(info', log', Extra')
    BY <1>2, <2>1 DEF Extra
  <2>6. QED
    BY <2>2, <2>3, <2>4, <2>5 DEF IInv
<1>11. CASE DisconnectRequestNoFinalUpload
  <2>1. /\ ForceDisconnectFromHost /\ pc' = "upload" /\ up' = 0
        /\ UNCHANGED <<uploading, caller, log>> /\ link' \in Links
    BY <1>11 DEF DisconnectRequestNoFinalUpload, Goto, Links
  <2>2. ThreadOK'
    BY <1>2, <2>1 DEF ThreadOK, Places
  <2>3. QED
    BY <1>1, <2>1, <2>2, ForceDisconnectOK, IInvOutside
<1>12. QED
  BY <1>3, <1>4, <1>5, <1>6, <1>7, <1>8, <1>9, <1>10, <1>11 DEF PktServerWork

LEMMA UploadIInv ==
  ASSUME IInv, Upload
  PROVE  IInv'
<1>1. /\ pc = "upload" /\ UploadServerWork(up)
      /\ \E next \in {"check", "packet", "prepare"} : Advance("upload", next)
      /\ caller' \in {caller, "shutdown"}
  BY DEF Upload
<1>2. /\ UpInfosOK(info, log, 0) /\ FlagsOK /\ ThreadOK /\ UnarmedWithoutHost
      /\ 0 \in UpInfos
  BY <1>1, IInvParts
<1>3. UpInfosOK(info', log', 0) /\ FlagsOK' /\ UnarmedWithoutHost'
  BY <1>1, <1>2, UploadServerWorkOK
<1>4. pc' \in {"upload", "check", "packet", "prepare"} /\ up' \in UpInfos
  BY <1>1, <1>2 DEF Advance, Goto, ThreadOK
<1>5. pc' = "prepare" => up' = 0
  BY <1>1 DEF Advance, Goto
<1>6. ThreadOK'
  BY <1>1, <1>2, <1>4 DEF ThreadOK, Places
<1>7. CASE pc' = "prepare"
  <2>1. FlushOK'
    BY <1>5, <1>7, FirstUpInfo DEF FlushOK
  <2>2. UpInfosOK(info', log', Extra')
    BY <1>3, <1>7 DEF Extra
  <2>3. QED
    BY <1>3, <1>6, <2>1, <2>2 DEF IInv
<1>8. CASE pc' # "prepare"
  BY <1>3, <1>4, <1>6, <1>8, IInvOutside
<1>9. QED
  BY <1>7, <1>8

\* What is left to show of a step inside of the final flush.
LEMMA IInvInside ==
  ASSUME UpInfosOK(info', log', 0), FlagsOK', ThreadOK', UnarmedWithoutHost', FlushOK',
         (pc' # "end")
  PROVE  IInv'
  BY DEF IInv, Extra

LEMMA PrepareIInv ==
  ASSUME IInv, Prepare
  PROVE  IInv'
<1> DEFINE i == info[up]
           l == log[up]
           x == UploadPrepareForFinalFlush(i)
<1>1. /\ pc = "prepare" /\ pc' \in {"flush", "term"}
      /\ UNCHANGED <<uploading, connected, commInitialized, link, up, caller>>
      /\ caller = "shutdown" => pc' = "flush"
  BY DEF Prepare
<1>2. /\ UpInfosOK(info, log, 0) /\ FlagsOK /\ ThreadOK /\ UnarmedWithoutHost /\ FlushOK
      /\ up \in UpInfos /\ info \in [UpInfos -> Info] /\ log \in [UpInfos -> LogType]
  BY <1>1, IInvParts DEF UpInfosOK
<1>3. i \in Info /\ l \in LogType /\ UpInfoOK(i, l, 0)
  BY <1>2, EachUpInfo
<1>4. info' = [info EXCEPT ![up] = x]
  BY <1>2 DEF Prepare
<1>5. x \in Info /\ x.state # "FIRED" /\ (i.state = "UNARMED" => x.state = "UNARMED")
  BY <1>3, States DEF UploadPrepareForFinalFlush, Info
<1>6. UpInfosOK(info', log', 0)
  <2>1. CASE Uploading(i)
    <3>1. x = Terminating(i) /\ i.state # "UNARMED"
      BY <2>1 DEF Uploading, UploadPrepareForFinalFlush, Terminating
    <3>2. log' = [log EXCEPT ![up] = Finally(l, i, "flush")]
      BY <1>2, <2>1 DEF Prepare
    <3>3. Finally(l, i, "flush") \in LogType /\ UpInfoOK(x, Finally(l, i, "flush"), 0)
      BY <1>3, <3>1, TerminatingOK
    <3> HIDE DEF i, l, x
    <3>4. QED
      BY <1>2, <1>4, <1>5, <3>2, <3>3, UpdateOK
  <2>2. CASE ~Uploading(i)
    <3>1. x = i /\ log' = log
      BY <2>2 DEF Uploading, UploadPrepareForFinalFlush, Prepare
    <3>2. info' = info
      BY <1>2, <1>4, <3>1
    <3>3. QED
      BY <1>2, <3>1, <3>2
  <2>3. QED
    BY <2>1, <2>2
<1>7. FlagsOK'
  BY <1>1, <1>2 DEF FlagsOK
<1>8. ThreadOK'
  BY <1>1, <1>2 DEF ThreadOK, Places
<1>9. \A u \in UpInfos : info[u].state = "UNARMED" => info'[u].state = "UNARMED"
  BY <1>2, <1>4, <1>5
<1>10. UnarmedWithoutHost'
  BY <1>1, <1>2, <1>9 DEF UnarmedWithoutHost
<1>11. info'[up].state # "FIRED"
  BY <1>2, <1>4, <1>5
<1> HIDE DEF i, l, x
<1>12. FlushOK'
  BY <1>1, <1>2, <1>9, <1>11 DEF FlushOK
<1>13. QED
  BY <1>1, <1>6, <1>7, <1>8, <1>10, <1>12, IInvInside

LEMMA FlushIInv ==
  ASSUME IInv, Flush
  PROVE  IInv'
<1>1. pc = "flush" /\ UploadServerWork(up) /\ pc' = "term" /\ UNCHANGED <<up, caller>>
  BY DEF Flush
<1>2. /\ UpInfosOK(info, log, 0) /\ FlagsOK /\ ThreadOK /\ UnarmedWithoutHost /\ FlushOK
  BY <1>1, IInvParts
<1>3. /\ UpInfosOK(info', log', 0) /\ FlagsOK' /\ UnarmedWithoutHost'
      /\ \A u \in UpInfos : info[u].state = "UNARMED" => info'[u].state = "UNARMED"
      /\ info[up].state # "FIRED" => ~Uploading(info'[up])
  BY <1>1, <1>2, UploadServerWorkOK
<1>4. ThreadOK'
  BY <1>1, <1>2 DEF ThreadOK, Places
<1>5. FlushOK'
  BY <1>1, <1>2, <1>3 DEF FlushOK
<1>6. QED
  BY <1>1, <1>3, <1>4, <1>5, IInvInside

LEMMA TermIInv ==
  ASSUME IInv, Term
  PROVE  IInv'
<1> DEFINE x == UploadLogInfoTerm(info[up])
<1>1. /\ pc = "term" /\ log' = log /\ uploading' = uploading
      /\ Advance("prepare", IF caller = "shutdown" THEN "done" ELSE "upload")
  BY DEF Term
<1>2. /\ UpInfosOK(info, log, 0) /\ FlagsOK /\ ThreadOK /\ UnarmedWithoutHost /\ FlushOK
      /\ up \in UpInfos /\ 0 \in UpInfos /\ info \in [UpInfos -> Info]
  BY <1>1, IInvParts DEF UpInfosOK
<1>3. x \in Info /\ x.state = "UNARMED" /\ UpInfoOK(x, log[up], 0)
  BY <1>2, EachUpInfo, TermOK
<1>4. info' = [info EXCEPT ![up] = x]
  BY <1>2 DEF Term
<1>5. /\ info'[up].state = "UNARMED"
      /\ \A u \in UpInfos : info[u].state = "UNARMED" => info'[u].state = "UNARMED"
  BY <1>2, <1>3, <1>4
<1> HIDE DEF x
<1>6. UpInfosOK(info', log', 0)
  BY <1>1, <1>2, <1>3, <1>4, InfoUpdateOK
<1>7. \A u \in UpInfos : u < up + 1 => info'[u].state = "UNARMED"
  BY <1>1, <1>2, <1>5, FirstUpInfo DEF FlushOK
<1>8. CASE up + 1 \in UpInfos
  <2>1. pc' = "prepare" /\ up' = up + 1
    BY <1>1, <1>8 DEF Advance
  <2>2. UNCHANGED <<connected, commInitialized, link, caller>>
    BY <2>1 DEF Term
  <2>3. FlagsOK'
    BY <1>1, <1>2, <2>2 DEF FlagsOK
  <2>4. ThreadOK'
    BY <1>2, <1>8, <2>1, <2>2 DEF ThreadOK, Places
  <2>5. UnarmedWithoutHost'
    BY <1>2, <1>5, <2>2 DEF UnarmedWithoutHost
  <2>6. FlushOK'
    BY <1>7, <2>1 DEF FlushOK
  <2>7. QED
    BY <1>6, <2>1, <2>3, <2>4, <2>5, <2>6, IInvInside
<1>9. CASE up + 1 \notin UpInfos
  <2>1. pc' \in {"done", "upload"} /\ up' = 0
    BY <1>1, <1>9 DEF Advance, Goto
  <2>2. /\ connected' = FALSE /\ commInitialized' = FALSE
        /\ link' \in Links /\ caller' = "none"
    BY <1>1, <1>2, <2>1 DEF Term, FlagsOK, Links
  <2>3. FlagsOK'
    BY <1>1, <1>2, <2>2 DEF FlagsOK
  <2>4. ThreadOK'
    BY <1>2, <2>1, <2>2 DEF ThreadOK, Places
  <2>5. \A u \in UpInfos : u < up + 1
    BY <1>2, <1>9, UploadAssumption DEF UpInfos
  <2>6. UnarmedWithoutHost'
    BY <1>7, <2>5 DEF UnarmedWithoutHost
  <2>7. QED
    BY <1>6, <2>1, <2>3, <2>4, <2>6, IInvOutside
<1>10. QED
  BY <1>8, <1>9

LEMMA CheckTriggerIInv ==
  ASSUME IInv, CheckTrigger
  PROVE  IInv'
<1>1. /\ pc = "check" /\ pc' = "add" /\ up' = 0 /\ uploading' \in BOOLEAN
      /\ UNCHANGED <<connected, commInitialized, link, caller>>
  BY DEF CheckTrigger, Goto, IInv, FlagsOK
<1>2. /\ UpInfosOK(info, log, 0) /\ FlagsOK /\ ThreadOK /\ UnarmedWithoutHost /\ 0 \in UpInfos
  BY <1>1, IInvParts
<1>3. ASSUME NEW u \in UpInfos
      PROVE  /\ info'[u] \in Info /\ log'[u] \in LogType
             /\ info'[u].state = "UNARMED" <=> info[u].state = "UNARMED"
             /\ UpInfoOK(info'[u], log'[u], 0)
  <2>1. /\ info'[u] = UploadCheckTrigger(info[u])
        /\ log'[u] = IF HoldOffOver(info[u]) THEN [ArmedLog(info[u]) EXCEPT !.final = log[u].final]
                     ELSE IF info[u].state = "DELAYED" THEN [log[u] EXCEPT !.since = @ + 1]
                     ELSE log[u]
    BY DEF CheckTrigger
  <2>2. info[u] \in Info /\ log[u] \in LogType /\ UpInfoOK(info[u], log[u], 0)
    BY <1>2, EachUpInfo
  <2>3. QED
    BY <2>1, <2>2, CheckTriggerOK
<1>4. DOMAIN info' = UpInfos /\ DOMAIN log' = UpInfos
      /\ info' = [u \in UpInfos |-> info'[u]] /\ log' = [u \in UpInfos |-> log'[u]]
  BY DEF CheckTrigger
<1>5. UpInfosOK(info', log', 0)
  BY <1>3, <1>4 DEF UpInfosOK
<1>6. UnarmedWithoutHost'
  BY <1>1, <1>2, <1>3 DEF UnarmedWithoutHost
<1>7. FlagsOK'
  BY <1>1, <1>2 DEF FlagsOK
<1>8. ThreadOK'
  BY <1>1, <1>2 DEF ThreadOK, Places
<1>9. QED
  BY <1>1, <1>5, <1>6, <1>7, <1>8, IInvOutside

LEMMA AddTimePointIInv ==
  ASSUME IInv, AddTimePoint
  PROVE  IInv'
<1>1. /\ pc = "add" /\ pc' = "end" /\ up' = 0
      /\ UNCHANGED <<uploading, connected, commInitialized, link, caller>>
  BY DEF AddTimePoint, Goto
<1>2. /\ UpInfosOK(info, log, 0) /\ FlagsOK /\ ThreadOK /\ UnarmedWithoutHost /\ 0 \in UpInfos
  BY <1>1, IInvParts
<1>3. PICK edge \in SUBSET UpInfos :
        info' = [u \in UpInfos |-> UploadBufAddTimePoint(info[u], u \in edge)]
  BY DEF AddTimePoint
<1>4. ASSUME NEW u \in UpInfos
      PROVE  /\ info'[u] \in Info /\ log'[u] \in LogType
             /\ info'[u].state = "UNARMED" <=> info[u].state = "UNARMED"
             /\ UpInfoOK(info'[u], log'[u], 1)
  <2> DEFINE e == u \in edge
             d == Detect(info[u], e)
  <2>0. info'[u] = Record(d) /\ e \in BOOLEAN
    BY <1>3 DEF UploadBufAddTimePoint
  <2> HIDE DEF e
  <2>1. info[u] \in Info /\ log[u] \in LogType /\ UpInfoOK(info[u], log[u], 0)
    BY <1>2, EachUpInfo
  <2>2. /\ d \in Info /\ UpInfoOK(d, log[u], 0) /\ (d.state = "ARMED" => ~d.manual)
        /\ d.state = "UNARMED" <=> info[u].state = "UNARMED"
        /\ d.state = "TERMINATING" <=> info[u].state = "TERMINATING"
    BY <2>0, <2>1, DetectOK
  <2>3. log'[u] = IF info'[u].state = "TERMINATING" /\ info[u].state # "TERMINATING"
                  THEN [log[u] EXCEPT !.why = "overflow"] ELSE log[u]
    BY DEF AddTimePoint
  <2> HIDE DEF d
  <2>4. QED
    BY <2>0, <2>1, <2>2, <2>3, RecordOK
<1>5. DOMAIN info' = UpInfos /\ DOMAIN log' = UpInfos
      /\ info' = [u \in UpInfos |-> info'[u]] /\ log' = [u \in UpInfos |-> log'[u]]
  BY <1>3 DEF AddTimePoint
<1>6. UpInfosOK(info', log', Extra')
  BY <1>1, <1>4, <1>5 DEF UpInfosOK, Extra
<1>7. UnarmedWithoutHost'
  BY <1>1, <1>2, <1>4 DEF UnarmedWithoutHost
<1>8. FlagsOK'
  BY <1>1, <1>2 DEF FlagsOK
<1>9. ThreadOK'
  BY <1>1, <1>2 DEF ThreadOK, Places
<1>10. FlushOK'
  BY <1>1 DEF FlushOK
<1>11. QED
  BY <1>6, <1>7, <1>8, <1>9, <1>10 DEF IInv

LEMMA CheckEndTriggerIInv ==
  ASSUME IInv, CheckEndTrigger
  PROVE  IInv'
<1>1. /\ pc = "end" /\ pc' \in {"packet", "prepare"} /\ up' = 0
      /\ caller' \in {caller, "shutdown"}
      /\ UNCHANGED <<uploading, connected, commInitialized, link>>
  BY DEF CheckEndTrigger, Goto
<1>2. /\ UpInfosOK(info, log, 1) /\ FlagsOK /\ ThreadOK /\ UnarmedWithoutHost /\ 0 \in UpInfos
  BY <1>1, FirstUpInfo DEF IInv, Extra
<1>3. ASSUME NEW u \in UpInfos
      PROVE  /\ info'[u] \in Info /\ log'[u] \in LogType
             /\ info'[u].state = "UNARMED" <=> info[u].state = "UNARMED"
             /\ UpInfoOK(info'[u], log'[u], 0)
  <2>1. /\ info'[u] = UploadCheckEndTrigger(info[u])
        /\ log'[u] = IF DurationMet(info[u]) THEN [log[u] EXCEPT !.why = "duration"] ELSE log[u]
    BY DEF CheckEndTrigger
  <2>2. info[u] \in Info /\ log[u] \in LogType /\ UpInfoOK(info[u], log[u], 1)
    BY <1>2, EachUpInfo
  <2>3. QED
    BY <2>1, <2>2, CheckEndOK
<1>4. DOMAIN info' = UpInfos /\ DOMAIN log' = UpInfos
      /\ info' = [u \in UpInfos |-> info'[u]] /\ log' = [u \in UpInfos |-> log'[u]]
  BY DEF CheckEndTrigger
<1>5. UpInfosOK(info', log', 0)
  BY <1>3, <1>4 DEF UpInfosOK
<1>6. UnarmedWithoutHost'
  BY <1>1, <1>2, <1>3 DEF UnarmedWithoutHost
<1>7. FlagsOK'
  BY <1>1, <1>2 DEF FlagsOK
<1>8. ThreadOK'
  BY <1>1, <1>2 DEF ThreadOK, Places
<1>9. FlushOK'
  BY <1>1, FirstUpInfo DEF FlushOK
<1>10. QED
  BY <1>1, <1>5, <1>6, <1>7, <1>8, <1>9 DEF IInv, Extra

LEMMA StepIInv == IInv /\ [Next]_vars => IInv'
<1> SUFFICES ASSUME IInv, [Next]_vars PROVE IInv'
  OBVIOUS
<1>1. CASE Environment
  BY <1>1, EnvironmentIInv
<1>2. CASE PktServerWork
  BY <1>2, PktServerIInv
<1>3. CASE Upload
  BY <1>3, UploadIInv
<1>4. CASE Prepare
  BY <1>4, PrepareIInv
<1>5. CASE Flush
  BY <1>5, FlushIInv
<1>6. CASE Term
  BY <1>6, TermIInv
<1>7. CASE CheckTrigger
  BY <1>7, CheckTriggerIInv
<1>8. CASE AddTimePoint
  BY <1>8, AddTimePointIInv
<1>9. CASE CheckEndTrigger
  BY <1>9, CheckEndTriggerIInv
<1>10. CASE UNCHANGED vars
  <2>1. UNCHANGED <<info, uploading, connected, commInitialized, link, pc, up, caller, log>>
    BY <1>10 DEF vars
  <2>2. FlagsOK' /\ ThreadOK'
    BY <2>1 DEF IInv, FlagsOK, ThreadOK
  <2>3. UnarmedWithoutHost' /\ FlushOK'
    BY <2>1 DEF IInv, UnarmedWithoutHost, FlushOK
  <2>4. UpInfosOK(info', log', Extra')
    BY <2>1 DEF IInv, Extra
  <2>5. QED
    BY <2>2, <2>3, <2>4 DEF IInv
<1>11. QED
  BY <1>1, <1>2, <1>3, <1>4, <1>5, <1>6, <1>7, <1>8, <1>9, <1>10 DEF Next, Thread

LEMMA Invariance == Spec => []IInv
<1>1. QED
  BY InitIInv, StepIInv, PTL DEF Spec

-------------------------------------------------------------------------------
(* What the invariant says of every reachable state. *)

\* Every variable keeps its type: no counter of updown.c goes below zero.
THEOREM TypeCorrect == Spec => []TypeOK
<1>1. IInv => TypeOK
  BY DEF IInv, TypeOK, UpInfosOK, FlagsOK, ThreadOK
<1>2. QED
  BY <1>1, Invariance, PTL

\* While no host is connected every trigger is unarmed, whichever way the last
\* one was lost: rt_PktServerWork and UploadServerWork leave none armed.
THEOREM NoHostNoTrigger == Spec => []UnarmedWithoutHost
<1>1. IInv => UnarmedWithoutHost
  BY DEF IInv
<1>2. QED
  BY <1>1, Invariance, PTL

\* A trigger that is armed has the buffers UploadBufAddTimePoint writes to.
THEOREM BuffersWhenArmed == Spec => []ArmedHasBuffers
<1>1. IInv => ArmedHasBuffers
  BY DEF IInv, UpInfosOK, UpInfoOK, Selected, ArmedHasBuffers
<1>2. QED
  BY <1>1, Invariance, PTL

\* UploadCheckEndTrigger ends an event with the number of points the host asked
\* for, pre-trigger points included.
THEOREM ExactDuration == Spec => []DurationExact
<1>1. IInv => DurationExact
  BY DEF IInv, UpInfosOK, UpInfoOK, EndedOK, DurationExact
<1>2. QED
  BY <1>1, Invariance, PTL

\* UploadCheckTrigger and UploadCheckTriggerSignals fire a trigger its delay
\* after the crossing.
THEOREM ExactDelay == Spec => []DelayExact
<1>1. IInv => DelayExact
  BY DEF IInv, UpInfosOK, UpInfoOK, FiredOK, DelayExact
<1>2. QED
  BY <1>1, Invariance, PTL

\* A cancelled or finally flushed event is not armed again.
THEOREM CancelledStaysEnding == Spec => []CancelIsFinal
<1>1. ASSUME IInv, NEW u \in UpInfos, log[u].final
      PROVE  info[u].state \in {"UNARMED", "TERMINATING"}
  <2>1. info[u] \in Info /\ UpInfoOK(info[u], log[u], Extra)
    BY <1>1 DEF IInv, UpInfosOK
  <2>2. info[u].state \in TriggerStates
    BY <2>1, FieldTypes
  <2>3. QED
    BY <1>1, <2>1, <2>2 DEF TriggerStates, UpInfoOK, ArmedOK, DelayedOK, FiredOK, EndingOK
<1>2. IInv => CancelIsFinal
  BY <1>1 DEF CancelIsFinal
<1>3. QED
  BY <1>2, Invariance, PTL

\* rt_ExtModeShutdown frees no upInfo whose event still has something to send.
THEOREM ShutdownSendsAll == Spec => []ShutdownFlushes
<1>1. IInv => ShutdownFlushes
  BY DEF IInv, FlushOK, ShutdownFlushes
<1>2. QED
  BY <1>1, Invariance, PTL
===============================================================================
