------------------------------- MODULE VideoProofs ------------------------------
(***************************************************************************)
(* Theorems about the way of a picture.  V4l2Capture, for any number of    *)
(* devices, blocks, buffers and frames: the driver keeps its buffers,      *)
(* frames come in order, and everything is given back.  VideoConversion,   *)
(* for frames of any bytes: a step makes the negative of the frame.        *)
(* SdlDisplay, for pictures of any size: a frame is drawn into an open     *)
(* window only, and shown as it is.                                        *)
(***************************************************************************)
EXTENDS MCV4l2Capture, MCSdlDisplay, FiniteSetTheorems, TLAPS

Elements(q, w) == {q[i] : i \in DOMAIN q} \cup {w[i] : i \in DOMAIN w}

\* No buffer is queued twice, or waits with a frame and for one.
Distinct(q, w) ==
  /\ \A i, j \in DOMAIN q : q[i] = q[j] => i = j
  /\ \A i, j \in DOMAIN w : w[i] = w[j] => i = j
  /\ \A i \in DOMAIN q, j \in DOMAIN w : q[i] # w[j]

\* The table: a device has one slot, and slots are used from open to close.
SlotsInv ==
  /\ \A k \in Slots : hVideoDev[k].fd = 0 => hVideoDev[k] = Unused
  /\ \A k \in Slots : hVideoDev[k].fd # 0 => hVideoDev[k].devName \in Devices
  /\ \A j, k \in Slots :
       hVideoDev[j].fd # 0 /\ hVideoDev[k].fd # 0 /\ hVideoDev[j].devName = hVideoDev[k].devName
         => j = k
  /\ \A k \in Slots : hVideoDev[k].started => hVideoDev[k].fd = 1 /\ hVideoDev[k].count >= 2

Opening == {"open", "request", "map", "queue"}
Reading == {"dequeue", "copy", "requeue"}

\* The slot in use, and that the others are started.  Without a frame the code
\* goes on with buffer 0.
CurrentInv ==
  /\ pc \in Opening \cup Reading \cup {"terminate"} => h \in Slots /\ hVideoDev[h].fd # 0
  /\ pc = "open" => hVideoDev[h].fd = -1
  /\ pc \in {"request", "map", "queue"} => hVideoDev[h].fd = 1 /\ ~hVideoDev[h].started
  /\ pc \in {"map", "queue"} => hVideoDev[h].count >= 2 /\ buf <= hVideoDev[h].count
  /\ pc \in {"copy", "requeue"} /\ ~acquired => buf = 0
  /\ pc \notin {"cleanup", "exited"} =>
       \A k \in Slots : hVideoDev[k].fd # 0 => hVideoDev[k].started \/ (pc \in Opening /\ k = h)

\* What is mapped or open belongs to a slot.
OwnedInv ==
  \A d \in Devices :
    \/ mapped[d] = {} /\ driver[d] = Released /\ lost[d] = {}
    \/ \E k \in Slots : /\ hVideoDev[k].fd = 1 /\ hVideoDev[k].devName = d
                        /\ mapped[d] \subseteq hVideoDev[k].frm

\* A slot is given back at the end of its block or by the cleanup.
BlocksInv ==
  /\ pc \notin {"cleanup", "exited"} =>
       \A k \in Slots : hVideoDev[k].fd # 0 =>
         \/ pc = "terminate" /\ k = h
         \/ \E b \in Blocks : name[b] = hVideoDev[k].devName /\ block[b] = "ready"
  /\ pc = "cleanup" => \A k \in Slots : k < h => hVideoDev[k].fd = 0
  /\ pc = "exited" => \A k \in Slots : hVideoDev[k].fd = 0

\* The buffer of d that the program has taken and not yet returned.
InHand(d) == pc \in {"copy", "requeue"} /\ acquired /\ devName = d

HandSet(d) == IF InHand(d) THEN {buf} ELSE {}

\* Before it is started, a device's buffers are queued one after the other.
StartInv ==
  \A k \in Slots : hVideoDev[k].fd = 1 =>
    LET d == driver[hVideoDev[k].devName]
    IN /\ d.on <=> hVideoDev[k].started
       /\ ~d.on => /\ d.done = <<>> /\ lost[hVideoDev[k].devName] = {}
                   /\ IF pc = "queue" /\ k = h THEN d.queue = [i \in 1 .. buf |-> i - 1]
                                               ELSE pc \in {"cleanup", "exited"} \/ d.queue = <<>>

\* Then the driver and the program have each of them once that is not lost.
ConservedInv ==
  \A k \in Slots :
    LET s == hVideoDev[k]  n == s.devName  d == driver[n]
    IN s.started =>
         /\ Distinct(d.queue, d.done)
         /\ Elements(d.queue, d.done) \cup HandSet(n) = (0 .. s.count - 1) \ lost[n]
         /\ InHand(n) => buf \notin Elements(d.queue, d.done)

\* Frames wait in the order in which they were taken.
FrameInv ==
  \A n \in Devices :
    LET d == driver[n]
    IN /\ last[n] <= shot[n]
       /\ \A b \in Buffers : d.frame[b] <= shot[n]
       /\ \A i \in DOMAIN d.done : d.frame[d.done[i]] > last[n]
       /\ \A i, j \in DOMAIN d.done : i < j => d.frame[d.done[i]] < d.frame[d.done[j]]
       /\ pc = "copy" /\ InHand(n) =>
            /\ buf \in Buffers /\ d.frame[buf] > last[n]
            /\ \A i \in DOMAIN d.done : d.frame[buf] < d.frame[d.done[i]]

IInv ==
  /\ TypeOK /\ SlotsInv /\ CurrentInv /\ OwnedInv /\ BlocksInv
  /\ StartInv /\ ConservedInv /\ FrameInv

-------------------------------------------------------------------------------
(***************************************************************************)
(* The two sequences of a driver.                                          *)
(***************************************************************************)
\* A frame is captured: the first buffer of q becomes the last of w.
LEMMA Moved ==
  ASSUME NEW S, NEW q \in Seq(S), NEW w \in Seq(S), q # <<>>, Distinct(q, w)
  PROVE  LET b == Head(q)
         IN /\ Tail(q) \in Seq(S) /\ Append(w, b) \in Seq(S) /\ b \in S
            /\ Distinct(Tail(q), Append(w, b))
            /\ Elements(Tail(q), Append(w, b)) = Elements(q, w)
            /\ b \in Elements(q, w) /\ \A i \in DOMAIN w : w[i] # b
<1> DEFINE b == Head(q)
           t == Tail(q)
           v == Append(w, b)
<1>1. /\ Len(q) \in Nat \ {0} /\ Len(w) \in Nat /\ DOMAIN q = 1 .. Len(q) /\ DOMAIN w = 1 .. Len(w)
      /\ b = q[1] /\ b \in S
  OBVIOUS
<1>2. /\ t \in Seq(S) /\ Len(t) = Len(q) - 1 /\ DOMAIN t = 1 .. Len(q) - 1
      /\ \A i \in 1 .. Len(q) - 1 : t[i] = q[i + 1]
  BY <1>1
<1>3. /\ v \in Seq(S) /\ Len(v) = Len(w) + 1 /\ DOMAIN v = 1 .. Len(w) + 1
      /\ v[Len(w) + 1] = b /\ \A i \in 1 .. Len(w) : v[i] = w[i]
  BY <1>1
<1> HIDE DEF b, t, v
<1>4. Distinct(t, v)
  <2>0. \A i \in DOMAIN t : i \in Nat /\ i + 1 \in DOMAIN q /\ i + 1 # 1 /\ t[i] = q[i + 1]
    BY <1>1, <1>2
  <2>1. \A i, j \in DOMAIN t : t[i] = t[j] => i = j
    BY <2>0 DEF Distinct
  <2>2. \A i \in DOMAIN w : w[i] # b
    BY <1>1 DEF Distinct
  <2>3. \A i, j \in DOMAIN v : v[i] = v[j] => i = j
    BY <1>1, <1>3, <2>2 DEF Distinct
  <2>4. \A i \in DOMAIN t : t[i] # b
    BY <1>1, <2>0 DEF Distinct
  <2>5. \A i \in DOMAIN t, j \in DOMAIN v : t[i] # v[j]
    BY <1>1, <1>3, <2>0, <2>4 DEF Distinct
  <2> QED
    BY <2>1, <2>3, <2>5 DEF Distinct
<1>5. ASSUME NEW x PROVE x \in Elements(t, v) <=> x \in Elements(q, w)
  <2>1. x \in Elements(t, v) => x \in Elements(q, w)
    <3>1. \A i \in DOMAIN t : t[i] \in Elements(q, w)
      <4>1. \A i \in DOMAIN t : i + 1 \in DOMAIN q /\ t[i] = q[i + 1]
        BY <1>1, <1>2
      <4> QED
        BY <4>1 DEF Elements
    <3>2. \A i \in DOMAIN v : v[i] \in Elements(q, w)
      BY <1>1, <1>3 DEF Elements
    <3> QED
      BY <3>1, <3>2 DEF Elements
  <2>2. ASSUME NEW i \in DOMAIN q, x = q[i] PROVE x \in Elements(t, v)
    <3>1. CASE i = 1
      BY <1>1, <1>3, <2>2, <3>1 DEF Elements
    <3>2. CASE i # 1
      <4>1. i - 1 \in DOMAIN t /\ t[i - 1] = q[i]
        BY <1>1, <1>2, <3>2
      <4> QED
        BY <2>2, <4>1 DEF Elements
    <3> QED
      BY <3>1, <3>2
  <2>3. ASSUME NEW i \in DOMAIN w, x = w[i] PROVE x \in Elements(t, v)
    <3>1. i \in DOMAIN v /\ v[i] = w[i]
      BY <1>1, <1>3
    <3> QED
      BY <2>3, <3>1 DEF Elements
  <2> QED
    BY <2>1, <2>2, <2>3 DEF Elements
<1>6. b \in Elements(q, w) /\ \A i \in DOMAIN w : w[i] # b
  BY <1>1 DEF Elements, Distinct
<1>7. Elements(t, v) = Elements(q, w)
  BY <1>5
<1> QED
  BY <1>1, <1>2, <1>3, <1>4, <1>6, <1>7 DEF b, t, v

\* A frame is taken: the first buffer of w is in neither sequence any more.
LEMMA TakenOut ==
  ASSUME NEW S, NEW q \in Seq(S), NEW w \in Seq(S), w # <<>>, Distinct(q, w)
  PROVE  LET b == Head(w)
         IN /\ Tail(w) \in Seq(S) /\ b \in S
            /\ Distinct(q, Tail(w))
            /\ Elements(q, Tail(w)) \cup {b} = Elements(q, w)
            /\ b \notin Elements(q, Tail(w))
<1> DEFINE b == Head(w)
           t == Tail(w)
<1>1. /\ Len(w) \in Nat \ {0} /\ Len(q) \in Nat /\ DOMAIN q = 1 .. Len(q) /\ DOMAIN w = 1 .. Len(w)
      /\ b = w[1] /\ b \in S
  OBVIOUS
<1>2. /\ t \in Seq(S) /\ Len(t) = Len(w) - 1 /\ DOMAIN t = 1 .. Len(w) - 1
      /\ \A i \in 1 .. Len(w) - 1 : t[i] = w[i + 1]
  BY <1>1
<1> HIDE DEF b, t
<1>3. \A i \in DOMAIN t : i \in Nat /\ i + 1 \in DOMAIN w /\ i + 1 # 1 /\ t[i] = w[i + 1]
  BY <1>1, <1>2
<1>4. Distinct(q, t) /\ b \notin Elements(q, t)
  <2>1. \A i, j \in DOMAIN t : t[i] = t[j] => i = j
    BY <1>3 DEF Distinct
  <2>2. \A i \in DOMAIN t : t[i] # b
    BY <1>1, <1>3 DEF Distinct
  <2>3. \A i \in DOMAIN q : q[i] # b
    BY <1>1 DEF Distinct
  <2>4. \A i \in DOMAIN q, j \in DOMAIN t : q[i] # t[j]
    BY <1>3 DEF Distinct
  <2>5. Distinct(q, t)
    BY <2>1, <2>4 DEF Distinct
  <2> QED
    BY <2>2, <2>3, <2>5 DEF Elements
<1>5. ASSUME NEW x PROVE x \in Elements(q, t) \cup {b} <=> x \in Elements(q, w)
  <2>1. x \in Elements(q, t) \cup {b} => x \in Elements(q, w)
    BY SMTT(30), <1>1, <1>2 DEF Elements
  <2>2. ASSUME NEW i \in DOMAIN w, x = w[i] PROVE x \in Elements(q, t) \cup {b}
    <3>1. CASE i = 1
      BY <1>1, <2>2, <3>1
    <3>2. CASE i # 1
      <4>1. i - 1 \in DOMAIN t /\ t[i - 1] = w[i]
        BY <1>1, <1>2, <3>2
      <4> QED
        BY <2>2, <4>1 DEF Elements
    <3> QED
      BY <3>1, <3>2
  <2> QED
    BY <2>1, <2>2 DEF Elements
<1>6. Elements(q, t) \cup {b} = Elements(q, w)
  BY <1>5
<1> QED
  BY <1>1, <1>2, <1>4, <1>6 DEF b, t

\* A buffer that is in neither sequence is queued.
LEMMA PutBack ==
  ASSUME NEW S, NEW q \in Seq(S), NEW w \in Seq(S), NEW b \in S,
         Distinct(q, w), b \notin Elements(q, w)
  PROVE  /\ Append(q, b) \in Seq(S)
         /\ Distinct(Append(q, b), w)
         /\ Elements(Append(q, b), w) = Elements(q, w) \cup {b}
<1> DEFINE v == Append(q, b)
<1>1. /\ v \in Seq(S) /\ Len(v) = Len(q) + 1 /\ DOMAIN v = 1 .. Len(q) + 1
      /\ v[Len(q) + 1] = b /\ \A i \in 1 .. Len(q) : v[i] = q[i]
      /\ Len(q) \in Nat /\ DOMAIN q = 1 .. Len(q) /\ DOMAIN w = 1 .. Len(w)
  OBVIOUS
<1> HIDE DEF v
<1>2. Distinct(v, w)
  BY SMTT(30), <1>1 DEF Distinct, Elements
<1>3. Elements(v, w) = Elements(q, w) \cup {b}
  BY SMTT(30), <1>1 DEF Elements
<1> QED
  BY <1>1, <1>2, <1>3 DEF v

\* As many buffers are queued or filled as the sequences are long.
LEMMA Counted ==
  ASSUME NEW S, NEW q \in Seq(S), NEW w \in Seq(S), Distinct(q, w)
  PROVE  Cardinality(Elements(q, w)) = Len(q) + Len(w)
<1> DEFINE m == Len(q)
           n == Len(q) + Len(w)
           F == [i \in 1 .. n |-> IF i <= m THEN q[i] ELSE w[i - m]]
           E == Elements(q, w)
<1>1. m \in Nat /\ Len(w) \in Nat /\ n = m + Len(w) /\ n \in Nat
      /\ DOMAIN q = 1 .. m /\ DOMAIN w = 1 .. Len(w)
  OBVIOUS
<1>2. \A i \in 1 .. m : i \in 1 .. n /\ F[i] = q[i]
  BY <1>1
<1>3. \A i \in 1 .. Len(w) : m + i \in 1 .. n /\ F[m + i] = w[i]
  <2> TAKE i \in 1 .. Len(w)
  <2>1. m + i \in 1 .. n /\ ~(m + i <= m) /\ (m + i) - m = i
    BY <1>1
  <2> QED
    BY <2>1
<1>4. \A i \in 1 .. n : i \in 1 .. m \/ \E j \in 1 .. Len(w) : i = m + j
  <2> TAKE i \in 1 .. n
  <2>1. CASE i <= m
    BY <1>1, <2>1
  <2>2. CASE ~(i <= m)
    <3>1. i - m \in 1 .. Len(w) /\ i = m + (i - m)
      BY <1>1, <2>2
    <3> QED
      BY <3>1
  <2> QED
    BY <2>1, <2>2
<1>5. F \in [1 .. n -> E]
  <2>1. \A i \in 1 .. m : q[i] \in E
    BY <1>1 DEF Elements
  <2>2. \A i \in 1 .. Len(w) : w[i] \in E
    BY <1>1 DEF Elements
  <2>3. \A i \in 1 .. n : F[i] \in E
    <3> HIDE DEF m, n, F, E
    <3> TAKE i \in 1 .. n
    <3>1. CASE i \in 1 .. m
      BY <3>1, <1>2, <2>1
    <3>2. CASE \E j \in 1 .. Len(w) : i = m + j
      BY <3>2, <1>3, <2>2
    <3> QED
      BY <3>1, <3>2, <1>4
  <2> QED
    BY <2>3
<1>6. F \in Injection(1 .. n, E)
  <2>1. ASSUME NEW i \in 1 .. n, NEW j \in 1 .. n, F[i] = F[j] PROVE i = j
    <3> HIDE DEF m, n, F, E
    <3>1. CASE i \in 1 .. m /\ j \in 1 .. m
      BY <1>1, <1>2, <2>1, <3>1 DEF Distinct
    <3>2. ASSUME NEW k \in 1 .. Len(w), NEW l \in 1 .. Len(w), i = m + k, j = m + l PROVE i = j
      BY SMTT(30), <1>1, <1>3, <2>1, <3>2 DEF Distinct
    <3>3. ASSUME NEW k \in 1 .. Len(w), (i \in 1 .. m /\ j = m + k) \/ (j \in 1 .. m /\ i = m + k)
          PROVE FALSE
      <4>1. F[m + k] = w[k] /\ k \in DOMAIN w
        BY <1>1, <1>3
      <4>2. CASE i \in 1 .. m /\ j = m + k
        <5>1. F[i] = q[i] /\ i \in DOMAIN q
          BY <1>1, <1>2, <4>2
        <5> QED
          BY <2>1, <4>1, <4>2, <5>1 DEF Distinct
      <4>3. CASE j \in 1 .. m /\ i = m + k
        <5>1. F[j] = q[j] /\ j \in DOMAIN q
          BY <1>1, <1>2, <4>3
        <5> QED
          BY <2>1, <4>1, <4>3, <5>1 DEF Distinct
      <4> QED
        BY <3>3, <4>2, <4>3
    <3> QED
      BY <1>4, <3>1, <3>2, <3>3
  <2> QED
    BY <1>5, <2>1 DEF Injection, IsInjective
<1>7. F \in Surjection(1 .. n, E)
  <2>1. ASSUME NEW x \in E PROVE \E i \in 1 .. n : F[i] = x
    <3> HIDE DEF m, n, F
    <3> QED
      BY <1>1, <1>2, <1>3, <2>1 DEF Elements
  <2> QED
    BY <1>5, <2>1 DEF Surjection
<1>8. ExistsBijection(1 .. n, E)
  BY <1>6, <1>7 DEF ExistsBijection, Bijection
<1> HIDE DEF n, E
<1>9. Cardinality(E) = n
  BY <1>1, <1>8, FS_CountingElements
<1> QED
  BY <1>9 DEF n, E

-------------------------------------------------------------------------------
(***************************************************************************)
(* Types, and the initial states.                                          *)
(***************************************************************************)
\* What the fields of a slot and of a driver hold.
LEMMA Fields ==
  ASSUME TypeOK
  PROVE  /\ \A k \in Slots :
              /\ hVideoDev[k].devName \in Devices \cup {NoName} /\ hVideoDev[k].fd \in {-1, 0, 1}
              /\ hVideoDev[k].count \in 0 .. NumBuffers /\ hVideoDev[k].started \in BOOLEAN
              /\ hVideoDev[k].frm \subseteq Buffers
         /\ \A d \in Devices :
              /\ driver[d].open \in BOOLEAN /\ driver[d].on \in BOOLEAN /\ driver[d].fault \in BOOLEAN
              /\ driver[d].queue \in Seq(Buffers) /\ driver[d].done \in Seq(Buffers)
              /\ driver[d].frame \in [Buffers -> Nat]
BY DEF TypeOK, SlotType, DriverType

\* An unused slot and a released driver have their types.
LEMMA ReleasedTyped == Unused \in SlotType /\ Released \in DriverType
<1>1. Unused \in SlotType
  BY V4l2CaptureAssumption DEF Unused, SlotType
<1>2. <<>> \in Seq(Buffers) /\ [b \in Buffers |-> 0] \in [Buffers -> Nat]
  OBVIOUS
<1> QED
  BY <1>1, <1>2 DEF Released, DriverType

\* A driver that has been started belongs to a slot that knows it.
LEMMA OnlyStartedRun ==
  ASSUME IInv, NEW d \in Devices, driver[d].on
  PROVE  \E k \in Slots : hVideoDev[k].devName = d /\ hVideoDev[k].fd = 1 /\ hVideoDev[k].started
<1>1. driver[d] # Released
  BY DEF Released
<1>2. PICK k \in Slots : hVideoDev[k].fd = 1 /\ hVideoDev[k].devName = d
  BY <1>1 DEF IInv, OwnedInv
<1> QED
  BY <1>2 DEF IInv, StartInv

\* During a read the slot in use is started, and its buffers are accounted for.
LEMMA InReading ==
  ASSUME IInv, pc \in Reading
  PROVE  /\ h \in Slots /\ hVideoDev[h].started /\ hVideoDev[h].fd = 1 /\ hVideoDev[h].count >= 2
         /\ hVideoDev[h] \in SlotType /\ hVideoDev[h].devName = devName /\ devName \in Devices
         /\ \A k \in Slots : hVideoDev[k].fd # 0 => hVideoDev[k].started
         /\ driver[devName] \in DriverType /\ driver[devName].on
         /\ mapped[devName] \subseteq hVideoDev[h].frm
<1>1. h \in Slots /\ hVideoDev[h].fd # 0
  BY DEF IInv, CurrentInv
<1>2. \A k \in Slots : hVideoDev[k].fd # 0 => hVideoDev[k].started
  BY DEF IInv, CurrentInv, Opening, Reading
<1>3. hVideoDev[h].started /\ hVideoDev[h].fd = 1 /\ hVideoDev[h].count >= 2 /\ devName \in Devices
  BY <1>1, <1>2 DEF IInv, SlotsInv, devName
<1>4. driver[devName] \in DriverType /\ hVideoDev[h] \in SlotType
  BY <1>1, <1>3 DEF IInv, TypeOK
<1>5. driver[devName].on
  BY <1>1, <1>3 DEF IInv, StartInv, devName
<1>6. mapped[devName] \subseteq hVideoDev[h].frm
  <2>1. \A k \in Slots : hVideoDev[k].fd = 1 /\ hVideoDev[k].devName = devName => k = h
    BY <1>1, <1>3 DEF IInv, SlotsInv, devName
  <2> QED
    BY <1>1, <1>3, <2>1 DEF IInv, OwnedInv
<1> QED
  BY <1>1, <1>2, <1>3, <1>4, <1>5, <1>6 DEF devName

\* Before the model is initialized every slot is unused and every driver released.
LEMMA InitIInv == Init => IInv
<1> SUFFICES ASSUME Init PROVE IInv
  OBVIOUS
<1>0. /\ \A k \in Slots : hVideoDev[k] = Unused /\ hVideoDev[k].fd = 0 /\ ~hVideoDev[k].started
      /\ \A d \in Devices : driver[d] = Released /\ mapped[d] = {} /\ lost[d] = {} /\ shot[d] = 0 /\ last[d] = 0
      /\ pc = "idle" /\ h = 1 /\ buf = 0
  BY DEF Init, Unused
<1>1. TypeOK
  <2>1. hVideoDev \in [Slots -> SlotType] /\ driver \in [Devices -> DriverType]
    BY ReleasedTyped DEF Init
  <2>2. h \in 1 .. MaxDevices + 1 /\ buf \in 0 .. NumBuffers
    BY <1>0, V4l2CaptureAssumption
  <2> QED
    BY <2>1, <2>2 DEF Init, TypeOK
<1>2. SlotsInv /\ CurrentInv /\ OwnedInv /\ BlocksInv /\ StartInv
  <2>1. SlotsInv
    BY <1>0 DEF SlotsInv
  <2>2. CurrentInv /\ BlocksInv
    BY <1>0 DEF CurrentInv, BlocksInv, Opening, Reading
  <2>3. OwnedInv
    BY <1>0 DEF OwnedInv
  <2>4. StartInv
    BY <1>0 DEF StartInv
  <2> QED
    BY <2>1, <2>2, <2>3, <2>4
<1>3. ConservedInv
  BY <1>0 DEF ConservedInv
<1>4. FrameInv
  <2>1. \A n \in Devices : driver[n].done = <<>> /\ \A b \in Buffers : driver[n].frame[b] = 0
    BY <1>0 DEF Released
  <2> QED
    BY <1>0, <2>1 DEF FrameInv, InHand
<1> QED
  BY <1>1, <1>2, <1>3, <1>4 DEF IInv

-------------------------------------------------------------------------------
(***************************************************************************)
(* Steps that change no device.                                            *)
(***************************************************************************)
\* The program goes on to another call, outside of a read.
LEMMA QuietKeeps ==
  ASSUME IInv, UNCHANGED <<plugged, shot, last, lost, hVideoDev, driver, mapped>>,
         pc \notin {"copy", "requeue"}, pc' \notin {"copy", "requeue", "queue"},
         pc \in {"queue", "cleanup", "exited"} => pc' \in {"cleanup", "exited"}
  PROVE  SlotsInv' /\ OwnedInv' /\ StartInv' /\ ConservedInv' /\ FrameInv'
<1>1. SlotsInv' /\ OwnedInv'
  BY DEF IInv, SlotsInv, OwnedInv
<1>2. StartInv'
  BY DEF IInv, StartInv
<1>3. \A n : HandSet(n) = {} /\ HandSet(n)' = {}
  BY DEF HandSet, InHand
<1>4. \A n : ~InHand(n)'
  BY DEF InHand
<1>5. ConservedInv'
  BY <1>3, <1>4 DEF IInv, ConservedInv
<1>6. FrameInv'
  BY DEF IInv, FrameInv
<1> QED
  BY <1>1, <1>2, <1>5, <1>6

\* The error exit starts the cleanup, whatever was under way.
LEMMA ErrorExitKeeps ==
  ASSUME IInv, ErrorExit, UNCHANGED <<env, hVideoDev, driver, mapped, block, ending, buf, acquired, hist>>,
         pc \notin {"copy", "requeue", "exited"}
  PROVE  IInv'
<1>0. pc' = "cleanup" /\ h' = 1 /\ UNCHANGED <<name, plugged, shot, last, lost>>
  BY DEF ErrorExit, env, hist
<1>1. TypeOK'
  BY <1>0, V4l2CaptureAssumption DEF IInv, TypeOK
<1>2. SlotsInv' /\ OwnedInv' /\ StartInv' /\ ConservedInv' /\ FrameInv'
  BY <1>0, QuietKeeps
<1>3. CurrentInv'
  BY <1>0 DEF CurrentInv, Opening, Reading
<1>4. BlocksInv'
  BY <1>0 DEF BlocksInv, Slots
<1> QED
  BY <1>1, <1>2, <1>3, <1>4 DEF IInv

\* A failed call of the initialization or of the cleanup, and a block that is
\* refused, all take the error exit.
LEMMA ErrorsKeep == IInv /\ (InitFails \/ StopFails \/ \E b \in Blocks : InitRefused(b)) => IInv'
BY ErrorExitKeeps DEF InitFails, StopFails, InitRefused

\* A read begins, of the device of its block.
LEMMA VideoCaptureOutputKeeps == ASSUME IInv, NEW b \in Blocks, VideoCaptureOutput(b) PROVE IInv'
<1>0. /\ pc = "idle" /\ pc' = "dequeue" /\ h' \in Handle(name[b])
      /\ UNCHANGED <<name, plugged, shot, hVideoDev, driver, mapped, block, ending, buf, acquired, last, lost>>
  BY DEF VideoCaptureOutput, env, hist
<1>1. h' \in Slots /\ hVideoDev[h'].fd # 0
  BY <1>0 DEF Handle
<1>2. h' \in 1 .. MaxDevices + 1
  BY <1>1, V4l2CaptureAssumption DEF Slots
<1>3. TypeOK'
  BY <1>0, <1>2 DEF IInv, TypeOK
<1>4. SlotsInv' /\ OwnedInv' /\ StartInv' /\ ConservedInv' /\ FrameInv'
  BY <1>0, QuietKeeps
<1>5. CurrentInv'
  BY <1>0, <1>1 DEF IInv, CurrentInv, Opening, Reading
<1>6. BlocksInv'
  BY <1>0 DEF IInv, BlocksInv
<1> QED
  BY <1>3, <1>4, <1>5, <1>6 DEF IInv

\* The step loop ends.
LEMMA EndOfModelKeeps == IInv /\ EndOfModel => IInv'
<1> SUFFICES ASSUME IInv, EndOfModel PROVE IInv'
  OBVIOUS
<1>0. /\ pc = "idle" /\ pc' = "idle" /\ ending' = TRUE
      /\ UNCHANGED <<name, plugged, shot, hVideoDev, driver, mapped, block, h, buf, acquired, last, lost>>
  BY DEF EndOfModel, env, hist
<1>1. TypeOK'
  BY <1>0 DEF IInv, TypeOK
<1>2. SlotsInv' /\ OwnedInv' /\ StartInv' /\ ConservedInv' /\ FrameInv'
  BY <1>0, QuietKeeps
<1>3. CurrentInv' /\ BlocksInv'
  BY <1>0 DEF IInv, CurrentInv, BlocksInv
<1> QED
  BY <1>1, <1>2, <1>3 DEF IInv

\* A block is terminated: its device has no block that is ready any more, and is
\* the one in use.
LEMMA VideoCaptureTerminateKeeps ==
  ASSUME IInv, NEW b \in Blocks, VideoCaptureTerminate(b) PROVE IInv'
<1>0. /\ pc = "idle" /\ pc' = "terminate" /\ h' \in Handle(name[b])
      /\ block' = [block EXCEPT ![b] = "gone"]
      /\ UNCHANGED <<name, plugged, shot, hVideoDev, driver, mapped, ending, buf, acquired, last, lost>>
  BY DEF VideoCaptureTerminate, env, hist
<1>1. h' \in Slots /\ hVideoDev[h'].fd # 0 /\ hVideoDev[h'].devName = name[b]
  BY <1>0 DEF Handle
<1>2. h' \in 1 .. MaxDevices + 1
  BY <1>1, V4l2CaptureAssumption DEF Slots
<1>3. TypeOK'
  BY <1>0, <1>2 DEF IInv, TypeOK
<1>4. SlotsInv' /\ OwnedInv' /\ StartInv' /\ ConservedInv' /\ FrameInv'
  BY <1>0, QuietKeeps
<1>5. CurrentInv'
  BY <1>0, <1>1 DEF IInv, CurrentInv, Opening, Reading
<1>6. BlocksInv'
  <2> SUFFICES ASSUME NEW k \in Slots, hVideoDev[k].fd # 0, k # h'
               PROVE  \E c \in Blocks : name[c] = hVideoDev[k].devName /\ block'[c] = "ready"
    BY <1>0 DEF BlocksInv
  <2>1. PICK c \in Blocks : name[c] = hVideoDev[k].devName /\ block[c] = "ready"
    BY <1>0 DEF IInv, BlocksInv
  <2>2. c # b
    BY <1>1, <2>1 DEF IInv, SlotsInv
  <2>3. block'[c] = block[c]
    BY <1>0, <2>2 DEF IInv, TypeOK
  <2> QED
    BY <2>1, <2>3
<1> QED
  BY <1>3, <1>4, <1>5, <1>6 DEF IInv

\* The program ends, when no slot is in use.
LEMMA ExitKeeps == IInv /\ Exit => IInv'
<1> SUFFICES ASSUME IInv, Exit PROVE IInv'
  OBVIOUS
<1>0. /\ pc \in {"cleanup", "idle"} /\ pc' = "exited" /\ h' = 1
      /\ UNCHANGED <<name, plugged, shot, hVideoDev, driver, mapped, block, ending, buf, acquired, last, lost>>
  BY DEF Exit, env, hist
<1>1. TypeOK'
  BY <1>0, V4l2CaptureAssumption DEF IInv, TypeOK
<1>2. SlotsInv' /\ OwnedInv' /\ StartInv' /\ ConservedInv' /\ FrameInv'
  BY <1>0, QuietKeeps
<1>3. CurrentInv'
  BY <1>0 DEF CurrentInv, Opening, Reading
<1>4. \A k \in Slots : hVideoDev[k].fd = 0
  <2>1. CASE pc = "cleanup"
    <3>1. h > MaxDevices /\ h \in Int
      BY <2>1, V4l2CaptureAssumption DEF Exit, IInv, TypeOK
    <3>2. \A k \in Slots : k < h
      BY <3>1, V4l2CaptureAssumption DEF Slots
    <3> QED
      BY <2>1, <3>2 DEF IInv, BlocksInv
  <2>2. CASE pc = "idle"
    BY <2>2 DEF Exit, IInv, BlocksInv
  <2> QED
    BY <1>0, <2>1, <2>2
<1>5. BlocksInv'
  BY <1>0, <1>4 DEF BlocksInv
<1> QED
  BY <1>1, <1>2, <1>3, <1>5 DEF IInv

\* All buffers are mapped: the first is to be queued.
LEMMA StartCaptureKeeps == IInv /\ StartCapture => IInv'
<1> SUFFICES ASSUME IInv, StartCapture PROVE IInv'
  OBVIOUS
<1>0. /\ pc = "map" /\ pc' = "queue" /\ buf' = 0
      /\ UNCHANGED <<name, plugged, shot, hVideoDev, driver, mapped, block, ending, h, acquired, last, lost>>
  BY DEF StartCapture, env, hist
<1>1. TypeOK'
  BY <1>0, V4l2CaptureAssumption DEF IInv, TypeOK
<1>2. SlotsInv' /\ OwnedInv'
  BY <1>0 DEF IInv, SlotsInv, OwnedInv
<1>3. CurrentInv'
  <2>1. 0 <= hVideoDev[h].count
    BY <1>0, Fields DEF IInv, CurrentInv, Opening
  <2> QED
    BY <1>0, <2>1 DEF IInv, CurrentInv, Opening, Reading
<1>4. BlocksInv'
  BY <1>0 DEF IInv, BlocksInv
<1>5. StartInv'
  <2>1. [i \in 1 .. 0 |-> i - 1] = <<>>
    OBVIOUS
  <2> QED
    BY <1>0, <2>1 DEF IInv, StartInv
<1>6. \A n : HandSet(n) = {} /\ HandSet(n)' = {} /\ ~InHand(n)'
  BY <1>0 DEF HandSet, InHand
<1>7. ConservedInv'
  BY <1>0, <1>6 DEF IInv, ConservedInv
<1>8. FrameInv'
  BY <1>0 DEF IInv, FrameInv
<1> QED
  BY <1>1, <1>2, <1>3, <1>4, <1>5, <1>7, <1>8 DEF IInv

\* A frame is copied: it becomes the last one.
LEMMA CopyFrameKeeps == IInv /\ CopyFrame => IInv'
<1> SUFFICES ASSUME IInv, CopyFrame PROVE IInv'
  OBVIOUS
<1>0. /\ pc = "copy" /\ pc' = "requeue" /\ h \in Slots /\ devName \in Devices
      /\ last' = IF acquired THEN [last EXCEPT ![devName] = driver[devName].frame[buf]] ELSE last
      /\ UNCHANGED <<name, plugged, shot, hVideoDev, driver, mapped, block, ending, h, buf, acquired, lost>>
  BY DEF CopyFrame, env, IInv, CurrentInv, SlotsInv, Reading, devName
<1>1. acquired => InHand(devName)
  BY <1>0 DEF InHand
<1>2. last' \in [Devices -> Nat]
  <2>1. last \in [Devices -> Nat]
    BY DEF IInv, TypeOK
  <2>2. acquired => driver[devName].frame[buf] \in Nat
    BY <1>0, <1>1, Fields DEF IInv, FrameInv
  <2> QED
    BY <1>0, <2>1, <2>2
<1>3. TypeOK'
  BY <1>0, <1>2 DEF IInv, TypeOK
<1>4. SlotsInv' /\ OwnedInv' /\ BlocksInv'
  BY <1>0 DEF IInv, SlotsInv, OwnedInv, BlocksInv
<1>5. CurrentInv'
  BY <1>0 DEF IInv, CurrentInv, Opening, Reading
<1>6. StartInv'
  BY <1>0 DEF IInv, StartInv
<1>7. \A n : HandSet(n) = HandSet(n)' /\ (InHand(n)' <=> InHand(n))
  BY <1>0 DEF HandSet, InHand, devName
<1>8. ConservedInv'
  BY <1>0, <1>7 DEF IInv, ConservedInv
<1>9. FrameInv'
  <2> SUFFICES ASSUME NEW n \in Devices
               PROVE  /\ last'[n] <= shot[n]
                      /\ \A i \in DOMAIN driver[n].done : driver[n].frame[driver[n].done[i]] > last'[n]
    BY <1>0 DEF IInv, FrameInv
  <2>1. CASE acquired /\ n = devName
    <3>1. last'[n] = driver[n].frame[buf]
      BY <1>0, <2>1 DEF IInv, TypeOK
    <3>2. buf \in Buffers /\ \A i \in DOMAIN driver[n].done : driver[n].frame[buf] < driver[n].frame[driver[n].done[i]]
      BY <1>0, <1>1, <2>1 DEF IInv, FrameInv
    <3>3. driver[n].frame[buf] <= shot[n] /\ driver[n].frame \in [Buffers -> Nat]
      BY <3>2, Fields DEF IInv, FrameInv
    <3>4. \A i \in DOMAIN driver[n].done : driver[n].done[i] \in Buffers
      BY Fields DEF IInv
    <3> QED
      BY <3>1, <3>2, <3>3, <3>4
  <2>2. CASE ~(acquired /\ n = devName)
    <3>1. last'[n] = last[n]
      BY <1>0, <2>2 DEF IInv, TypeOK
    <3> QED
      BY <3>1 DEF IInv, FrameInv
  <2> QED
    BY <2>1, <2>2
<1> QED
  BY <1>3, <1>4, <1>5, <1>6, <1>8, <1>9 DEF IInv

\* After a failed VIDIOC_QBUF the buffer is lost, unless the driver has it.
LEMMA RequeueFailsKeeps == IInv /\ RequeueFails => IInv'
<1> SUFFICES ASSUME IInv, RequeueFails PROVE IInv'
  OBVIOUS
<1>0. /\ pc = "requeue" /\ pc' = "idle"
      /\ lost' = [lost EXCEPT ![devName] = @ \cup ({buf} \ Held(devName))]
      /\ UNCHANGED <<name, plugged, shot, last, hVideoDev, driver, mapped, block, ending, h, buf, acquired>>
  BY DEF RequeueFails, env
<1> PICK d \in Devices : d = devName
  BY <1>0, InReading DEF Reading
<1> DEFINE q == driver[d].queue
           w == driver[d].done
           c == hVideoDev[h].count
           g == lost[d] \cup ({buf} \ Elements(q, w))
<1>8. /\ h \in Slots /\ hVideoDev[h].started /\ hVideoDev[h].fd = 1 /\ hVideoDev[h].devName = d
      /\ c \in 0 .. NumBuffers /\ c >= 2 /\ driver[d].on
  <2>1. hVideoDev[h] \in SlotType
    BY <1>0, InReading DEF Reading
  <2>2. c \in 0 .. NumBuffers
    BY <2>1 DEF SlotType
  <2> QED
    BY <1>0, <2>2, InReading DEF Reading
<1>9. Elements(q, w) \cup HandSet(d) = (0 .. c - 1) \ lost[d] /\ (InHand(d) => buf \notin Elements(q, w))
  BY <1>8 DEF IInv, ConservedInv
<1>10. buf \in 0 .. c - 1
  <2>1. CASE ~acquired
    BY <1>0, <1>8, <2>1 DEF IInv, CurrentInv
  <2>2. CASE acquired
    <3>1. HandSet(d) = {buf}
      BY <1>0, <2>2 DEF HandSet, InHand
    <3> QED
      BY <1>9, <3>1
  <2> QED
    BY <2>1, <2>2
<1>11. Elements(q, w) = (0 .. c - 1) \ g
  <2>1. CASE InHand(d)
    <3>1. HandSet(d) = {buf}
      BY <2>1 DEF HandSet
    <3> HIDE DEF q, w, c
    <3> QED
      BY <1>9, <2>1, <3>1
  <2>2. CASE ~InHand(d)
    <3>1. HandSet(d) = {}
      BY <2>2 DEF HandSet
    <3> HIDE DEF q, w, c
    <3> QED
      BY <1>9, <1>10, <3>1
  <2> QED
    BY <2>1, <2>2
<1>12. /\ lost' \in [Devices -> SUBSET Buffers] /\ lost'[d] = g
       /\ \A n \in Devices : n # d => lost'[n] = lost[n]
  <2>1. buf \in Buffers
    BY <1>8, <1>10, V4l2CaptureAssumption DEF Buffers
  <2>2. lost \in [Devices -> SUBSET Buffers]
    BY DEF IInv, TypeOK
  <2>3. lost' = [lost EXCEPT ![d] = g]
    BY <1>0 DEF Held, Elements
  <2> HIDE DEF q, w
  <2> QED
    BY <2>1, <2>2, <2>3
<1> HIDE DEF g
<1>1. TypeOK'
  BY <1>0, <1>12 DEF IInv, TypeOK
<1>2. SlotsInv' /\ OwnedInv' /\ BlocksInv'
  <2>1. SlotsInv' /\ BlocksInv'
    BY <1>0 DEF IInv, SlotsInv, BlocksInv
  <2>2. ASSUME NEW n \in Devices
        PROVE  \/ mapped[n] = {} /\ driver[n] = Released /\ lost'[n] = {}
               \/ \E k \in Slots : hVideoDev[k].fd = 1 /\ hVideoDev[k].devName = n
                                   /\ mapped[n] \subseteq hVideoDev[k].frm
    <3>1. CASE n = d
      <4>1. driver[d] # Released
        BY <1>8 DEF Released
      <4> QED
        BY <3>1, <4>1 DEF IInv, OwnedInv
    <3>2. CASE n # d
      BY <1>12, <3>2 DEF IInv, OwnedInv
    <3> QED
      BY <3>1, <3>2
  <2>3. OwnedInv'
    BY <1>0, <2>2 DEF OwnedInv
  <2> QED
    BY <2>1, <2>3
<1>3. CurrentInv'
  BY <1>0 DEF IInv, CurrentInv, Opening, Reading
<1>4. StartInv'
  <2>1. \A k \in Slots : hVideoDev[k].fd = 1 /\ ~driver[hVideoDev[k].devName].on =>
          lost'[hVideoDev[k].devName] = lost[hVideoDev[k].devName]
    BY <1>8, <1>12 DEF IInv, SlotsInv
  <2> QED
    BY <1>0, <2>1 DEF IInv, StartInv
<1>5. \A n : HandSet(n)' = {} /\ ~InHand(n)'
  BY <1>0 DEF HandSet, InHand
<1>6. ConservedInv'
  <2> SUFFICES ASSUME NEW k \in Slots, NEW n, n = hVideoDev[k].devName, hVideoDev[k].started
               PROVE  /\ Distinct(driver[n].queue, driver[n].done)
                      /\ Elements(driver[n].queue, driver[n].done) \cup {}
                           = (0 .. hVideoDev[k].count - 1) \ lost'[n]
    BY <1>0, <1>5 DEF ConservedInv
  <2>1. Distinct(driver[n].queue, driver[n].done)
    BY DEF IInv, ConservedInv
  <2>2. CASE n = d
    <3>1. hVideoDev[k].fd # 0 /\ hVideoDev[k].devName = hVideoDev[h].devName
      BY <1>8, <2>2 DEF IInv, SlotsInv
    <3>2. k = h
      BY <1>8, <3>1 DEF IInv, SlotsInv
    <3> QED
      BY <1>11, <1>12, <2>1, <2>2, <3>2
  <2>3. CASE n # d
    <3>1. HandSet(n) = {} /\ lost'[n] = lost[n]
      BY <1>12, <2>3 DEF IInv, SlotsInv, HandSet, InHand
    <3> QED
      BY <2>1, <3>1 DEF IInv, ConservedInv
  <2> QED
    BY <2>2, <2>3
<1>7. FrameInv'
  BY <1>0 DEF IInv, FrameInv
<1> QED
  BY <1>1, <1>2, <1>3, <1>4, <1>6, <1>7 DEF IInv

-------------------------------------------------------------------------------
(***************************************************************************)
(* The camera and the driver.                                              *)
(***************************************************************************)
\* The camera takes the first buffer that is queued; the program does not have it.
LEMMA CaptureKeeps == ASSUME IInv, NEW d \in Devices, Capture(d) PROVE IInv'
<1> DEFINE q == driver[d].queue
           w == driver[d].done
           b == Head(q)
<1>0. /\ d \in plugged /\ driver[d].on /\ q # <<>>
      /\ driver' = [driver EXCEPT ![d].queue = Tail(@), ![d].done = Append(@, b),
                                  ![d].frame[b] = shot[d] + 1]
      /\ shot' = [shot EXCEPT ![d] = @ + 1]
      /\ UNCHANGED <<name, plugged, hVideoDev, mapped, block, ending, pc, h, buf, acquired, last, lost>>
  BY DEF Capture, hist
<1>1. /\ q \in Seq(Buffers) /\ w \in Seq(Buffers) /\ driver[d].frame \in [Buffers -> Nat]
      /\ shot[d] \in Nat /\ last[d] \in Nat
  BY Fields DEF IInv, TypeOK
<1>2. b \in Buffers
  BY <1>0, <1>1
<1>3. /\ driver'[d].queue = Tail(q) /\ driver'[d].done = Append(w, b)
      /\ driver'[d].frame = [driver[d].frame EXCEPT ![b] = shot[d] + 1]
      /\ driver'[d].on = driver[d].on /\ driver'[d].open = driver[d].open
      /\ driver'[d].fault = driver[d].fault
      /\ \A n \in Devices : n # d => driver'[n] = driver[n]
      /\ driver' = [driver EXCEPT ![d] = [driver[d] EXCEPT !.queue = Tail(q), !.done = Append(w, b),
                                            !.frame = [driver[d].frame EXCEPT ![b] = shot[d] + 1]]]
  BY ZenonT(40), <1>0 DEF IInv, TypeOK, DriverType
<1>4. PICK k \in Slots : hVideoDev[k].devName = d /\ hVideoDev[k].fd = 1 /\ hVideoDev[k].started
  BY <1>0, OnlyStartedRun
<1>5. /\ Distinct(q, w) /\ Elements(q, w) \cup HandSet(d) = (0 .. hVideoDev[k].count - 1) \ lost[d]
      /\ InHand(d) => buf \notin Elements(q, w)
  BY <1>0, <1>4 DEF IInv, ConservedInv
<1>6. /\ Tail(q) \in Seq(Buffers) /\ Append(w, b) \in Seq(Buffers)
      /\ Distinct(Tail(q), Append(w, b))
      /\ Elements(Tail(q), Append(w, b)) = Elements(q, w)
      /\ b \in Elements(q, w) /\ \A i \in DOMAIN w : w[i] # b
  BY <1>0, <1>1, <1>5, Moved
<1> HIDE DEF q, w, b
<1>7. driver' \in [Devices -> DriverType] /\ shot' \in [Devices -> Nat]
  <2>1. [driver[d].frame EXCEPT ![b] = shot[d] + 1] \in [Buffers -> Nat]
    BY <1>1, <1>2
  <2>2. driver[d] \in DriverType
    BY DEF IInv, TypeOK
  <2>3. [driver[d] EXCEPT !.queue = Tail(q), !.done = Append(w, b),
                          !.frame = [driver[d].frame EXCEPT ![b] = shot[d] + 1]] \in DriverType
    BY <1>6, <2>1, <2>2 DEF DriverType
  <2>4. driver'[d] \in DriverType /\ driver \in [Devices -> DriverType]
    BY <1>3, <2>3 DEF IInv, TypeOK
  <2>5. driver' = [n \in Devices |-> driver'[n]]
    BY <1>0, <2>4
  <2>6. \A n \in Devices : driver'[n] \in DriverType
    BY <1>3, <2>4
  <2>7. driver' \in [Devices -> DriverType]
    BY <2>5, <2>6
  <2>8. shot' \in [Devices -> Nat]
    BY <1>0, <1>1 DEF IInv, TypeOK
  <2> QED
    BY <2>7, <2>8
<1>8. TypeOK'
  BY <1>0, <1>7 DEF IInv, TypeOK
<1>9. SlotsInv' /\ CurrentInv' /\ BlocksInv'
  BY <1>0 DEF IInv, SlotsInv, CurrentInv, BlocksInv
<1>10. OwnedInv'
  BY ZenonT(40), <1>0, <1>3, <1>4 DEF IInv, OwnedInv
<1>11. StartInv'
  <2> SUFFICES ASSUME NEW j \in Slots, hVideoDev[j].fd = 1
               PROVE  LET e == driver'[hVideoDev[j].devName]
                      IN /\ e.on <=> hVideoDev[j].started
                         /\ ~e.on => /\ e.done = <<>> /\ lost[hVideoDev[j].devName] = {}
                                     /\ IF pc = "queue" /\ j = h
                                        THEN e.queue = [i \in 1 .. buf |-> i - 1]
                                        ELSE pc \in {"cleanup", "exited"} \/ e.queue = <<>>
    BY <1>0 DEF StartInv
  <2>1. hVideoDev[j].devName \in Devices
    BY DEF IInv, SlotsInv
  <2>2. driver'[hVideoDev[j].devName].on = driver[hVideoDev[j].devName].on
    BY <1>3, <2>1
  <2>3. CASE hVideoDev[j].devName = d
    BY <1>0, <2>2, <2>3 DEF IInv, StartInv
  <2>4. CASE hVideoDev[j].devName # d
    <3>1. driver'[hVideoDev[j].devName] = driver[hVideoDev[j].devName]
      BY <1>3, <2>1, <2>4
    <3> QED
      BY <3>1 DEF IInv, StartInv
  <2> QED
    BY <2>3, <2>4
<1>12. \A n : HandSet(n)' = HandSet(n) /\ (InHand(n)' <=> InHand(n))
  BY <1>0 DEF HandSet, InHand, devName
<1>13. ConservedInv'
  <2> SUFFICES ASSUME NEW j \in Slots, hVideoDev[j].started
               PROVE  LET s == hVideoDev[j]  n == s.devName  e == driver'[n]
                      IN /\ Distinct(e.queue, e.done)
                         /\ Elements(e.queue, e.done) \cup HandSet(n) = (0 .. s.count - 1) \ lost[n]
                         /\ InHand(n) => buf \notin Elements(e.queue, e.done)
    BY <1>0, <1>12 DEF ConservedInv
  <2>1. CASE hVideoDev[j].devName = d
    <3>1. j = k
      BY <1>4, <2>1 DEF IInv, SlotsInv
    <3>2. Distinct(driver'[d].queue, driver'[d].done)
      BY <1>3, <1>6
    <3>3. Elements(driver'[d].queue, driver'[d].done) = Elements(q, w)
      BY <1>3, <1>6
    <3> QED
      BY <1>5, <2>1, <3>1, <3>2, <3>3
  <2>2. CASE hVideoDev[j].devName # d
    <3>1. hVideoDev[j].devName \in Devices
      BY DEF IInv, SlotsInv
    <3>2. driver'[hVideoDev[j].devName] = driver[hVideoDev[j].devName]
      BY <1>3, <2>2, <3>1
    <3> QED
      BY <3>2 DEF IInv, ConservedInv
  <2> QED
    BY SMTT(30), <2>1, <2>2
<1>14. FrameInv'
  <2> SUFFICES ASSUME NEW n \in Devices
               PROVE  LET e == driver'[n]
                      IN /\ last[n] <= shot'[n]
                         /\ \A c \in Buffers : e.frame[c] <= shot'[n]
                         /\ \A i \in DOMAIN e.done : e.frame[e.done[i]] > last[n]
                         /\ \A i, j \in DOMAIN e.done : i < j => e.frame[e.done[i]] < e.frame[e.done[j]]
                         /\ pc = "copy" /\ InHand(n) =>
                              /\ buf \in Buffers /\ e.frame[buf] > last[n]
                              /\ \A i \in DOMAIN e.done : e.frame[buf] < e.frame[e.done[i]]
    BY <1>0, <1>12 DEF FrameInv
  <2>1. CASE n # d
    <3>1. driver'[n] = driver[n] /\ shot'[n] = shot[n]
      BY <1>0, <1>3, <2>1 DEF IInv, TypeOK
    <3> QED
      BY <3>1 DEF IInv, FrameInv
  <2>2. CASE n = d
    <3> DEFINE g == driver[d].frame
               f == driver'[d].frame
               v == Append(w, b)
    <3>1. shot'[d] = shot[d] + 1 /\ f = [g EXCEPT ![b] = shot[d] + 1] /\ driver'[d].done = v
      BY <1>0, <1>3 DEF IInv, TypeOK
    <3>2. /\ last[d] <= shot[d] /\ \A c \in Buffers : g[c] <= shot[d]
          /\ \A i \in DOMAIN w : g[w[i]] > last[d]
          /\ \A i, j \in DOMAIN w : i < j => g[w[i]] < g[w[j]]
          /\ pc = "copy" /\ InHand(d) =>
               buf \in Buffers /\ g[buf] > last[d] /\ \A i \in DOMAIN w : g[buf] < g[w[i]]
      BY DEF IInv, FrameInv, w
    <3>3. f[b] = shot[d] + 1 /\ \A c \in Buffers : c # b => f[c] = g[c]
      BY <1>1, <1>2, <3>1
    <3>4. \A c \in Buffers : g[c] \in Nat
      BY <1>1
    <3>5. /\ DOMAIN w = 1 .. Len(w) /\ Len(w) \in Nat /\ DOMAIN v = 1 .. Len(w) + 1
          /\ v[Len(w) + 1] = b /\ \A i \in 1 .. Len(w) : v[i] = w[i] /\ w[i] \in Buffers
      BY <1>1, <1>2
    <3>6. InHand(d) => buf # b
      BY <1>5, <1>6
    <3> HIDE DEF g, f, v
    <3>14. shot[d] \in Nat /\ last[d] \in Nat
      BY <1>1
    <3>15. \A c \in Buffers : g[c] <= shot[d]
      BY <3>2
    <3>7. \A c \in Buffers : f[c] <= shot[d] + 1 /\ f[c] \in Nat
      <4> TAKE c \in Buffers
      <4>1. CASE c = b
        BY <3>3, <3>14, <4>1
      <4>2. CASE c # b
        <5>1. f[c] = g[c] /\ g[c] <= shot[d] /\ g[c] \in Nat
          BY <3>3, <3>4, <3>15, <4>2
        <5> QED
          BY <3>14, <5>1
      <4> QED
        BY <4>1, <4>2
    <3>13. \A i \in 1 .. Len(w) : w[i] \in Buffers /\ w[i] # b /\ v[i] = w[i]
      BY <1>6, <3>5
    <3>8. \A i \in 1 .. Len(w) : f[v[i]] = g[w[i]] /\ g[w[i]] \in Nat /\ g[w[i]] <= shot[d]
      BY <3>2, <3>3, <3>4, <3>13
    <3>16. /\ last[d] <= shot[d]
           /\ \A i \in 1 .. Len(w) : f[v[i]] > last[d]
           /\ \A i, j \in 1 .. Len(w) : i < j => f[v[i]] < f[v[j]]
      BY <3>2, <3>5, <3>8
    <3>17. f[v[Len(w) + 1]] = shot[d] + 1
      BY <3>3, <3>5
    <3>18. \A i \in 1 .. Len(w) : f[v[i]] \in Nat /\ f[v[i]] <= shot[d]
      BY <3>8
    <3>19. DOMAIN v = 1 .. Len(w) + 1 /\ Len(w) \in Nat
      BY <3>5
    <3>9. \A i \in DOMAIN v : f[v[i]] > last[d]
      <4> TAKE i \in DOMAIN v
      <4>1. CASE i = Len(w) + 1
        BY <3>14, <3>16, <3>17, <4>1
      <4>2. CASE i \in 1 .. Len(w)
        BY <3>16, <4>2
      <4> QED
        BY <3>19, <4>1, <4>2
    <3>10. \A i, j \in DOMAIN v : i < j => f[v[i]] < f[v[j]]
      <4> SUFFICES ASSUME NEW i \in DOMAIN v, NEW j \in DOMAIN v, i < j PROVE f[v[i]] < f[v[j]]
        OBVIOUS
      <4>1. i \in 1 .. Len(w)
        BY <3>19
      <4>2. CASE j = Len(w) + 1
        BY <3>14, <3>17, <3>18, <4>1, <4>2
      <4>3. CASE j \in 1 .. Len(w)
        BY <3>16, <4>1, <4>3
      <4> QED
        BY <3>19, <4>2, <4>3
    <3>11. ASSUME pc = "copy", InHand(d)
           PROVE  buf \in Buffers /\ f[buf] > last[d] /\ \A i \in DOMAIN v : f[buf] < f[v[i]]
      <4>1. buf \in Buffers /\ f[buf] = g[buf] /\ g[buf] > last[d] /\ g[buf] \in Nat /\ g[buf] <= shot[d]
        BY <3>2, <3>3, <3>4, <3>6, <3>11
      <4>2. \A i \in DOMAIN w : g[buf] < g[w[i]]
        BY <3>2, <3>11
      <4>3. ASSUME NEW i \in DOMAIN v PROVE f[buf] < f[v[i]]
        <5>1. CASE i = Len(w) + 1
          BY <3>14, <3>17, <4>1, <5>1
        <5>2. CASE i \in 1 .. Len(w)
          <6>1. g[buf] < g[w[i]] /\ f[v[i]] = g[w[i]]
            BY <3>5, <3>8, <4>2, <5>2
          <6> QED
            BY <4>1, <6>1
        <5> QED
          BY <3>19, <5>1, <5>2
      <4> QED
        BY <4>1, <4>3, <3>14
    <3>12. last[d] <= shot[d] + 1
      BY <1>1, <3>2
    <3> QED
      BY <2>2, <3>1, <3>7, <3>9, <3>10, <3>11, <3>12 DEF f
  <2> QED
    BY SMTT(30), <2>1, <2>2
<1> QED
  BY <1>8, <1>9, <1>10, <1>11, <1>13, <1>14 DEF IInv

\* A failed read is of no consequence for the buffers.
LEMMA FaultOnly ==
  ASSUME IInv, UNCHANGED <<name, plugged, shot, last, lost, hVideoDev, mapped, block, ending, h>>,
         NEW d \in Devices, NEW v \in BOOLEAN, driver' = [driver EXCEPT ![d].fault = v],
         \E k \in Slots : hVideoDev[k].fd = 1 /\ hVideoDev[k].devName = d,
         \/ pc' = pc /\ buf' = buf /\ acquired' = acquired
         \/ pc = "dequeue" /\ pc' = "copy" /\ buf' = 0 /\ acquired' = FALSE
  PROVE  IInv'
<1>1. \A n \in Devices : /\ driver'[n].on = driver[n].on /\ driver'[n].queue = driver[n].queue
                         /\ driver'[n].done = driver[n].done /\ driver'[n].frame = driver[n].frame
  BY DEF IInv, TypeOK, DriverType
<1>2. driver' \in [Devices -> DriverType]
  BY ZenonT(40) DEF IInv, TypeOK, DriverType
<1>3. buf' \in 0 .. NumBuffers /\ acquired' \in BOOLEAN
  <2>1. acquired \in BOOLEAN
    BY DEF IInv, TypeOK
  <2>2. acquired' \in BOOLEAN
    BY <2>1
  <2>3. buf \in 0 .. NumBuffers /\ 0 \in 0 .. NumBuffers
    BY V4l2CaptureAssumption DEF IInv, TypeOK
  <2> QED
    BY <2>2, <2>3
<1>4. TypeOK'
  BY <1>2, <1>3 DEF IInv, TypeOK
<1>5. SlotsInv'
  BY DEF IInv, SlotsInv
<1>6. CurrentInv'
  BY DEF IInv, CurrentInv, Opening, Reading
<1>7. BlocksInv'
  BY DEF IInv, BlocksInv
<1>8. OwnedInv'
  <2> SUFFICES ASSUME NEW n \in Devices
               PROVE  \/ mapped[n] = {} /\ driver'[n] = Released /\ lost[n] = {}
                      \/ \E k \in Slots : hVideoDev[k].fd = 1 /\ hVideoDev[k].devName = n
                                          /\ mapped[n] \subseteq hVideoDev[k].frm
    BY DEF OwnedInv
  <2>1. CASE n = d
    BY <2>1 DEF IInv, OwnedInv
  <2>2. CASE n # d
    <3>1. driver'[n] = driver[n]
      BY <2>2 DEF IInv, TypeOK
    <3> QED
      BY <3>1 DEF IInv, OwnedInv
  <2> QED
    BY <2>1, <2>2
<1>9. \A k \in Slots : hVideoDev[k].fd # 0 \/ hVideoDev[k].started => hVideoDev[k].devName \in Devices
  BY DEF IInv, SlotsInv
<1>10. StartInv'
  <2> SUFFICES ASSUME NEW k \in Slots, hVideoDev[k].fd = 1
               PROVE  LET e == driver'[hVideoDev[k].devName]
                      IN /\ e.on <=> hVideoDev[k].started
                         /\ ~e.on => /\ e.done = <<>> /\ lost[hVideoDev[k].devName] = {}
                                     /\ IF pc' = "queue" /\ k = h
                                        THEN e.queue = [i \in 1 .. buf' |-> i - 1]
                                        ELSE pc' \in {"cleanup", "exited"} \/ e.queue = <<>>
    BY DEF StartInv
  <2>1. hVideoDev[k].devName \in Devices
    BY <1>9
  <2>2. CASE pc' = pc /\ buf' = buf
    BY <1>1, <2>1, <2>2 DEF IInv, StartInv
  <2>3. CASE pc = "dequeue" /\ pc' = "copy"
    BY <1>1, <2>1, <2>3 DEF IInv, StartInv
  <2> QED
    BY <2>2, <2>3
<1>11. \A n : /\ HandSet(n)' = HandSet(n) /\ (InHand(n)' <=> InHand(n))
              /\ InHand(n) => buf' = buf /\ pc' = pc
  BY DEF HandSet, InHand, devName
<1>12. ConservedInv'
  <2> SUFFICES ASSUME NEW k \in Slots, hVideoDev[k].started
               PROVE  LET s == hVideoDev[k]  n == s.devName  e == driver'[n]
                      IN /\ Distinct(e.queue, e.done)
                         /\ Elements(e.queue, e.done) \cup HandSet(n) = (0 .. s.count - 1) \ lost[n]
                         /\ InHand(n) => buf' \notin Elements(e.queue, e.done)
    BY <1>11 DEF ConservedInv
  <2> DEFINE n == hVideoDev[k].devName
  <2>1. n \in Devices /\ driver'[n].queue = driver[n].queue /\ driver'[n].done = driver[n].done
    BY <1>1, <1>9
  <2>2. InHand(n) => buf' = buf
    BY <1>11
  <2> QED
    BY <2>1, <2>2 DEF IInv, ConservedInv
<1>13. FrameInv'
  BY <1>1, <1>11 DEF IInv, FrameInv
<1> QED
  BY <1>4, <1>5, <1>6, <1>7, <1>8, <1>10, <1>12, <1>13 DEF IInv

\* A read is about to fail.
LEMMA FaultKeeps == ASSUME IInv, NEW d \in Devices, Fault(d) PROVE IInv'
<1>1. \E k \in Slots : hVideoDev[k].fd = 1 /\ hVideoDev[k].devName = d
  BY OnlyStartedRun DEF Fault
<1> QED
  BY <1>1, FaultOnly DEF Fault, env, hist

\* A read fails: the program has no buffer.
LEMMA DequeueFailsKeeps == ASSUME IInv, DequeueFails PROVE IInv'
<1>1. h \in Slots /\ hVideoDev[h].fd = 1 /\ devName \in Devices
  BY DEF DequeueFails, IInv, CurrentInv, SlotsInv, Opening, Reading, devName
<1>2. \E k \in Slots : hVideoDev[k].fd = 1 /\ hVideoDev[k].devName = devName
  BY <1>1 DEF devName
<1>3. /\ UNCHANGED <<name, plugged, shot, last, lost, hVideoDev, mapped, block, ending, h>>
      /\ driver' = [driver EXCEPT ![devName].fault = FALSE]
      /\ pc = "dequeue" /\ pc' = "copy" /\ buf' = 0 /\ acquired' = FALSE
  BY DEF DequeueFails, env, hist
<1> HIDE DEF devName
<1> QED
  BY <1>1, <1>2, <1>3, FaultOnly

\* A camera is unplugged: its buffers stay where they are.
LEMMA UnplugKeeps == ASSUME IInv, NEW d \in Devices, Unplug(d) PROVE IInv'
<1>0. /\ plugged' \subseteq plugged
      /\ UNCHANGED <<name, shot, hVideoDev, driver, mapped, block, ending, pc, h, buf, acquired, last, lost>>
  BY DEF Unplug, hist
<1>1. TypeOK'
  BY <1>0 DEF IInv, TypeOK
<1>2. SlotsInv' /\ CurrentInv' /\ OwnedInv' /\ BlocksInv'
  BY <1>0 DEF IInv, SlotsInv, CurrentInv, OwnedInv, BlocksInv
<1>3. \A n : HandSet(n)' = HandSet(n) /\ (InHand(n)' <=> InHand(n))
  BY <1>0 DEF HandSet, InHand, devName
<1>4. StartInv'
  BY <1>0 DEF IInv, StartInv
<1>5. ConservedInv'
  BY <1>0, <1>3 DEF IInv, ConservedInv
<1>6. FrameInv'
  BY <1>0, <1>3 DEF IInv, FrameInv
<1> QED
  BY <1>1, <1>2, <1>4, <1>5, <1>6 DEF IInv

-------------------------------------------------------------------------------
(***************************************************************************)
(* A device is initialized.                                                *)
(***************************************************************************)
\* Outside of a read the program has no buffer.
LEMMA NoHand ==
  ASSUME pc \notin {"copy", "requeue"}
  PROVE  \A n : HandSet(n) = {} /\ ~InHand(n)
BY DEF HandSet, InHand

\* A step of the initialization that changes the slot in use, and no driver: the
\* slot is not yet started, and is given what the call found out.
LEMMA SlotStep ==
  ASSUME IInv, UNCHANGED <<name, plugged, shot, last, lost, driver>>,
         pc \in {"idle", "request", "map"}, pc' \in {"open", "map"},
         h' \in Slots, NEW s \in SlotType, hVideoDev' = [hVideoDev EXCEPT ![h'] = s],
         ~hVideoDev[h'].started, ~s.started, s.fd # 0, s.devName \in Devices,
         \/ s.fd = hVideoDev[h'].fd /\ s.devName = hVideoDev[h'].devName
         \/ hVideoDev[h'].fd = 0 /\ s.fd = -1 /\ Handle(s.devName) = {}
  PROVE  SlotsInv' /\ StartInv' /\ ConservedInv' /\ FrameInv'
<1>1. /\ hVideoDev'[h'] = s /\ \A j \in Slots : j # h' => hVideoDev'[j] = hVideoDev[j]
  BY DEF IInv, TypeOK
<1>2. SlotsInv'
  <2>1. \A j \in Slots : j # h' /\ hVideoDev[j].fd # 0 => hVideoDev[j].devName # s.devName
    BY DEF IInv, SlotsInv, Handle
  <2>2. \A k \in Slots : hVideoDev'[k].fd = 0 => hVideoDev'[k] = Unused
    BY <1>1 DEF IInv, SlotsInv
  <2>3. \A k \in Slots : hVideoDev'[k].fd # 0 => hVideoDev'[k].devName \in Devices
    BY <1>1 DEF IInv, SlotsInv
  <2>4. \A j, k \in Slots :
          hVideoDev'[j].fd # 0 /\ hVideoDev'[k].fd # 0 /\ hVideoDev'[j].devName = hVideoDev'[k].devName
            => j = k
    BY <1>1, <2>1 DEF IInv, SlotsInv
  <2>5. \A k \in Slots : hVideoDev'[k].started => hVideoDev'[k].fd = 1 /\ hVideoDev'[k].count >= 2
    BY <1>1 DEF IInv, SlotsInv
  <2> QED
    BY <2>2, <2>3, <2>4, <2>5 DEF SlotsInv
<1>3. StartInv'
  <2> SUFFICES ASSUME NEW k \in Slots, hVideoDev'[k].fd = 1
               PROVE  LET d == driver[hVideoDev'[k].devName]
                      IN /\ d.on <=> hVideoDev'[k].started
                         /\ ~d.on => /\ d.done = <<>> /\ d.queue = <<>>
                                     /\ lost[hVideoDev'[k].devName] = {}
    BY DEF StartInv
  <2>1. /\ hVideoDev[k].fd = 1 /\ hVideoDev'[k].devName = hVideoDev[k].devName
        /\ hVideoDev'[k].started <=> hVideoDev[k].started
    BY <1>1
  <2> QED
    BY <2>1 DEF IInv, StartInv
<1>4. ConservedInv'
  <2>1. \A k \in Slots : hVideoDev'[k].started => hVideoDev'[k] = hVideoDev[k]
    BY <1>1
  <2>2. \A n : HandSet(n) = {} /\ HandSet(n)' = {} /\ ~InHand(n)'
    BY DEF HandSet, InHand
  <2>3. \A k \in Slots :
          LET t == hVideoDev[k]  n == t.devName  d == driver[n]
          IN t.started =>
               /\ Distinct(d.queue, d.done)
               /\ Elements(d.queue, d.done) \cup {} = (0 .. t.count - 1) \ lost[n]
    BY <2>2 DEF IInv, ConservedInv
  <2> SUFFICES ASSUME NEW k \in Slots, hVideoDev'[k].started
               PROVE  LET t == hVideoDev'[k]  n == t.devName  d == driver[n]
                      IN /\ Distinct(d.queue, d.done)
                         /\ Elements(d.queue, d.done) \cup {} = (0 .. t.count - 1) \ lost[n]
    BY DEF ConservedInv, HandSet, InHand
  <2> QED
    BY <2>1, <2>3
<1>5. FrameInv'
  BY DEF IInv, FrameInv
<1> QED
  BY <1>2, <1>3, <1>4, <1>5

\* A device gets a slot of the table.
LEMMA VideoCaptureInitKeeps == ASSUME IInv, NEW b \in Blocks, VideoCaptureInit(b) PROVE IInv'
<1>0. PICK k \in Slots :
        /\ hVideoDev[k].fd = 0 /\ h' = k
        /\ hVideoDev' = [hVideoDev EXCEPT ![k] = [Unused EXCEPT !.devName = name[b], !.fd = -1]]
  BY DEF VideoCaptureInit, Free
<1>1. /\ pc = "idle" /\ pc' = "open" /\ Handle(name[b]) = {}
      /\ block' = [block EXCEPT ![b] = "ready"]
      /\ UNCHANGED <<name, plugged, shot, driver, mapped, ending, buf, acquired, last, lost>>
  BY DEF VideoCaptureInit, env, hist
<1> DEFINE s == [Unused EXCEPT !.devName = name[b], !.fd = -1]
<1>2. s \in SlotType /\ s.fd = -1 /\ s.devName = name[b] /\ ~s.started /\ name[b] \in Devices
  <2>1. name[b] \in Devices
    BY DEF IInv, TypeOK
  <2>2. s \in SlotType
    BY <2>1, ReleasedTyped DEF SlotType
  <2>3. s.fd = -1 /\ s.devName = name[b] /\ ~s.started
    BY DEF Unused
  <2> QED
    BY <2>1, <2>2, <2>3
<1>3. ~hVideoDev[k].started
  BY <1>0 DEF IInv, SlotsInv
<1>4. hVideoDev'[k] = s /\ \A j \in Slots : j # k => hVideoDev'[j] = hVideoDev[j]
  BY <1>0 DEF IInv, TypeOK
<1> HIDE DEF s
<1>5. hVideoDev' \in [Slots -> SlotType]
  BY <1>0, <1>2 DEF IInv, TypeOK, s
<1>6. h' \in 1 .. MaxDevices + 1
  BY <1>0, V4l2CaptureAssumption DEF Slots
<1>7. TypeOK'
  BY <1>1, <1>5, <1>6 DEF IInv, TypeOK
<1>8. hVideoDev' = [hVideoDev EXCEPT ![h'] = s]
  BY <1>0 DEF s
<1>9. SlotsInv' /\ StartInv' /\ ConservedInv' /\ FrameInv'
  <2>1. h' \in Slots /\ ~hVideoDev[h'].started /\ hVideoDev[h'].fd = 0
    BY <1>0, <1>3
  <2>2. s.fd = -1 /\ s.fd # 0 /\ Handle(s.devName) = {} /\ s.devName \in Devices
    BY <1>1, <1>2
  <2>3. pc \in {"idle", "request", "map"} /\ pc' \in {"open", "map"}
    BY <1>1
  <2> QED
    BY <1>1, <1>2, <1>8, <2>1, <2>2, <2>3, SlotStep
<1>10. CurrentInv'
  BY <1>0, <1>1, <1>2, <1>4 DEF IInv, CurrentInv, Opening, Reading
<1>11. OwnedInv'
  BY <1>0, <1>1, <1>4 DEF IInv, OwnedInv
<1>12. BlocksInv'
  <2> SUFFICES ASSUME NEW j \in Slots, hVideoDev'[j].fd # 0
               PROVE  \E c \in Blocks : name[c] = hVideoDev'[j].devName /\ block'[c] = "ready"
    BY <1>1 DEF BlocksInv
  <2>1. \A c \in Blocks : block[c] = "ready" \/ c = b => block'[c] = "ready"
    BY <1>1 DEF IInv, TypeOK
  <2>2. CASE j = k
    BY <1>2, <1>4, <2>1, <2>2
  <2>3. CASE j # k
    BY <1>1, <1>4, <2>1, <2>3 DEF IInv, BlocksInv
  <2> QED
    BY <2>2, <2>3
<1> QED
  BY <1>7, <1>9, <1>10, <1>11, <1>12 DEF IInv

\* What the steps that follow know of the slot in use.
LEMMA InOpening ==
  ASSUME IInv, pc \in Opening
  PROVE  /\ h \in Slots /\ devName \in Devices /\ ~hVideoDev[h].started
         /\ hVideoDev[h] \in SlotType /\ hVideoDev[h].devName = devName
         /\ hVideoDev[h].fd = IF pc = "open" THEN -1 ELSE 1
         /\ \A k \in Slots : k # h /\ hVideoDev[k].fd # 0 => hVideoDev[k].started
<1>1. h \in Slots /\ hVideoDev[h].fd # 0
  BY DEF IInv, CurrentInv
<1>2. hVideoDev[h] \in SlotType /\ devName \in Devices
  BY <1>1 DEF IInv, TypeOK, SlotsInv, devName
<1>3. hVideoDev[h].fd = IF pc = "open" THEN -1 ELSE 1
  BY DEF IInv, CurrentInv, Opening
<1>4. ~hVideoDev[h].started
  BY <1>1, <1>3 DEF IInv, CurrentInv, SlotsInv, Opening
<1>5. \A k \in Slots : k # h /\ hVideoDev[k].fd # 0 => hVideoDev[k].started
  BY DEF IInv, CurrentInv, Opening
<1> QED
  BY <1>1, <1>2, <1>3, <1>4, <1>5 DEF devName

\* The driver grants its buffers.
LEMMA InitMmapKeeps == ASSUME IInv, InitMmap PROVE IInv'
<1>0. /\ pc = "request" /\ pc' = "map" /\ buf' = 0
      /\ UNCHANGED <<name, plugged, shot, driver, mapped, block, ending, h, acquired, last, lost>>
  BY DEF InitMmap, env, hist
<1>1. PICK c \in Grants : c >= 2 /\ hVideoDev' = [hVideoDev EXCEPT ![h].count = c]
  BY DEF InitMmap
<1>2. /\ h \in Slots /\ ~hVideoDev[h].started /\ hVideoDev[h] \in SlotType
      /\ hVideoDev[h].fd = 1 /\ hVideoDev[h].devName \in Devices
      /\ \A k \in Slots : k # h /\ hVideoDev[k].fd # 0 => hVideoDev[k].started
  BY <1>0, InOpening DEF Opening
<1> DEFINE s == [hVideoDev[h] EXCEPT !.count = c]
<1>3. c \in 0 .. NumBuffers
  BY V4l2CaptureAssumption
<1>4. /\ s \in SlotType /\ s.fd = 1 /\ s.devName = hVideoDev[h].devName /\ s.count = c
      /\ s.started = hVideoDev[h].started /\ s.frm = hVideoDev[h].frm
  BY <1>2, <1>3 DEF SlotType
<1>5. hVideoDev' = [hVideoDev EXCEPT ![h'] = s]
  BY <1>0, <1>1 DEF IInv, TypeOK
<1>6. hVideoDev'[h] = s /\ \A j \in Slots : j # h => hVideoDev'[j] = hVideoDev[j]
  BY <1>0, <1>2, <1>5 DEF IInv, TypeOK
<1> HIDE DEF s
<1>7. hVideoDev' \in [Slots -> SlotType]
  BY <1>4, <1>5 DEF IInv, TypeOK
<1>8. TypeOK'
  BY <1>0, <1>7, V4l2CaptureAssumption DEF IInv, TypeOK
<1>9. SlotsInv' /\ StartInv' /\ ConservedInv' /\ FrameInv'
  <2>1. /\ h' \in Slots /\ ~hVideoDev[h'].started /\ s.fd = hVideoDev[h'].fd
        /\ s.devName = hVideoDev[h'].devName
    BY <1>0, <1>2, <1>4
  <2>2. ~s.started /\ s.fd # 0 /\ s.devName \in Devices
    BY <1>2, <1>4
  <2>3. pc \in {"idle", "request", "map"} /\ pc' \in {"open", "map"}
    BY <1>0
  <2>4. UNCHANGED <<name, plugged, shot, last, lost, driver>> /\ s \in SlotType
    BY <1>0, <1>4
  <2> QED
    BY <1>5, <2>1, <2>2, <2>3, <2>4, SlotStep
<1>10. CurrentInv'
  <2>1. 0 <= c
    BY <1>3
  <2> QED
    BY <1>0, <1>1, <1>2, <1>4, <1>6, <2>1 DEF CurrentInv, Opening, Reading
<1>11. OwnedInv'
  <2>1. \A k \in Slots : /\ hVideoDev'[k].fd = hVideoDev[k].fd /\ hVideoDev'[k].frm = hVideoDev[k].frm
                         /\ hVideoDev'[k].devName = hVideoDev[k].devName
    BY <1>2, <1>4, <1>6
  <2> QED
    BY <1>0, <2>1 DEF IInv, OwnedInv
<1>12. BlocksInv'
  <2>1. \A k \in Slots : hVideoDev'[k].fd = hVideoDev[k].fd /\ hVideoDev'[k].devName = hVideoDev[k].devName
    BY <1>2, <1>4, <1>6
  <2> QED
    BY <1>0, <2>1 DEF IInv, BlocksInv
<1> QED
  BY <1>8, <1>9, <1>10, <1>11, <1>12 DEF IInv

\* A buffer is mapped: it is one of its slot's.
LEMMA MapBufferKeeps == ASSUME IInv, MapBuffer PROVE IInv'
<1>0. /\ pc = "map" /\ pc' = "map" /\ buf < hVideoDev[h].count /\ buf' = buf + 1
      /\ hVideoDev' = [hVideoDev EXCEPT ![h].frm = @ \cup {buf}]
      /\ mapped' = [mapped EXCEPT ![devName] = @ \cup {buf}]
      /\ UNCHANGED <<name, plugged, shot, driver, block, ending, h, acquired, last, lost>>
  BY DEF MapBuffer, More, env, hist
<1>1. /\ h \in Slots /\ ~hVideoDev[h].started /\ hVideoDev[h] \in SlotType
      /\ hVideoDev[h].fd = 1 /\ hVideoDev[h].devName = devName /\ devName \in Devices
      /\ \A k \in Slots : k # h /\ hVideoDev[k].fd # 0 => hVideoDev[k].started
  BY <1>0, InOpening DEF Opening
<1>2. hVideoDev[h].count \in 0 .. NumBuffers /\ hVideoDev[h].frm \subseteq Buffers
  BY <1>1 DEF SlotType
<1>3. buf \in Nat /\ buf \in Buffers /\ buf + 1 \in 0 .. NumBuffers
  BY <1>0, <1>2, V4l2CaptureAssumption DEF IInv, TypeOK, Buffers
<1> DEFINE s == [hVideoDev[h] EXCEPT !.frm = @ \cup {buf}]
           d == devName
<1>4. /\ s \in SlotType /\ s.fd = 1 /\ s.devName = hVideoDev[h].devName
      /\ s.started = hVideoDev[h].started /\ s.count = hVideoDev[h].count
      /\ s.frm = hVideoDev[h].frm \cup {buf}
  BY <1>1, <1>2, <1>3 DEF SlotType
<1>5. hVideoDev' = [hVideoDev EXCEPT ![h'] = s]
  BY <1>0 DEF IInv, TypeOK
<1>6. hVideoDev'[h] = s /\ \A j \in Slots : j # h => hVideoDev'[j] = hVideoDev[j]
  BY <1>0, <1>1, <1>5 DEF IInv, TypeOK
<1> HIDE DEF s
<1>7. hVideoDev' \in [Slots -> SlotType]
  BY <1>4, <1>5 DEF IInv, TypeOK
<1>8. /\ mapped' \in [Devices -> SUBSET Buffers] /\ mapped'[d] = mapped[d] \cup {buf}
      /\ \A n \in Devices : n # d => mapped'[n] = mapped[n]
  <2>1. mapped \in [Devices -> SUBSET Buffers]
    BY DEF IInv, TypeOK
  <2> HIDE DEF d
  <2>2. d \in Devices /\ mapped' = [mapped EXCEPT ![d] = @ \cup {buf}]
    BY <1>0, <1>1 DEF d
  <2> QED
    BY <1>3, <2>1, <2>2
<1>9. TypeOK'
  BY <1>0, <1>3, <1>7, <1>8 DEF IInv, TypeOK
<1>10. SlotsInv' /\ StartInv' /\ ConservedInv' /\ FrameInv'
  <2>1. /\ h' \in Slots /\ ~hVideoDev[h'].started /\ s.fd = hVideoDev[h'].fd
        /\ s.devName = hVideoDev[h'].devName
    BY <1>0, <1>1, <1>4
  <2>2. ~s.started /\ s.fd # 0 /\ s.devName \in Devices
    BY <1>1, <1>4
  <2>3. pc \in {"idle", "request", "map"} /\ pc' \in {"open", "map"}
    BY <1>0
  <2>4. UNCHANGED <<name, plugged, shot, last, lost, driver>> /\ s \in SlotType
    BY <1>0, <1>4
  <2> QED
    BY <1>5, <2>1, <2>2, <2>3, <2>4, SlotStep
<1>11. CurrentInv'
  <2>1. hVideoDev[h].count >= 2
    BY <1>0 DEF IInv, CurrentInv
  <2>2. buf + 1 <= hVideoDev[h].count
    BY <1>0, <1>2, <1>3
  <2> QED
    BY <1>0, <1>1, <1>4, <1>6, <2>1, <2>2 DEF CurrentInv, Opening, Reading
<1>12. \A k \in Slots : /\ hVideoDev'[k].fd = hVideoDev[k].fd /\ hVideoDev'[k].devName = hVideoDev[k].devName
                        /\ hVideoDev[k].frm \subseteq hVideoDev'[k].frm
  BY <1>1, <1>4, <1>6
<1>13. OwnedInv'
  <2> SUFFICES ASSUME NEW n \in Devices
               PROVE  \/ mapped'[n] = {} /\ driver[n] = Released /\ lost[n] = {}
                      \/ \E k \in Slots : hVideoDev'[k].fd = 1 /\ hVideoDev'[k].devName = n
                                          /\ mapped'[n] \subseteq hVideoDev'[k].frm
    BY <1>0 DEF OwnedInv
  <2>1. CASE n = d
    <3>1. mapped[d] \subseteq hVideoDev[h].frm
      <4>1. \A k \in Slots : hVideoDev[k].fd = 1 /\ hVideoDev[k].devName = d => k = h
        BY <1>1 DEF IInv, SlotsInv
      <4> QED
        BY <1>1, <4>1 DEF IInv, OwnedInv
    <3> QED
      BY <1>1, <1>4, <1>6, <1>8, <2>1, <3>1
  <2>2. CASE n # d
    <3>1. mapped'[n] = mapped[n]
      BY <1>8, <2>2
    <3>2. ASSUME NEW k \in Slots, hVideoDev[k].fd = 1, hVideoDev[k].devName = n,
                 mapped[n] \subseteq hVideoDev[k].frm
          PROVE  hVideoDev'[k].fd = 1 /\ hVideoDev'[k].devName = n /\ mapped'[n] \subseteq hVideoDev'[k].frm
      BY <1>12, <3>1, <3>2
    <3> QED
      BY <3>1, <3>2 DEF IInv, OwnedInv
  <2> QED
    BY <2>1, <2>2
<1>14. BlocksInv'
  BY <1>0, <1>12 DEF IInv, BlocksInv
<1> QED
  BY <1>9, <1>10, <1>11, <1>13, <1>14 DEF IInv

-------------------------------------------------------------------------------
(***************************************************************************)
(* Steps that change the driver of the slot in use.                        *)
(***************************************************************************)
\* Such a step has to answer for this one driver, and leaves the others alone.
LEMMA DriverStep ==
  ASSUME IInv, UNCHANGED <<name, plugged, shot, last, mapped, block, ending, h>>,
         h \in Slots, hVideoDev[h].fd # 0, NEW d \in Devices, hVideoDev[h].devName = d,
         NEW r \in DriverType, driver' = [driver EXCEPT ![d] = r],
         NEW s \in SlotType, hVideoDev' = [hVideoDev EXCEPT ![h] = s],
         s.devName = d, s.fd = 1, s.started => s.count >= 2, s.frm = hVideoDev[h].frm,
         NEW gone \in SUBSET Buffers, lost' = [lost EXCEPT ![d] = gone],
         pc \notin {"cleanup", "exited", "terminate"}, pc' \notin {"cleanup", "exited"},
         \* OwnedInv
         mapped[d] \subseteq s.frm,
         \* StartInv
         r.on <=> s.started,
         ~r.on => r.done = <<>> /\ gone = {},
         ~r.on /\ pc' = "queue" => r.queue = [i \in 1 .. buf' |-> i - 1],
         ~r.on /\ pc' # "queue" => r.queue = <<>>,
         \* ConservedInv
         s.started =>
           /\ Distinct(r.queue, r.done)
           /\ Elements(r.queue, r.done) \cup HandSet(d)' = (0 .. s.count - 1) \ gone
           /\ InHand(d)' => buf' \notin Elements(r.queue, r.done),
         \* FrameInv
         r.frame = driver[d].frame,
         \A i \in DOMAIN r.done : r.frame[r.done[i]] > last[d],
         \A i, j \in DOMAIN r.done : i < j => r.frame[r.done[i]] < r.frame[r.done[j]],
         pc' = "copy" /\ InHand(d)' =>
           /\ buf' \in Buffers /\ r.frame[buf'] > last[d]
           /\ \A i \in DOMAIN r.done : r.frame[buf'] < r.frame[r.done[i]]
  PROVE  /\ driver' \in [Devices -> DriverType] /\ hVideoDev' \in [Slots -> SlotType]
         /\ lost' \in [Devices -> SUBSET Buffers]
         /\ SlotsInv' /\ OwnedInv' /\ BlocksInv' /\ StartInv' /\ ConservedInv' /\ FrameInv'
<1>10. /\ lost' \in [Devices -> SUBSET Buffers] /\ lost'[d] = gone
       /\ \A n \in Devices : n # d => lost'[n] = lost[n]
  BY DEF IInv, TypeOK
<1>1. /\ driver'[d] = r /\ \A n \in Devices : n # d => driver'[n] = driver[n]
      /\ hVideoDev'[h] = s /\ \A k \in Slots : k # h => hVideoDev'[k] = hVideoDev[k]
      /\ driver' \in [Devices -> DriverType] /\ hVideoDev' \in [Slots -> SlotType]
  BY DEF IInv, TypeOK
<1>2. \A k \in Slots : k # h /\ (hVideoDev[k].fd # 0 \/ hVideoDev[k].started) =>
        hVideoDev[k].devName \in Devices /\ hVideoDev[k].devName # d
  BY DEF IInv, SlotsInv
<1>3. SlotsInv'
  <2>1. \A k \in Slots : hVideoDev'[k].fd = 0 => hVideoDev'[k] = Unused
    BY <1>1 DEF IInv, SlotsInv
  <2>2. \A k \in Slots : hVideoDev'[k].fd # 0 => hVideoDev'[k].devName \in Devices
    BY <1>1 DEF IInv, SlotsInv
  <2>3. \A j, k \in Slots :
          hVideoDev'[j].fd # 0 /\ hVideoDev'[k].fd # 0 /\ hVideoDev'[j].devName = hVideoDev'[k].devName
            => j = k
    BY <1>1, <1>2 DEF IInv, SlotsInv
  <2>4. \A k \in Slots : hVideoDev'[k].started => hVideoDev'[k].fd = 1 /\ hVideoDev'[k].count >= 2
    BY <1>1 DEF IInv, SlotsInv
  <2> QED
    BY <2>1, <2>2, <2>3, <2>4 DEF SlotsInv
<1>4. OwnedInv'
  <2> SUFFICES ASSUME NEW n \in Devices
               PROVE  \/ mapped[n] = {} /\ driver'[n] = Released /\ lost'[n] = {}
                      \/ \E k \in Slots : hVideoDev'[k].fd = 1 /\ hVideoDev'[k].devName = n
                                          /\ mapped[n] \subseteq hVideoDev'[k].frm
    BY DEF OwnedInv
  <2>1. CASE n = d
    BY <1>1, <2>1
  <2>2. CASE n # d
    BY <1>1, <1>10, <2>2 DEF IInv, OwnedInv
  <2> QED
    BY <2>1, <2>2
<1>5. BlocksInv'
  <2>1. \A k \in Slots : hVideoDev'[k].fd # 0 =>
          \E b \in Blocks : name[b] = hVideoDev'[k].devName /\ block[b] = "ready"
    BY <1>1 DEF IInv, BlocksInv
  <2> QED
    BY <2>1 DEF BlocksInv
<1>6. StartInv'
  <2> SUFFICES ASSUME NEW k \in Slots, hVideoDev'[k].fd = 1
               PROVE  LET e == driver'[hVideoDev'[k].devName]
                      IN /\ e.on <=> hVideoDev'[k].started
                         /\ ~e.on => /\ e.done = <<>> /\ lost'[hVideoDev'[k].devName] = {}
                                     /\ IF pc' = "queue" /\ k = h
                                        THEN e.queue = [i \in 1 .. buf' |-> i - 1]
                                        ELSE e.queue = <<>>
    BY DEF StartInv
  <2>1. CASE k = h
    BY <1>1, <1>10, <2>1
  <2>2. CASE k # h
    <3>1. /\ hVideoDev'[k] = hVideoDev[k] /\ hVideoDev[k].fd = 1
          /\ driver'[hVideoDev[k].devName] = driver[hVideoDev[k].devName]
          /\ lost'[hVideoDev[k].devName] = lost[hVideoDev[k].devName]
      BY <1>1, <1>2, <1>10, <2>2
    <3> DEFINE e == driver[hVideoDev[k].devName]
    <3>2. /\ e.on <=> hVideoDev[k].started
          /\ ~e.on => e.done = <<>> /\ e.queue = <<>> /\ lost[hVideoDev[k].devName] = {}
      BY <2>2, <3>1 DEF IInv, StartInv
    <3> HIDE DEF e
    <3> QED
      BY <2>2, <3>1, <3>2 DEF e
  <2> QED
    BY <2>1, <2>2
<1>7. \A n : n # d => /\ HandSet(n) = {} /\ HandSet(n)' = {}
                      /\ ~InHand(n) /\ ~InHand(n)'
  <2>1. devName = d /\ devName' = d
    BY <1>1 DEF devName
  <2> QED
    BY <2>1 DEF HandSet, InHand
<1>8. ConservedInv'
  <2> SUFFICES ASSUME NEW k \in Slots, NEW n, n = hVideoDev'[k].devName,
                      hVideoDev'[k].started
               PROVE  LET e == driver'[n]
                      IN /\ Distinct(e.queue, e.done)
                         /\ Elements(e.queue, e.done) \cup HandSet(n)'
                              = (0 .. hVideoDev'[k].count - 1) \ lost'[n]
                         /\ InHand(n)' => buf' \notin Elements(e.queue, e.done)
    BY DEF ConservedInv
  <2>1. CASE k = h
    <3>1. n = d /\ hVideoDev'[k] = s /\ driver'[n] = r /\ lost'[n] = gone
      BY SMTT(30), <1>1, <1>10, <2>1
    <3> QED
      BY <3>1
  <2>2. CASE k # h
    <3>1. /\ hVideoDev'[k] = hVideoDev[k] /\ n = hVideoDev[k].devName /\ n # d
          /\ driver'[n] = driver[n] /\ lost'[n] = lost[n]
      BY <1>1, <1>2, <1>10, <2>2
    <3>2. /\ HandSet(n)' = HandSet(n) /\ ~InHand(n)'
      BY <1>7, <3>1
    <3>3. hVideoDev[k].started
      BY <3>1
    <3>4. /\ Distinct(driver[n].queue, driver[n].done)
          /\ Elements(driver[n].queue, driver[n].done) \cup HandSet(n)
               = (0 .. hVideoDev[k].count - 1) \ lost[n]
      BY <3>1, <3>3 DEF IInv, ConservedInv
    <3> QED
      BY <3>1, <3>2, <3>4
  <2> QED
    BY <2>1, <2>2
<1>9. FrameInv'
  <2> SUFFICES ASSUME NEW n \in Devices
               PROVE  LET e == driver'[n]
                      IN /\ last[n] <= shot[n]
                         /\ \A b \in Buffers : e.frame[b] <= shot[n]
                         /\ \A i \in DOMAIN e.done : e.frame[e.done[i]] > last[n]
                         /\ \A i, j \in DOMAIN e.done : i < j => e.frame[e.done[i]] < e.frame[e.done[j]]
                         /\ pc' = "copy" /\ InHand(n)' =>
                              /\ buf' \in Buffers /\ e.frame[buf'] > last[n]
                              /\ \A i \in DOMAIN e.done : e.frame[buf'] < e.frame[e.done[i]]
    BY DEF FrameInv
  <2>1. CASE n = d
    <3>1. last[d] <= shot[d] /\ \A b \in Buffers : r.frame[b] <= shot[d]
      BY DEF IInv, FrameInv
    <3> QED
      BY <1>1, <2>1, <3>1
  <2>2. CASE n # d
    BY <1>1, <1>7, <2>2 DEF IInv, FrameInv
  <2> QED
    BY <2>1, <2>2
<1> QED
  BY <1>1, <1>3, <1>4, <1>5, <1>6, <1>8, <1>9, <1>10

\* A driver that is not started has its queue only.
LEMMA StillDriverStep ==
  ASSUME IInv, UNCHANGED <<name, plugged, shot, last, lost, mapped, block, ending, h>>,
         h \in Slots, hVideoDev[h].fd # 0, NEW d \in Devices, hVideoDev[h].devName = d,
         NEW r \in DriverType, driver' = [driver EXCEPT ![d] = r],
         NEW s \in SlotType, hVideoDev' = [hVideoDev EXCEPT ![h] = s],
         s.devName = d, s.fd = 1, ~s.started, s.frm = hVideoDev[h].frm,
         pc \in Opening, pc' \in Opening,
         mapped[d] \subseteq s.frm, ~r.on, r.done = <<>>, lost[d] = {}, r.frame = driver[d].frame,
         r.queue = IF pc' = "queue" THEN [i \in 1 .. buf' |-> i - 1] ELSE <<>>
  PROVE  /\ driver' \in [Devices -> DriverType] /\ hVideoDev' \in [Slots -> SlotType]
         /\ SlotsInv' /\ OwnedInv' /\ BlocksInv' /\ StartInv' /\ ConservedInv' /\ FrameInv'
<1>1. /\ \A i \in DOMAIN r.done : r.frame[r.done[i]] > last[d]
      /\ \A i, j \in DOMAIN r.done : i < j => r.frame[r.done[i]] < r.frame[r.done[j]]
  OBVIOUS
<1>2. /\ pc \notin {"cleanup", "exited", "terminate"} /\ pc' \notin {"cleanup", "exited"}
      /\ pc' # "copy"
  BY DEF Opening
<1>3. /\ s.started => s.count >= 2
      /\ r.on <=> s.started
      /\ ~r.on => r.done = <<>> /\ lost[d] = {}
  OBVIOUS
<1>5. lost' = [lost EXCEPT ![d] = lost[d]] /\ lost[d] \in SUBSET Buffers
  BY DEF IInv, TypeOK
<1>4. /\ ~r.on /\ pc' = "queue" => r.queue = [i \in 1 .. buf' |-> i - 1]
      /\ ~r.on /\ pc' # "queue" => r.queue = <<>>
  OBVIOUS
<1> QED
  BY <1>1, <1>2, <1>3, <1>4, <1>5, DriverStep

\* Before its device is started, a slot's driver is not on, and has no frame.
LEMMA NotStarted ==
  ASSUME IInv, pc \in {"request", "map", "queue"}
  PROVE  /\ ~driver[devName].on /\ driver[devName].done = <<>> /\ lost[devName] = {}
         /\ pc = "queue" => driver[devName].queue = [i \in 1 .. buf |-> i - 1]
         /\ mapped[devName] \subseteq hVideoDev[h].frm
<1>1. /\ h \in Slots /\ hVideoDev[h].fd = 1 /\ ~hVideoDev[h].started /\ hVideoDev[h].devName = devName
      /\ devName \in Devices
  BY InOpening DEF Opening
<1>2. ~driver[devName].on /\ driver[devName].done = <<>> /\ lost[devName] = {}
  BY <1>1 DEF IInv, StartInv
<1>3. pc = "queue" => driver[devName].queue = [i \in 1 .. buf |-> i - 1]
  BY <1>1, <1>2 DEF IInv, StartInv
<1>4. mapped[devName] \subseteq hVideoDev[h].frm
  <2>1. \A k \in Slots : hVideoDev[k].fd = 1 /\ hVideoDev[k].devName = devName => k = h
    BY <1>1 DEF IInv, SlotsInv
  <2> QED
    BY <1>1, <2>1 DEF IInv, OwnedInv
<1> QED
  BY <1>2, <1>3, <1>4

\* A device is opened: nothing of it was in use.
LEMMA OpenV4L2DeviceKeeps == ASSUME IInv, OpenV4L2Device PROVE IInv'
<1>0. /\ pc = "open" /\ pc' = "request"
      /\ hVideoDev' = [hVideoDev EXCEPT ![h].fd = 1]
      /\ driver' = [driver EXCEPT ![devName].open = TRUE]
      /\ UNCHANGED <<name, plugged, shot, mapped, block, ending, h, buf, acquired, last, lost>>
  BY DEF OpenV4L2Device, env, hist
<1>1. /\ h \in Slots /\ ~hVideoDev[h].started /\ hVideoDev[h] \in SlotType
      /\ hVideoDev[h].fd = -1 /\ hVideoDev[h].devName = devName /\ devName \in Devices
      /\ \A k \in Slots : k # h /\ hVideoDev[k].fd # 0 => hVideoDev[k].started
  BY <1>0, InOpening DEF Opening
<1> DEFINE d == devName
           s == [hVideoDev[h] EXCEPT !.fd = 1]
           r == [driver[d] EXCEPT !.open = TRUE]
<1>2. mapped[d] = {} /\ driver[d] = Released /\ lost[d] = {}
  <2>1. \A k \in Slots : hVideoDev[k].fd = 1 => hVideoDev[k].devName # d
    BY <1>1 DEF IInv, SlotsInv
  <2> QED
    BY <1>1, <2>1 DEF IInv, OwnedInv
<1>3. r \in DriverType /\ r.on = FALSE /\ r.done = <<>> /\ r.queue = <<>> /\ r.frame = driver[d].frame
  <2>1. driver[d] \in DriverType
    BY <1>1 DEF IInv, TypeOK
  <2>2. driver[d].on = FALSE /\ driver[d].done = <<>> /\ driver[d].queue = <<>>
    BY <1>2 DEF Released
  <2> QED
    BY <2>1, <2>2 DEF DriverType
<1>4. /\ s \in SlotType /\ s.fd = 1 /\ s.devName = d /\ ~s.started /\ s.frm = hVideoDev[h].frm
  BY <1>1 DEF SlotType
<1>5. hVideoDev' = [hVideoDev EXCEPT ![h] = s] /\ driver' = [driver EXCEPT ![d] = r]
  BY <1>0 DEF IInv, TypeOK
<1>6. hVideoDev'[h] = s /\ \A k \in Slots : k # h => hVideoDev'[k] = hVideoDev[k]
  BY <1>1, <1>5 DEF IInv, TypeOK
<1>7. hVideoDev[h].fd # 0 /\ hVideoDev[h].devName = d /\ mapped[d] \subseteq s.frm /\ d \in Devices
  BY <1>1, <1>2
<1> HIDE DEF d, s, r
<1>9. /\ driver' \in [Devices -> DriverType] /\ hVideoDev' \in [Slots -> SlotType]
      /\ SlotsInv' /\ OwnedInv' /\ BlocksInv' /\ StartInv' /\ ConservedInv' /\ FrameInv'
  <2>1. r.queue = IF pc' = "queue" THEN [i \in 1 .. buf' |-> i - 1] ELSE <<>>
    BY <1>0, <1>3
  <2>2. ~r.on /\ pc \in Opening /\ pc' \in Opening
    BY <1>0, <1>3 DEF Opening
  <2>3. UNCHANGED <<name, plugged, shot, last, lost, mapped, block, ending, h>>
    BY <1>0
  <2> QED
    BY <1>1, <1>2, <1>3, <1>4, <1>5, <1>7, <2>1, <2>2, <2>3, StillDriverStep
<1>10. TypeOK'
  BY <1>0, <1>9 DEF IInv, TypeOK
<1>11. CurrentInv'
  BY <1>0, <1>1, <1>4, <1>6 DEF CurrentInv, Opening, Reading
<1> QED
  BY <1>9, <1>10, <1>11 DEF IInv

\* A buffer is queued, after those with smaller indices.
LEMMA QueueBufferKeeps == ASSUME IInv, QueueBuffer PROVE IInv'
<1>0. /\ pc = "queue" /\ pc' = "queue" /\ buf < hVideoDev[h].count /\ buf' = buf + 1
      /\ driver' = [driver EXCEPT ![devName].queue = Append(@, buf)]
      /\ UNCHANGED <<name, plugged, shot, hVideoDev, mapped, block, ending, h, acquired, last, lost>>
  BY DEF QueueBuffer, More, env, hist
<1>1. /\ h \in Slots /\ ~hVideoDev[h].started /\ hVideoDev[h] \in SlotType
      /\ hVideoDev[h].fd = 1 /\ hVideoDev[h].devName = devName /\ devName \in Devices
      /\ \A k \in Slots : k # h /\ hVideoDev[k].fd # 0 => hVideoDev[k].started
  BY <1>0, InOpening DEF Opening
<1>2. hVideoDev[h].count \in 0 .. NumBuffers
  BY <1>1 DEF SlotType
<1>3. buf \in Nat /\ buf \in Buffers /\ buf + 1 \in 0 .. NumBuffers
  BY <1>0, <1>2, V4l2CaptureAssumption DEF IInv, TypeOK, Buffers
<1> DEFINE d == devName
           s == hVideoDev[h]
           r == [driver[d] EXCEPT !.queue = Append(@, buf)]
<1>4. /\ ~driver[d].on /\ driver[d].done = <<>> /\ lost[d] = {} /\ mapped[d] \subseteq s.frm
      /\ driver[d].queue = [i \in 1 .. buf |-> i - 1] /\ driver[d].queue \in Seq(Buffers)
  BY <1>0, <1>1, NotStarted, Fields DEF IInv
<1>5. Append(driver[d].queue, buf) = [i \in 1 .. buf + 1 |-> i - 1]
  <2> DEFINE q == [i \in 1 .. buf |-> i - 1]
  <2>1. Len(q) = buf /\ q \in Seq(Nat)
    BY <1>3
  <2>2. Append(q, buf) = [i \in 1 .. buf + 1 |-> IF i = buf + 1 THEN buf ELSE q[i]]
    BY <1>3, <2>1
  <2>3. \A i \in 1 .. buf + 1 : (IF i = buf + 1 THEN buf ELSE q[i]) = i - 1
    BY <1>3
  <2> QED
    BY <1>4, <2>2, <2>3
<1>6. r \in DriverType /\ ~r.on /\ r.done = <<>> /\ r.queue = [i \in 1 .. buf + 1 |-> i - 1]
      /\ r.frame = driver[d].frame
  <2>1. driver[d] \in DriverType
    BY <1>1 DEF IInv, TypeOK
  <2>2. Append(driver[d].queue, buf) \in Seq(Buffers)
    BY <1>3, <1>4
  <2>3. r \in DriverType
    BY <2>1, <2>2 DEF DriverType
  <2>4. r.on = driver[d].on /\ r.done = driver[d].done /\ r.frame = driver[d].frame
        /\ r.queue = Append(driver[d].queue, buf)
    BY <2>1 DEF DriverType
  <2> HIDE DEF r
  <2> QED
    BY <1>4, <1>5, <2>3, <2>4
<1>7. hVideoDev' = [hVideoDev EXCEPT ![h] = s] /\ driver' = [driver EXCEPT ![d] = r]
  BY <1>0 DEF IInv, TypeOK
<1>9. s \in SlotType /\ s.fd = 1 /\ s.devName = d /\ ~s.started /\ d \in Devices /\ s.frm = hVideoDev[h].frm
      /\ hVideoDev[h].fd # 0 /\ hVideoDev[h].devName = d
  BY <1>1
<1> HIDE DEF d, s, r
<1>10. r.queue = IF pc' = "queue" THEN [i \in 1 .. buf' |-> i - 1] ELSE <<>>
  BY <1>0, <1>6
<1>11. /\ driver' \in [Devices -> DriverType] /\ hVideoDev' \in [Slots -> SlotType]
       /\ SlotsInv' /\ OwnedInv' /\ BlocksInv' /\ StartInv' /\ ConservedInv' /\ FrameInv'
  <2>1. pc \in Opening /\ pc' \in Opening
    BY <1>0 DEF Opening
  <2>2. UNCHANGED <<name, plugged, shot, last, lost, mapped, block, ending, h>>
    BY <1>0
  <2> QED
    BY <1>1, <1>4, <1>6, <1>7, <1>9, <1>10, <2>1, <2>2, StillDriverStep
<1>12. TypeOK'
  BY <1>0, <1>3, <1>11 DEF IInv, TypeOK
<1>13. CurrentInv'
  <2>1. buf + 1 <= hVideoDev[h].count /\ hVideoDev[h].count >= 2
    BY <1>0, <1>2, <1>3 DEF IInv, CurrentInv
  <2> QED
    BY <1>0, <1>1, <2>1 DEF CurrentInv, Opening, Reading
<1> QED
  BY <1>11, <1>12, <1>13 DEF IInv

\* The device is started, when all its buffers are queued.
LEMMA StreamOnKeeps == ASSUME IInv, StreamOn PROVE IInv'
<1>0. /\ pc = "queue" /\ pc' = "idle" /\ ~(buf < hVideoDev[h].count)
      /\ driver' = [driver EXCEPT ![devName].on = TRUE]
      /\ hVideoDev' = [hVideoDev EXCEPT ![h].started = TRUE]
      /\ UNCHANGED <<name, plugged, shot, mapped, block, ending, h, buf, acquired, last, lost>>
  BY DEF StreamOn, More, env, hist
<1>1. /\ h \in Slots /\ ~hVideoDev[h].started /\ hVideoDev[h] \in SlotType
      /\ hVideoDev[h].fd = 1 /\ hVideoDev[h].devName = devName /\ devName \in Devices
      /\ \A k \in Slots : k # h /\ hVideoDev[k].fd # 0 => hVideoDev[k].started
  BY <1>0, InOpening DEF Opening
<1>2. hVideoDev[h].count \in Nat /\ hVideoDev[h].count >= 2 /\ buf = hVideoDev[h].count
  <2>1. hVideoDev[h].count \in 0 .. NumBuffers
    BY <1>1 DEF SlotType
  <2>2. hVideoDev[h].count >= 2 /\ buf <= hVideoDev[h].count /\ buf \in Int
    BY <1>0, V4l2CaptureAssumption DEF IInv, CurrentInv, TypeOK
  <2> QED
    BY <1>0, <2>1, <2>2, V4l2CaptureAssumption
<1> PICK d \in Devices : d = devName
  BY <1>1
<1> DEFINE s == [hVideoDev[h] EXCEPT !.started = TRUE]
           r == [driver[d] EXCEPT !.on = TRUE]
           c == hVideoDev[h].count
<1>3. /\ driver[d].done = <<>> /\ lost[d] = {} /\ driver[d].queue = [i \in 1 .. c |-> i - 1]
      /\ mapped[d] \subseteq hVideoDev[h].frm
  BY <1>0, <1>2, NotStarted
<1>4. /\ r \in DriverType /\ r.on = TRUE /\ r.done = driver[d].done /\ r.queue = driver[d].queue
      /\ r.frame = driver[d].frame
  <2>1. driver[d] \in DriverType
    BY <1>1 DEF IInv, TypeOK
  <2> QED
    BY <2>1 DEF DriverType
<1>5. /\ s \in SlotType /\ s.fd = 1 /\ s.devName = d /\ s.started = TRUE /\ s.frm = hVideoDev[h].frm
      /\ s.count = c
  BY <1>1 DEF SlotType
<1>6. hVideoDev' = [hVideoDev EXCEPT ![h] = s] /\ driver' = [driver EXCEPT ![d] = r]
  BY <1>0 DEF IInv, TypeOK
<1>7. hVideoDev'[h] = s /\ \A k \in Slots : k # h => hVideoDev'[k] = hVideoDev[k]
  BY <1>1, <1>6 DEF IInv, TypeOK
<1>8. HandSet(d)' = {} /\ ~InHand(d)'
  BY <1>0 DEF HandSet, InHand
<1>9. h \in Slots /\ hVideoDev[h].fd # 0 /\ hVideoDev[h].devName = d /\ d \in Devices
  BY <1>1
<1> HIDE DEF s, r
<1>10. Distinct(r.queue, r.done) /\ Elements(r.queue, r.done) = 0 .. c - 1
  <2> DEFINE q == [i \in 1 .. c |-> i - 1]
  <2>1. c \in Nat /\ DOMAIN q = 1 .. c /\ \A i \in 1 .. c : q[i] = i - 1
    BY <1>2
  <2>2. q \in Seq(Nat) /\ Len(q) = c
    BY <2>1
  <2> HIDE DEF q, c
  <2>3. Distinct(q, <<>>)
    BY <2>1 DEF Distinct
  <2>4. Elements(q, <<>>) = 0 .. c - 1
    <3>1. \A x \in Elements(q, <<>>) : x \in 0 .. c - 1
      BY <2>1 DEF Elements
    <3>2. \A x \in 0 .. c - 1 : x + 1 \in 1 .. c /\ q[x + 1] = x
      BY <2>1
    <3>3. \A x \in 0 .. c - 1 : x \in Elements(q, <<>>)
      BY <2>1, <3>2 DEF Elements
    <3> QED
      BY <3>1, <3>3
  <2>5. r.queue = q /\ r.done = <<>>
    BY <1>3, <1>4 DEF q
  <2> QED
    BY <2>1, <2>2, <2>3, <2>4, <2>5
<1>11. s.started =>
         /\ Distinct(r.queue, r.done)
         /\ Elements(r.queue, r.done) \cup HandSet(d)' = (0 .. s.count - 1) \ {}
         /\ InHand(d)' => buf' \notin Elements(r.queue, r.done)
  <2>1. Elements(r.queue, r.done) \cup HandSet(d)' = (0 .. s.count - 1) \ {}
    BY <1>5, <1>8, <1>10
  <2> QED
    BY <1>8, <1>10, <2>1
<1>12. /\ \A i \in DOMAIN r.done : r.frame[r.done[i]] > last[d]
       /\ \A i, j \in DOMAIN r.done : i < j => r.frame[r.done[i]] < r.frame[r.done[j]]
  BY <1>3, <1>4
<1>13. /\ s.started => s.count >= 2
       /\ r.on <=> s.started
       /\ ~r.on => r.done = <<>> /\ {} = {}
       /\ ~r.on /\ pc' = "queue" => r.queue = [i \in 1 .. buf' |-> i - 1]
       /\ ~r.on /\ pc' # "queue" => r.queue = <<>>
       /\ mapped[d] \subseteq s.frm
  BY <1>2, <1>3, <1>4, <1>5
<1>14. /\ driver' \in [Devices -> DriverType] /\ hVideoDev' \in [Slots -> SlotType]
       /\ SlotsInv' /\ OwnedInv' /\ BlocksInv' /\ StartInv' /\ ConservedInv' /\ FrameInv'
  <2>1. /\ pc \notin {"cleanup", "exited", "terminate"} /\ pc' \notin {"cleanup", "exited"}
        /\ pc' # "copy" /\ UNCHANGED <<name, plugged, shot, last, lost, mapped, block, ending, h>>
    BY <1>0
  <2>2. r \in DriverType /\ s \in SlotType /\ s.devName = d /\ s.fd = 1
        /\ s.frm = hVideoDev[h].frm /\ r.frame = driver[d].frame
    BY <1>4, <1>5
  <2>3. {} \in SUBSET Buffers /\ lost' = [lost EXCEPT ![d] = {}]
    BY <1>0, <1>3, <1>9 DEF IInv, TypeOK
  <2> QED
    BY <1>6, <1>9, <1>11, <1>12, <1>13, <2>1, <2>2, <2>3, DriverStep
<1>15. TypeOK'
  BY <1>0, <1>14 DEF IInv, TypeOK
<1>16. CurrentInv'
  <2>1. \A k \in Slots : hVideoDev'[k].fd # 0 => hVideoDev'[k].started
    BY <1>1, <1>5, <1>7
  <2> QED
    BY <1>0, <2>1 DEF CurrentInv, Opening, Reading
<1> QED
  BY <1>14, <1>15, <1>16 DEF IInv

\* The oldest frame is taken: its buffer is in the program's hand.
LEMMA DequeueFrameKeeps == ASSUME IInv, DequeueFrame PROVE IInv'
<1>0. /\ pc = "dequeue" /\ pc' = "copy" /\ devName \in plugged /\ driver[devName].done # <<>>
      /\ buf' = Head(driver[devName].done) /\ acquired' = TRUE
      /\ driver' = [driver EXCEPT ![devName] = Taken(@)]
      /\ UNCHANGED <<name, plugged, shot, hVideoDev, mapped, block, ending, h, last, lost>>
  BY DEF DequeueFrame, env, hist
<1>1. /\ h \in Slots /\ hVideoDev[h].started /\ hVideoDev[h].fd = 1 /\ hVideoDev[h].count >= 2
      /\ hVideoDev[h] \in SlotType /\ hVideoDev[h].devName = devName /\ devName \in Devices
      /\ \A k \in Slots : hVideoDev[k].fd # 0 => hVideoDev[k].started
      /\ driver[devName] \in DriverType /\ driver[devName].on
      /\ mapped[devName] \subseteq hVideoDev[h].frm
  BY <1>0, InReading DEF Reading
<1> PICK d \in Devices : d = devName
  BY <1>1
<1> DEFINE s == hVideoDev[h]
           q == driver[d].queue
           w == driver[d].done
           g == driver[d].frame
           t == Tail(w)
           r == [driver[d] EXCEPT !.done = t]
<1>2. q \in Seq(Buffers) /\ w \in Seq(Buffers) /\ w # <<>> /\ g \in [Buffers -> Nat]
  BY <1>0, Fields DEF IInv
<1>3. HandSet(d) = {}
  BY <1>0 DEF HandSet, InHand
<1>4. Distinct(q, w) /\ Elements(q, w) = (0 .. s.count - 1) \ lost[d]
  BY <1>0, <1>1, <1>3 DEF IInv, ConservedInv
<1>5. /\ t \in Seq(Buffers) /\ buf' \in Buffers /\ Distinct(q, t)
      /\ Elements(q, t) \cup {buf'} = Elements(q, w) /\ buf' \notin Elements(q, t)
  <2> HIDE DEF q, w
  <2>1. buf' = Head(w)
    BY <1>0 DEF w
  <2> QED
    BY <1>2, <1>4, <2>1, TakenOut
<1>6. /\ r \in DriverType /\ r.on = driver[d].on /\ r.queue = q /\ r.done = t /\ r.frame = g
  BY <1>1, <1>5 DEF DriverType
<1>7. HandSet(d)' = {buf'}
  <2>1. InHand(d)'
    BY <1>0, <1>1 DEF InHand, devName
  <2> QED
    BY <2>1 DEF HandSet
<1>8. hVideoDev' = [hVideoDev EXCEPT ![h] = s] /\ driver' = [driver EXCEPT ![d] = r]
  BY <1>0 DEF IInv, TypeOK, Taken
<1>9. /\ \A i \in 1 .. Len(t) : i \in DOMAIN w /\ i + 1 \in DOMAIN w /\ 1 < i + 1 /\ t[i] = w[i + 1]
      /\ DOMAIN t = 1 .. Len(t) /\ 1 \in DOMAIN w /\ w[1] = buf'
  BY <1>0, <1>2, <1>5
<1>10. /\ \A i \in DOMAIN w : g[w[i]] > last[d] /\ g[w[i]] \in Nat
       /\ \A i, j \in DOMAIN w : i < j => g[w[i]] < g[w[j]]
  <2>1. \A i \in DOMAIN w : w[i] \in Buffers
    BY <1>2
  <2> QED
    BY <1>2, <2>1 DEF IInv, FrameInv
<1> HIDE DEF s, r, q, w, g, t
<1>11. /\ \A i \in DOMAIN t : g[t[i]] > last[d]
       /\ \A i, j \in DOMAIN t : i < j => g[t[i]] < g[t[j]]
       /\ g[buf'] > last[d] /\ \A i \in DOMAIN t : g[buf'] < g[t[i]]
  <2>1. \A i \in DOMAIN t : g[t[i]] > last[d]
    BY <1>9, <1>10
  <2>2. \A i, j \in DOMAIN t : i < j => g[t[i]] < g[t[j]]
    <3> SUFFICES ASSUME NEW i \in DOMAIN t, NEW j \in DOMAIN t, i < j PROVE g[t[i]] < g[t[j]]
      OBVIOUS
    <3>1. i \in Int /\ j \in Int /\ i + 1 \in DOMAIN w /\ j + 1 \in DOMAIN w /\ i + 1 < j + 1
      BY <1>9
    <3>2. g[w[i + 1]] < g[w[j + 1]]
      BY <1>10, <3>1
    <3> QED
      BY <1>9, <3>2
  <2>3. g[buf'] > last[d]
    BY <1>9, <1>10
  <2>4. \A i \in DOMAIN t : g[buf'] < g[t[i]]
    BY <1>9, <1>10
  <2> QED
    BY <2>1, <2>2, <2>3, <2>4
<1>12. s.started =>
         /\ Distinct(r.queue, r.done)
         /\ Elements(r.queue, r.done) \cup HandSet(d)' = (0 .. s.count - 1) \ lost[d]
         /\ InHand(d)' => buf' \notin Elements(r.queue, r.done)
  BY <1>4, <1>5, <1>6, <1>7
<1>13. /\ s.devName = d /\ s.fd = 1 /\ s.started /\ s.count >= 2 /\ s.frm = hVideoDev[h].frm
       /\ s \in SlotType /\ mapped[d] \subseteq s.frm /\ hVideoDev[h].fd # 0 /\ hVideoDev[h].devName = d
       /\ h \in Slots
  BY <1>1 DEF s
<1>14. r.on
  BY <1>1, <1>6
<1>15. /\ \A i \in DOMAIN r.done : r.frame[r.done[i]] > last[d]
       /\ \A i, j \in DOMAIN r.done : i < j => r.frame[r.done[i]] < r.frame[r.done[j]]
       /\ pc' = "copy" /\ InHand(d)' =>
           /\ buf' \in Buffers /\ r.frame[buf'] > last[d]
           /\ \A i \in DOMAIN r.done : r.frame[buf'] < r.frame[r.done[i]]
  BY <1>5, <1>6, <1>11
<1>16. /\ driver' \in [Devices -> DriverType] /\ hVideoDev' \in [Slots -> SlotType]
       /\ SlotsInv' /\ OwnedInv' /\ BlocksInv' /\ StartInv' /\ ConservedInv' /\ FrameInv'
  <2>1. /\ pc \notin {"cleanup", "exited", "terminate"} /\ pc' \notin {"cleanup", "exited"}
        /\ UNCHANGED <<name, plugged, shot, last, lost, mapped, block, ending, h>>
    BY <1>0
  <2>2. r \in DriverType /\ r.frame = driver[d].frame
    BY <1>6 DEF g
  <2>3. lost[d] \in SUBSET Buffers /\ lost' = [lost EXCEPT ![d] = lost[d]]
    BY <1>0 DEF IInv, TypeOK
  <2> QED
    BY <1>8, <1>12, <1>13, <1>14, <1>15, <2>1, <2>2, <2>3, DriverStep
<1>17. TypeOK'
  <2>1. buf' \in 0 .. NumBuffers
    BY <1>5, V4l2CaptureAssumption DEF Buffers
  <2> QED
    BY <1>0, <1>16, <2>1 DEF IInv, TypeOK
<1>18. CurrentInv'
  BY <1>0, <1>1 DEF CurrentInv, Opening, Reading
<1> QED
  BY <1>16, <1>17, <1>18 DEF IInv

\* The buffer goes back to the driver, which does not have it: the program held it, or
\* it was lost before.
LEMMA RequeueFrameKeeps == ASSUME IInv, RequeueFrame PROVE IInv'
<1>0. /\ pc = "requeue" /\ pc' = "idle" /\ devName \in plugged /\ buf \notin Held(devName)
      /\ driver' = [driver EXCEPT ![devName] = Returned(@)]
      /\ lost' = [lost EXCEPT ![devName] = @ \ {buf}]
      /\ UNCHANGED <<name, plugged, shot, hVideoDev, mapped, block, ending, h, buf, acquired, last>>
  BY DEF RequeueFrame, env
<1>1. /\ h \in Slots /\ hVideoDev[h].started /\ hVideoDev[h].fd = 1 /\ hVideoDev[h].count >= 2
      /\ hVideoDev[h] \in SlotType /\ hVideoDev[h].devName = devName /\ devName \in Devices
      /\ \A k \in Slots : hVideoDev[k].fd # 0 => hVideoDev[k].started
      /\ driver[devName] \in DriverType /\ driver[devName].on
      /\ mapped[devName] \subseteq hVideoDev[h].frm
  BY <1>0, InReading DEF Reading
<1> PICK d \in Devices : d = devName
  BY <1>1
<1> DEFINE s == hVideoDev[h]
           q == driver[d].queue
           w == driver[d].done
           v == Append(q, buf)
           r == [driver[d] EXCEPT !.queue = v]
<1>2. q \in Seq(Buffers) /\ w \in Seq(Buffers) /\ s.count \in 0 .. NumBuffers
  BY <1>1, Fields DEF IInv
<1>3. buf \notin Elements(q, w)
  BY <1>0 DEF Held, Elements
<1>4. /\ Distinct(q, w) /\ Elements(q, w) \cup HandSet(d) = (0 .. s.count - 1) \ lost[d]
  BY <1>0, <1>1 DEF IInv, ConservedInv
<1>5. buf \in 0 .. s.count - 1
  <2>1. CASE ~acquired
    BY <1>0, <1>1, <1>2, <2>1 DEF IInv, CurrentInv
  <2>2. CASE acquired
    <3>1. HandSet(d) = {buf}
      BY <1>0, <2>2 DEF HandSet, InHand
    <3> QED
      BY <1>4, <3>1
  <2> QED
    BY <2>1, <2>2
<1>6. Elements(q, w) \cup {buf} = (0 .. s.count - 1) \ (lost[d] \ {buf})
  <2>1. HandSet(d) = {} \/ HandSet(d) = {buf}
    BY DEF HandSet
  <2> HIDE DEF q, w, s
  <2> QED
    BY <1>3, <1>4, <1>5, <2>1
<1>7. buf \in Buffers
  BY <1>2, <1>5, V4l2CaptureAssumption DEF Buffers
<1>8. /\ v \in Seq(Buffers) /\ Distinct(v, w) /\ Elements(v, w) = Elements(q, w) \cup {buf}
  BY <1>2, <1>3, <1>4, <1>7, PutBack
<1>9. /\ r \in DriverType /\ r.on = driver[d].on /\ r.queue = v /\ r.done = w
      /\ r.frame = driver[d].frame
  BY <1>1, <1>8 DEF DriverType
<1>10. HandSet(d)' = {} /\ ~InHand(d)'
  BY <1>0 DEF HandSet, InHand
<1>11. hVideoDev' = [hVideoDev EXCEPT ![h] = s] /\ driver' = [driver EXCEPT ![d] = r]
  BY <1>0 DEF IInv, TypeOK, Returned
<1>12. /\ \A i \in DOMAIN w : driver[d].frame[w[i]] > last[d]
       /\ \A i, j \in DOMAIN w : i < j => driver[d].frame[w[i]] < driver[d].frame[w[j]]
  BY DEF IInv, FrameInv
<1>13. /\ \A i \in DOMAIN r.done : r.frame[r.done[i]] > last[d]
       /\ \A i, j \in DOMAIN r.done : i < j => r.frame[r.done[i]] < r.frame[r.done[j]]
  BY <1>9, <1>12
<1> HIDE DEF s, r, q, w, v
<1>14. s.started =>
         /\ Distinct(r.queue, r.done)
         /\ Elements(r.queue, r.done) \cup HandSet(d)' = (0 .. s.count - 1) \ (lost[d] \ {buf})
         /\ InHand(d)' => buf' \notin Elements(r.queue, r.done)
  BY <1>6, <1>8, <1>9, <1>10
<1>15. /\ s.devName = d /\ s.fd = 1 /\ s.started /\ s.count >= 2 /\ s.frm = hVideoDev[h].frm
       /\ s \in SlotType /\ mapped[d] \subseteq s.frm /\ hVideoDev[h].fd # 0 /\ hVideoDev[h].devName = d
       /\ h \in Slots
  BY <1>1 DEF s
<1>16. r.on
  BY <1>1, <1>9
<1>17. /\ driver' \in [Devices -> DriverType] /\ hVideoDev' \in [Slots -> SlotType]
       /\ SlotsInv' /\ OwnedInv' /\ BlocksInv' /\ StartInv' /\ ConservedInv' /\ FrameInv'
  <2>1. /\ pc \notin {"cleanup", "exited", "terminate"} /\ pc' \notin {"cleanup", "exited"}
        /\ pc' # "copy" /\ UNCHANGED <<name, plugged, shot, last, mapped, block, ending, h>>
    BY <1>0
  <2>2. r \in DriverType /\ r.frame = driver[d].frame
    BY <1>9
  <2>3. (lost[d] \ {buf}) \in SUBSET Buffers /\ lost' = [lost EXCEPT ![d] = lost[d] \ {buf}]
    BY <1>0 DEF IInv, TypeOK
  <2> QED
    BY <1>11, <1>13, <1>14, <1>15, <1>16, <2>1, <2>2, <2>3, DriverStep
<1>18. TypeOK'
  BY <1>0, <1>17 DEF IInv, TypeOK
<1>19. CurrentInv'
  BY <1>0, <1>1 DEF CurrentInv, Opening, Reading
<1> QED
  BY <1>17, <1>18, <1>19 DEF IInv

-------------------------------------------------------------------------------
(***************************************************************************)
(* A device is given back.                                                 *)
(***************************************************************************)
\* The device of an open slot is released, with all that was mapped of it; the
\* others stay as they are.
LEMMA Closed ==
  ASSUME IInv, TerminateDevice
  PROVE  /\ driver' \in [Devices -> DriverType] /\ mapped' \in [Devices -> SUBSET Buffers]
         /\ lost' \in [Devices -> SUBSET Buffers]
         /\ \A n \in Devices :
              \/ mapped'[n] = {} /\ driver'[n] = Released /\ lost'[n] = {}
              \/ /\ mapped'[n] = mapped[n] /\ driver'[n] = driver[n] /\ lost'[n] = lost[n]
                 /\ ~(hVideoDev[h].fd = 1 /\ hVideoDev[h].devName = n)
         /\ \A k \in Slots : k # h /\ hVideoDev[k].fd # 0 =>
              /\ driver'[hVideoDev[k].devName] = driver[hVideoDev[k].devName]
              /\ lost'[hVideoDev[k].devName] = lost[hVideoDev[k].devName]
<1>0. h \in Slots /\ hVideoDev[h].fd \in {-1, 0, 1}
  BY Fields DEF TerminateDevice, IInv
<1>1. CASE hVideoDev[h].fd = 1
  <2> DEFINE d == devName
  <2>1. /\ mapped' = [mapped EXCEPT ![d] = @ \ hVideoDev[h].frm]
        /\ driver' = [driver EXCEPT ![d] = Released] /\ lost' = [lost EXCEPT ![d] = {}] /\ d \in Devices
    BY <1>0, <1>1 DEF TerminateDevice, Open, IInv, SlotsInv, devName
  <2>2. \A k \in Slots : hVideoDev[k].fd # 0 /\ hVideoDev[k].devName = d => k = h
    BY <1>0, <1>1 DEF IInv, SlotsInv, devName
  <2>3. hVideoDev[h].devName = d
    BY DEF devName
  <2> HIDE DEF d
  <2>4. mapped[d] \subseteq hVideoDev[h].frm
    BY <2>1, <2>2 DEF IInv, OwnedInv
  <2>5. /\ driver' \in [Devices -> DriverType] /\ mapped' \in [Devices -> SUBSET Buffers]
        /\ lost' \in [Devices -> SUBSET Buffers]
        /\ mapped'[d] = {} /\ driver'[d] = Released /\ lost'[d] = {}
        /\ \A n \in Devices : n # d =>
             mapped'[n] = mapped[n] /\ driver'[n] = driver[n] /\ lost'[n] = lost[n]
    BY <2>1, <2>4, ReleasedTyped DEF IInv, TypeOK
  <2>6. \A k \in Slots : k # h /\ hVideoDev[k].fd # 0 =>
          hVideoDev[k].devName \in Devices /\ hVideoDev[k].devName # d
    BY <2>2 DEF IInv, SlotsInv
  <2> QED
    BY <2>3, <2>5, <2>6
<1>2. CASE hVideoDev[h].fd # 1
  <2>1. UNCHANGED <<mapped, driver, lost>>
    BY <1>0, <1>2 DEF TerminateDevice, Open
  <2> QED
    BY <1>2, <2>1 DEF IInv, TypeOK
<1> QED
  BY <1>1, <1>2

\* The slot is free, and what it had is given back.
LEMMA TerminateDeviceKeeps == ASSUME IInv, TerminateDevice PROVE IInv'
<1>0. /\ pc \in {"terminate", "cleanup"} /\ h \in Slots
      /\ hVideoDev' = [hVideoDev EXCEPT ![h] = Unused]
      /\ pc = "cleanup" => h' = h + 1 /\ pc' = "cleanup"
      /\ pc = "terminate" => h' = h /\ pc' = "idle"
      /\ UNCHANGED <<name, plugged, shot, block, ending, buf, acquired, last>>
  BY DEF TerminateDevice, env
<1>1. /\ hVideoDev' \in [Slots -> SlotType] /\ hVideoDev'[h] = Unused
      /\ \A k \in Slots : k # h => hVideoDev'[k] = hVideoDev[k]
  BY <1>0, ReleasedTyped DEF IInv, TypeOK
<1>2. hVideoDev'[h].fd = 0 /\ ~hVideoDev'[h].started
  BY <1>1 DEF Unused
<1>3. \A k \in Slots : hVideoDev'[k].fd # 0 \/ hVideoDev'[k].started =>
        k # h /\ hVideoDev'[k] = hVideoDev[k] /\ hVideoDev[k].fd # 0
  BY <1>1, <1>2 DEF IInv, SlotsInv
<1>4. /\ \A n \in Devices :
           \/ mapped'[n] = {} /\ driver'[n] = Released /\ lost'[n] = {}
           \/ /\ mapped'[n] = mapped[n] /\ driver'[n] = driver[n] /\ lost'[n] = lost[n]
              /\ ~(hVideoDev[h].fd = 1 /\ hVideoDev[h].devName = n)
      /\ \A k \in Slots : k # h /\ hVideoDev[k].fd # 0 =>
           /\ driver'[hVideoDev[k].devName] = driver[hVideoDev[k].devName]
           /\ lost'[hVideoDev[k].devName] = lost[hVideoDev[k].devName]
  BY Closed
<1>5. TypeOK'
  <2>1. h' \in 1 .. MaxDevices + 1
    BY <1>0, V4l2CaptureAssumption DEF Slots
  <2>2. pc' \in {"cleanup", "idle"}
    BY <1>0
  <2>3. /\ driver' \in [Devices -> DriverType] /\ mapped' \in [Devices -> SUBSET Buffers]
        /\ lost' \in [Devices -> SUBSET Buffers]
    BY Closed
  <2> QED
    BY <1>0, <1>1, <2>1, <2>2, <2>3 DEF IInv, TypeOK
<1>6. SlotsInv'
  BY <1>1, <1>2, <1>3 DEF IInv, SlotsInv
<1>7. CurrentInv'
  <2>1. CASE pc = "cleanup"
    BY <1>0, <2>1 DEF CurrentInv, Opening, Reading
  <2>2. CASE pc = "terminate"
    <3>1. \A k \in Slots : hVideoDev[k].fd # 0 => hVideoDev[k].started
      BY <2>2 DEF IInv, CurrentInv, Opening
    <3>2. \A k \in Slots : hVideoDev'[k].fd # 0 => hVideoDev'[k].started
      BY <1>3, <3>1
    <3> QED
      BY <1>0, <2>2, <3>2 DEF CurrentInv, Opening, Reading
  <2> QED
    BY <1>0, <2>1, <2>2
<1>8. OwnedInv'
  <2> SUFFICES ASSUME NEW n \in Devices, ~(mapped'[n] = {} /\ driver'[n] = Released /\ lost'[n] = {})
               PROVE  \E k \in Slots : hVideoDev'[k].fd = 1 /\ hVideoDev'[k].devName = n
                                       /\ mapped'[n] \subseteq hVideoDev'[k].frm
    BY DEF OwnedInv
  <2>1. /\ mapped'[n] = mapped[n] /\ driver'[n] = driver[n] /\ lost'[n] = lost[n]
        /\ ~(hVideoDev[h].fd = 1 /\ hVideoDev[h].devName = n)
    BY <1>4
  <2>2. PICK k \in Slots : hVideoDev[k].fd = 1 /\ hVideoDev[k].devName = n
                           /\ mapped[n] \subseteq hVideoDev[k].frm
    BY <2>1 DEF IInv, OwnedInv
  <2>3. hVideoDev'[k] = hVideoDev[k]
    BY <1>1, <2>1, <2>2
  <2> QED
    BY <2>1, <2>2, <2>3
<1>9. BlocksInv'
  <2>1. CASE pc = "cleanup"
    <3>1. \A k \in Slots : k < h => hVideoDev[k].fd = 0
      BY <2>1 DEF IInv, BlocksInv
    <3>2. \A k \in Slots : k < h + 1 => hVideoDev'[k].fd = 0
      BY <1>0, <1>1, <1>2, <3>1 DEF Slots
    <3> QED
      BY <1>0, <2>1, <3>2 DEF BlocksInv
  <2>2. CASE pc = "terminate"
    <3>1. \A k \in Slots : k # h /\ hVideoDev[k].fd # 0 =>
            \E b \in Blocks : name[b] = hVideoDev[k].devName /\ block[b] = "ready"
      BY <2>2 DEF IInv, BlocksInv
    <3> QED
      BY <1>0, <1>3, <2>2, <3>1 DEF BlocksInv
  <2> QED
    BY <1>0, <2>1, <2>2
<1>10. StartInv'
  <2> SUFFICES ASSUME NEW k \in Slots, hVideoDev'[k].fd = 1
               PROVE  LET e == driver'[hVideoDev'[k].devName]
                      IN /\ e.on <=> hVideoDev'[k].started
                         /\ ~e.on => /\ e.done = <<>> /\ lost'[hVideoDev'[k].devName] = {}
                                     /\ pc' = "cleanup" \/ e.queue = <<>>
    BY <1>0 DEF StartInv
  <2>1. /\ k # h /\ hVideoDev'[k] = hVideoDev[k] /\ hVideoDev[k].fd = 1
        /\ driver'[hVideoDev[k].devName] = driver[hVideoDev[k].devName]
        /\ lost'[hVideoDev[k].devName] = lost[hVideoDev[k].devName]
    BY <1>3, <1>4
  <2> DEFINE e == driver[hVideoDev[k].devName]
  <2>2. /\ e.on <=> hVideoDev[k].started
        /\ ~e.on => /\ e.done = <<>> /\ lost[hVideoDev[k].devName] = {}
                    /\ pc = "cleanup" \/ e.queue = <<>>
    BY <1>0, <2>1 DEF IInv, StartInv
  <2> HIDE DEF e
  <2> QED
    BY <1>0, <2>1, <2>2 DEF e
<1>11. ConservedInv'
  <2>1. \A n : HandSet(n) = {} /\ HandSet(n)' = {} /\ ~InHand(n)'
    BY <1>0 DEF HandSet, InHand
  <2> SUFFICES ASSUME NEW k \in Slots, NEW n, n = hVideoDev'[k].devName,
                      hVideoDev'[k].started
               PROVE  LET e == driver'[n]
                      IN /\ Distinct(e.queue, e.done)
                         /\ Elements(e.queue, e.done) \cup HandSet(n)'
                              = (0 .. hVideoDev'[k].count - 1) \ lost'[n]
                         /\ InHand(n)' => buf' \notin Elements(e.queue, e.done)
    BY <1>0 DEF ConservedInv
  <2>2. hVideoDev'[k] = hVideoDev[k] /\ driver'[n] = driver[n] /\ lost'[n] = lost[n]
    BY <1>3, <1>4
  <2>3. hVideoDev[k].started /\ n = hVideoDev[k].devName
    BY <2>2
  <2>4. /\ Distinct(driver[n].queue, driver[n].done)
        /\ Elements(driver[n].queue, driver[n].done) \cup HandSet(n)
             = (0 .. hVideoDev[k].count - 1) \ lost[n]
    BY <2>3 DEF IInv, ConservedInv
  <2>5. HandSet(n)' = HandSet(n) /\ ~InHand(n)'
    BY <2>1
  <2> QED
    BY <2>2, <2>4, <2>5
<1>12. FrameInv'
  <2> SUFFICES ASSUME NEW n \in Devices
               PROVE  LET e == driver'[n]
                      IN /\ last[n] <= shot[n]
                         /\ \A b \in Buffers : e.frame[b] <= shot[n]
                         /\ \A i \in DOMAIN e.done : e.frame[e.done[i]] > last[n]
                         /\ \A i, j \in DOMAIN e.done : i < j => e.frame[e.done[i]] < e.frame[e.done[j]]
    BY <1>0 DEF FrameInv
  <2>1. last[n] <= shot[n] /\ shot[n] \in Nat
    BY DEF IInv, FrameInv, TypeOK
  <2>2. CASE driver'[n] = driver[n]
    BY <2>2 DEF IInv, FrameInv
  <2>3. CASE driver'[n] = Released
    <3>1. driver'[n].done = <<>> /\ \A b \in Buffers : driver'[n].frame[b] = 0
      BY <2>3 DEF Released
    <3> QED
      BY <2>1, <3>1
  <2> QED
    BY <1>4, <2>2, <2>3
<1> QED
  BY <1>5, <1>6, <1>7, <1>8, <1>9, <1>10, <1>11, <1>12 DEF IInv

-------------------------------------------------------------------------------
(***************************************************************************)
(* The theorems.                                                           *)
(***************************************************************************)
\* Every step of the program, the driver and the camera keeps the invariant.
LEMMA NextIInv == IInv /\ [Next]_vars => IInv'
<1> SUFFICES ASSUME IInv, [Next]_vars PROVE IInv'
  OBVIOUS
<1>1. CASE UNCHANGED vars
  <2>1. UNCHANGED <<name, plugged, shot, hVideoDev, driver, mapped, block, ending, pc, h, buf,
                    acquired, last, lost>>
    BY <1>1 DEF vars, env, hist
  <2>2. \A n : HandSet(n)' = HandSet(n) /\ (InHand(n)' <=> InHand(n))
    BY <2>1 DEF HandSet, InHand, devName
  <2>3. TypeOK' /\ SlotsInv' /\ CurrentInv' /\ OwnedInv' /\ BlocksInv' /\ StartInv'
    <3>1. TypeOK'
      BY <2>1 DEF IInv, TypeOK
    <3>2. SlotsInv' /\ CurrentInv' /\ BlocksInv'
      BY <2>1 DEF IInv, SlotsInv, CurrentInv, BlocksInv
    <3>3. OwnedInv' /\ StartInv'
      BY <2>1 DEF IInv, OwnedInv, StartInv
    <3> QED
      BY <3>1, <3>2, <3>3
  <2>4. ConservedInv' /\ FrameInv'
    BY <2>1, <2>2 DEF IInv, ConservedInv, FrameInv
  <2> QED
    BY <2>3, <2>4 DEF IInv
<1>2. CASE Environment
  BY <1>2, CaptureKeeps, FaultKeeps, UnplugKeeps DEF Environment
<1>3. CASE \E b \in Blocks : VideoCaptureInit(b) \/ InitRefused(b) \/ VideoCaptureOutput(b)
                             \/ VideoCaptureTerminate(b)
  BY <1>3, VideoCaptureInitKeeps, ErrorsKeep, VideoCaptureOutputKeeps, VideoCaptureTerminateKeeps
<1>4. CASE OpenV4L2Device \/ InitMmap \/ MapBuffer \/ StartCapture \/ QueueBuffer \/ StreamOn
           \/ InitFails
  BY <1>4, OpenV4L2DeviceKeeps, InitMmapKeeps, MapBufferKeeps, StartCaptureKeeps, QueueBufferKeeps,
     StreamOnKeeps, ErrorsKeep
<1>5. CASE DequeueFrame \/ DequeueFails \/ CopyFrame \/ RequeueFrame \/ RequeueFails
  BY <1>5, DequeueFrameKeeps, DequeueFailsKeeps, CopyFrameKeeps, RequeueFrameKeeps, RequeueFailsKeeps
<1>6. CASE EndOfModel \/ StopFails \/ TerminateDevice \/ Exit
  BY <1>6, EndOfModelKeeps, ErrorsKeep, TerminateDeviceKeeps, ExitKeeps
<1> QED
  BY <1>1, <1>2, <1>3, <1>4, <1>5, <1>6 DEF Next, Program

\* The inductive invariant holds of the capture, whatever fails and whenever a
\* camera is unplugged.
THEOREM Invariance == Spec => []IInv
<1> QED
  BY InitIInv, NextIInv, PTL DEF Spec

\* The table, the driver's queues and the indices of buffers keep their types.
THEOREM TypeCorrect == Spec => []TypeOK
<1>1. IInv => TypeOK
  BY DEF IInv
<1> QED
  BY <1>1, Invariance, PTL

\* Between two reads the driver of a started device has each of its buffers once, queued
\* or filled, except those that readV4L2Frame failed to return: whatever else fails,
\* and whenever the camera goes, no other buffer is lost and none is queued twice.
THEOREM NoBufferLost == Spec => []BuffersConserved
<1>1. IInv => BuffersConserved
  <2> SUFFICES ASSUME IInv, pc = "idle", NEW k \in Slots, NEW n, n = hVideoDev[k].devName,
                      hVideoDev[k].started
               PROVE  /\ Held(n) = (0 .. hVideoDev[k].count - 1) \ lost[n]
                      /\ Len(driver[n].queue) + Len(driver[n].done) = Cardinality(Held(n))
    BY DEF BuffersConserved
  <2>1. HandSet(n) = {}
    BY DEF HandSet, InHand
  <2>2. /\ Distinct(driver[n].queue, driver[n].done)
        /\ Elements(driver[n].queue, driver[n].done) \cup {} = (0 .. hVideoDev[k].count - 1) \ lost[n]
    BY <2>1 DEF IInv, ConservedInv
  <2>3. driver[n].queue \in Seq(Buffers) /\ driver[n].done \in Seq(Buffers)
    <3>1. n \in Devices
      BY DEF IInv, SlotsInv
    <3> QED
      BY <3>1, Fields DEF IInv
  <2>4. Elements(driver[n].queue, driver[n].done) = Held(n)
    BY DEF Elements, Held
  <2>5. Cardinality(Elements(driver[n].queue, driver[n].done))
          = Len(driver[n].queue) + Len(driver[n].done)
    BY <2>2, <2>3, Counted
  <2> QED
    BY <2>2, <2>4, <2>5
<1> QED
  BY <1>1, Invariance, PTL

\* However the program ends, by the end of the model or by an error at any call,
\* every device has been stopped, unmapped and closed.
THEOREM GivenBack == Spec => []CleanEnd
<1>1. IInv => CleanEnd
  <2> SUFFICES ASSUME IInv, pc = "exited", NEW d \in Devices
               PROVE  mapped[d] = {} /\ ~driver[d].open /\ ~driver[d].on
    BY DEF CleanEnd
  <2>1. \A k \in Slots : hVideoDev[k].fd = 0
    BY DEF IInv, BlocksInv
  <2>2. mapped[d] = {} /\ driver[d] = Released
    BY <2>1 DEF IInv, OwnedInv
  <2> QED
    BY <2>2 DEF Released
<1> QED
  BY <1>1, Invariance, PTL

\* The frames of a device come in the order in which they were taken: the program
\* never copies from a buffer that the driver has filled again.
THEOREM OnlyNewerFrames == Spec => FramesInOrder
<1>1. IInv /\ [Next]_vars => [\A d \in Devices : last'[d] = last[d] \/ last'[d] > last[d]]_last
  <2> SUFFICES ASSUME IInv, [Next]_vars, last' # last, NEW d \in Devices
               PROVE  last'[d] = last[d] \/ last'[d] > last[d]
    BY SMTT(30)
  <2>1. CopyFrame
    BY DEF Next, Environment, Program, Capture, Fault, Unplug, VideoCaptureInit, InitRefused,
           VideoCaptureOutput, VideoCaptureTerminate, OpenV4L2Device, InitMmap, MapBuffer, StartCapture,
           QueueBuffer, StreamOn, InitFails, DequeueFrame, DequeueFails, RequeueFrame, RequeueFails,
           EndOfModel, StopFails, TerminateDevice, Exit, vars, hist
  <2>2. /\ pc = "copy"
        /\ last' = IF acquired THEN [last EXCEPT ![devName] = driver[devName].frame[buf]] ELSE last
    BY <2>1 DEF CopyFrame
  <2>3. last \in [Devices -> Nat]
    BY DEF IInv, TypeOK
  <2>4. CASE acquired /\ d = devName
    <3>1. last'[d] = driver[d].frame[buf]
      BY <2>2, <2>3, <2>4
    <3>2. InHand(d)
      BY <2>2, <2>4 DEF InHand
    <3> QED
      BY <2>2, <3>1, <3>2 DEF IInv, FrameInv
  <2>5. CASE ~(acquired /\ d = devName)
    BY <2>2, <2>3, <2>5
  <2> QED
    BY <2>4, <2>5
<1> QED
  BY <1>1, Invariance, PTL DEF Spec, FramesInOrder

-------------------------------------------------------------------------------
(***************************************************************************)
(* What a step makes of the frame's bytes.                                 *)
(***************************************************************************)
\* Bytes, and the chrominances as signed numbers.
Bytes == 0 .. 255
Signed == -128 .. 127

\* The subtraction of bytes, and what wraps round.
LEMMA InvertedByte ==
  ASSUME NEW c \in Bytes, NEW v \in Bytes
  PROVE  inverted(c, v) = Negative(c, v)
<1>1. CASE v <= c
  <2>1. (c - v) % 256 = c - v
    BY <1>1 DEF Bytes
  <2>2. QED
    BY <1>1, <2>1 DEF inverted, Negative, Bytes
<1>2. CASE c < v
  <2>1. (c - v) % 256 = c - v + 256
    BY <1>2 DEF Bytes
  <2>2. QED
    BY <1>2, <2>1 DEF inverted, Negative, Bytes
<1>3. QED
  BY <1>1, <1>2 DEF Bytes

\* A level near the formula has its negative near the formula's.
LEMMA NegativeNear ==
  ASSUME NEW c \in Bytes, NEW v \in Bytes, NEW f \in Int, Distance(100000 * v, f) < 200000
  PROVE  \E wrap \in {0, 256} :
           /\ Distance(100000 * Negative(c, v), 100000 * (c + wrap) - f) < 200000
           /\ c = 255 => wrap = 0
<1>1. CASE v <= c
  <2>1. Distance(100000 * Negative(c, v), 100000 * (c + 0) - f) < 200000
    BY <1>1 DEF Negative, Distance, Bytes
  <2>2. QED
    BY <2>1
<1>2. CASE c < v
  <2>1. Distance(100000 * Negative(c, v), 100000 * (c + 256) - f) < 200000 /\ c # 255
    BY <1>2 DEF Negative, Distance, Bytes
  <2>2. QED
    BY <2>1
<1>3. QED
  BY <1>1, <1>2 DEF Bytes

\* clamp gives a byte.
LEMMA ClampByte ==
  ASSUME NEW x \in Int
  PROVE  clamp(x) \in Bytes
BY DEF clamp, Bytes

\* Each channel is less than two levels from the formula.
LEMMA RedNear ==
  ASSUME NEW y \in Bytes, NEW Cr \in Signed
  PROVE  /\ Distance(100000 * clamp(y + (RCr * Cr) \div 256), Clip(100000 * y + 140200 * Cr)) < 200000
         /\ Cr = 0 => clamp(y + (RCr * Cr) \div 256) = y
<1>1. PICK q \in Int : q = (358 * Cr) \div 256
  BY DEF Signed
<1>2. 256 * q <= 358 * Cr /\ 358 * Cr < 256 * q + 256
  BY <1>1 DEF Signed
<1>3. Distance(100000 * clamp(y + q), Clip(100000 * y + 140200 * Cr)) < 200000
  BY <1>2 DEF Signed, Bytes, Distance, Clip, clamp
<1>4. Cr = 0 => clamp(y + q) = y
  BY <1>2 DEF Signed, Bytes, clamp
<1>5. QED
  BY <1>1, <1>3, <1>4 DEF RCr

LEMMA GreenNear ==
  ASSUME NEW y \in Bytes, NEW Cb \in Signed, NEW Cr \in Signed
  PROVE  /\ Distance(100000 * clamp(y - (GCb * Cb + GCr * Cr) \div 256),
                     Clip(100000 * y - 34414 * Cb - 71414 * Cr)) < 200000
         /\ Cb = 0 /\ Cr = 0 => clamp(y - (GCb * Cb + GCr * Cr) \div 256) = y
<1>1. PICK q \in Int : q = (88 * Cb + 182 * Cr) \div 256
  BY DEF Signed
<1>2. 256 * q <= 88 * Cb + 182 * Cr /\ 88 * Cb + 182 * Cr < 256 * q + 256
  BY <1>1 DEF Signed
<1>3. Distance(100000 * clamp(y - q), Clip(100000 * y - 34414 * Cb - 71414 * Cr)) < 200000
  BY <1>2 DEF Signed, Bytes, Distance, Clip, clamp
<1>4. Cb = 0 /\ Cr = 0 => clamp(y - q) = y
  BY <1>2 DEF Signed, Bytes, clamp
<1>5. QED
  BY <1>1, <1>3, <1>4 DEF GCb, GCr

LEMMA BlueNear ==
  ASSUME NEW y \in Bytes, NEW Cb \in Signed
  PROVE  /\ Distance(100000 * clamp(y + (BCb * Cb) \div 256), Clip(100000 * y + 177200 * Cb)) < 200000
         /\ Cb = 0 => clamp(y + (BCb * Cb) \div 256) = y
<1>1. PICK q \in Int : q = (452 * Cb) \div 256
  BY DEF Signed
<1>2. 256 * q <= 452 * Cb /\ 452 * Cb < 256 * q + 256
  BY <1>1 DEF Signed
<1>3. Distance(100000 * clamp(y + q), Clip(100000 * y + 177200 * Cb)) < 200000
  BY <1>2 DEF Signed, Bytes, Distance, Clip, clamp
<1>4. Cb = 0 => clamp(y + q) = y
  BY <1>2 DEF Signed, Bytes, clamp
<1>5. QED
  BY <1>1, <1>3, <1>4 DEF BCb

\* The three channels together.
LEMMA RgbNear ==
  ASSUME NEW y \in Bytes, NEW Cb \in Signed, NEW Cr \in Signed, NEW k \in 1 .. 3
  PROVE  /\ rgb(y, Cb, Cr)[k] \in Bytes
         /\ Formula(y, Cb, Cr)[k] \in Int
         /\ Distance(100000 * rgb(y, Cb, Cr)[k], Formula(y, Cb, Cr)[k]) < 200000
         /\ Cb = 0 /\ Cr = 0 => rgb(y, Cb, Cr)[k] = y
<1>1. CASE k = 1
  <2>1. rgb(y, Cb, Cr)[1] = clamp(y + (RCr * Cr) \div 256)
    BY DEF rgb
  <2>2. Formula(y, Cb, Cr)[1] = Clip(100000 * y + 140200 * Cr)
    BY DEF Formula
  <2>5. Clip(100000 * y + 140200 * Cr) \in Int
    BY DEF Clip, Signed, Bytes
  <2>3. y + (RCr * Cr) \div 256 \in Int
    BY DEF RCr, Signed, Bytes
  <2>4. QED
    BY <1>1, <2>1, <2>2, <2>3, <2>5, RedNear, ClampByte
<1>2. CASE k = 2
  <2>1. rgb(y, Cb, Cr)[2] = clamp(y - (GCb * Cb + GCr * Cr) \div 256)
    BY DEF rgb
  <2>2. Formula(y, Cb, Cr)[2] = Clip(100000 * y - 34414 * Cb - 71414 * Cr)
    BY DEF Formula
  <2>5. Clip(100000 * y - 34414 * Cb - 71414 * Cr) \in Int
    BY DEF Clip, Signed, Bytes
  <2>3. y - (GCb * Cb + GCr * Cr) \div 256 \in Int
    BY DEF GCb, GCr, Signed, Bytes
  <2>4. QED
    BY <1>2, <2>1, <2>2, <2>3, <2>5, GreenNear, ClampByte
<1>3. CASE k = 3
  <2>1. rgb(y, Cb, Cr)[3] = clamp(y + (BCb * Cb) \div 256)
    BY DEF rgb
  <2>2. Formula(y, Cb, Cr)[3] = Clip(100000 * y + 177200 * Cb)
    BY DEF Formula
  <2>5. Clip(100000 * y + 177200 * Cb) \in Int
    BY DEF Clip, Signed, Bytes
  <2>3. y + (BCb * Cb) \div 256 \in Int
    BY DEF BCb, Signed, Bytes
  <2>4. QED
    BY <1>3, <2>1, <2>2, <2>3, <2>5, BlueNear, ClampByte
<1>4. QED
  BY <1>1, <1>2, <1>3

\* The bytes of a pixel's group.
LEMMA GroupBytes ==
  ASSUME NEW frame \in Seq([1 .. 4 -> 0 .. 255]), NEW p \in Pixels(frame)
  PROVE  /\ (p + 1) \div 2 \in DOMAIN frame
         /\ Luminance(frame, p) \in Bytes
         /\ Group(frame, p)[2] \in Bytes /\ Group(frame, p)[4] \in Bytes
         /\ Group(frame, p)[2] - 128 \in Signed /\ Group(frame, p)[4] - 128 \in Signed
<1>1. p \in Nat /\ p >= 1 /\ p <= 2 * Len(frame) /\ Len(frame) \in Nat
  BY DEF Pixels
<1>2. PICK i \in Int : i = (p + 1) \div 2
  BY <1>1
<1>3. 2 * i <= p + 1 /\ p + 1 < 2 * i + 2
  BY <1>1, <1>2
<1>4. i >= 1 /\ i <= Len(frame)
  BY <1>1, <1>3
<1>5. i \in DOMAIN frame
  BY <1>4
<1>6. frame[i] \in [1 .. 4 -> 0 .. 255]
  BY <1>5
<1>7. frame[i][1] \in Bytes /\ frame[i][2] \in Bytes /\ frame[i][3] \in Bytes /\ frame[i][4] \in Bytes
  <2>1. \A g \in [1 .. 4 -> 0 .. 255] : \A j \in 1 .. 4 : g[j] \in 0 .. 255
    OBVIOUS
  <2>2. 1 \in 1 .. 4 /\ 2 \in 1 .. 4 /\ 3 \in 1 .. 4 /\ 4 \in 1 .. 4
    OBVIOUS
  <2>3. QED
    BY <1>6, <2>1, <2>2, ZenonT(40) DEF Bytes
<1>8. Group(frame, p) = frame[i]
  BY <1>2 DEF Group
<1>9. Luminance(frame, p) \in Bytes
  BY <1>7, <1>8 DEF Luminance
<1>10. frame[i][2] - 128 \in Signed /\ frame[i][4] - 128 \in Signed
  <2>1. \A v \in 0 .. 255 : v - 128 \in -128 .. 127
    OBVIOUS
  <2>2. QED
    BY <1>7, <2>1, ZenonT(40) DEF Bytes, Signed
<1>11. QED
  BY <1>2, <1>5, <1>7, <1>8, <1>9, <1>10

\* What a step shows of a pixel is the negative of what yuyv2rgb makes of it.
LEMMA RgbOfStep ==
  ASSUME NEW frame \in Seq([1 .. 4 -> 0 .. 255]), NEW c \in Bytes, NEW p \in Pixels(frame),
         NEW k \in 1 .. 3
  PROVE  ImageInversion_output(c, "RGB", frame)[k][p]
           = Negative(c, rgb(Luminance(frame, p), Group(frame, p)[2] - 128,
                             Group(frame, p)[4] - 128)[k])
<1> DEFINE o == yuyv2rgb(frame)
           v == rgb(Luminance(frame, p), Group(frame, p)[2] - 128, Group(frame, p)[4] - 128)[k]
<1>1. o[k][p] = v /\ DOMAIN o[k] = Pixels(frame)
  BY DEF yuyv2rgb
<1>2. Planes("RGB", frame) = o
  BY DEF Planes
<1>3. ImageInversion_output(c, "RGB", frame)[k][p] = inverted(c, v)
  BY <1>1, <1>2 DEF ImageInversion_output
<1>4. v \in Bytes
  BY GroupBytes, RgbNear
<1>5. QED
  BY <1>3, <1>4, InvertedByte

\* The same of the planes as YCbCr, which are not converted.
LEMMA YuvOfStep ==
  ASSUME NEW frame \in Seq([1 .. 4 -> 0 .. 255]), NEW c \in Bytes, NEW p \in Pixels(frame)
  PROVE  LET SumYuv == ImageInversion_output(c, "YCbCr", frame)
         IN  /\ SumYuv[1][p] = Negative(c, Luminance(frame, p))
             /\ SumYuv[2][(p + 1) \div 2] = Negative(c, Group(frame, p)[2])
             /\ SumYuv[3][(p + 1) \div 2] = Negative(c, Group(frame, p)[4])
<1> DEFINE o == yuyv2yuv(frame)
           i == (p + 1) \div 2
<1>1. Planes("YCbCr", frame) = o
  BY DEF Planes
<1>2. i \in DOMAIN frame
  BY GroupBytes
<1>3. /\ o[1] = [q \in Pixels(frame) |-> Luminance(frame, q)]
      /\ o[2] = [j \in DOMAIN frame |-> frame[j][2]]
      /\ o[3] = [j \in DOMAIN frame |-> frame[j][4]]
  BY DEF yuyv2yuv
<1>4. /\ DOMAIN o[1] = Pixels(frame) /\ o[1][p] = Luminance(frame, p)
      /\ DOMAIN o[2] = DOMAIN frame /\ o[2][i] = frame[i][2]
      /\ DOMAIN o[3] = DOMAIN frame /\ o[3][i] = frame[i][4]
  BY <1>2, <1>3
<1>5. ImageInversion_output(c, "YCbCr", frame)
        = [n \in 1 .. 3 |-> [j \in DOMAIN o[n] |-> inverted(c, o[n][j])]]
  BY <1>1 DEF ImageInversion_output
<1>6. /\ ImageInversion_output(c, "YCbCr", frame)[1] = [j \in DOMAIN o[1] |-> inverted(c, o[1][j])]
      /\ ImageInversion_output(c, "YCbCr", frame)[2] = [j \in DOMAIN o[2] |-> inverted(c, o[2][j])]
      /\ ImageInversion_output(c, "YCbCr", frame)[3] = [j \in DOMAIN o[3] |-> inverted(c, o[3][j])]
  <2> HIDE DEF o
  <2>1. QED
    BY <1>5
<1>7. /\ ImageInversion_output(c, "YCbCr", frame)[1][p] = inverted(c, Luminance(frame, p))
      /\ ImageInversion_output(c, "YCbCr", frame)[2][i] = inverted(c, Group(frame, p)[2])
      /\ ImageInversion_output(c, "YCbCr", frame)[3][i] = inverted(c, Group(frame, p)[4])
  <2> HIDE DEF o
  <2>1. QED
    BY <1>2, <1>4, <1>6 DEF Group
<1>8. QED
  BY <1>7, GroupBytes, InvertedByte

\* The planes of a step hold the negative of the camera's picture, for every frame of
\* any size and every value of the parameter: yuyv2rgb, yuyv2yuv and
\* ImageInversion_output.
THEOREM StepInverts == NegativeOfScene
<1> SUFFICES ASSUME NEW frame \in Scenes, NEW c \in Tunings, NEW p \in Pixels(frame)
             PROVE  LET Sum == ImageInversion_output(c, "RGB", frame)
                        SumYuv == ImageInversion_output(c, "YCbCr", frame)
                        y == Luminance(frame, p)  Cb == Group(frame, p)[2]  Cr == Group(frame, p)[4]
                    IN /\ \A k \in 1 .. 3 :
                            /\ \E wrap \in {0, 256} :
                                 /\ Distance(100000 * Sum[k][p],
                                             100000 * (c + wrap) - Formula(y, Cb - 128, Cr - 128)[k])
                                      < 200000
                                 /\ c = 255 => wrap = 0
                            /\ Cb = 128 /\ Cr = 128 => Sum[k][p] = Negative(c, y)
                       /\ <<SumYuv[1][p], SumYuv[2][(p + 1) \div 2], SumYuv[3][(p + 1) \div 2]>>
                            = <<Negative(c, y), Negative(c, Cb), Negative(c, Cr)>>
  BY DEF NegativeOfScene
<1>1. frame \in Seq([1 .. 4 -> 0 .. 255]) /\ c \in Bytes
  BY ConversionAssumption DEF Bytes
<1> DEFINE y == Luminance(frame, p)
           Cb == Group(frame, p)[2]
           Cr == Group(frame, p)[4]
<1>2. y \in Bytes /\ Cb \in Bytes /\ Cr \in Bytes /\ Cb - 128 \in Signed /\ Cr - 128 \in Signed
  BY <1>1, GroupBytes
<1>3. ASSUME NEW k \in 1 .. 3
      PROVE  LET out == ImageInversion_output(c, "RGB", frame)[k][p]
             IN  /\ \E wrap \in {0, 256} :
                      /\ Distance(100000 * out,
                                  100000 * (c + wrap) - Formula(y, Cb - 128, Cr - 128)[k]) < 200000
                      /\ c = 255 => wrap = 0
                 /\ Cb = 128 /\ Cr = 128 => out = Negative(c, y)
  <2> DEFINE v == rgb(y, Cb - 128, Cr - 128)[k]
             f == Formula(y, Cb - 128, Cr - 128)[k]
  <2>1. ImageInversion_output(c, "RGB", frame)[k][p] = Negative(c, v)
    BY <1>1, RgbOfStep
  <2>2. v \in Bytes /\ f \in Int /\ Distance(100000 * v, f) < 200000
    BY <1>2, RgbNear
  <2>3. \E wrap \in {0, 256} :
          /\ Distance(100000 * Negative(c, v), 100000 * (c + wrap) - f) < 200000
          /\ c = 255 => wrap = 0
    <3> HIDE DEF v, f
    <3>1. QED
      BY <1>1, <2>2, NegativeNear
  <2>4. Cb = 128 /\ Cr = 128 => Cb - 128 = 0 /\ Cr - 128 = 0
    OBVIOUS
  <2>5. Cb = 128 /\ Cr = 128 => v = y
    BY <1>2, <2>4, RgbNear
  <2>6. QED
    BY <2>1, <2>3, <2>5
<1>4. QED
  BY <1>1, <1>3, YuvOfStep

-------------------------------------------------------------------------------
(***************************************************************************)
(* The display that a step hands its planes to.  It does not know of the   *)
(* cameras, and has constants and variables of its own.                    *)
(***************************************************************************)
\* None is no memory.
NoneApart == \A n \in Int : \A S : None \notin [0 .. n -> S]

\* What MW_setWindowParams may make of the signals.
Windows == {WindowParams(s) : s \in Signals}

\* No overlay whose last column is half a group.
WholePictures == \A w \in Windows : w.format # "RGB" => w.width % 2 = 0

\* The window is open.
Opened == enabled /\ isVideoModeSet /\ displayPc \notin {"off", "open"}

\* A window is there exactly as long as it is enabled, and nothing else shows a frame.
WindowInv ==
  /\ displayPc \in {"off", "idle", "open", "firstPoll", "draw", "lastPoll"}
  /\ displayPc # "off" => win \in Windows
  /\ displayPc \in {"open", "firstPoll", "draw", "lastPoll"} => isVideoModeSet
  /\ displayPc = "draw" => enabled
  /\ Opened => /\ video /\ screen = "valid"
               /\ IF win.format = "RGB" THEN image # None ELSE ovl # None
  /\ ~Opened => shown = None

\* The memories have the size of the window.
SurfaceInv ==
  displayPc # "off" =>
    /\ image # None => DOMAIN image = 0 .. win.width * win.height - 1
    /\ ovl # None => DOMAIN ovl = 0 .. Pitch * win.height - 1

\* What the user has closed waits for the next start.
ClosedInv ==
  closed => /\ ~enabled /\ ~video /\ screen # "valid" /\ shown = None
            /\ displayPc = "off" \/ (isVideoModeSet /\ displayPc \in {"idle", "firstPoll", "lastPoll"})

\* The inductive invariant of the display.
DisplayInv == WindowInv /\ SurfaceInv /\ ClosedInv

\* The sizes of a window are numbers.
LEMMA WindowSizes ==
  ASSUME NEW w \in Windows
  PROVE  w.width \in Nat /\ w.height \in Nat
<1>1. PICK s \in Signals : w = WindowParams(s)
  BY DEF Windows
<1>2. s.width \in Nat /\ s.height \in Nat
  BY DisplayAssumption
<1>3. /\ w.width \in {s.width, s.height, s.width \div 3, s.width \div 2, s.height \div 2}
      /\ w.height \in {s.width, s.height}
  <2>1. /\ w.width = CASE s.order = "planar" -> IF s.order = "interleaved" \/ s.rowMajor THEN s.width ELSE s.height
                       [] s.order = "interleaved" /\ s.format = "RGB" ->
                            (IF s.order = "interleaved" \/ s.rowMajor THEN s.width ELSE s.height) \div 3
                       [] OTHER -> (IF s.order = "interleaved" \/ s.rowMajor THEN s.width ELSE s.height) \div 2
        /\ w.height = IF s.order = "interleaved" \/ s.rowMajor THEN s.height ELSE s.width
    BY <1>1 DEF WindowParams
  <2>2. s.order \in {"planar", "interleaved"}
    BY DisplayAssumption DEF Orders
  <2>3. CASE s.order = "planar"
    BY <2>1, <2>3
  <2>4. CASE s.order = "interleaved"
    BY <2>1, <2>4
  <2>5. QED
    BY <2>2, <2>3, <2>4
<1>4. QED
  BY <1>2, <1>3

\* A memory is not None, nor is what is drawn into it.
LEMMA MemoryThere ==
  ASSUME NoneApart, NEW n \in Int, NEW g, NEW S, g \in [0 .. n -> S]
  PROVE  g # None
BY DEF NoneApart

\* What is drawn has the size of the memory it replaces.
LEMMA DrawnThere ==
  ASSUME NoneApart, DisplayInv, win \in Windows, displayPc # "off", NEW f
  PROVE  /\ image # None =>
              DrawnRGB(f) # None /\ DOMAIN DrawnRGB(f) = 0 .. win.width * win.height - 1
         /\ ovl # None =>
              DrawnYUV(f) # None /\ DOMAIN DrawnYUV(f) = 0 .. Pitch * win.height - 1
<1>1. win.width \in Nat /\ win.height \in Nat /\ Padding \in Nat
  BY WindowSizes, DisplayAssumption
<1>2. win.width * win.height - 1 \in Int /\ Pitch * win.height - 1 \in Int
  BY <1>1 DEF Pitch
<1>3. \A g, n : n \in Int /\ DOMAIN g = 0 .. n /\ g = [a \in DOMAIN g |-> g[a]] => g # None
  <2> SUFFICES ASSUME NEW g, NEW n \in Int, DOMAIN g = 0 .. n, g = [a \in DOMAIN g |-> g[a]]
               PROVE  g # None
    OBVIOUS
  <2>1. g \in [0 .. n -> {g[a] : a \in 0 .. n}]
    OBVIOUS
  <2>2. QED
    BY <2>1, MemoryThere
<1>4. ASSUME image # None
      PROVE  DrawnRGB(f) # None /\ DOMAIN DrawnRGB(f) = 0 .. win.width * win.height - 1
  <2>1. DOMAIN image = 0 .. win.width * win.height - 1
    BY <1>4 DEF DisplayInv, SurfaceInv
  <2>2. PICK g : g = DrawnRGB(f)
    OBVIOUS
  <2>3. DOMAIN g = DOMAIN image /\ g = [a \in DOMAIN g |-> g[a]]
    BY <2>2 DEF DrawnRGB
  <2>4. QED
    BY <1>2, <1>3, <2>1, <2>2, <2>3
<1>5. ASSUME ovl # None
      PROVE  DrawnYUV(f) # None /\ DOMAIN DrawnYUV(f) = 0 .. Pitch * win.height - 1
  <2>1. DOMAIN ovl = 0 .. Pitch * win.height - 1
    BY <1>5 DEF DisplayInv, SurfaceInv
  <2>2. PICK g : g = DrawnYUV(f)
    OBVIOUS
  <2>3. DOMAIN g = DOMAIN ovl /\ g = [a \in DOMAIN g |-> g[a]]
    BY <2>2 DEF DrawnYUV
  <2>4. QED
    BY <1>2, <1>3, <2>1, <2>2, <2>3
<1>6. QED
  BY <1>4, <1>5

LEMMA DisplayInitInv == ASSUME DisplayInit PROVE DisplayInv
BY DEF DisplayInit, DisplayInv, WindowInv, SurfaceInv, ClosedInv, Opened

LEMMA DisplayNextInv ==
  ASSUME NoneApart, DisplayInv, [DisplayNext]_displayVars
  PROVE  DisplayInv'
<1> USE DEF DisplayInv
<1>1. CASE videoDisplayInit
  <2>1. /\ displayPc = "off" /\ displayPc' = "idle" /\ win' \in Windows
        /\ image' = None /\ ovl' = None /\ isVideoModeSet' = FALSE /\ closed' = FALSE
        /\ UNCHANGED <<screen, shown>>
    BY <1>1 DEF videoDisplayInit, Windows
  <2>2. shown = None
    BY <2>1 DEF WindowInv, Opened
  <2>3. QED
    BY <2>1, <2>2 DEF WindowInv, SurfaceInv, ClosedInv, Opened
<1>2. CASE videoDisplayOutput
  <2>1. /\ displayPc = "idle" /\ isVideoModeSet' = TRUE
        /\ displayPc' = IF ~isVideoModeSet THEN "open" ELSE IF enabled THEN "draw" ELSE "idle"
        /\ UNCHANGED <<win, enabled, video, screen, image, ovl, shown, closed>>
    BY <1>2 DEF videoDisplayOutput
  <2>2. QED
    BY <2>1 DEF WindowInv, SurfaceInv, ClosedInv, Opened, Pitch
<1>3. CASE OpenWindow
  <2>1. /\ displayPc = "open" /\ displayPc' = "firstPoll"
        /\ video' = TRUE /\ screen' = "valid" /\ enabled' = TRUE
        /\ UNCHANGED <<win, isVideoModeSet, shown, closed>>
    BY <1>3 DEF OpenWindow
  <2>2. /\ win.format = "RGB" => image' = BlankImage /\ ovl' = ovl
        /\ win.format # "RGB" => ovl' = BlankOverlay /\ image' = image
    BY <1>3 DEF OpenWindow
  <2>3. win \in Windows /\ win.width \in Nat /\ win.height \in Nat /\ Padding \in Nat
    BY <2>1, WindowSizes, DisplayAssumption DEF WindowInv
  <2>4. win.width * win.height - 1 \in Int /\ Pitch * win.height - 1 \in Int
    BY <2>3 DEF Pitch
  <2>5. BlankImage # None /\ DOMAIN BlankImage = 0 .. win.width * win.height - 1
    <3>1. BlankImage \in [0 .. win.width * win.height - 1 -> {Blank}]
      BY DEF BlankImage
    <3>2. QED
      BY <2>4, <3>1, MemoryThere
  <2>6. BlankOverlay # None /\ DOMAIN BlankOverlay = 0 .. Pitch * win.height - 1
    <3>1. BlankOverlay \in [0 .. Pitch * win.height - 1 -> {Blank}]
      BY DEF BlankOverlay
    <3>2. QED
      BY <2>4, <3>1, MemoryThere
  <2>7. WindowInv'
    BY <2>1, <2>2, <2>3, <2>5, <2>6 DEF WindowInv, Opened
  <2>8. Pitch' = Pitch
    BY <2>1 DEF Pitch
  <2>9. SurfaceInv'
    BY <2>1, <2>2, <2>5, <2>6, <2>8 DEF SurfaceInv
  <2>10. QED
    BY <2>1, <2>7, <2>9 DEF ClosedInv
<1>4. CASE OpenFails
  <2>1. /\ displayPc = "open" /\ displayPc' = "idle" /\ enabled' = FALSE
        /\ UNCHANGED <<win, isVideoModeSet, image, ovl, shown, closed>>
    BY <1>4 DEF OpenFails
  <2>2. QED
    BY <2>1 DEF WindowInv, SurfaceInv, ClosedInv, Opened, Pitch
<1>5. CASE PollQuit
  <2>1. /\ displayPc \in {"firstPoll", "lastPoll"} /\ enabled' = FALSE /\ video' = FALSE
        /\ screen' # "valid" /\ shown' = None
        /\ image' \in {None, image} /\ ovl' \in {None, ovl}
        /\ UNCHANGED <<win, isVideoModeSet, displayPc>>
    BY <1>5 DEF PollQuit, Polling, Cleanup, WindowShutdown, GlobalVideoShutdown
  <2>2. Pitch' = Pitch
    BY <2>1 DEF Pitch
  <2>3. QED
    BY <2>1, <2>2 DEF WindowInv, SurfaceInv, ClosedInv, Opened
<1>6. CASE PollNothing
  <2>1. /\ displayPc \in {"firstPoll", "lastPoll"}
        /\ displayPc' = IF displayPc = "firstPoll" /\ enabled THEN "draw" ELSE "idle"
        /\ UNCHANGED <<win, enabled, isVideoModeSet, video, screen, image, ovl, shown, closed>>
    BY <1>6 DEF PollNothing, Polling
  <2>2. QED
    BY <2>1 DEF WindowInv, SurfaceInv, ClosedInv, Opened, Pitch
<1>7. CASE OutputDraws
  <2>1. /\ displayPc = "draw" /\ displayPc' = "lastPoll"
        /\ UNCHANGED <<win, enabled, isVideoModeSet, video, screen, closed>>
    BY <1>7 DEF OutputDraws
  <2>2. PICK f \in Frames : DrawFrame(f)
    BY <1>7 DEF OutputDraws
  <2>3. win \in Windows /\ enabled /\ Opened /\ Opened'
    BY <2>1 DEF WindowInv, Opened
  <2>4. Pitch' = Pitch
    BY <2>1 DEF Pitch
  <2>5. \/ image # None /\ image' = DrawnRGB(f) /\ ovl' = ovl
        \/ ovl # None /\ ovl' = DrawnYUV(f) /\ image' = image
        \/ image' = image /\ ovl' = ovl
    BY <2>2 DEF DrawFrame
  <2>6. /\ image # None <=> image' # None
        /\ ovl # None <=> ovl' # None
        /\ image' # None => DOMAIN image' = 0 .. win.width * win.height - 1
        /\ ovl' # None => DOMAIN ovl' = 0 .. Pitch * win.height - 1
    BY <2>1, <2>3, <2>5, DrawnThere DEF SurfaceInv
  <2>7. WindowInv'
    BY <2>1, <2>3, <2>6 DEF WindowInv
  <2>8. SurfaceInv'
    BY <2>1, <2>4, <2>6 DEF SurfaceInv
  <2>9. ClosedInv'
    BY <2>1, <2>3 DEF ClosedInv
  <2>10. QED
    BY <2>7, <2>8, <2>9
<1>8. CASE videoDisplayTerminate
  <2>1. /\ displayPc = "idle" /\ displayPc' = "off" /\ isVideoModeSet' = FALSE
        /\ UNCHANGED <<win, closed>>
        /\ \/ ~enabled /\ UNCHANGED <<enabled, video, screen, shown>>
           \/ enabled' = FALSE /\ video' = FALSE /\ screen' # "valid" /\ shown' = None
    BY <1>8 DEF videoDisplayTerminate, Cleanup, GlobalVideoShutdown
  <2>2. QED
    BY <2>1 DEF WindowInv, SurfaceInv, ClosedInv, Opened
<1>9. CASE UserQuits \/ UNCHANGED displayVars
  <2>1. UNCHANGED <<win, enabled, isVideoModeSet, video, screen, image, ovl, displayPc, shown, closed>>
    BY <1>9 DEF UserQuits, displayVars
  <2>2. QED
    BY <2>1 DEF WindowInv, SurfaceInv, ClosedInv, Opened, Pitch
<1>10. QED
  BY <1>1, <1>2, <1>3, <1>4, <1>5, <1>6, <1>7, <1>8, <1>9 DEF DisplayNext, Display

\* The invariant holds whatever fails at the start, and whenever the user closes.
THEOREM DisplayInvariant == NoneApart => (DisplaySpec => []DisplayInv)
<1> SUFFICES ASSUME NoneApart PROVE DisplaySpec => []DisplayInv
  OBVIOUS
<1>1. DisplayInit => DisplayInv
  BY DisplayInitInv
<1>2. DisplayInv /\ [DisplayNext]_displayVars => DisplayInv'
  BY DisplayNextInv
<1>3. QED
  BY <1>1, <1>2, PTL DEF DisplaySpec

\* A call draws only into a surface and a screen of the running video system.
THEOREM DrawsWhereItMay ==
  NoneApart => (DisplaySpec => []DrawsInWindow)
<1>1. DisplayInv => DrawsInWindow
  BY DEF DisplayInv, WindowInv, Opened, DrawsInWindow
<1>2. QED
  BY <1>1, DisplayInvariant, PTL

\* A window that the user has closed does not come back before the next start.
THEOREM StaysClosed == NoneApart => (DisplaySpec => []ClosedStaysClosed)
<1>1. DisplayInv => ClosedStaysClosed
  BY DEF DisplayInv, ClosedInv, ClosedStaysClosed
<1>2. QED
  BY <1>1, DisplayInvariant, PTL

-------------------------------------------------------------------------------
(* Where the elements of a frame go. *)

\* The place of row y and column c in lines of n places.
LEMMA PlaceInside ==
  ASSUME NEW n \in Nat, NEW m \in Nat, NEW c \in 0 .. n - 1, NEW y \in 0 .. m - 1
  PROVE  y * n + c \in 0 .. n * m - 1
<1>1. PICK z \in Nat : z = y * n
  OBVIOUS
<1>2. y * n + n <= n * m
  <2>1. (m - 1 - y) * n >= 0
    OBVIOUS
  <2>2. (m - 1 - y) * n = n * m - n - y * n
    OBVIOUS
  <2>3. QED
    BY <2>1, <2>2
<1>3. QED
  BY <1>1, <1>2

LEMMA PlaceOf ==
  ASSUME NEW n \in Nat, NEW c \in 0 .. n - 1, NEW y \in Nat
  PROVE  (y * n + c) \div n = y /\ (y * n + c) % n = c
<1>1. (y * n + c) \div n = y
  OBVIOUS
<1>2. (y * n + c) % n = c
  OBVIOUS
<1>3. QED
  BY <1>1, <1>2

\* MW_drawRGB of a frame by rows.
LEMMA RGBInPlace ==
  ASSUME win.format = "RGB", win.rowMajor, win.width \in Nat, win.height \in Nat,
         DOMAIN image = 0 .. win.width * win.height - 1, NEW f,
         NEW x \in 0 .. win.width - 1, NEW y \in 0 .. win.height - 1
  PROVE  DrawnRGB(f)[y * win.width + x] = <<f, Element(x, y)>>
<1>1. y * win.width + x \in DOMAIN image
  BY PlaceInside
<1>2. DrawnRGB(f)[y * win.width + x] = <<f, y * win.width + x>>
  BY <1>1 DEF DrawnRGB
<1>3. QED
  BY <1>2 DEF Element

\* MW_drawRGB of a frame by columns: the pass of column x + 1 is the last that writes to
\* place x, and none writes to the last place.
LEMMA ColumnInPlace ==
  ASSUME ~win.rowMajor, win.width \in Nat, win.height \in Nat,
         DOMAIN image = 0 .. win.width * win.height - 1, NEW f,
         NEW x \in 0 .. win.width - 1, NEW y \in 0 .. win.height - 1
  PROVE  DrawnRGB(f)[y * win.width + x]
           = IF win.width = 1 THEN <<f, Element(x, y)>>
             ELSE IF x = win.width - 1 THEN image[y * win.width + x]
             ELSE <<f, Element(x + 1, y)>>
<1>1. PICK w \in Nat, rows \in Nat : w = win.width /\ rows = win.height
  OBVIOUS
<1>2. PICK a \in Int : a = y * w + x
  BY <1>1
<1>3. a \in DOMAIN image /\ a \div w = y /\ a % w = x
  <2>1. x \in 0 .. w - 1 /\ y \in 0 .. rows - 1 /\ y \in Nat
    BY <1>1
  <2>2. y * w + x \in 0 .. w * rows - 1
    BY <2>1, PlaceInside
  <2>3. (y * w + x) \div w = y /\ (y * w + x) % w = x
    BY <2>1, PlaceOf
  <2>4. QED
    BY <1>1, <1>2, <2>2, <2>3
<1>4. PICK columns : columns = {i \in 0 .. w - 1 : ColumnStart(i) = x}
  OBVIOUS
<1>5. DrawnRGB(f)[a] = IF columns = {} THEN image[a] ELSE <<f, Max(columns) * rows + y>>
  BY <1>1, <1>3, <1>4 DEF DrawnRGB
<1>6. CASE w = 1
  <2>1. x = 0 /\ columns = {0}
    BY <1>1, <1>4, <1>6 DEF ColumnStart
  <2>2. Max(columns) = 0
    BY <2>1 DEF Max
  <2>3. QED
    BY <1>1, <1>2, <1>5, <1>6, <2>1, <2>2 DEF Element
<1>7. CASE w # 1 /\ x = w - 1
  <2>1. columns = {}
    BY <1>1, <1>4, <1>7 DEF ColumnStart
  <2>2. QED
    BY <1>1, <1>2, <1>5, <1>7, <2>1
<1>8. CASE w # 1 /\ x # w - 1
  <2>1. x + 1 \in columns /\ \A i \in columns : i \in Int /\ i <= x + 1
    BY SMTT(30), <1>1, <1>4, <1>8 DEF ColumnStart
  <2>2. Max(columns) = x + 1
    BY <2>1 DEF Max
  <2>3. columns # {}
    BY <2>1
  <2>4. QED
    BY <1>1, <1>2, <1>5, <1>8, <2>2, <2>3 DEF Element
<1>9. QED
  BY <1>6, <1>7, <1>8

\* MW_drawYUV: the group of a pair of pixels.
LEMMA GroupInPlace ==
  ASSUME win.width \in Nat, win.height \in Nat, Padding \in Nat,
         DOMAIN ovl = 0 .. Pitch * win.height - 1, NEW f,
         NEW pair \in 0 .. win.width \div 2 - 1, NEW y \in 0 .. win.height - 1
  PROVE  DrawnYUV(f)[y * Pitch + pair]
           = <<f, IF win.rowMajor THEN RowGroup(y, pair) ELSE ColumnGroup(y, pair)>>
<1>1. PICK P \in Nat : P = Pitch /\ pair \in 0 .. P - 1
  BY DEF Pitch
<1>2. PICK a \in Int : a = y * P + pair
  BY <1>1
<1>3. a \in DOMAIN ovl /\ a \div P = y /\ a % P = pair
  <2>1. DOMAIN ovl = 0 .. P * win.height - 1
    BY <1>1
  <2>2. P \in Nat /\ pair \in 0 .. P - 1 /\ y \in Nat
    BY <1>1
  <2>3. y * P + pair \in 0 .. P * win.height - 1
    BY <2>2, PlaceInside
  <2>4. (y * P + pair) \div P = y /\ (y * P + pair) % P = pair
    BY <2>2, PlaceOf
  <2>5. QED
    BY <1>2, <2>1, <2>3, <2>4
<1>4. ~(pair >= win.width \div 2)
  OBVIOUS
<1>5. DrawnYUV(f)[a]
        = IF a % P >= win.width \div 2 THEN ovl[a]
          ELSE <<f, IF win.rowMajor THEN RowGroup(a \div P, a % P) ELSE ColumnGroup(a \div P, a % P)>>
  BY <1>1, <1>3 DEF DrawnYUV
<1>6. QED
  BY <1>1, <1>2, <1>3, <1>4, <1>5

\* A column and its pair.
LEMMA Halves ==
  ASSUME NEW i \in Nat
  PROVE  i \div 2 \in Nat /\ (i % 2 = 0 \/ i % 2 = 1) /\ i = 2 * (i \div 2) + (i % 2)
<1>1. i \div 2 \in Nat
  OBVIOUS
<1>2. i % 2 = 0 \/ i % 2 = 1
  OBVIOUS
<1>3. i = 2 * (i \div 2) + (i % 2)
  OBVIOUS
<1>4. QED
  BY <1>1, <1>2, <1>3

\* What such a group holds of the pixel in column x and row y.
LEMMA GroupHolds ==
  ASSUME win.width \in Nat, win.height \in Nat, win.width % 2 = 0,
         NEW x \in 0 .. win.width - 1, NEW y \in 0 .. win.height - 1,
         NEW g, g = IF win.rowMajor THEN RowGroup(y, x \div 2) ELSE ColumnGroup(y, x \div 2)
  PROVE  /\ g[1 + 2 * (x % 2)] = Element(x, y)
         /\ g[2] = Chroma(x, y) /\ g[4] = Chroma(x, y)
<1>1. PICK half \in Nat : half = win.width \div 2 /\ win.width = 2 * half
  OBVIOUS
<1>0. x \in Nat /\ y \in Nat
  OBVIOUS
<1>2. PICK pair \in Nat : pair = x \div 2 /\ (x % 2 = 0 \/ x % 2 = 1) /\ x = 2 * pair + (x % 2)
  BY <1>0, Halves
<1>3. CASE win.rowMajor
  <2>1. PICK z \in Nat : z = y * half
    OBVIOUS
  <2>2. y * win.width = 2 * z
    <3>1. \A i, j \in Nat : i * (2 * j) = 2 * (i * j)
      OBVIOUS
    <3>2. y * (2 * half) = 2 * (y * half)
      BY <1>0, <3>1
    <3>3. QED
      BY <1>1, <2>1, <3>2
  <2>3. g = <<2 * (z + pair), z + pair, 2 * (z + pair) + 1, z + pair>>
    BY <1>1, <1>2, <1>3, <2>1 DEF RowGroup
  <2>4. Element(x, y) = 2 * z + x /\ Chroma(x, y) = z + pair
    BY <1>1, <1>2, <1>3, <2>1, <2>2 DEF Element, Chroma
  <2>5. CASE x % 2 = 0
    BY <1>2, <2>3, <2>4, <2>5
  <2>6. CASE x % 2 = 1
    BY <1>2, <2>3, <2>4, <2>6
  <2>7. QED
    BY <1>2, <2>5, <2>6
<1>4. CASE ~win.rowMajor
  <2>1. PICK z \in Nat : z = win.height * pair
    OBVIOUS
  <2>2. 2 * win.height * pair = 2 * z /\ pair * win.height = z
    BY <2>1
  <2>3. g = <<2 * z + y, z + y, 2 * z + y + win.height, z + y>>
    BY <1>2, <1>4, <2>1, <2>2 DEF ColumnGroup
  <2>4. Chroma(x, y) = z + y
    BY <1>2, <1>4, <2>2 DEF Chroma
  <2>5. CASE x % 2 = 0
    <3>1. x * win.height = 2 * z
      BY <1>2, <2>1, <2>5
    <3>2. Element(x, y) = 2 * z + y
      BY <1>4, <3>1 DEF Element
    <3>3. QED
      BY <2>3, <2>4, <2>5, <3>2
  <2>6. CASE x % 2 = 1
    <3>1. x * win.height = 2 * z + win.height
      BY <1>2, <2>1, <2>6
    <3>2. Element(x, y) = 2 * z + y + win.height
      BY <1>4, <3>1 DEF Element
    <3>3. QED
      BY <2>3, <2>4, <2>6, <3>2
  <2>7. QED
    BY <1>2, <2>5, <2>6
<1>5. QED
  BY <1>3, <1>4

\* The last column of the surface of a frame whose columns shift: nothing is drawn there.
EdgeInv ==
  displayPc # "off" /\ image # None /\ Shifts =>
    \A y \in 0 .. win.height - 1 : image[y * win.width + (win.width - 1)] = Blank

\* A surface that is made is blank.
LEMMA BlankEdge ==
  ASSUME NoneApart, DisplayInv, EdgeInv, OpenWindow
  PROVE  EdgeInv'
<1>1. win \in Windows /\ win' = win
  BY DEF OpenWindow, DisplayInv, WindowInv
<1>2. win.width \in Nat /\ win.height \in Nat
  BY <1>1, WindowSizes
<1>3. Shifts' = Shifts /\ Blank' = Blank
  BY <1>1 DEF Shifts, Blank
<1>4. SUFFICES ASSUME Shifts, NEW y \in 0 .. win.height - 1
               PROVE  image'[y * win.width + (win.width - 1)] = Blank
  BY <1>1, <1>3 DEF EdgeInv
<1>5. image' = BlankImage
  BY <1>4 DEF OpenWindow, Shifts
<1>6. win.width - 1 \in 0 .. win.width - 1
  BY <1>2, <1>4 DEF Shifts
<1>7. y * win.width + (win.width - 1) \in 0 .. win.width * win.height - 1
  BY <1>2, <1>6, PlaceInside
<1>8. QED
  BY <1>5, <1>7 DEF BlankImage

\* What ShowsTheFrame says of one place.
PixelShown(x, y) ==
  IF Shifts THEN shown[y * win.width + x] =
                   IF x = win.width - 1 THEN Blank ELSE <<drawn, Element(x + 1, y)>>
  ELSE IF win.format = "RGB" THEN shown[y * win.width + x] = <<drawn, Element(x, y)>>
  ELSE LET group == shown[y * Pitch + x \div 2]
       IN /\ group[1] = drawn
          /\ group[2][1 + 2 * (x % 2)] = Element(x, y)
          /\ group[2][2] = Chroma(x, y) /\ group[2][4] = Chroma(x, y)

\* A step that changes neither the window nor what it shows.
LEMMA SamePixels ==
  ASSUME ShowsTheFrame, UNCHANGED <<win, shown, drawn>>
  PROVE  ShowsTheFrame'
<1>1. /\ Pitch' = Pitch /\ Shifts' = Shifts /\ Blank' = Blank
      /\ \A x, y : (Element(x, y))' = Element(x, y) /\ (Chroma(x, y))' = Chroma(x, y)
  BY DEF Pitch, Element, Chroma, Shifts, Blank
<1>2. ASSUME NEW x, NEW y PROVE PixelShown(x, y)' <=> PixelShown(x, y)
  BY <1>1 DEF PixelShown
<1>3. SUFFICES ASSUME shown' # None,
                      NEW x \in 0 .. win'.width - 1, NEW y \in 0 .. win'.height - 1
               PROVE  PixelShown(x, y)'
  BY Zenon DEF ShowsTheFrame, PixelShown
<1>4. x \in 0 .. win.width - 1 /\ y \in 0 .. win.height - 1 /\ shown # None
  BY <1>3
<1>5. PixelShown(x, y)
  BY <1>4, Zenon DEF ShowsTheFrame, PixelShown
<1> QED
  BY <1>2, <1>5

\* A frame that is drawn is shown as it is.
LEMMA DrawnAsItIs ==
  ASSUME NoneApart, WholePictures, DisplayInv, OutputDraws,
         ShowsTheFrame, EdgeInv
  PROVE  ShowsTheFrame' /\ EdgeInv'
<1>1. displayPc = "draw" /\ win' = win /\ win \in Windows
  BY DEF OutputDraws, DisplayInv, WindowInv
<1>2. /\ win.width \in Nat /\ win.height \in Nat /\ Padding \in Nat
      /\ win.format # "RGB" => win.width % 2 = 0
  BY <1>1, WindowSizes, DisplayAssumption DEF WholePictures
<1>3. PICK f \in Frames : DrawFrame(f)
  BY DEF OutputDraws
<1>4. /\ image # None => DOMAIN image = 0 .. win.width * win.height - 1
      /\ ovl # None => DOMAIN ovl = 0 .. Pitch * win.height - 1
  BY <1>1 DEF DisplayInv, SurfaceInv
<1>5. /\ Pitch' = Pitch
      /\ \A x, y : (Element(x, y))' = Element(x, y) /\ (Chroma(x, y))' = Chroma(x, y)
      /\ Shifts' = Shifts /\ Blank' = Blank
  BY <1>1 DEF Pitch, Element, Chroma, Shifts, Blank
<1>6. CASE /\ win.format = "RGB" /\ image # None
           /\ image' = DrawnRGB(f) /\ shown' = image' /\ drawn' = f
  <2>1. ASSUME NEW x \in 0 .. win.width - 1, NEW y \in 0 .. win.height - 1
        PROVE  shown'[y * win.width + x]
                 = IF ~Shifts THEN <<f, Element(x, y)>>
                   ELSE IF x = win.width - 1 THEN Blank ELSE <<f, Element(x + 1, y)>>
    <3>1. CASE win.rowMajor
      BY <1>2, <1>4, <1>6, <3>1, RGBInPlace DEF Shifts
    <3>2. CASE ~win.rowMajor /\ win.width = 1
      BY <1>2, <1>4, <1>6, <3>2, ColumnInPlace DEF Shifts
    <3>3. CASE ~win.rowMajor /\ win.width # 1
      <4>1. Shifts
        BY <1>2, <1>6, <3>3 DEF Shifts
      <4>2. shown'[y * win.width + x]
              = IF x = win.width - 1 THEN image[y * win.width + x] ELSE <<f, Element(x + 1, y)>>
        BY <1>2, <1>4, <1>6, <3>3, ColumnInPlace
      <4>3. x = win.width - 1 => image[y * win.width + x] = Blank
        BY <1>1, <1>6, <4>1 DEF EdgeInv
      <4>4. QED
        BY <4>1, <4>2, <4>3
    <3>4. QED
      BY <3>1, <3>2, <3>3
  <2>2. ShowsTheFrame'
    BY <1>1, <1>5, <1>6, <2>1 DEF ShowsTheFrame
  <2>3. ASSUME Shifts, NEW y \in 0 .. win.height - 1
        PROVE  image'[y * win.width + (win.width - 1)] = Blank
    <3>1. win.width - 1 \in 0 .. win.width - 1
      BY <1>2, <2>3 DEF Shifts
    <3>2. QED
      BY <1>6, <2>1, <2>3, <3>1
  <2>4. EdgeInv'
    BY <1>1, <1>5, <2>3 DEF EdgeInv
  <2>5. QED
    BY <2>2, <2>4
<1>7. CASE /\ win.format # "RGB" /\ ovl # None
           /\ ovl' = DrawnYUV(f) /\ shown' = ovl' /\ drawn' = f
  <2>1. ASSUME NEW x \in 0 .. win.width - 1, NEW y \in 0 .. win.height - 1
        PROVE  LET group == shown'[y * Pitch + x \div 2]
               IN  /\ group[1] = f
                   /\ group[2][1 + 2 * (x % 2)] = Element(x, y)
                   /\ group[2][2] = Chroma(x, y) /\ group[2][4] = Chroma(x, y)
    <3>1. x \div 2 \in 0 .. win.width \div 2 - 1
      BY <1>2, <1>7
    <3>2. PICK g : g = IF win.rowMajor THEN RowGroup(y, x \div 2) ELSE ColumnGroup(y, x \div 2)
      OBVIOUS
    <3>3. shown'[y * Pitch + x \div 2] = <<f, g>>
      BY <1>2, <1>4, <1>7, <3>1, <3>2, GroupInPlace
    <3>4. /\ g[1 + 2 * (x % 2)] = Element(x, y)
          /\ g[2] = Chroma(x, y) /\ g[4] = Chroma(x, y)
      BY <1>2, <1>7, <3>2, GroupHolds
    <3>5. QED
      BY <3>3, <3>4
  <2>2. ~Shifts
    BY <1>7 DEF Shifts
  <2>3. ShowsTheFrame'
    BY <1>1, <1>5, <1>7, <2>1, <2>2 DEF ShowsTheFrame
  <2>4. EdgeInv'
    BY <1>5, <2>2 DEF EdgeInv
  <2>5. QED
    BY <2>3, <2>4
<1>8. CASE UNCHANGED <<image, shown, drawn>>
  <2>1. ShowsTheFrame'
    BY <1>1, <1>5, <1>8, SamePixels
  <2>2. EdgeInv'
    BY <1>1, <1>5, <1>8 DEF EdgeInv
  <2>3. QED
    BY <2>1, <2>2
<1>9. QED
  BY <1>3, <1>6, <1>7, <1>8 DEF DrawFrame

\* What the screen shows is the frame that was drawn last, with each pixel at its place,
\* for pictures of every size and lines of any pitch; of a planar RGB frame by columns,
\* each pixel but those of the first column, one place to the left.
THEOREM ShownAsItIs ==
  NoneApart /\ WholePictures => (DisplaySpec => []ShowsTheFrame)
<1> SUFFICES ASSUME NoneApart, WholePictures
             PROVE  DisplaySpec => []ShowsTheFrame
  OBVIOUS
<1>1. DisplayInit => ShowsTheFrame /\ EdgeInv
  BY DEF DisplayInit, ShowsTheFrame, EdgeInv
<1>2. ASSUME DisplayInv, DisplayInv', ShowsTheFrame, EdgeInv, [DisplayNext]_displayVars
      PROVE  ShowsTheFrame' /\ EdgeInv'
  <2>1. shown' = None => ShowsTheFrame'
    BY DEF ShowsTheFrame
  <2>2. UNCHANGED <<win, shown, drawn>> => ShowsTheFrame'
    BY <1>2, SamePixels
  <2>9. win' = win /\ (image' = image \/ image' = None) /\ displayPc # "off" => EdgeInv'
    BY <1>2 DEF EdgeInv, Shifts, Blank
  <2>3. CASE videoDisplayInit
    <3>1. shown' = None
      BY <1>2, <2>3 DEF videoDisplayInit, DisplayInv, WindowInv, Opened
    <3>2. image' = None
      BY <2>3 DEF videoDisplayInit
    <3>3. QED
      BY <2>1, <3>1, <3>2 DEF EdgeInv
  <2>4. CASE OutputDraws
    BY <1>2, <2>4, DrawnAsItIs
  <2>5. CASE PollQuit
    BY <2>1, <2>5, <2>9 DEF PollQuit, Polling, Cleanup, WindowShutdown, GlobalVideoShutdown
  <2>6. CASE videoDisplayTerminate
    BY <2>1, <2>2, <2>6 DEF videoDisplayTerminate, Cleanup, GlobalVideoShutdown, EdgeInv
  <2>10. CASE OpenWindow
    BY <1>2, <2>2, <2>10, BlankEdge DEF OpenWindow
  <2>7. CASE videoDisplayOutput \/ OpenFails \/ PollNothing
    BY <2>2, <2>7, <2>9 DEF videoDisplayOutput, OpenFails, PollNothing, Polling
  <2>11. CASE UserQuits \/ UNCHANGED displayVars
    <3>1. UNCHANGED <<win, image, displayPc>>
      BY <2>11 DEF UserQuits, displayVars
    <3>2. QED
      BY <1>2, <2>2, <2>11, <3>1 DEF UserQuits, displayVars, EdgeInv, Shifts, Blank
  <2>8. QED
    BY <1>2, <2>3, <2>4, <2>5, <2>6, <2>7, <2>10, <2>11 DEF DisplayNext, Display
<1>3. QED
  BY <1>1, <1>2, DisplayInvariant, PTL DEF DisplaySpec
================================================================================
