----------------------------- MODULE CircBufProofs -----------------------------
(***************************************************************************)
(* The circular buffer never overruns itself, for every size of the buffer *)
(* and all points that fit it; and it implements the queue of whole time   *)
(* points: without pre-triggering, and with it for buffers and points that *)
(* are multiples of one number of words.                                   *)
(***************************************************************************)
EXTENDS CircBuf, SequenceTheorems, TLAPS

\* No point is longer than the buffer.
Fits == \A p \in Points : Size[p] <= BufSize

\* No pre-triggering.
NoPreTrigger == PreDurations \subseteq {0}

\* The points that are recorded: those of at least one active system.
Recorded == {p \in Points : Len(Cuts[p]) > 2}

Multiple(n, G) == \E a \in Int : n = a * G

\* The buffer and the points are multiples of G words.
Multiples(G) ==
  /\ G \in Nat /\ G > 1 /\ Multiple(BufSize, G)
  /\ \A p \in Recorded : Multiple(Size[p], G)

\* Pre-triggering of two points and more, in such a buffer.
PreTrigger == 1 \notin PreDurations /\ \E G : Multiples(G)

(***************************************************************************)
(* The inductive invariant.  The pointers: an empty buffer has its head at *)
(* its tail, and a buffer that pre-triggered a point is not empty.  The    *)
(* point that is being added: it has taken the places from head on that    *)
(* are free, and tmpHead is behind them.                                   *)
(***************************************************************************)
PointersOK ==
  /\ empty => head = tail
  /\ trigger = "armed" /\ preCount > 0 => ~empty

AddingOK ==
  cur # None =>
    /\ cur \in Points
    /\ piece <= Len(Cuts[cur]) + 1
    /\ Used + Added <= BufSize
    /\ tmpHead = Wrap(head + Added)

IInv == TypeOK /\ PointersOK /\ AddingOK

\* The type invariant, apart: the pointers and numbers, and the rest.
NumberTypes ==
  /\ head \in Places /\ tail \in Places /\ tmpHead \in Places
  /\ piece \in Nat \ {0}
  /\ preDur \in Nat /\ preCount \in Nat

FlagTypes == empty \in BOOLEAN /\ overFlow \in BOOLEAN

DataTypes ==
  /\ mem \in [Places -> Word]
  /\ cur \in Points \cup {None}
  /\ out \in Seq(Word)
  /\ trigger \in {"unarmed", "armed", "fired", "terminating"}

LEMMA Types == TypeOK <=> NumberTypes /\ FlagTypes /\ DataTypes
BY DEF TypeOK, NumberTypes, FlagTypes, DataTypes

LEMMA TypesPrimed == TypeOK' <=> NumberTypes' /\ FlagTypes' /\ DataTypes'
BY DEF TypeOK, NumberTypes, FlagTypes, DataTypes

LEMMA JunkMemory == [c \in Places |-> Junk] \in [Places -> Word]
BY DEF Junk, Word

-------------------------------------------------------------------------------
(* The shape of a point. *)

LEMMA CutTypes ==
  ASSUME NEW p \in Points
  PROVE  /\ Cuts[p] \in Seq(Nat) /\ Len(Cuts[p]) \in Nat /\ Len(Cuts[p]) >= 2
         /\ \A i \in 1 .. Len(Cuts[p]) : Cuts[p][i] \in Nat
         /\ Size[p] \in Nat /\ Size[p] >= HeaderSize + TimeSize
         /\ \A i \in 1 .. Len(Cuts[p]) : Cuts[p][i] <= Size[p]
<1>1. /\ Cuts[p] \in Seq(Nat) /\ Len(Cuts[p]) \in Nat /\ Len(Cuts[p]) >= 2
      /\ Cuts[p][1] = HeaderSize /\ Cuts[p][2] = HeaderSize + TimeSize
      /\ \A i, j \in 1 .. Len(Cuts[p]) : i < j => Cuts[p][i] < Cuts[p][j]
  BY CircBufAssumption
<1>2. \A i \in 1 .. Len(Cuts[p]) : Cuts[p][i] \in Nat
  BY <1>1
<1>3. Size[p] = Cuts[p][Len(Cuts[p])]
  BY DEF Size
<1>4. Size[p] \in Nat /\ Len(Cuts[p]) \in 1 .. Len(Cuts[p]) /\ 2 \in 1 .. Len(Cuts[p])
  BY <1>1, <1>2, <1>3
<1>5. \A i \in 1 .. Len(Cuts[p]) : Cuts[p][i] <= Size[p]
  <2> SUFFICES ASSUME NEW i \in 1 .. Len(Cuts[p]) PROVE Cuts[p][i] <= Size[p]
    OBVIOUS
  <2>1. CASE i = Len(Cuts[p])
    BY <1>3, <1>4, <2>1
  <2>2. CASE i < Len(Cuts[p])
    BY SMTT(30), <1>1, <1>2, <1>3, <1>4, <2>2
  <2>3. QED
    BY <1>1, <2>1, <2>2
<1>6. QED
  BY <1>1, <1>2, <1>4, <1>5

\* What the piece that comes next adds to the words placed so far.
LEMMA NextPiece ==
  ASSUME TypeOK, cur \in Points, piece <= Len(Cuts[cur])
  PROVE  /\ Added \in Nat /\ PieceSize \in Nat /\ PieceSize > 0
         /\ Added + PieceSize = Cuts[cur][piece]
         /\ Added + PieceSize <= Size[cur]
         /\ piece = 1 => Added = 0 /\ PieceSize = HeaderSize
         /\ piece # 1 => Added >= HeaderSize
<1>1. /\ piece \in 1 .. Len(Cuts[cur]) /\ Len(Cuts[cur]) \in Nat
      /\ Cuts[cur][piece] \in Nat /\ Cuts[cur][piece] <= Size[cur]
  BY CutTypes DEF TypeOK
<1>2. /\ Cuts[cur][1] = HeaderSize
      /\ \A i, j \in 1 .. Len(Cuts[cur]) : i < j => Cuts[cur][i] < Cuts[cur][j]
  BY CircBufAssumption
<1>3. CASE piece = 1
  BY <1>1, <1>2, <1>3 DEF Added, PieceSize, HeaderSize
<1>4. CASE piece # 1
  <2>1. piece - 1 \in 1 .. Len(Cuts[cur]) /\ 1 \in 1 .. Len(Cuts[cur])
    BY <1>1, <1>4
  <2>2. Cuts[cur][piece - 1] \in Nat /\ Cuts[cur][piece - 1] < Cuts[cur][piece]
    BY SMTT(30), <1>1, <1>2, <2>1, CutTypes
  <2>3. Cuts[cur][piece - 1] >= HeaderSize
    <3>1. CASE piece - 1 = 1
      BY <1>2, <3>1, <2>2 DEF HeaderSize
    <3>2. CASE piece - 1 # 1
      BY <1>2, <2>1, <2>2, <3>2 DEF HeaderSize
    <3>3. QED
      BY <3>1, <3>2
  <2>4. Added = Cuts[cur][piece - 1]
    BY <1>4 DEF Added
  <2>5. QED
    BY <1>1, <1>4, <2>2, <2>3, <2>4 DEF PieceSize
<1>5. QED
  BY <1>3, <1>4

\* A point whose pieces all have their place.
LEMMA AllPlaced ==
  ASSUME TypeOK, cur \in Points, piece = Len(Cuts[cur]) + 1
  PROVE  Added = Size[cur]
BY CutTypes DEF TypeOK, Added, Size

LEMMA UsedType ==
  ASSUME TypeOK
  PROVE  /\ BufSize \in Nat /\ BufSize > 0
         /\ head \in Nat /\ head < BufSize /\ tail \in Nat /\ tail < BufSize
         /\ tmpHead \in Nat /\ tmpHead < BufSize
         /\ Used \in Nat /\ Used <= BufSize
         /\ ~empty => Used > 0
BY CircBufAssumption DEF TypeOK, Places, Used

LEMMA Distance ==
  ASSUME NEW h \in Places, NEW t \in Places, NEW e \in BOOLEAN, NEW u,
         u = IF e THEN 0 ELSE IF h > t THEN h - t ELSE BufSize - t + h
  PROVE  u \in Nat /\ u <= BufSize
BY CircBufAssumption DEF Places

LEMMA UsedTypePrimed ==
  ASSUME TypeOK'
  PROVE  Used' \in Nat /\ Used' <= BufSize
<1>1. head' \in Places /\ tail' \in Places /\ empty' \in BOOLEAN
  BY DEF TypeOK
<1>2. Used' = IF empty' THEN 0
              ELSE IF head' > tail' THEN head' - tail' ELSE BufSize - tail' + head'
  BY DEF Used
<1>3. QED
  BY <1>1, <1>2, Distance

(***************************************************************************)
(* The room UploadBufAssignMem sees is the room there is, except that it   *)
(* sees too much of it in an empty buffer.                                 *)
(***************************************************************************)
LEMMA AddedType ==
  ASSUME TypeOK, cur \in Points, piece <= Len(Cuts[cur]) + 1
  PROVE  Added \in Nat /\ Added <= Size[cur]
<1>1. CASE piece <= Len(Cuts[cur])
  BY <1>1, NextPiece, CutTypes
<1>2. CASE piece = Len(Cuts[cur]) + 1
  BY <1>2, AllPlaced, CutTypes
<1>3. QED
  BY <1>1, <1>2, CutTypes DEF TypeOK

LEMMA Room ==
  ASSUME IInv, cur # None
  PROVE  /\ ~empty => BytesLeft(tmpHead) = BufSize - Used - Added
         /\ empty => BytesLeft(tmpHead) >= BufSize - Added
<1>1. TypeOK /\ cur \in Points /\ Used + Added <= BufSize /\ tmpHead = Wrap(head + Added)
      /\ (empty => head = tail)
  BY DEF IInv, PointersOK, AddingOK
<1>2. Added \in Nat
  BY AddedType DEF IInv, AddingOK
<1>3. QED
  BY <1>1, <1>2, UsedType DEF BytesLeft, NotWrapped, Used, Wrap

-------------------------------------------------------------------------------
(* The invariant holds at first and every step keeps it. *)

LEMMA InitIInv == Init => IInv
<1> SUFFICES ASSUME Init PROVE IInv
  OBVIOUS
<1>1. TypeOK
  <2>1. NumberTypes
    BY CircBufAssumption DEF Init, UploadBufInit, NumberTypes, Places
  <2>2. FlagTypes
    BY DEF Init, UploadBufInit, FlagTypes
  <2>3. DataTypes
    BY JunkMemory DEF Init, UploadBufInit, DataTypes
  <2>4. QED
    BY <2>1, <2>2, <2>3, Types
<1>2. PointersOK /\ AddingOK
  BY DEF Init, UploadBufInit, PointersOK, AddingOK
<1>3. QED
  BY <1>1, <1>2 DEF IInv

\* A step between two points, with the pointers it leaves.
LEMMA BetweenPoints ==
  ASSUME TypeOK', PointersOK', cur' = None
  PROVE  IInv'
BY DEF IInv, AddingOK

LEMMA TriggerIInv ==
  ASSUME IInv,
         \/ \E d \in PreDurations : UploadArmTrigger(d)
         \/ Fire \/ Terminate \/ EventOver \/ SessionOver
  PROVE  IInv'
<1>1. TypeOK /\ PointersOK /\ BufSize \in Nat /\ BufSize > 0
  BY UsedType DEF IInv
<1>2. CASE \E d \in PreDurations : UploadArmTrigger(d)
  <2>1. PICK d \in PreDurations : UploadArmTrigger(d)
    BY <1>2
  <2>2. NumberTypes'
    BY <1>1, <2>1, CircBufAssumption DEF UploadArmTrigger, TypeOK, Places, NumberTypes
  <2>3. FlagTypes'
    BY <2>1 DEF UploadArmTrigger, FlagTypes
  <2>4. DataTypes'
    BY <1>1, <2>1 DEF UploadArmTrigger, TypeOK, DataTypes
  <2>5. PointersOK' /\ cur' = None
    BY <2>1 DEF UploadArmTrigger, PointersOK
  <2>6. QED
    BY <2>2, <2>3, <2>4, <2>5, TypesPrimed, BetweenPoints
<1>3. CASE Fire \/ Terminate \/ EventOver
  <2>1. /\ trigger' \in {"unarmed", "fired", "terminating"} /\ cur' = None
        /\ UNCHANGED <<mem, head, tail, empty, tmpHead, cur, piece, preDur, preCount, overFlow, out>>
    BY <1>3 DEF Fire, Terminate, EventOver
  <2>2. NumberTypes' /\ DataTypes'
    BY <1>1, <2>1, Types DEF NumberTypes, DataTypes
  <2>3. FlagTypes'
    BY <1>1, <2>1, Types DEF FlagTypes
  <2>4. PointersOK'
    BY <1>1, <2>1 DEF PointersOK
  <2>5. QED
    BY <2>1, <2>2, <2>3, <2>4, TypesPrimed, BetweenPoints
<1>4. CASE SessionOver
  <2>1. NumberTypes'
    BY <1>1, <1>4 DEF SessionOver, TypeOK, Places, NumberTypes
  <2>2. FlagTypes'
    BY <1>4 DEF SessionOver, FlagTypes
  <2>3. DataTypes'
    BY <1>1, <1>4, JunkMemory DEF SessionOver, TypeOK, DataTypes
  <2>4. PointersOK' /\ cur' = None
    BY <1>4 DEF SessionOver, PointersOK
  <2>5. QED
    BY <2>1, <2>2, <2>3, <2>4, TypesPrimed, BetweenPoints
<1>5. QED
  BY <1>2, <1>3, <1>4

\* Giving up the oldest point leaves the tail in the buffer.
LEMMA AfterOldestType ==
  ASSUME IInv, Fits
  PROVE  AfterOldest \subseteq Places
<1>1. CASE tail + nBytesIdx \in Places /\ \E p \in Points : mem[tail + nBytesIdx] = <<p, nBytesIdx>>
  <2>1. PICK p \in Points : mem[tail + nBytesIdx] = <<p, nBytesIdx>>
    BY <1>1
  <2>2. Size[p] \in Nat /\ Size[p] <= BufSize
    BY CutTypes DEF Fits
  <2> DEFINE next == tail + Size[p]
  <2>3. AfterOldest = {IF next >= BufSize THEN next - BufSize ELSE next}
    <3>1. mem[tail + nBytesIdx][1] = p
      BY <2>1
    <3>2. QED
      BY <1>1, <3>1 DEF AfterOldest
  <2>4. next \in Nat /\ next < 2 * BufSize /\ BufSize \in Nat
    BY <2>2, UsedType DEF IInv
  <2> HIDE DEF next
  <2>5. (IF next >= BufSize THEN next - BufSize ELSE next) \in Places
    BY <2>4 DEF Places
  <2>6. QED
    BY <2>3, <2>5
<1>2. CASE ~(tail + nBytesIdx \in Places /\ \E p \in Points : mem[tail + nBytesIdx] = <<p, nBytesIdx>>)
  BY <1>2 DEF AfterOldest
<1>3. QED
  BY <1>1, <1>2

LEMMA BeginIInv ==
  ASSUME IInv, Fits, NEW p \in Points, BeginTimePoint(p)
  PROVE  IInv'
<1>1. /\ TypeOK /\ PointersOK /\ BufSize \in Nat /\ BufSize > 0 /\ head < BufSize
  BY UsedType DEF IInv
<1>2. /\ cur' = p /\ piece' = 1 /\ tmpHead' = head
      /\ UNCHANGED <<mem, head, empty, trigger, preDur, overFlow, out>>
  BY DEF BeginTimePoint
<1>3. /\ tail' \in Places /\ preCount' \in Nat /\ preCount' <= preCount
      /\ empty => tail' = tail
  <2>1. CASE DropDue
    <3>1. tail' \in AfterOldest /\ preCount' = preCount - 1 /\ preDur \in Nat /\ preCount \in Nat
      BY <1>1, <2>1 DEF BeginTimePoint, TypeOK
    <3>2. preCount > 0 /\ trigger = "armed"
      BY <2>1, <3>1 DEF DropDue, PreTrig
    <3>3. QED
      BY <1>1, <3>1, <3>2, AfterOldestType DEF PointersOK
  <2>2. CASE ~DropDue
    BY <1>1, <2>2 DEF BeginTimePoint, TypeOK
  <2>3. QED
    BY <2>1, <2>2
<1>4. TypeOK'
  <2>1. NumberTypes' /\ DataTypes'
    BY <1>1, <1>2, <1>3 DEF TypeOK, NumberTypes, DataTypes
  <2>2. FlagTypes'
    BY <1>1, <1>2, Types DEF FlagTypes
  <2>3. QED
    BY <2>1, <2>2, TypesPrimed
<1>5. PointersOK'
  BY <1>1, <1>2, <1>3 DEF PointersOK, TypeOK
<1>6. Added' = 0
  BY <1>2 DEF Added
<1>7. Used' \in Nat /\ Used' <= BufSize
  BY <1>4, UsedTypePrimed
<1>8. tmpHead' = Wrap(head + Added)'
  BY <1>1, <1>2, <1>6 DEF Wrap, TypeOK, Places
<1>9. piece' <= Len(Cuts[cur'])  + 1
  BY <1>2, CutTypes
<1>10. Used' + Added' <= BufSize
  <2>1. \A u, a : u \in Nat /\ u <= BufSize /\ a = 0 => u + a <= BufSize
    BY <1>1
  <2>2. QED
    BY <1>6, <1>7, <2>1
<1>11. AddingOK'
  BY <1>2, <1>8, <1>9, <1>10 DEF AddingOK
<1>12. QED
  BY <1>4, <1>5, <1>11 DEF IInv

\* Where the next piece ends, once there is room for it.
LEMMA NextPlace ==
  ASSUME IInv, Fits, cur # None, piece <= Len(Cuts[cur]), PieceSize <= BytesLeft(tmpHead)
  PROVE  /\ Used + Added + PieceSize <= BufSize
         /\ Behind(tmpHead, PieceSize) = Wrap(head + (Added + PieceSize))
         /\ Behind(tmpHead, PieceSize) \in Places
<1>1. TypeOK /\ cur \in Points /\ Used + Added <= BufSize /\ tmpHead = Wrap(head + Added)
      /\ (empty => head = tail)
  BY DEF IInv, PointersOK, AddingOK
<1>2. /\ Added \in Nat /\ PieceSize \in Nat /\ PieceSize > 0
      /\ Added + PieceSize <= BufSize
  BY <1>1, NextPiece, CutTypes, CircBufAssumption DEF Fits
<1>3. Used + Added + PieceSize <= BufSize
  <2>1. CASE empty
    BY <1>1, <1>2, <2>1, UsedType DEF Used
  <2>2. CASE ~empty
    BY <1>1, <1>2, <2>2, UsedType, Room
  <2>3. QED
    BY <2>1, <2>2
<1> DEFINE n == PieceSize
<1> HIDE DEF n
<1>4. /\ Used + Added + n <= BufSize /\ n \in Nat /\ n > 0
  BY <1>2, <1>3 DEF n
<1>5. /\ Behind(tmpHead, n) = Wrap(head + (Added + n))
      /\ Behind(tmpHead, n) \in Places
  <2> DEFINE t == tmpHead
             a == Added
  <2>1. /\ t \in Nat /\ t < BufSize /\ a \in Nat /\ BufSize \in Nat
        /\ head \in Nat /\ head < BufSize /\ tail \in Nat /\ tail < BufSize
        /\ t = IF head + a >= BufSize THEN head + a - BufSize ELSE head + a
        /\ Used + a + n <= BufSize
    BY <1>1, <1>2, <1>4, UsedType DEF Wrap
  <2>2. CASE empty
    <3>1. Behind(t, n) = IF t + n >= BufSize THEN n - (BufSize - t) ELSE t + n
      BY <2>2 DEF Behind, Section1, NotWrapped
    <3>2. a + n <= BufSize
      BY <2>1, <2>2 DEF Used
    <3>3. QED
      BY <1>4, <2>1, <3>1, <3>2 DEF Wrap, Places
  <2>3. CASE ~empty /\ t > tail
    <3>1. Behind(t, n) = IF t + n >= BufSize THEN n - (BufSize - t) ELSE t + n
      BY <2>3 DEF Behind, Section1, NotWrapped
    <3>2. Used = IF head > tail THEN head - tail ELSE BufSize - tail + head
      BY <2>3 DEF Used
    <3>3. QED
      BY <1>4, <2>1, <2>3, <3>1, <3>2 DEF Wrap, Places
  <2>4. CASE ~empty /\ ~(t > tail)
    <3>1. Behind(t, n) = t + n
      BY <2>4 DEF Behind, Section1, NotWrapped
    <3>2. Used = IF head > tail THEN head - tail ELSE BufSize - tail + head
      BY <2>4 DEF Used
    <3>3. QED
      BY <1>4, <2>1, <2>4, <3>1, <3>2 DEF Wrap, Places
  <2>5. QED
    BY <2>2, <2>3, <2>4
<1>6. QED
  BY <1>3, <1>5 DEF n

\* What CIRCBUF_COPY_DATA writes: the words of the piece in the places of its
\* two sections, and nothing elsewhere.
LEMMA CopiedWords ==
  ASSUME TypeOK, cur \in Points, NEW at \in Places, NEW n \in Nat, NEW from \in Nat,
         n <= BufSize, NotWrapped(at) \/ at + n < BufSize
  PROVE  /\ Copied(at, n, from) \in [Places -> Word]
         /\ \A j \in 0 .. n - 1 : Copied(at, n, from)[Wrap(at + j)] = <<cur, from + j>>
         /\ \A c \in Places :
              (\A j \in 0 .. n - 1 : c # Wrap(at + j)) => Copied(at, n, from)[c] = mem[c]
<1> DEFINE n1 == Section1(at, n)
           w == Copied(at, n, from)
<1>1. /\ n1 \in Nat /\ n1 <= n /\ n - n1 <= at /\ BufSize \in Nat
      /\ at \in Nat /\ at < BufSize /\ at + n1 <= BufSize
      /\ n1 < n => n1 = BufSize - at
  BY UsedType DEF Section1, Places
<1>2. w = [c \in Places |->
             CASE c < n - n1                                -> <<cur, from + n1 + c>>
               [] c >= n - n1 /\ at <= c /\ c < at + n1     -> <<cur, from + c - at>>
               [] c >= n - n1 /\ ~(at <= c /\ c < at + n1)  -> mem[c]]
  BY DEF Copied
<1> HIDE DEF n1, w
<1>3. ASSUME NEW c \in Places
      PROVE  /\ w[c] \in Word
             /\ c < n - n1 => w[c] = <<cur, from + n1 + c>>
             /\ c >= n - n1 /\ at <= c /\ c < at + n1 => w[c] = <<cur, from + c - at>>
             /\ c >= n - n1 /\ ~(at <= c /\ c < at + n1) => w[c] = mem[c]
  <2>1. c \in Nat
    BY <1>1, <1>3 DEF Places
  <2>2. CASE c < n - n1
    BY <1>1, <1>2, <1>3, <2>1, <2>2 DEF Word
  <2>3. CASE c >= n - n1 /\ at <= c /\ c < at + n1
    <3>1. w[c] = <<cur, from + c - at>> /\ ~(c < n - n1)
      BY <1>1, <1>2, <1>3, <2>1, <2>3
    <3>2. from + c - at \in Nat
      BY <1>1, <2>1, <2>3
    <3>3. QED
      BY <2>3, <3>1, <3>2 DEF Word
  <2>4. CASE c >= n - n1 /\ ~(at <= c /\ c < at + n1)
    <3>1. w[c] = mem[c] /\ ~(c < n - n1)
      BY <1>1, <1>2, <1>3, <2>1, <2>4
    <3>2. mem[c] \in Word
      BY <1>3 DEF TypeOK
    <3>3. QED
      BY <2>4, <3>1, <3>2
  <2>5. QED
    BY <1>1, <2>1, <2>2, <2>3, <2>4
<1>4. w \in [Places -> Word]
  BY <1>2, <1>3
<1>5. ASSUME NEW j \in 0 .. n - 1 PROVE w[Wrap(at + j)] = <<cur, from + j>>
  <2>1. j \in Nat /\ j < n
    BY <1>5
  <2>2. CASE j < n1
    <3>1. Wrap(at + j) = at + j /\ at + j \in Places
      BY <1>1, <2>1, <2>2 DEF Wrap, Places
    <3>2. at + j >= n - n1 /\ at <= at + j /\ at + j < at + n1 /\ from + (at + j) - at = from + j
      BY <1>1, <2>1, <2>2
    <3>3. QED
      BY <1>3, <3>1, <3>2
  <2>3. CASE j >= n1
    <3>1. Wrap(at + j) = j - n1 /\ j - n1 \in Places
      BY <1>1, <2>1, <2>3 DEF Wrap, Places
    <3>2. j - n1 < n - n1 /\ from + n1 + (j - n1) = from + j
      BY <1>1, <2>1, <2>3
    <3>3. QED
      BY <1>3, <3>1, <3>2
  <2>4. QED
    BY <1>1, <2>1, <2>2, <2>3
<1>6. ASSUME NEW c \in Places, \A j \in 0 .. n - 1 : c # Wrap(at + j)
      PROVE  w[c] = mem[c]
  <2>1. c \in Nat /\ c < BufSize
    BY <1>1, <1>6 DEF Places
  <2>2. ~(c < n - n1)
    <3> SUFFICES ASSUME c < n - n1 PROVE FALSE
      OBVIOUS
    <3>1. c + n1 \in 0 .. n - 1 /\ Wrap(at + (c + n1)) = c
      BY <1>1, <2>1 DEF Wrap
    <3>2. QED
      BY <1>6, <3>1
  <2>3. ~(at <= c /\ c < at + n1)
    <3> SUFFICES ASSUME at <= c, c < at + n1 PROVE FALSE
      OBVIOUS
    <3>1. c - at \in 0 .. n - 1 /\ Wrap(at + (c - at)) = c
      BY <1>1, <2>1 DEF Wrap
    <3>2. QED
      BY <1>6, <3>1
  <2>4. c >= n - n1
    BY <1>1, <2>1, <2>2
  <2>5. QED
    BY <1>3, <2>3, <2>4
<1>7. QED
  BY <1>4, <1>5, <1>6 DEF w

\* A piece is written to places that were found free.
LEMMA PieceRoom ==
  ASSUME IInv, Fits, cur # None, piece <= Len(Cuts[cur]), PieceSize <= BytesLeft(tmpHead)
  PROVE  /\ tmpHead \in Places /\ PieceSize \in Nat /\ Added \in Nat
         /\ PieceSize <= BufSize
         /\ NotWrapped(tmpHead) \/ tmpHead + PieceSize < BufSize
<1>1. TypeOK /\ cur \in Points
  BY DEF IInv, AddingOK
<1>2. /\ PieceSize \in Nat /\ Added \in Nat /\ Used \in Nat
      /\ Used + Added + PieceSize <= BufSize /\ tail < BufSize /\ tail \in Nat
      /\ tmpHead \in Nat /\ BufSize \in Nat
  BY <1>1, NextPiece, NextPlace, UsedType
<1>3. NotWrapped(tmpHead) \/ tmpHead + PieceSize < BufSize
  BY <1>2 DEF BytesLeft
<1>4. QED
  BY <1>1, <1>2, <1>3 DEF TypeOK

LEMMA AddPieceIInv ==
  ASSUME IInv, Fits, AddPiece
  PROVE  IInv'
<1>1. /\ TypeOK /\ PointersOK /\ cur \in Points /\ cur # None /\ piece <= Len(Cuts[cur])
      /\ PieceSize <= BytesLeft(tmpHead)
  BY DEF IInv, AddingOK, AddPiece
<1>2. /\ tmpHead' = Behind(tmpHead, PieceSize) /\ piece' = piece + 1
      /\ mem' = IF piece = 1 THEN mem ELSE Copied(tmpHead, PieceSize, Added)
      /\ UNCHANGED <<head, tail, empty, cur, trigger, preDur, preCount, overFlow, out>>
  BY DEF AddPiece
<1>3. /\ Used + Added + PieceSize <= BufSize
      /\ tmpHead' = Wrap(head + (Added + PieceSize)) /\ tmpHead' \in Places
  BY <1>1, <1>2, NextPlace
<1>4. mem' \in [Places -> Word]
  <2>1. Copied(tmpHead, PieceSize, Added) \in [Places -> Word]
    BY <1>1, PieceRoom, CopiedWords
  <2>2. QED
    BY <1>1, <1>2, <2>1 DEF TypeOK
<1>5. TypeOK'
  <2>1. NumberTypes' /\ DataTypes'
    BY <1>1, <1>2, <1>3, <1>4, Types DEF NumberTypes, DataTypes
  <2>2. FlagTypes'
    BY <1>1, <1>2, Types DEF FlagTypes
  <2>3. QED
    BY <2>1, <2>2, TypesPrimed
<1>6. PointersOK'
  BY <1>1, <1>2 DEF PointersOK
<1>7. Used' = Used
  BY <1>2 DEF Used
<1>8. Added' = Added + PieceSize
  <2>1. Added' = Cuts[cur][piece]
    BY <1>1, <1>2 DEF Added, TypeOK
  <2>2. QED
    BY <1>1, <2>1, NextPiece
<1>9. piece' <= Len(Cuts[cur']) + 1
  BY <1>1, <1>2, CutTypes DEF TypeOK
<1>10. Used' + Added' <= BufSize
  <2>1. Used \in Nat /\ Added \in Nat /\ PieceSize \in Nat
    BY <1>1, NextPiece, UsedType
  <2>2. QED
    BY <1>3, <1>7, <1>8, <2>1, CircBufAssumption
<1>11. tmpHead' = Wrap(head + Added)'
  BY <1>2, <1>3, <1>8 DEF Wrap
<1>12. AddingOK'
  BY <1>1, <1>2, <1>9, <1>10, <1>11 DEF AddingOK
<1>13. QED
  BY <1>5, <1>6, <1>12 DEF IInv

\* The header is written to its place when the point is complete.
LEMMA HeaderWords ==
  ASSUME IInv, Fits, EndTimePoint
  PROVE  /\ Used + Size[cur] <= BufSize /\ Added = Size[cur]
         /\ Copied(head, HeaderSize, 0) \in [Places -> Word]
         /\ \A j \in 0 .. HeaderSize - 1 : Copied(head, HeaderSize, 0)[Wrap(head + j)] = <<cur, j>>
         /\ \A c \in Places : (\A j \in 0 .. HeaderSize - 1 : c # Wrap(head + j))
                                => Copied(head, HeaderSize, 0)[c] = mem[c]
<1>1. /\ TypeOK /\ cur \in Points /\ Used + Added <= BufSize
      /\ piece <= Len(Cuts[cur]) + 1 /\ piece > Len(Cuts[cur])
      /\ (empty => head = tail)
  BY DEF IInv, AddingOK, PointersOK, EndTimePoint
<1>2. piece = Len(Cuts[cur]) + 1
  BY <1>1, CutTypes DEF TypeOK
<1>3. Added = Size[cur] /\ Size[cur] \in Nat /\ Size[cur] >= HeaderSize + TimeSize
  BY <1>1, <1>2, AllPlaced, CutTypes
<1>4. /\ Used + HeaderSize < BufSize
      /\ HeaderSize \in Nat /\ head \in Places
  BY <1>1, <1>3, UsedType DEF HeaderSize, TimeSize, TypeOK
<1>5. NotWrapped(head) \/ head + HeaderSize < BufSize
  <2>1. CASE ~empty /\ head <= tail
    BY <1>1, <1>4, <2>1, UsedType DEF Used, HeaderSize
  <2>2. CASE empty \/ head > tail
    BY <2>2 DEF NotWrapped
  <2>3. QED
    BY <1>1, <2>1, <2>2, UsedType
<1>6. HeaderSize <= BufSize
  BY <1>1, <1>4, UsedType DEF HeaderSize
<1> DEFINE h == HeaderSize
<1>7. h \in Nat /\ 0 \in Nat
  BY <1>4
<1>8. /\ Copied(head, h, 0) \in [Places -> Word]
      /\ \A j \in 0 .. h - 1 : Copied(head, h, 0)[Wrap(head + j)] = <<cur, 0 + j>>
      /\ \A c \in Places : (\A j \in 0 .. h - 1 : c # Wrap(head + j))
                              => Copied(head, h, 0)[c] = mem[c]
  BY <1>1, <1>4, <1>5, <1>6, <1>7, CopiedWords
<1>9. \A j \in 0 .. h - 1 : Copied(head, h, 0)[Wrap(head + j)] = <<cur, j>>
  <2>1. \A j \in 0 .. h - 1 : 0 + j = j
    BY <1>7
  <2>2. QED
    BY <1>8, <2>1
<1>10. QED
  BY <1>1, <1>3, <1>8, <1>9

LEMMA EndOfPointIInv ==
  ASSUME IInv, Fits, Overflow \/ NoActiveSystem \/ EndTimePoint
  PROVE  IInv'
<1>1. TypeOK /\ PointersOK /\ AddingOK
  BY DEF IInv
<1>2. CASE Overflow \/ NoActiveSystem
  <2>1. /\ cur' = None /\ trigger' \in {trigger, "terminating"} /\ overFlow' \in {overFlow, TRUE}
        /\ UNCHANGED <<mem, head, tail, empty, tmpHead, piece, preDur, preCount, out>>
    BY <1>2 DEF Overflow, NoActiveSystem
  <2>2. NumberTypes' /\ DataTypes'
    BY <1>1, <2>1, Types DEF NumberTypes, DataTypes
  <2>3. FlagTypes'
    BY <1>1, <2>1, Types DEF FlagTypes
  <2>4. PointersOK'
    BY <1>1, <2>1 DEF PointersOK
  <2>5. QED
    BY <2>1, <2>2, <2>3, <2>4, TypesPrimed, BetweenPoints
<1>3. CASE EndTimePoint
  <2>1. /\ cur # None /\ cur' = None /\ head' = tmpHead /\ empty' = FALSE
        /\ mem' = Copied(head, HeaderSize, 0)
        /\ preCount' = IF PreTrig THEN preCount + 1 ELSE preCount
        /\ UNCHANGED <<tail, tmpHead, piece, trigger, preDur, overFlow, out>>
    BY <1>3 DEF EndTimePoint
  <2>2. mem' \in [Places -> Word]
    BY <1>1, <1>3, <2>1, HeaderWords DEF IInv
  <2>3. NumberTypes' /\ DataTypes'
    BY <1>1, <2>1, <2>2, Types DEF NumberTypes, DataTypes
  <2>4. FlagTypes'
    BY <1>1, <2>1, Types DEF FlagTypes
  <2>5. PointersOK'
    BY <2>1 DEF PointersOK
  <2>6. QED
    BY <2>1, <2>3, <2>4, <2>5, TypesPrimed, BetweenPoints
<1>4. QED
  BY <1>2, <1>3

\* The words between tail and head.
LEMMA UnreadType ==
  ASSUME TypeOK
  PROVE  /\ Unread \in Seq(Word) /\ Len(Unread) = Used
         /\ \A k \in 1 .. Used : Wrap(tail + k - 1) \in Places /\ Unread[k] = mem[Wrap(tail + k - 1)]
<1>1. \A k \in 1 .. Used : Wrap(tail + k - 1) \in Places
  BY UsedType DEF Wrap, Places
<1>2. \A k \in 1 .. Used : mem[Wrap(tail + k - 1)] \in Word
  BY <1>1 DEF TypeOK
<1>3. Unread \in [1 .. Used -> Word]
  BY <1>2 DEF Unread
<1>4. Used \in Nat
  BY UsedType
<1>5. QED
  BY <1>1, <1>3, <1>4 DEF Unread

\* The one or two sections that are handed to the socket hold exactly these.
LEMMA SectionsAreUnread ==
  ASSUME TypeOK, ~empty
  PROVE  Sections = Unread
<1>1. nBytes1 \in Nat /\ nBytes2 \in Nat /\ nBytes1 + nBytes2 = Used
  BY UsedType DEF nBytes1, nBytes2, Used
<1>2. ASSUME NEW k \in 1 .. Used
      PROVE  (IF k <= nBytes1 THEN mem[tail + k - 1] ELSE mem[k - nBytes1 - 1])
               = mem[Wrap(tail + k - 1)]
  <2>1. k \in Nat /\ k > 0 /\ k <= nBytes1 + nBytes2
    BY <1>1, <1>2
  <2>2. CASE k <= nBytes1
    <3>1. Wrap(tail + k - 1) = tail + k - 1
      BY <2>1, <2>2, UsedType DEF nBytes1, Wrap
    <3>2. QED
      BY <2>2, <3>1
  <2>3. CASE ~(k <= nBytes1)
    <3>1. Wrap(tail + k - 1) = k - nBytes1 - 1
      BY <2>1, <2>3, UsedType DEF nBytes1, nBytes2, Wrap
    <3>2. QED
      BY <2>3, <3>1
  <2>4. QED
    BY <2>2, <2>3
<1>3. QED
  BY <1>1, <1>2 DEF Sections, Unread

LEMMA UploadIInv ==
  ASSUME IInv, Upload
  PROVE  IInv'
<1>1. TypeOK /\ PointersOK /\ ~empty /\ trigger # "armed" /\ cur = None
  BY DEF IInv, Upload
<1>2. /\ out' = Unread /\ tail' = head /\ empty' = (tail' = head)
      /\ UNCHANGED <<mem, head, tmpHead, cur, piece, trigger, preDur, preCount, overFlow>>
  BY <1>1, SectionsAreUnread DEF Upload
<1>3. NumberTypes'
  BY <1>1, <1>2, Types DEF NumberTypes
<1>4. DataTypes'
  BY <1>1, <1>2, Types, UnreadType DEF DataTypes
<1>5. FlagTypes'
  BY <1>1, <1>2, Types DEF FlagTypes
<1>6. PointersOK'
  BY <1>1, <1>2 DEF PointersOK
<1>7. QED
  BY <1>1, <1>2, <1>3, <1>4, <1>5, <1>6, TypesPrimed, BetweenPoints

LEMMA StepIInv ==
  ASSUME IInv, Fits, [Next]_vars
  PROVE  IInv'
<1>1. CASE UNCHANGED vars
  BY <1>1 DEF vars, IInv, TypeOK, PointersOK, AddingOK, Used, Added, Wrap
<1>2. CASE Next
  BY <1>2, TriggerIInv, BeginIInv, AddPieceIInv, EndOfPointIInv, UploadIInv DEF Next
<1>3. QED
  BY <1>1, <1>2

THEOREM Invariance == Fits => (Spec => []IInv)
<1> SUFFICES ASSUME Fits PROVE Spec => []IInv
  OBVIOUS
<1>1. Init => IInv
  BY InitIInv
<1>2. IInv /\ [Next]_vars => IInv'
  BY StepIInv
<1>3. QED
  BY <1>1, <1>2, PTL DEF Spec

\* Every pointer stays in the buffer (MOVE_TAIL_ONESTEP and UploadBufAssignMem
\* included), whatever the pre-trigger, as long as the points fit the buffer.
THEOREM TypeCorrect == Fits => (Spec => []TypeOK)
<1>1. IInv => TypeOK
  BY DEF IInv
<1>2. QED
  BY <1>1, Invariance, PTL

\* UploadBufAssignMem gives no place away twice: never one that holds a word the
\* host has not seen, nor one the point itself has taken, for every size of the
\* buffer, shape of the points and pre-trigger.
THEOREM NeverOverruns == Fits => (Spec => []NoOverrun)
<1>1. IInv => NoOverrun
  BY DEF IInv, AddingOK, NoOverrun
<1>2. QED
  BY <1>1, Invariance, PTL

-------------------------------------------------------------------------------
(***************************************************************************)
(* The buffer implements the queue of whole time points (module            *)
(* PointQueue), as long as the oldest point can be given up.               *)
(***************************************************************************)
\* The pieces of the point that is being added are in their places; only the
\* header is missing.
PiecesOK ==
  cur # None => \A k \in HeaderSize .. Added - 1 : mem[Wrap(head + k)] = <<cur, k>>

QInv == IInv /\ PiecesOK

\* What a point is given up for is the oldest one, whole, and not the only one.
OldestOK ==
  cur = None /\ DropDue =>
    /\ tail + nBytesIdx \in Places
    /\ \E p \in Recorded :
         Unread[1] = <<p, 0>> /\ Unread[2] = <<p, nBytesIdx>> /\ Size[p] < Used

-------------------------------------------------------------------------------
(* What becomes of the words between tail and head. *)

LEMMA UnreadSame ==
  ASSUME TypeOK, UNCHANGED <<head, tail, empty>>,
         \A k \in 1 .. Used : mem'[Wrap(tail + k - 1)] = mem[Wrap(tail + k - 1)]
  PROVE  Unread' = Unread
<1>1. Used' = Used
  BY DEF Used
<1>2. Unread' = [k \in 1 .. Used' |-> mem'[Wrap(tail + k - 1)]]
  BY DEF Unread, Wrap
<1>3. QED
  BY <1>1, <1>2 DEF Unread

LEMMA UnreadGone ==
  ASSUME empty' = TRUE
  PROVE  Unread' = <<>>
<1>1. Used' = 0
  BY DEF Used
<1>2. Unread' = [k \in 1 .. 0 |-> mem'[(Wrap(tail + k - 1))']]
  BY <1>1 DEF Unread
<1>3. QED
  BY <1>2

LEMMA QueueIsUnread ==
  ASSUME TypeOK
  PROVE  /\ Len(Unread) = Used /\ Unread \in Seq(Word)
         /\ ~empty => Unread # <<>>
<1>1. Len(Unread) = Used /\ Unread \in Seq(Word)
  BY UnreadType
<1>2. ~empty => Len(Unread) > 0
  BY <1>1, UsedType
<1>3. QED
  BY <1>1, <1>2

\* A free place is none of those between tail and head.
LEMMA FreePlace ==
  ASSUME TypeOK, (empty => head = tail), NEW k \in 1 .. Used, NEW j \in Nat, Used + j < BufSize
  PROVE  Wrap(tail + k - 1) # Wrap(head + j)
<1>1. k \in Nat /\ k > 0 /\ k <= Used
  BY UsedType
<1>2. CASE empty
  BY <1>1, <1>2 DEF Used
<1>3. CASE ~empty
  BY <1>1, <1>3, UsedType DEF Used, Wrap
<1>4. QED
  BY <1>2, <1>3

\* Two offsets from head are two places.
LEMMA TwoPlaces ==
  ASSUME TypeOK, NEW i \in Nat, NEW j \in Nat, i < BufSize, j < BufSize, i # j
  PROVE  Wrap(head + i) # Wrap(head + j) /\ Wrap(head + i) \in Places
BY UsedType DEF Wrap, Places

LEMMA WrapTwice ==
  ASSUME TypeOK, NEW a \in Nat, NEW j \in Nat, a + j < BufSize
  PROVE  Wrap(Wrap(head + a) + j) = Wrap(head + (a + j))
BY UsedType DEF Wrap

-------------------------------------------------------------------------------
(* A piece is added, and the last one. *)

LEMMA AddPieceQueue ==
  ASSUME QInv, Fits, AddPiece
  PROVE  Unread' = Unread /\ PiecesOK'
<1>1. /\ TypeOK /\ cur \in Points /\ cur # None /\ piece <= Len(Cuts[cur])
      /\ PieceSize <= BytesLeft(tmpHead) /\ (empty => head = tail)
      /\ tmpHead = Wrap(head + Added)
  BY DEF QInv, IInv, PointersOK, AddingOK, AddPiece
<1>2. /\ mem' = IF piece = 1 THEN mem ELSE Copied(tmpHead, PieceSize, Added)
      /\ piece' = piece + 1 /\ UNCHANGED <<head, tail, empty, cur>>
  BY DEF AddPiece
<1> DEFINE n == PieceSize
           a == Added
           w == Copied(tmpHead, n, a)
<1>3. /\ n \in Nat /\ n > 0 /\ a \in Nat /\ Used \in Nat /\ Used + a + n <= BufSize
      /\ piece = 1 => a = 0 /\ n = HeaderSize
      /\ piece # 1 => a >= HeaderSize
  BY <1>1, NextPiece, NextPlace, UsedType DEF QInv
<1>4. Added' = a + n
  <2>1. Added' = Cuts[cur][piece]
    BY <1>1, <1>2 DEF Added, TypeOK
  <2>2. QED
    BY <1>1, <2>1, NextPiece
<1>5. /\ \A j \in 0 .. n - 1 : w[Wrap(tmpHead + j)] = <<cur, a + j>>
      /\ \A c \in Places : (\A j \in 0 .. n - 1 : c # Wrap(tmpHead + j)) => w[c] = mem[c]
  BY <1>1, PieceRoom, CopiedWords DEF QInv
<1> HIDE DEF n, a, w
<1>6. \A j \in 0 .. n - 1 : Wrap(tmpHead + j) = Wrap(head + (a + j)) /\ Used + (a + j) < BufSize
  <2> SUFFICES ASSUME NEW j \in 0 .. n - 1
               PROVE  Wrap(tmpHead + j) = Wrap(head + (a + j)) /\ Used + (a + j) < BufSize
    OBVIOUS
  <2>1. j \in Nat /\ a + j < BufSize /\ Used + (a + j) < BufSize
    BY <1>1, <1>3, UsedType
  <2>2. Wrap(Wrap(head + a) + j) = Wrap(head + (a + j))
    BY <1>1, <1>3, <2>1, WrapTwice
  <2>3. tmpHead = Wrap(head + a)
    BY <1>1 DEF a
  <2>4. QED
    BY <2>1, <2>2, <2>3
<1>7. ASSUME NEW k \in 1 .. Used PROVE mem'[Wrap(tail + k - 1)] = mem[Wrap(tail + k - 1)]
  <2>1. Wrap(tail + k - 1) \in Places
    BY <1>1, UnreadType
  <2>2. ASSUME NEW j \in 0 .. n - 1 PROVE Wrap(tail + k - 1) # Wrap(tmpHead + j)
    <3>1. a + j \in Nat /\ Used + (a + j) < BufSize /\ Wrap(tmpHead + j) = Wrap(head + (a + j))
      BY <1>3, <1>6
    <3>2. QED
      BY <1>1, <3>1, FreePlace
  <2>3. w[Wrap(tail + k - 1)] = mem[Wrap(tail + k - 1)]
    BY <1>5, <2>1, <2>2
  <2>4. QED
    BY <1>2, <2>3 DEF w, n, a
<1>8. Unread' = Unread
  BY <1>1, <1>2, <1>7, UnreadSame
<1>9. ASSUME NEW k \in HeaderSize .. a + n - 1 PROVE mem'[Wrap(head + k)] = <<cur, k>>
  <2>1. k \in Nat /\ k < a + n /\ k >= HeaderSize /\ piece # 1
    BY <1>3, <1>9 DEF HeaderSize
  <2>2. mem' = w
    BY <1>2, <2>1 DEF w, n, a
  <2>3. CASE k < a
    <3>1. mem[Wrap(head + k)] = <<cur, k>>
      BY <1>1, <1>3, <2>1, <2>3 DEF QInv, PiecesOK, a, HeaderSize
    <3>2. Wrap(head + k) \in Places /\ \A j \in 0 .. n - 1 : Wrap(head + k) # Wrap(tmpHead + j)
      <4>1. k < BufSize
        BY <1>3, <2>1, <2>3, CircBufAssumption
      <4>2. Wrap(head + k) \in Places
        BY <1>1, <2>1, <4>1, UsedType DEF Wrap, Places
      <4>3. ASSUME NEW j \in 0 .. n - 1 PROVE Wrap(head + k) # Wrap(tmpHead + j)
        <5>1. a + j \in Nat /\ a + j < BufSize /\ k # a + j
          BY <1>3, <2>1, <2>3, CircBufAssumption
        <5>2. QED
          BY <1>1, <1>6, <2>1, <4>1, <5>1, TwoPlaces
      <4>4. QED
        BY <4>2, <4>3
    <3>3. QED
      BY <1>5, <2>2, <3>1, <3>2
  <2>4. CASE k >= a
    <3>1. k - a \in 0 .. n - 1 /\ a + (k - a) = k
      BY <1>3, <2>1, <2>4
    <3>2. w[Wrap(tmpHead + (k - a))] = <<cur, a + (k - a)>>
      BY <1>5, <3>1
    <3>3. Wrap(tmpHead + (k - a)) = Wrap(head + (a + (k - a)))
      BY <1>6, <3>1
    <3>4. QED
      BY <2>2, <3>1, <3>2, <3>3
  <2>5. QED
    BY <1>3, <2>1, <2>3, <2>4
<1>10. PiecesOK'
  <2>1. HeaderSize .. Added' - 1 = HeaderSize .. a + n - 1
    BY <1>3, <1>4
  <2>2. ASSUME NEW k \in HeaderSize .. Added' - 1
        PROVE  mem'[(Wrap(head + k))'] = <<cur', k>>
    <3>1. k \in HeaderSize .. a + n - 1
      BY <2>1, <2>2
    <3>2. (Wrap(head + k))' = Wrap(head + k)
      BY <1>2 DEF Wrap
    <3>3. QED
      BY <1>2, <1>9, <3>1, <3>2
  <2>3. QED
    BY <2>2 DEF PiecesOK, HeaderSize
<1>11. QED
  BY <1>8, <1>10

LEMMA EndTimePointQueue ==
  ASSUME QInv, Fits, EndTimePoint
  PROVE  Unread' = Unread \o Queue!Words(cur) /\ Used + Size[cur] <= BufSize
<1>1. /\ TypeOK /\ cur \in Points /\ (empty => head = tail) /\ tmpHead = Wrap(head + Added)
      /\ head' = tmpHead /\ empty' = FALSE /\ tail' = tail
      /\ mem' = Copied(head, HeaderSize, 0) /\ cur # None
  BY DEF QInv, IInv, PointersOK, AddingOK, EndTimePoint
<1> DEFINE s == Size[cur]
           w == Copied(head, HeaderSize, 0)
<1>2. /\ s \in Nat /\ s >= HeaderSize /\ s > 0 /\ Used \in Nat /\ Used + s <= BufSize
      /\ Added = s /\ BufSize \in Nat
  BY SMTT(30), <1>1, CutTypes, HeaderWords, UsedType DEF QInv, HeaderSize, TimeSize
<1>3. /\ \A j \in 0 .. HeaderSize - 1 : w[Wrap(head + j)] = <<cur, j>>
      /\ \A c \in Places : (\A j \in 0 .. HeaderSize - 1 : c # Wrap(head + j)) => w[c] = mem[c]
  BY HeaderWords DEF QInv
<1>4. \A k \in HeaderSize .. s - 1 : mem[Wrap(head + k)] = <<cur, k>>
  BY <1>1, <1>2 DEF QInv, PiecesOK
<1>5. Used' = Used + s
  <2>1. Used' = IF tmpHead > tail THEN tmpHead - tail ELSE BufSize - tail + tmpHead
    BY <1>1 DEF Used
  <2>2. tmpHead = Wrap(head + s)
    BY <1>1, <1>2
  <2> HIDE DEF s
  <2>3. CASE empty
    BY <1>1, <1>2, <2>1, <2>2, <2>3, UsedType DEF Used, Wrap
  <2>4. CASE ~empty
    BY <1>1, <1>2, <2>1, <2>2, <2>4, UsedType DEF Used, Wrap
  <2>5. QED
    BY <2>3, <2>4
<1> HIDE DEF s, w
<1>6. ASSUME NEW k \in 1 .. Used PROVE w[Wrap(tail + k - 1)] = mem[Wrap(tail + k - 1)]
  <2>1. Wrap(tail + k - 1) \in Places
    BY <1>1, UnreadType
  <2>2. ASSUME NEW j \in 0 .. HeaderSize - 1 PROVE Wrap(tail + k - 1) # Wrap(head + j)
    <3>1. j \in Nat /\ Used + j < BufSize
      BY <1>2 DEF HeaderSize
    <3>2. QED
      BY <1>1, <3>1, FreePlace
  <2>3. QED
    BY <1>3, <2>1, <2>2
<1>7. ASSUME NEW k \in 0 .. s - 1 PROVE w[Wrap(head + k)] = <<cur, k>>
  <2>1. k \in Nat /\ k < BufSize
    BY <1>2
  <2>2. CASE k < HeaderSize
    BY <1>3, <2>1, <2>2 DEF HeaderSize
  <2>3. CASE k >= HeaderSize
    <3>1. mem[Wrap(head + k)] = <<cur, k>>
      BY <1>2, <1>4, <2>1, <2>3 DEF HeaderSize
    <3>2. ASSUME NEW j \in 0 .. HeaderSize - 1 PROVE Wrap(head + k) # Wrap(head + j)
      <4>1. j \in Nat /\ j < BufSize /\ j # k
        BY <1>2, <2>1, <2>3, <3>2 DEF HeaderSize
      <4>2. QED
        BY <1>1, <2>1, <4>1, TwoPlaces
    <3>3. Wrap(head + k) \in Places
      BY <1>1, <2>1, UsedType DEF Wrap, Places
    <3>4. QED
      BY <1>3, <3>1, <3>2, <3>3
  <2>4. QED
    BY <2>1, <2>2, <2>3 DEF HeaderSize
<1> DEFINE q == Queue!Words(cur)
<1>8. q = [k \in 1 .. s |-> <<cur, k - 1>>] /\ q \in Seq(Word) /\ Len(q) = s
  <2>1. q = [k \in 1 .. s |-> <<cur, k - 1>>]
    BY DEF Queue!Words, s
  <2>2. \A k \in 1 .. s : <<cur, k - 1>> \in Word
    BY <1>1, <1>2 DEF Word
  <2> HIDE DEF q
  <2>3. QED
    BY <1>2, <2>1, <2>2
<1>9. Unread' = [k \in 1 .. Used + s |-> w[(Wrap(tail + k - 1))]]
  BY <1>1, <1>5 DEF Unread, Wrap, w
<1>10. Unread \in Seq(Word) /\ Len(Unread) = Used
       /\ Unread = [k \in 1 .. Used |-> mem[Wrap(tail + k - 1)]]
  BY <1>1, UnreadType DEF Unread
<1> HIDE DEF q
<1>11. ASSUME NEW k \in 1 .. Used + s
       PROVE  w[Wrap(tail + k - 1)] = (Unread \o q)[k]
  <2>1. k \in Nat /\ k > 0 /\ k <= Used + s
    BY <1>2
  <2>2. CASE k <= Used
    <3>1. w[Wrap(tail + k - 1)] = Unread[k]
      BY <1>2, <1>6, <1>10, <2>1, <2>2
    <3>2. QED
      BY <1>2, <1>8, <1>10, <2>1, <2>2, <3>1, ConcatProperties
  <2>3. CASE k > Used
    <3>1. k - Used - 1 \in 0 .. s - 1 /\ k - Used \in 1 .. s
      BY <1>2, <2>1, <2>3
    <3>2. Wrap(tail + k - 1) = Wrap(head + (k - Used - 1))
      <4>1. CASE empty
        BY <1>1, <1>2, <2>1, <2>3, <4>1, UsedType DEF Used, Wrap
      <4>2. CASE ~empty
        BY <1>1, <1>2, <2>1, <2>3, <4>2, UsedType DEF Used, Wrap
      <4>3. QED
        BY <4>1, <4>2
    <3>3. w[Wrap(tail + k - 1)] = q[k - Used]
      BY <1>7, <1>8, <3>1, <3>2
    <3>4. QED
      BY <1>2, <1>8, <1>10, <2>1, <2>3, <3>3, ConcatProperties
  <2>4. k <= Used \/ k > Used
    BY <1>2, <2>1
  <2>5. QED
    BY <2>2, <2>3, <2>4
<1>12. /\ Unread \o q \in Seq(Word) /\ Len(Unread \o q) = Used + s
       /\ Unread \o q = [k \in 1 .. Used + s |-> (Unread \o q)[k]]
  BY <1>2, <1>8, <1>10, ConcatProperties
<1>13. QED
  BY <1>2, <1>9, <1>11, <1>12 DEF q, s

-------------------------------------------------------------------------------
(* The oldest point is given up. *)

\* The tail moves behind the oldest point, and the rest stays.
LEMMA DropQueue ==
  ASSUME TypeOK, cur = None, DropDue, OldestOK, tail' \in AfterOldest,
         UNCHANGED <<mem, head, empty, overFlow, out>>
  PROVE  /\ Queue!DropOldest
         /\ \E p \in Recorded : Unread[1] = <<p, 0>> /\ tail' = Wrap(tail + Size[p])
<1>1. /\ tail + 1 \in Places /\ Used \in Nat /\ Len(Unread) = Used /\ Unread \in Seq(Word)
      /\ BufSize \in Nat /\ tail \in Nat /\ tail < BufSize /\ head \in Nat /\ head < BufSize
  BY UsedType, UnreadType DEF OldestOK, nBytesIdx
<1>2. PICK p \in Recorded : Unread[1] = <<p, 0>> /\ Unread[2] = <<p, 1>> /\ Size[p] < Used
  BY DEF OldestOK, nBytesIdx
<1>3. p \in Points /\ Size[p] \in Nat /\ Size[p] > 1
  BY CutTypes DEF Recorded, HeaderSize, TimeSize
<1>0. PICK s \in Nat : s = Size[p]
  BY <1>3
<1>4. s \in Nat /\ s > 1 /\ s < Used
  BY <1>0, <1>2, <1>3
<1>5. mem[tail + 1] = <<p, 1>>
  <2>1. 2 \in 1 .. Used /\ Wrap(tail + 2 - 1) = tail + 1
    BY <1>1, <1>4 DEF Wrap, Places
  <2>2. QED
    BY <1>2, <2>1, UnreadType
<1>6. tail' = Wrap(tail + s)
  <2>1. mem[tail + nBytesIdx] = <<p, nBytesIdx>> /\ mem[tail + nBytesIdx][1] = p
    BY <1>5 DEF nBytesIdx
  <2>2. tail + nBytesIdx \in Places
    BY <1>1 DEF nBytesIdx
  <2>3. AfterOldest = {Wrap(tail + s)}
    BY <1>0, <1>3, <2>1, <2>2 DEF AfterOldest, Wrap
  <2>4. QED
    BY <2>3
<1>7. ~empty
  BY <1>4 DEF Used
<1>8. Used' = Used - s
  <2>1. Used' = IF head > tail' THEN head - tail' ELSE BufSize - tail' + head
    BY <1>7 DEF Used
  <2>2. Used = IF head > tail THEN head - tail ELSE BufSize - tail + head
    BY <1>7 DEF Used
  <2>3. tail' = IF tail + s >= BufSize THEN tail + s - BufSize ELSE tail + s
    BY <1>1, <1>6 DEF Wrap
  <2>4. QED
    BY <1>1, <1>4, <2>1, <2>2, <2>3
<1>9. ASSUME NEW k \in 1 .. Used - s
      PROVE  mem[Wrap(Wrap(tail + s) + k - 1)] = Unread[s + k]
  <2>1. s + k \in 1 .. Used
    BY <1>1, <1>4
  <2>2. Wrap(Wrap(tail + s) + k - 1) = Wrap(tail + (s + k) - 1)
    <3>1. k \in Nat /\ k > 0 /\ s + k <= BufSize
      BY <1>1, <1>4, UsedType
    <3>2. QED
      BY <1>1, <1>4, <3>1 DEF Wrap
  <2>3. QED
    BY <2>1, <2>2, UnreadType
<1>10. Unread' = [k \in 1 .. Used - s |-> mem[Wrap(Wrap(tail + s) + k - 1)]]
  BY <1>6, <1>8 DEF Unread, Wrap
<1>11. SubSeq(Unread, s + 1, Len(Unread)) = [k \in 1 .. Used - s |-> Unread[s + k]]
  <2>1. SubSeq(Unread, s + 1, Used) = [k \in 1 .. Used - (s + 1) + 1 |-> Unread[k + (s + 1) - 1]]
    BY <1>1, <1>4
  <2>2. Used - (s + 1) + 1 = Used - s /\ \A k \in 1 .. Used - s : k + (s + 1) - 1 = s + k
    BY <1>1, <1>4
  <2>3. QED
    BY <1>1, <2>1, <2>2
<1>12. Unread' = SubSeq(Unread, s + 1, Len(Unread))
  BY <1>9, <1>10, <1>11
<1>13. Unread # <<>> /\ Unread[1][1] = p
  BY <1>1, <1>2, <1>4
<1>14. QED
  BY <1>0, <1>2, <1>6, <1>12, <1>13 DEF Queue!DropOldest

-------------------------------------------------------------------------------
(* The invariant and the refinement, step by step. *)

LEMMA InitQueue == Init => QInv /\ Queue!QueueInit
<1> SUFFICES ASSUME Init PROVE QInv /\ Queue!QueueInit
  OBVIOUS
<1>1. IInv
  BY InitIInv
<1>2. PiecesOK
  BY DEF Init, PiecesOK
<1>3. Used = 0
  BY DEF Init, UploadBufInit, Used
<1>4. Unread = <<>>
  BY <1>3 DEF Unread
<1>5. QED
  BY <1>1, <1>2, <1>4 DEF QInv, Queue!QueueInit, Init

LEMMA StepQueue ==
  ASSUME QInv, Fits, OldestOK, [Next]_vars
  PROVE  QInv' /\ [Queue!QueueNext]_(Queue!queueVars)
<1>1. TypeOK /\ IInv' /\ (empty => head = tail)
  BY StepIInv DEF QInv, IInv, PointersOK
<1>2. CASE \E d \in PreDurations : UploadArmTrigger(d)
  <2>1. PICK d \in PreDurations : UploadArmTrigger(d)
    BY <1>2
  <2>2. cur' = None /\ empty' = TRUE /\ overFlow' = FALSE /\ out' = out
    BY <2>1 DEF UploadArmTrigger
  <2>3. Queue!Reset
    BY <2>2, UnreadGone DEF Queue!Reset
  <2>4. QED
    BY <1>1, <2>2, <2>3 DEF QInv, PiecesOK, Queue!QueueNext
<1>3. CASE SessionOver
  <2>1. cur' = None /\ empty' = TRUE /\ overFlow' = FALSE /\ out' = out
    BY <1>3 DEF SessionOver
  <2>2. Queue!Reset
    BY <2>1, UnreadGone DEF Queue!Reset
  <2>3. QED
    BY <1>1, <2>1, <2>2 DEF QInv, PiecesOK, Queue!QueueNext
<1>4. CASE Fire \/ Terminate \/ EventOver \/ NoActiveSystem
  <2>1. /\ cur' = None
        /\ UNCHANGED <<mem, head, tail, empty, overFlow, out>>
    BY <1>4 DEF Fire, Terminate, EventOver, NoActiveSystem
  <2>2. UNCHANGED Queue!queueVars
    BY <1>1, <2>1, UnreadSame DEF Queue!queueVars
  <2>3. QED
    BY <1>1, <2>1, <2>2 DEF QInv, PiecesOK
<1>5. CASE \E p \in Points : BeginTimePoint(p)
  <2>1. /\ UNCHANGED <<mem, head, empty, overFlow, out>> /\ piece' = 1
        /\ IF DropDue THEN tail' \in AfterOldest ELSE tail' = tail
        /\ cur = None
    BY <1>5 DEF BeginTimePoint
  <2>2. ASSUME DropDue PROVE Queue!DropOldest
    BY <1>1, <2>1, <2>2, DropQueue
  <2>3. ASSUME ~DropDue PROVE UNCHANGED Queue!queueVars
    BY <1>1, <2>1, <2>3, UnreadSame DEF Queue!queueVars
  <2>4. PiecesOK'
    BY <2>1 DEF PiecesOK, Added, HeaderSize
  <2>5. QED
    BY <1>1, <2>2, <2>3, <2>4 DEF QInv, Queue!QueueNext
<1>6. CASE AddPiece
  <2>1. Unread' = Unread /\ PiecesOK' /\ UNCHANGED <<overFlow, out>>
    BY <1>6, AddPieceQueue DEF AddPiece
  <2>2. UNCHANGED Queue!queueVars
    BY <2>1 DEF Queue!queueVars
  <2>3. QED
    BY <1>1, <2>1, <2>2 DEF QInv
<1>7. CASE Overflow
  <2>1. /\ cur # None /\ cur' = None /\ piece <= Len(Cuts[cur]) /\ PieceSize > BytesLeft(tmpHead)
        /\ IF PreTrig THEN overFlow' = overFlow ELSE overFlow' = TRUE
        /\ UNCHANGED <<mem, head, tail, empty, out>>
    BY <1>7 DEF Overflow
  <2>2. cur \in Points /\ Used \in Nat /\ BufSize \in Nat
    BY <1>1, <2>1, UsedType DEF QInv, IInv, AddingOK
  <2>3. /\ Added \in Nat /\ PieceSize \in Nat /\ Added + PieceSize <= Size[cur]
        /\ Size[cur] \in Nat /\ Size[cur] <= BufSize
    BY <1>1, <2>1, <2>2, NextPiece, CutTypes DEF Fits
  <2>4. Used + Size[cur] > BufSize
    <3>1. CASE empty
      <4>1. BytesLeft(tmpHead) >= BufSize - Added
        BY <2>1, <3>1, Room DEF QInv
      <4>2. BytesLeft(tmpHead) \in Int
        BY <1>1, UsedType DEF BytesLeft
      <4>3. QED
        BY <2>1, <2>2, <2>3, <4>1, <4>2
    <3>2. CASE ~empty
      <4>1. BytesLeft(tmpHead) = BufSize - Used - Added
        BY <2>1, <3>2, Room DEF QInv
      <4>2. QED
        BY <2>1, <2>2, <2>3, <4>1
    <3>3. QED
      BY <3>1, <3>2
  <2>5. ASSUME ~PreTrig PROVE Queue!Refuse(cur)
    BY <1>1, <2>1, <2>4, <2>5, UnreadSame, QueueIsUnread DEF Queue!Refuse
  <2>6. ASSUME PreTrig PROVE UNCHANGED Queue!queueVars
    BY <1>1, <2>1, <2>6, UnreadSame DEF Queue!queueVars
  <2>7. PiecesOK'
    BY <2>1 DEF PiecesOK
  <2>8. QED
    BY <1>1, <2>2, <2>5, <2>6, <2>7 DEF QInv, Queue!QueueNext
<1>8. CASE EndTimePoint
  <2>1. cur' = None /\ cur # None /\ UNCHANGED <<overFlow, out>>
    BY <1>8 DEF EndTimePoint
  <2>2. cur \in Points
    BY <2>1 DEF QInv, IInv, AddingOK
  <2>3. Queue!Enqueue(cur)
    BY <1>1, <1>8, <2>1, EndTimePointQueue, QueueIsUnread DEF Queue!Enqueue
  <2>4. QED
    BY <1>1, <2>1, <2>2, <2>3 DEF QInv, PiecesOK, Queue!QueueNext
<1>9. CASE Upload
  <2>1. /\ cur = None /\ cur' = None /\ ~empty /\ out' = Unread /\ empty' = TRUE
        /\ UNCHANGED overFlow
    BY <1>1, <1>9, SectionsAreUnread DEF Upload
  <2>2. Queue!TakeAll
    BY <1>1, <2>1, UnreadGone, QueueIsUnread DEF Queue!TakeAll
  <2>3. QED
    BY <1>1, <2>1, <2>2 DEF QInv, PiecesOK, Queue!QueueNext
<1>10. CASE UNCHANGED vars
  <2>1. UNCHANGED <<mem, head, tail, empty, cur, piece, overFlow, out>>
    BY <1>10 DEF vars
  <2>2. UNCHANGED Queue!queueVars
    BY <1>1, <2>1, UnreadSame DEF Queue!queueVars
  <2>3. PiecesOK'
    BY <2>1 DEF QInv, PiecesOK, Added, Wrap
  <2>4. QED
    BY <1>1, <2>1, <2>2, <2>3 DEF QInv
<1>11. QED
  BY <1>2, <1>3, <1>4, <1>5, <1>6, <1>7, <1>8, <1>9, <1>10 DEF Next

\* UploadBufAddTimePoint records whole points in order and refuses exactly those
\* that do not fit; the upload server hands out exactly what was recorded.
THEOREM BufferIsQueue == Fits /\ NoPreTrigger => (Spec => ImplementsQueue)
<1> SUFFICES ASSUME Fits, NoPreTrigger PROVE Spec => ImplementsQueue
  OBVIOUS
<1>1. Init => QInv /\ preDur = 0 /\ Queue!QueueInit
  BY InitQueue DEF Init
<1>2. QInv /\ preDur = 0 /\ [Next]_vars => (QInv /\ preDur = 0)' /\ [Queue!QueueNext]_(Queue!queueVars)
  <2> SUFFICES ASSUME QInv, preDur = 0, [Next]_vars
               PROVE  QInv' /\ preDur' = 0 /\ [Queue!QueueNext]_(Queue!queueVars)
    OBVIOUS
  <2>1. OldestOK
    BY DEF OldestOK, DropDue, PreTrig
  <2>2. preDur' = 0
    BY DEF NoPreTrigger, Next, vars, UploadArmTrigger, Fire, Terminate, EventOver, SessionOver,
           BeginTimePoint, AddPiece, Overflow, NoActiveSystem, EndTimePoint, Upload
  <2>3. QED
    BY <2>1, <2>2, StepQueue
<1>3. QED
  BY <1>1, <1>2, PTL DEF Spec, ImplementsQueue, Queue!QueueSpec

-------------------------------------------------------------------------------
(***************************************************************************)
(* Pre-triggering.  While the trigger is armed the buffer holds preCount   *)
(* whole points, the oldest at its tail, which is never the last place: a  *)
(* multiple of G leaves place for two words of a header behind it.         *)
(***************************************************************************)
\* S[i] words of q are those of its first i points; there are n of them.
Divides(S, q, n) ==
  /\ S \in [0 .. n -> Nat] /\ S[0] = 0 /\ S[n] = Len(q)
  /\ \A i, j \in 0 .. n : i <= j => S[i] <= S[j]
  /\ \A i \in 0 .. n - 1 : \E p \in Recorded :
       S[i + 1] = S[i] + Size[p] /\ \A j \in 1 .. Size[p] : q[S[i] + j] = <<p, j - 1>>

Whole(q, n) == \E S : Divides(S, q, n)

AlignedInv(G) == Multiple(head, G) /\ Multiple(tail, G)

PreInv(G) == AlignedInv(G) /\ preDur # 1 /\ (PreTrig => Whole(Unread, preCount))

LEMMA RecordedSize ==
  ASSUME NEW p \in Recorded
  PROVE  p \in Points /\ Size[p] \in Nat /\ Size[p] >= 7
BY CutTypes DEF Recorded, HeaderSize, TimeSize

\* No point.
LEMMA WholeEmpty == Whole(<<>>, 0)
<1> DEFINE S == [i \in 0 .. 0 |-> 0]
<1>1. Divides(S, <<>>, 0)
  BY DEF Divides
<1>2. QED
  BY <1>1 DEF Whole

\* One more point.
LEMMA WholeAppend ==
  ASSUME NEW q \in Seq(Word), NEW n \in Nat, Whole(q, n), NEW p \in Recorded
  PROVE  Whole(q \o Queue!Words(p), n + 1)
<1>1. PICK S : Divides(S, q, n)
  BY DEF Whole
<1>0. p \in Points /\ Size[p] \in Nat /\ Size[p] >= 7
  BY RecordedSize
<1>2. PICK s \in Nat : s = Size[p]
  BY <1>0
<1>3. PICK w : w = Queue!Words(p)
  OBVIOUS
<1>4. w \in Seq(Word) /\ Len(w) = s /\ \A j \in 1 .. s : w[j] = <<p, j - 1>>
  <2>1. w = [k \in 1 .. s |-> <<p, k - 1>>]
    BY <1>2, <1>3 DEF Queue!Words
  <2>2. \A k \in 1 .. s : <<p, k - 1>> \in Word
    BY <1>0, <1>2 DEF Word
  <2>3. w \in [1 .. s -> Word]
    BY <2>1, <2>2
  <2>4. w \in Seq(Word) /\ Len(w) = s
    BY <2>3
  <2>5. QED
    BY <2>1, <2>4
<1>5. /\ q \o w \in Seq(Word) /\ Len(q \o w) = Len(q) + s /\ Len(q) \in Nat
      /\ \A k \in 1 .. Len(q) : (q \o w)[k] = q[k]
      /\ \A k \in 1 .. s : (q \o w)[Len(q) + k] = w[k]
  <2>0. w \in Seq(Word) /\ Len(w) = s
    BY <1>4
  <2>1. Len(q) \in Nat /\ q \o w \in Seq(Word) /\ Len(q \o w) = Len(q) + s
    <3>1. q \o w \in Seq(Word)
      BY <2>0
    <3>2. Len(q \o w) = Len(q) + Len(w)
      BY <2>0, ConcatProperties
    <3>3. Len(q) \in Nat
      OBVIOUS
    <3>4. QED
      BY <2>0, <3>1, <3>2, <3>3
  <2>2. \A k \in 1 .. Len(q) : (q \o w)[k] = q[k]
    BY <1>2, <1>4
  <2>3. ASSUME NEW k \in 1 .. s PROVE (q \o w)[Len(q) + k] = w[k]
    BY <1>2, <1>4, <2>1
  <2>4. QED
    BY <2>1, <2>2, <2>3
<1> DEFINE T == [i \in 0 .. n + 1 |-> IF i = n + 1 THEN Len(q) + s ELSE S[i]]
<1>6. /\ S \in [0 .. n -> Nat] /\ S[0] = 0 /\ S[n] = Len(q)
      /\ \A i, j \in 0 .. n : i <= j => S[i] <= S[j]
  BY <1>1 DEF Divides
<1>7. /\ T \in [0 .. n + 1 -> Nat] /\ T[0] = 0 /\ T[n + 1] = Len(q) + s
      /\ \A i \in 0 .. n : T[i] = S[i]
  BY <1>2, <1>5, <1>6
<1> HIDE DEF T
<1>8. ASSUME NEW i \in 0 .. n + 1, NEW j \in 0 .. n + 1, i <= j PROVE T[i] <= T[j]
  <2>1. CASE j <= n
    BY <1>6, <1>7, <1>8, <2>1
  <2>2. CASE j = n + 1 /\ i = n + 1
    BY <1>7, <2>2
  <2>3. CASE j = n + 1 /\ i <= n
    <3>1. S[i] <= S[n] /\ S[i] \in Nat
      BY <1>6, <2>3
    <3>2. QED
      BY <1>2, <1>5, <1>6, <1>7, <2>3, <3>1
  <2>4. QED
    BY <2>1, <2>2, <2>3
<1>9. ASSUME NEW i \in 0 .. n
      PROVE  \E r \in Recorded :
               T[i + 1] = T[i] + Size[r] /\ \A j \in 1 .. Size[r] : (q \o w)[T[i] + j] = <<r, j - 1>>
  <2>1. CASE i = n
    <3>1. T[i] = Len(q) /\ T[i + 1] = T[i] + Size[p]
      BY <1>2, <1>5, <1>6, <1>7, <2>1
    <3>2. \A j \in 1 .. Size[p] : (q \o w)[T[i] + j] = <<p, j - 1>>
      BY <1>2, <1>4, <1>5, <3>1
    <3>3. QED
      BY <3>1, <3>2
  <2>2. CASE i < n
    <3>1. i \in 0 .. n - 1 /\ i + 1 \in 0 .. n
      BY <2>2
    <3>2. PICK r \in Recorded :
            S[i + 1] = S[i] + Size[r] /\ \A j \in 1 .. Size[r] : q[S[i] + j] = <<r, j - 1>>
      BY <1>1, <3>1 DEF Divides
    <3>3. ASSUME NEW j \in 1 .. Size[r] PROVE (q \o w)[S[i] + j] = <<r, j - 1>>
      <4>1. S[i] \in Nat /\ S[i + 1] <= Len(q) /\ Size[r] \in Nat
        BY <1>6, <3>1, RecordedSize
      <4>2. S[i] + j \in 1 .. Len(q)
        BY SMTT(30), <1>5, <3>2, <4>1
      <4>3. QED
        BY <1>5, <3>2, <4>2
    <3>4. QED
      BY <1>7, <3>1, <3>2, <3>3
  <2>3. i = n \/ i < n
    OBVIOUS
  <2>4. QED
    BY <2>1, <2>2, <2>3
<1>10. Divides(T, q \o w, n + 1)
  <2>1. 0 .. (n + 1) - 1 = 0 .. n
    OBVIOUS
  <2>2. T[n + 1] = Len(q \o w)
    BY <1>5, <1>7
  <2>3. QED
    BY <1>7, <1>8, <1>9, <2>1, <2>2 DEF Divides
<1>11. QED
  BY <1>3, <1>10 DEF Whole

\* The words of the oldest point.
IsFirst(S, q, r) == S[0 + 1] = S[0] + Size[r] /\ \A j \in 1 .. Size[r] : q[S[0] + j] = <<r, j - 1>>

LEMMA FirstPart ==
  ASSUME NEW S, NEW q, NEW n, 0 \in 0 .. n - 1, Divides(S, q, n)
  PROVE  \E r \in Recorded : IsFirst(S, q, r)
<1>1. PICK i : i = 0
  OBVIOUS
<1>2. i \in 0 .. n - 1
  BY <1>1
<1>3. \E r \in Recorded :
        S[i + 1] = S[i] + Size[r] /\ \A j \in 1 .. Size[r] : q[S[i] + j] = <<r, j - 1>>
  BY <1>2 DEF Divides
<1>4. QED
  BY <1>1, <1>3 DEF IsFirst

\* The oldest point is whole, and there is more behind it.
LEMMA WholeFirst ==
  ASSUME NEW q \in Seq(Word), NEW n \in Nat, n >= 2, Whole(q, n)
  PROVE  \E p \in Recorded : q[1] = <<p, 0>> /\ q[2] = <<p, 1>> /\ Size[p] < Len(q)
<1>1. PICK S : Divides(S, q, n)
  BY DEF Whole
<1>2. /\ S \in [0 .. n -> Nat] /\ S[0] = 0 /\ S[n] = Len(q)
      /\ \A i, j \in 0 .. n : i <= j => S[i] <= S[j]
  BY <1>1 DEF Divides
<1>0. 0 \in 0 .. n - 1
  OBVIOUS
<1>3. PICK r \in Recorded : IsFirst(S, q, r)
  BY <1>0, <1>1, FirstPart
<1>4. PICK o \in Recorded : S[1 + 1] = S[1] + Size[o]
  BY <1>1 DEF Divides
<1>5. Size[r] \in Nat /\ Size[r] >= 7 /\ Size[o] \in Nat /\ Size[o] >= 7
  BY RecordedSize
<1>6. q[0 + 1] = <<r, 1 - 1>> /\ q[0 + 2] = <<r, 2 - 1>>
  BY <1>2, <1>3, <1>5 DEF IsFirst
<1>7. S[2] <= Len(q) /\ S[1] \in Nat
  BY <1>2
<1>8. Size[r] < Len(q)
  BY <1>2, <1>3, <1>4, <1>5, <1>7 DEF IsFirst
<1>9. QED
  BY <1>6, <1>8

\* What is left when the oldest point is given up.
LEMMA WholeRest ==
  ASSUME NEW q \in Seq(Word), NEW n \in Nat, n >= 1, Whole(q, n),
         NEW p \in Recorded, q[1] = <<p, 0>>
  PROVE  Whole(SubSeq(q, Size[p] + 1, Len(q)), n - 1)
<1>1. PICK S : Divides(S, q, n)
  BY DEF Whole
<1>2. /\ S \in [0 .. n -> Nat] /\ S[0] = 0 /\ S[n] = Len(q) /\ Len(q) \in Nat
      /\ \A i, j \in 0 .. n : i <= j => S[i] <= S[j]
  BY <1>1 DEF Divides
<1>3. Size[p] \in Nat /\ Size[p] >= 7
  BY RecordedSize
<1>4. S[1] = Size[p]
  <2>1. PICK r \in Recorded : IsFirst(S, q, r)
    <3>1. 0 \in 0 .. n - 1
      OBVIOUS
    <3>2. QED
      BY <1>1, <3>1, FirstPart
  <2>2. q[0 + 1] = <<r, 1 - 1>>
    BY <1>2, <2>1, RecordedSize DEF IsFirst
  <2>3. r = p
    BY <2>2
  <2>4. QED
    BY <1>2, <1>3, <2>1, <2>3 DEF IsFirst
<1>5. PICK s \in Nat : s = Size[p]
  BY <1>3
<1>6. s <= Len(q)
  BY <1>2, <1>4, <1>5
<1>7. PICK t : t = SubSeq(q, s + 1, Len(q))
  OBVIOUS
<1>8. Len(t) = Len(q) - s /\ \A k \in 1 .. Len(q) - s : t[k] = q[s + k]
  <2>1. t = [k \in 1 .. Len(q) - (s + 1) + 1 |-> q[k + (s + 1) - 1]]
    BY <1>7
  <2>2. Len(q) - (s + 1) + 1 = Len(q) - s /\ \A k \in 1 .. Len(q) - s : k + (s + 1) - 1 = s + k
    BY <1>2, <1>5
  <2>3. t = [k \in 1 .. Len(q) - s |-> q[s + k]]
    BY <2>1, <2>2
  <2>4. Len(q) - s \in Nat
    BY <1>2, <1>6
  <2>5. QED
    BY <2>3, <2>4
<1> DEFINE T == [i \in 0 .. n - 1 |-> S[i + 1] - s]
<1>9. ASSUME NEW i \in 0 .. n - 1 PROVE T[i] = S[i + 1] - s /\ T[i] \in Nat /\ i + 1 \in 0 .. n
  <2>1. i + 1 \in 0 .. n /\ 1 <= i + 1 /\ 1 \in 0 .. n
    OBVIOUS
  <2>2. S[1] <= S[i + 1] /\ S[i + 1] \in Nat
    BY <1>2, <2>1
  <2>3. QED
    BY <1>4, <1>5, <2>1, <2>2
<1>10. T \in [0 .. n - 1 -> Nat] /\ T[0] = 0 /\ T[n - 1] = Len(t)
  <2>1. T[0] = S[0 + 1] - s /\ T[n - 1] = S[n - 1 + 1] - s
    BY <1>9
  <2>2. QED
    BY <1>2, <1>4, <1>5, <1>8, <1>9, <2>1
<1> HIDE DEF T
<1>11. ASSUME NEW i \in 0 .. n - 1, NEW j \in 0 .. n - 1, i <= j PROVE T[i] <= T[j]
  <2>1. S[i + 1] <= S[j + 1] /\ S[i + 1] \in Nat /\ S[j + 1] \in Nat
    BY SMTT(30), <1>2, <1>9, <1>11
  <2>2. T[i] = S[i + 1] - s /\ T[j] = S[j + 1] - s
    BY <1>9
  <2>3. QED
    BY <1>5, <2>1, <2>2
<1>12. ASSUME NEW i \in 0 .. n - 1 - 1
       PROVE  \E r \in Recorded :
                T[i + 1] = T[i] + Size[r] /\ \A j \in 1 .. Size[r] : t[T[i] + j] = <<r, j - 1>>
  <2>1. i + 1 \in 0 .. n - 1 /\ i \in 0 .. n - 1 /\ (i + 1) + 1 \in 0 .. n
    OBVIOUS
  <2>2. PICK r \in Recorded :
          S[(i + 1) + 1] = S[i + 1] + Size[r] /\ \A j \in 1 .. Size[r] : q[S[i + 1] + j] = <<r, j - 1>>
    BY <1>1, <2>1 DEF Divides
  <2>3. /\ T[i] = S[i + 1] - s /\ T[i] \in Nat /\ T[i + 1] = S[(i + 1) + 1] - s
        /\ S[i + 1] \in Nat /\ S[(i + 1) + 1] \in Nat /\ S[(i + 1) + 1] <= Len(q)
        /\ Size[r] \in Nat
    BY <1>2, <1>9, <2>1, RecordedSize
  <2>4. ASSUME NEW j \in 1 .. Size[r] PROVE t[T[i] + j] = <<r, j - 1>>
    <3>0. PICK u \in Nat, v \in Nat, l \in Nat, z \in Nat :
            u = S[i + 1] /\ v = S[(i + 1) + 1] /\ l = Len(q) /\ z = Size[r]
      BY <1>2, <2>3
    <3>1. T[i] + j \in 1 .. Len(q) - s /\ s + (T[i] + j) = S[i + 1] + j
      <4>1. /\ T[i] = u - s /\ u - s \in Nat /\ v = u + z /\ v <= l /\ j \in 1 .. z
        BY <2>2, <2>3, <3>0
      <4>2. j \in Nat /\ j >= 1 /\ j <= z
        BY <3>0
      <4>0. u - s \in Nat /\ v = u + z /\ v <= l
        BY <4>1
      <4>3. (u - s) + j >= 1 /\ (u - s) + j <= l - s /\ s + ((u - s) + j) = u + j
        <5>1. (u - s) + j >= 1
          BY <4>0, <4>2
        <5>2. (u - s) + j <= l - s
          BY <4>0, <4>2
        <5>3. s + ((u - s) + j) = u + j
          BY <4>2
        <5>4. QED
          BY <5>1, <5>2, <5>3
      <4>4. (u - s) + j \in 1 .. l - s
        BY <1>5, <3>0, <4>2, <4>3
      <4>5. QED
        BY <3>0, <4>1, <4>3, <4>4
    <3>2. t[T[i] + j] = q[s + (T[i] + j)]
      BY <1>8, <3>1
    <3>3. QED
      BY <2>2, <3>1, <3>2
  <2>5. T[i + 1] = T[i] + Size[r]
    BY SMTT(30), <1>5, <2>2, <2>3
  <2>6. QED
    BY <2>4, <2>5
<1>13. Divides(T, t, n - 1)
  BY <1>10, <1>11, <1>12 DEF Divides
<1>14. QED
  BY <1>5, <1>7, <1>13 DEF Whole

(* Multiples of G. *)

LEMMA MultipleOf ==
  ASSUME NEW G, NEW a \in Int, NEW x, x = a * G
  PROVE  Multiple(x, G)
BY DEF Multiple

LEMMA MultipleWrap ==
  ASSUME NEW G \in Nat, NEW h \in Nat, NEW s \in Nat, Multiple(h, G), Multiple(s, G), Multiple(BufSize, G)
  PROVE  Multiple(Wrap(h + s), G)
<1>1. PICK a \in Int, b \in Int, c \in Int : h = a * G /\ s = b * G /\ BufSize = c * G
  BY DEF Multiple
<1>2. h + s = (a + b) * G /\ h + s - BufSize = (a + b - c) * G
  BY <1>1
<1>3. a + b \in Int /\ a + b - c \in Int
  OBVIOUS
<1>4. Multiple(h + s, G) /\ Multiple(h + s - BufSize, G)
  BY <1>2, <1>3, MultipleOf
<1>5. Wrap(h + s) \in {h + s, h + s - BufSize}
  BY CircBufAssumption DEF Wrap
<1>6. QED
  BY <1>4, <1>5

LEMMA PositiveMultiple ==
  ASSUME NEW G \in Nat, G > 1, NEW d \in Int, d * G > 0
  PROVE  d * G > 1
<1>1. CASE d <= 0
  BY <1>1
<1>2. CASE d >= 1
  <2>1. (d - 1) * G >= 0
    BY <1>2
  <2>2. d * G = (d - 1) * G + G
    OBVIOUS
  <2>3. QED
    BY <2>1, <2>2
<1>3. QED
  BY <1>1, <1>2

\* A multiple of G in the buffer is not its last place.
LEMMA NotLast ==
  ASSUME NEW G, Multiples(G), NEW t \in Places, Multiple(t, G)
  PROVE  t + 1 \in Places
<1>1. PICK a \in Int, c \in Int : t = a * G /\ BufSize = c * G
  BY DEF Multiple, Multiples
<1>2. (c - a) * G = BufSize - t /\ BufSize - t > 0 /\ c - a \in Int
  BY <1>1, CircBufAssumption DEF Places, Multiples
<1>3. BufSize - t > 1
  BY <1>2, PositiveMultiple DEF Multiples
<1>4. QED
  BY <1>3, CircBufAssumption DEF Places

(* The oldest point may be given up, in every step. *)

LEMMA OldestThere ==
  ASSUME TypeOK, NEW G, Multiples(G), PreInv(G)
  PROVE  OldestOK
<1> SUFFICES ASSUME cur = None, DropDue PROVE OldestOK
  BY DEF OldestOK
<1>1. preCount \in Nat /\ preCount >= 2 /\ PreTrig
  BY DEF TypeOK, DropDue, PreTrig, PreInv
<1>2. Unread \in Seq(Word) /\ Len(Unread) = Used
  BY UnreadType
<1>3. PICK p \in Recorded : Unread[1] = <<p, 0>> /\ Unread[2] = <<p, 1>> /\ Size[p] < Len(Unread)
  BY <1>1, <1>2, WholeFirst DEF PreInv
<1>4. tail + 1 \in Places
  BY NotLast DEF TypeOK, PreInv, AlignedInv
<1>5. QED
  BY <1>2, <1>3, <1>4 DEF OldestOK, nBytesIdx

LEMMA PreInit ==
  ASSUME Init, NEW G, Multiples(G)
  PROVE  PreInv(G)
<1>1. Multiple(0, G)
  <2>1. 0 = 0 * G
    BY DEF Multiples
  <2>2. QED
    BY <2>1 DEF Multiple
<1>2. QED
  BY <1>1 DEF Init, UploadBufInit, PreInv, AlignedInv, PreTrig

LEMMA PrePrimed ==
  ASSUME NEW CONSTANT G, Multiple(head', G), Multiple(tail', G), preDur' # 1,
         PreTrig' => Whole(Unread', preCount')
  PROVE  PreInv(G)'
BY DEF PreInv, AlignedInv, Whole, Divides, Multiple

LEMMA PreStep ==
  ASSUME QInv, Fits, NEW CONSTANT G, Multiples(G), 1 \notin PreDurations, PreInv(G), [Next]_vars
  PROVE  PreInv(G)'
<1>1. /\ TypeOK /\ Multiple(head, G) /\ Multiple(tail, G) /\ Multiple(0, G) /\ preDur # 1
      /\ PreTrig => Whole(Unread, preCount)
  <2>1. 0 = 0 * G
    BY DEF Multiples
  <2>2. QED
    BY <2>1 DEF QInv, IInv, PreInv, AlignedInv, Multiple
<1>2. CASE \E d \in PreDurations : UploadArmTrigger(d)
  <2>1. head' = 0 /\ tail' = 0 /\ empty' = TRUE /\ preDur' # 1 /\ preCount' = 0
    BY <1>2 DEF UploadArmTrigger
  <2>2. Unread' = <<>>
    BY <2>1, UnreadGone
  <2>3. Whole(Unread', preCount')
    BY <2>1, <2>2, WholeEmpty
  <2>4. QED
    BY <1>1, <2>1, <2>3, PrePrimed
<1>3. CASE Fire \/ Terminate \/ EventOver \/ SessionOver
  <2>1. /\ trigger' # "armed" /\ preDur' = preDur
        /\ head' \in {head, 0} /\ tail' \in {tail, 0}
    BY <1>3 DEF Fire, Terminate, EventOver, SessionOver
  <2>2. QED
    BY <1>1, <2>1, PrePrimed DEF PreTrig
<1>4. CASE Upload
  <2>1. trigger' # "armed" /\ preDur' = preDur /\ head' = head /\ tail' = head
    BY <1>4 DEF Upload
  <2>2. QED
    BY <1>1, <2>1, PrePrimed DEF PreTrig
<1>5. CASE \E p \in Points : BeginTimePoint(p)
  <2>1. /\ UNCHANGED <<mem, head, empty, trigger, preDur, overFlow, out>> /\ cur = None
        /\ IF DropDue THEN tail' \in AfterOldest /\ preCount' = preCount - 1
                      ELSE UNCHANGED <<tail, preCount>>
    BY <1>5 DEF BeginTimePoint
  <2>2. CASE DropDue
    <3>1. OldestOK
      BY <1>1, OldestThere
    <3>2. /\ Queue!DropOldest
          /\ \E p \in Recorded : Unread[1] = <<p, 0>> /\ tail' = Wrap(tail + Size[p])
      BY <1>1, <2>1, <2>2, <3>1, DropQueue
    <3>3. PICK p \in Recorded : Unread[1] = <<p, 0>> /\ tail' = Wrap(tail + Size[p])
      BY <3>2
    <3>4. Unread' = SubSeq(Unread, Size[p] + 1, Len(Unread))
      <4>1. Unread[1][1] = p
        BY <3>3
      <4>2. QED
        BY <3>2, <4>1 DEF Queue!DropOldest
    <3>5. preCount \in Nat /\ preCount >= 1 /\ PreTrig
      BY <1>1, <2>2 DEF DropDue, PreTrig, TypeOK
    <3>6. Whole(Unread', preCount')
      BY <1>1, <2>1, <2>2, <3>3, <3>4, <3>5, WholeRest, UnreadType
    <3>7. Multiple(tail', G)
      BY <1>1, <3>3, MultipleWrap, RecordedSize, UsedType DEF Multiples
    <3>8. QED
      BY <1>1, <2>1, <3>6, <3>7, PrePrimed
  <2>3. CASE ~DropDue
    <3>1. Unread' = Unread /\ UNCHANGED <<head, tail, trigger, preDur, preCount>>
      BY <1>1, <2>1, <2>3, UnreadSame
    <3>2. QED
      <4>1. PreTrig' = PreTrig
        BY <3>1 DEF PreTrig
      <4>2. QED
        BY <1>1, <3>1, <4>1, PrePrimed
  <2>4. QED
    BY <2>2, <2>3
<1>6. CASE EndTimePoint
  <2>1. /\ head' = tmpHead /\ UNCHANGED <<tail, trigger, preDur>>
        /\ preCount' = IF PreTrig THEN preCount + 1 ELSE preCount
        /\ cur \in Recorded /\ tmpHead = Wrap(head + Added) /\ Added = Size[cur]
    BY <1>1, <1>6, AllPlaced DEF EndTimePoint, QInv, IInv, AddingOK, Recorded, TypeOK
  <2>2. Unread' = Unread \o Queue!Words(cur)
    BY <1>6, EndTimePointQueue
  <2>3. Multiple(head', G)
    BY <1>1, <2>1, MultipleWrap, RecordedSize, UsedType DEF Multiples
  <2>4. PreTrig => Whole(Unread', preCount')
    BY <1>1, <2>1, <2>2, WholeAppend, UnreadType DEF TypeOK
  <2>5. QED
    <3>1. PreTrig' = PreTrig
      BY <2>1 DEF PreTrig
    <3>2. QED
      BY <1>1, <2>1, <2>3, <2>4, <3>1, PrePrimed
<1>7. CASE AddPiece \/ Overflow \/ NoActiveSystem \/ UNCHANGED vars
  <2>1. /\ UNCHANGED <<head, tail, preDur, preCount>>
        /\ PreTrig' => PreTrig
    BY <1>7 DEF AddPiece, Overflow, NoActiveSystem, vars, PreTrig
  <2>2. Unread' = Unread
    <3>1. CASE AddPiece
      BY <3>1, AddPieceQueue
    <3>2. CASE Overflow \/ NoActiveSystem \/ UNCHANGED vars
      <4>1. UNCHANGED <<mem, head, tail, empty>>
        BY <3>2 DEF Overflow, NoActiveSystem, vars
      <4>2. QED
        BY <1>1, <4>1, UnreadSame
    <3>3. QED
      BY <1>7, <3>1, <3>2
  <2>3. QED
    BY <1>1, <2>1, <2>2, PrePrimed
<1>8. QED
  BY <1>2, <1>3, <1>4, <1>5, <1>6, <1>7 DEF Next

\* The same with pre-triggering: MOVE_TAIL_ONESTEP gives up whole points, the oldest
\* first, and the upload server hands out what is left, in order.
THEOREM PreTriggerIsQueue == Fits /\ PreTrigger => (Spec => ImplementsQueue)
<1> SUFFICES ASSUME Fits, PreTrigger PROVE Spec => ImplementsQueue
  OBVIOUS
<1>1. PICK G : Multiples(G)
  BY DEF PreTrigger
<1>2. Init => QInv /\ PreInv(G) /\ Queue!QueueInit
  BY <1>1, InitQueue, PreInit
<1>3. QInv /\ PreInv(G) /\ [Next]_vars => QInv' /\ PreInv(G)' /\ [Queue!QueueNext]_(Queue!queueVars)
  <2> SUFFICES ASSUME QInv, PreInv(G), [Next]_vars
               PROVE  QInv' /\ PreInv(G)' /\ [Queue!QueueNext]_(Queue!queueVars)
    OBVIOUS
  <2>1. OldestOK
    BY <1>1, OldestThere DEF QInv, IInv
  <2>2. QED
    BY <1>1, <2>1, StepQueue, PreStep DEF PreTrigger
<1>4. QED
  BY <1>2, <1>3, PTL DEF Spec, ImplementsQueue, Queue!QueueSpec

================================================================================
