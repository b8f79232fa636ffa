-------------------------------- MODULE CircBuf --------------------------------
(***************************************************************************)
(* The words of one circular upload buffer (CircularBuf in updown.c): how  *)
(* UploadBufAddTimePoint assembles a time point in it piece by piece with  *)
(* UploadBufAssignMem, how pre-triggering gives up the oldest point, and   *)
(* how the upload server takes the contents out.  Module ExtModeUpload     *)
(* counts the points of the same buffer.                                   *)
(*                                                                         *)
(* Pointers into the buffer are offsets from circBuf->buf, in words of the *)
(* size of an int32_T.  All of it runs in the base-rate thread.            *)
(***************************************************************************)
EXTENDS Integers, Sequences

CONSTANTS
  BufSize,        \* bufSize
  Points,         \* contents of a time point
  None,           \* not a time point
  Cuts,           \* Cuts[p]: the offset in point p at which each piece of it ends
  PreDurations    \* the pre-trigger durations the host selects

HeaderSize == 5   \* [pktType nBytes nSys tid upInfoIdx]
TimeSize == 2     \* a real_T
nBytesIdx == 1    \* where a point holds its own size

Size == [p \in Points |-> Cuts[p][Len(Cuts[p])]]

\* A point starts with its header and the time; no piece is empty.
ASSUME CircBufAssumption ==
  /\ BufSize \in Nat \ {0}
  /\ None \notin Points
  /\ Cuts \in [Points -> Seq(Nat)]
  /\ \A p \in Points :
       /\ Len(Cuts[p]) >= 2
       /\ Cuts[p][1] = HeaderSize /\ Cuts[p][2] = HeaderSize + TimeSize
       /\ \A i, j \in 1 .. Len(Cuts[p]) : i < j => Cuts[p][i] < Cuts[p][j]
  /\ PreDurations \subseteq Nat

Places == 0 .. BufSize - 1

\* A word of the buffer: the k-th word of a point, or memory as malloc left it.
Word == (Points \cup {None}) \X Nat
Junk == <<None, 0>>

VARIABLES
  mem,        \* the words of buf
  head, tail, empty,
  tmpHead,    \* head of the point that is being added
  cur,        \* that point, or None
  piece,      \* its next piece
  trigger,    \* the part of the trigger's state that matters to the buffer
  preDur, preCount,   \* preTrig.duration and preTrig.count
  overFlow,   \* trigInfo.overFlow
  out         \* history: the words last handed to the socket

vars == <<mem, head, tail, empty, tmpHead, cur, piece, trigger, preDur, preCount,
          overFlow, out>>

UploadBufInit ==
  /\ mem = [c \in Places |-> Junk]
  /\ head = 0 /\ tail = 0 /\ empty = TRUE

Init ==
  /\ UploadBufInit
  /\ tmpHead = 0 /\ cur = None /\ piece = 1
  /\ trigger = "unarmed" /\ preDur = 0 /\ preCount = 0
  /\ overFlow = FALSE
  /\ out = <<>>

-------------------------------------------------------------------------------
\* The trigger, as far as the buffer depends on it.

UploadArmTrigger(d) ==
  /\ cur = None /\ trigger = "unarmed"
  /\ head' = 0 /\ tail' = 0 /\ empty' = TRUE
  /\ overFlow' = FALSE
  /\ preDur' = d /\ preCount' = 0
  /\ trigger' = "armed"
  /\ UNCHANGED <<mem, tmpHead, cur, piece, out>>

Fire ==
  /\ cur = None /\ trigger = "armed"
  /\ trigger' = "fired"
  /\ UNCHANGED <<mem, head, tail, empty, tmpHead, cur, piece, preDur, preCount, overFlow, out>>

\* The duration is over, or logging is cancelled.
Terminate ==
  /\ cur = None /\ trigger \in {"armed", "fired"}
  /\ trigger' = "terminating"
  /\ UNCHANGED <<mem, head, tail, empty, tmpHead, cur, piece, preDur, preCount, overFlow, out>>

\* UploadBufGetData finds nothing left to send, in normal mode.
EventOver ==
  /\ cur = None /\ trigger = "terminating" /\ empty
  /\ trigger' = "unarmed"
  /\ UNCHANGED <<mem, head, tail, empty, tmpHead, cur, piece, preDur, preCount, overFlow, out>>

\* UploadLogInfoTerm frees the buffer, and a new session allocates another one.
SessionOver ==
  /\ cur = None /\ trigger # "unarmed"
  /\ mem' = [c \in Places |-> Junk]
  /\ head' = 0 /\ tail' = 0 /\ empty' = TRUE
  /\ overFlow' = FALSE
  /\ trigger' = "unarmed"
  /\ UNCHANGED <<tmpHead, cur, piece, preDur, preCount, out>>

-------------------------------------------------------------------------------
(***************************************************************************)
(* UploadBufAddTimePoint.                                                  *)
(***************************************************************************)
PreTrig == trigger = "armed" /\ preDur > 0

\* Mutant: the tail is not wrapped.
AfterOldestUnwrapped == {tail + Size[mem[tail + nBytesIdx][1]]}

\* MOVE_TAIL_ONESTEP reads the size of the oldest point one word behind tail.
\* If that is not in the buffer, or holds something else, the tail moves
\* anywhere.
AfterOldest ==
  IF tail + nBytesIdx \in Places /\ \E p \in Points : mem[tail + nBytesIdx] = <<p, nBytesIdx>>
  THEN LET next == tail + Size[mem[tail + nBytesIdx][1]]
       IN {IF next >= BufSize THEN next - BufSize ELSE next}
  ELSE Places

DropDue == PreTrig /\ preCount = preDur

BeginTimePoint(p) ==
  /\ cur = None /\ (trigger = "fired" \/ PreTrig)
  /\ cur' = p /\ piece' = 1 /\ tmpHead' = head
  /\ IF DropDue
     THEN tail' \in AfterOldest /\ preCount' = preCount - 1
     ELSE UNCHANGED <<tail, preCount>>
  /\ UNCHANGED <<mem, head, empty, trigger, preDur, overFlow, out>>

\* UploadBufAssignMem(n) for a section that starts at "at": whether the free
\* space is taken to reach beyond the end of the buffer, the words left, the
\* words of section1, and the place behind the section.
NotWrapped(at) == at > tail \/ empty

\* Mutant: the free space is always taken to reach round the end.
BytesLeftUnwrapped(at) == BufSize - at + tail

BytesLeft(at) == IF NotWrapped(at) THEN BufSize - at + tail ELSE tail - at

Section1(at, n) == IF NotWrapped(at) /\ at + n >= BufSize THEN BufSize - at ELSE n

Behind(at, n) ==
  IF NotWrapped(at) /\ at + n >= BufSize THEN n - Section1(at, n) ELSE at + n

\* CIRCBUF_COPY_DATA of the n words of point cur from word "from" on.
Copied(at, n, from) ==
  LET n1 == Section1(at, n)
  IN [c \in Places |->
        CASE c < n - n1                              -> <<cur, from + n1 + c>>
          [] c >= n - n1 /\ at <= c /\ c < at + n1   -> <<cur, from + c - at>>
          [] c >= n - n1 /\ ~(at <= c /\ c < at + n1) -> mem[c]]

\* The words of point cur that have their place already.
Added == IF piece = 1 THEN 0 ELSE Cuts[cur][piece - 1]

PieceSize == Cuts[cur][piece] - Added

\* The header gets its place first and is written last.
AddPiece ==
  /\ cur # None /\ piece <= Len(Cuts[cur])
  /\ PieceSize <= BytesLeft(tmpHead)
  /\ mem' = IF piece = 1 THEN mem ELSE Copied(tmpHead, PieceSize, Added)
  /\ tmpHead' = Behind(tmpHead, PieceSize)
  /\ piece' = piece + 1
  /\ UNCHANGED <<head, tail, empty, cur, trigger, preDur, preCount, overFlow, out>>

Overflow ==
  /\ cur # None /\ piece <= Len(Cuts[cur])
  /\ PieceSize > BytesLeft(tmpHead)
  /\ cur' = None
  /\ IF PreTrig
     THEN UNCHANGED <<trigger, overFlow>>
     ELSE trigger' = "terminating" /\ overFlow' = TRUE
  /\ UNCHANGED <<mem, head, tail, empty, tmpHead, piece, preDur, preCount, out>>

\* A point without active systems has no pieces after the time: it is dropped.
NoActiveSystem ==
  /\ cur # None /\ piece > Len(Cuts[cur]) /\ Len(Cuts[cur]) = 2
  /\ cur' = None
  /\ UNCHANGED <<mem, head, tail, empty, tmpHead, piece, trigger, preDur, preCount, overFlow, out>>

EndTimePoint ==
  /\ cur # None /\ piece > Len(Cuts[cur]) /\ Len(Cuts[cur]) > 2
  /\ mem' = Copied(head, HeaderSize, 0)
  /\ head' = tmpHead /\ empty' = FALSE
  /\ preCount' = IF PreTrig THEN preCount + 1 ELSE preCount
  /\ cur' = None
  /\ UNCHANGED <<tail, tmpHead, piece, trigger, preDur, overFlow, out>>

-------------------------------------------------------------------------------
(***************************************************************************)
(* UploadServerWork: SetExtBufListFields lists one or two sections, each   *)
(* is handed to the socket, and UploadBufDataSent moves the tail.          *)
(***************************************************************************)
nBytes1 == IF head > tail THEN head - tail ELSE BufSize - tail
\* Mutant: the section at the start of the buffer is forgotten.
NoSecondSection == 0

nBytes2 == IF head > tail THEN 0 ELSE head

Sections ==
  [k \in 1 .. nBytes1 + nBytes2 |->
     IF k <= nBytes1 THEN mem[tail + k - 1] ELSE mem[k - nBytes1 - 1]]

Upload ==
  /\ cur = None /\ trigger \in {"fired", "terminating"} /\ ~empty
  /\ out' = Sections
  /\ tail' = head
  /\ empty' = (tail' = head)
  /\ UNCHANGED <<mem, head, tmpHead, cur, piece, trigger, preDur, preCount, overFlow>>

-------------------------------------------------------------------------------
Next ==
  \/ \E d \in PreDurations : UploadArmTrigger(d)
  \/ Fire
  \/ Terminate
  \/ EventOver
  \/ SessionOver
  \/ \E p \in Points : BeginTimePoint(p)
  \/ AddPiece
  \/ Overflow
  \/ NoActiveSystem
  \/ EndTimePoint
  \/ Upload

Spec == Init /\ [][Next]_vars

-------------------------------------------------------------------------------
TypeOK ==
  /\ mem \in [Places -> Word]
  /\ head \in Places /\ tail \in Places /\ empty \in BOOLEAN
  /\ tmpHead \in Places
  /\ cur \in Points \cup {None}
  /\ piece \in Nat \ {0}
  /\ trigger \in {"unarmed", "armed", "fired", "terminating"}
  /\ preDur \in Nat /\ preCount \in Nat
  /\ overFlow \in BOOLEAN
  /\ out \in Seq(Word)

\* The words between tail and head.
Used ==
  IF empty THEN 0 ELSE IF head > tail THEN head - tail ELSE BufSize - tail + head

Wrap(c) == IF c >= BufSize THEN c - BufSize ELSE c

Unread == [k \in 1 .. Used |-> mem[Wrap(tail + k - 1)]]

\* A point gets no place that holds a word the host has not seen, nor one that
\* it has itself taken already.  It holds if every point fits the buffer: one
\* that is longer takes places of its own twice.
NoOverrun == cur # None => Used + Added <= BufSize

\* Only a whole header is read for the size of the oldest point.  It holds if
\* the size of the buffer is a multiple of the points' (the README says why).
OldestSizeInside == cur = None /\ DropDue => tail + nBytesIdx \in Places

\* The buffer implements the queue of whole time points.
Queue == INSTANCE PointQueue WITH Capacity <- BufSize, queue <- Unread

ImplementsQueue == Queue!QueueSpec
===============================================================================
