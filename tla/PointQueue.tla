------------------------------ MODULE PointQueue ------------------------------
(***************************************************************************)
(* What a circular upload buffer promises: a first-in first-out queue of   *)
(* whole time points, in a bounded number of words.  A point that fits is  *)
(* recorded as a whole, one that does not fit is refused as a whole, and   *)
(* what is handed to the host is exactly what was recorded, in order.      *)
(***************************************************************************)
EXTENDS Integers, Sequences

CONSTANTS
  Points,     \* the contents of a time point, as far as they matter here
  Size,       \* the words of each
  Capacity    \* the words the queue can hold

VARIABLES
  queue,      \* the words that are recorded and not yet handed to the host
  overFlow,   \* a point was refused since the last reset
  out         \* the words last handed to the host

queueVars == <<queue, overFlow, out>>

\* The k-th word of point p is <<p, k>>, from <<p, 0>> on.
Words(p) == [k \in 1 .. Size[p] |-> <<p, k - 1>>]

QueueInit == queue = <<>> /\ overFlow = FALSE /\ out = <<>>

Enqueue(p) ==
  /\ Len(queue) + Size[p] <= Capacity
  /\ queue' = queue \o Words(p)
  /\ UNCHANGED <<overFlow, out>>

Refuse(p) ==
  /\ Len(queue) + Size[p] > Capacity
  /\ overFlow' = TRUE
  /\ UNCHANGED <<queue, out>>

\* Pre-triggering gives up the oldest point for a new one.
DropOldest ==
  /\ queue # <<>>
  /\ queue' = SubSeq(queue, Size[queue[1][1]] + 1, Len(queue))
  /\ UNCHANGED <<overFlow, out>>

TakeAll ==
  /\ queue # <<>>
  /\ queue' = <<>> /\ out' = queue
  /\ UNCHANGED overFlow

Reset ==
  /\ queue' = <<>> /\ overFlow' = FALSE
  /\ UNCHANGED out

QueueNext ==
  \/ \E p \in Points : Enqueue(p) \/ Refuse(p)
  \/ DropOldest
  \/ TakeAll
  \/ Reset

QueueSpec == QueueInit /\ [][QueueNext]_queueVars
===============================================================================
