--------------------------- MODULE MCExtModeUpload ---------------------------
EXTENDS ExtModeUpload

Pkt(m, d, h, y) == [manual |-> m, duration |-> d, holdOff |-> h, delay |-> y]

\* Manual one-shot and normal triggers, delayed and immediate signal triggers,
\* and triggers with two pre-trigger points.
MCTriggers ==
  {Pkt(TRUE, 1, ONESHOT, 0), Pkt(TRUE, 2, 1, 2), Pkt(FALSE, 2, ONESHOT, 1),
   Pkt(FALSE, 1, 2, 2), Pkt(FALSE, 2, 0, 0), Pkt(FALSE, 3, 0, -2),
   Pkt(FALSE, 4, ONESHOT, -2)}

\* For two upInfos: one shot and re-arming at once.
MCTwoTriggers == {Pkt(TRUE, 2, ONESHOT, 0), Pkt(FALSE, 1, 0, 0)}

\* A pre-trigger of one point.
MCPreTriggerOne == {Pkt(FALSE, 2, ONESHOT, -1)}
===============================================================================
