------------------------------ MODULE MCSdlDisplay ------------------------------
EXTENDS SdlDisplay

Signal(format, order, rowMajor, width, height) ==
  [format |-> format, order |-> order, rowMajor |-> rowMajor, width |-> width, height |-> height]

\* Pictures of three columns and two rows, or of four columns and three rows, in every
\* order of memory.
MCSignals ==
  {Signal("RGB", "planar", TRUE, 3, 2), Signal("RGB", "planar", FALSE, 2, 3),
   Signal("RGB", "interleaved", FALSE, 9, 2),
   Signal("YCbCr", "planar", TRUE, 4, 3), Signal("YCbCr", "planar", FALSE, 3, 4),
   Signal("YCbCr", "interleaved", TRUE, 8, 3)}
===============================================================================
