SPECIFICATION Spec
CONSTANTS
  BufSize = 27
  A = A
  B = B
  C = C
  Off = Off
  None = None
  Points <- MCPoints
  Cuts <- MCCuts
  PreDurations = {0, 2, 3}
INVARIANTS
  NoOverrun
  OldestSizeInside
PROPERTIES
  ImplementsQueue
CHECK_DEADLOCK FALSE
