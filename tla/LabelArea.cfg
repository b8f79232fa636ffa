SPECIFICATION FairSpec
CONSTANTS
  M = 6
  N = 5
  Limits <- MCLimits
INVARIANTS
  ComponentsLabelled
  NumberedInOrder
  AreasIsolated
  FullTopRowNeverEnds
PROPERTIES
  Ends
CHECK_DEADLOCK FALSE
