SPECIFICATION DisplayFairSpec
CONSTANTS
  Signals <- MCSignals
  Frames = {f1, f2}
  Padding = 1
  MaxQuits = 2
  None = None
INVARIANTS
  DrawsInWindow
  ClosedStaysClosed
  ShowsTheFrame
PROPERTIES
  CloseIsFollowed
