SPECIFICATION FairSpec
CONSTANTS
  Blocks = {b1, b2}
  Devices = {d1, d2}
  NoName = NoName
  MaxDevices = 2
  NumBuffers = 2
  Grants = {1, 2}
  MaxFrames <- MCMaxFrames
  Scenes <- MCScenes
  Tunings = {100, 255}
INVARIANTS
  BuffersConserved
  CleanEnd
  NegativeOfFrame
PROPERTIES
  FramesInOrder
  OutputReturns
CHECK_DEADLOCK FALSE
