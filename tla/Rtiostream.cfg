SPECIFICATION FairSpec
CONSTANTS
  Clients = {c1, c2}
  None = None
  MaxSent = 2
  MaxQueue = 2
  MaxBacklog = 2
  DgramUnits = 2
  MsgUnits = 3
  MaxPacketSize = 3
INVARIANTS
  InOrder
  SentInOrder
PROPERTIES
  WaitingIsServed
  DeafForEver
CHECK_DEADLOCK FALSE
