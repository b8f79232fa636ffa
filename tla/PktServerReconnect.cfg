SPECIFICATION Spec
CONSTANTS
  NumClients = 2
  None = 0
  HostPackets <- MCHostPackets
  MaxPackets <- MCMaxPackets
  MaxTotal = 4
  MaxSize = 2
  Transitions <- MCTransitions
  Values = {0, 1}
  Initial = 0
PROPERTIES
  FirstPacketShakesHands
CHECK_DEADLOCK FALSE
