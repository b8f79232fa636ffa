SPECIFICATION FairSpec
CONSTANTS
  NumUpInfos = 2
  TriggerPkts <- MCTwoTriggers
  Capacities = {2}
INVARIANTS
  ShutdownFlushes
PROPERTIES
  EventsEnd
CHECK_DEADLOCK FALSE
