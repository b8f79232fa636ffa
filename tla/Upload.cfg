SPECIFICATION Spec
CONSTANTS
  NumUpInfos = 1
  TriggerPkts <- MCTriggers
  Capacities = {0, 1, 2, 3}
INVARIANTS
  UnarmedWithoutHost
  ArmedHasBuffers
  DurationExact
  DelayExact
  CancelIsFinal
CHECK_DEADLOCK FALSE
