SPECIFICATION Spec
CONSTANTS
  NumUpInfos = 1
  TriggerPkts <- MCPreTriggerOne
  Capacities = {2}
INVARIANTS
  OnlyRecordedData
CHECK_DEADLOCK FALSE
