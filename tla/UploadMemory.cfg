SPECIFICATION Spec
CONSTANTS
  NumSampTimes = 2
  SignalPkts <- MCSignalPkts
  TriggerPkts <- MCTriggerPkts
  MaxLost = 3
INVARIANTS
  SessionsApart
  AllOrNothing
PROPERTIES
CHECK_DEADLOCK FALSE
