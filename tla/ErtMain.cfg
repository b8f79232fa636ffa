SPECIFICATION FairSpec
CONSTANTS
  MaxSignals = 2
INVARIANTS
  OneServer
PROPERTIES
  NoStepAfterStop
  PausedStepsAsked
  AskedStepRuns
  StopEnds
  SignalEnds
CHECK_DEADLOCK FALSE
