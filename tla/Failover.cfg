SPECIFICATION FailoverFairSpec
CONSTANTS
  Callers = {c1, c2}
  NModels = 2
  Threshold = 2
  Reset = 2
  MaxTime = 3
  MaxCalls = 4
INVARIANTS
  OpenCircuitsSkipped
  SoonestIsTried
PROPERTIES
  EveryCallEnds
CHECK_DEADLOCK FALSE
