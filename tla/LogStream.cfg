SPECIFICATION FairSpec
CONSTANTS
  Listeners = {l1, l2}
  MaxLines = 1
  MaxRuns = 2
  MaxCancels = 1
  MaxRequeues = 1
  MaxCrashes = 1
INVARIANTS
  WorkerStreamExact
  WorkerStreamComplete
  InlineStreamOrdered
PROPERTIES
  WorkerStreamEnds
CHECK_DEADLOCK FALSE
