SPECIFICATION FairSpec
CONSTANTS
  NJobs = 2
  Workers = {w1, w2}
  NoWorker = NoWorker
  Priority <- MCPriority
  MaxAttempts = 2
  MaxConcurrent = 1
  HeartbeatLoss = FALSE
  MaxCrashes = 1
  MaxRequeues = 1
INVARIANT
  MutualExclusion
PROPERTIES
  CancelLosesOnlyToWorker
  EveryJobSettles
  ImplementsWorkQueue
CHECK_DEADLOCK FALSE
