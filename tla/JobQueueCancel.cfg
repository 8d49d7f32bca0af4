SPECIFICATION Spec
CONSTANTS
  NJobs = 2
  Workers = {w1, w2}
  NoWorker = NoWorker
  Priority <- MCPriority
  MaxAttempts = 2
  MaxConcurrent = 0
  HeartbeatLoss = FALSE
  MaxCrashes = 0
  MaxRequeues = 0
PROPERTY
  CancellationSticks
CHECK_DEADLOCK FALSE
