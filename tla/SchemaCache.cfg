SPECIFICATION Spec
CONSTANTS
  Threads = {t1, t2}
  NoThread = NoThread
  MaxAlters = 1
  MaxSaves = 2
  Setting <- MCSetting
SYMMETRY MCSymmetry
INVARIANTS
  HiddenUnlessReindexed
  NeverBackwards
CHECK_DEADLOCK FALSE
