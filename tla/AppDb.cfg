SPECIFICATION Spec
CONSTANTS
  Procs = {p1, p2}
  NoCopy = NoCopy
  MaxVersion = 2
  Keep = 1
  MaxWrites = 1
  MaxStamps = 2
  MaxFailures = 1
SYMMETRY MCSymmetry
INVARIANTS
  ErrorsAreReal
  StartsOnItsSchema
  RestoreCanBeUndone
CHECK_DEADLOCK FALSE
