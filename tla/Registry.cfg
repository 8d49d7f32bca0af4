SPECIFICATION Spec
CONSTANTS
  Clients = {c1, c2}
  Slugs = {a}
  Modes = {"none", "secret_ref"}
  Signatures = {x}
  MaxIds = 5
SYMMETRY MCSymmetry
INVARIANTS
  NothingOrphaned
  OneDeleteWins
  DriftIsAgainstOwnSnapshot
CHECK_DEADLOCK FALSE
