SPECIFICATION Spec
CONSTANTS
  Names = {a, b}
  Caps = {1, 2}
  MaxRows = 3
  MaxCols = 3
INVARIANTS
  RunsAreGuarded
  RowsAreExact
  SessionsEnd
  ErrorsKeepTheLogin
CHECK_DEADLOCK FALSE
