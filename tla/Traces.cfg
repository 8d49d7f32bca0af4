SPECIFICATION MCSpec
CONSTANTS
  Runs = {r1, r2}
  MaxAttempts = 2
  MaxVersion = 2
  MaxConfigs = 1
  MaxBuckets = 1
  Dialects = {"d1", "d2"}
  TableNames = {"t1", "t2"}
  Sqls = {"good", "drops", "odd", "keyed", "blank"}
  Blank = "blank"
  NoSql = NoSql
  NoRun = NoRun
  Early <- MCEarly
  Tables <- MCTables
  Verdict <- MCVerdict
  Redacted <- MCRedacted
SYMMETRY MCSymmetry
INVARIANTS
  TraceTellsOutcome
  ReplayTellsTheChange
  PagesAreExact
  MetricsAreWhole
CHECK_DEADLOCK FALSE
