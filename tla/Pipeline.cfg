SPECIFICATION Spec
CONSTANTS
  Runs = {r1, r2}
  MaxAttempts = 2
  MaxVersion = 2
  Texts = {q1, q2}
  Rests = {NoRest}
  NoRest = NoRest
  NoSql = NoSql
  Sqls <- MCSqls
  Kind <- MCKind
  Views <- MCViews
  ViewsAt <- MCViewsAt
  Fits <- MCFits
  Pretty <- MCPretty
SYMMETRY MCSymmetry
INVARIANTS
  ReportedSqlValid
  RejectedNeverExposed
  HitAnswersQuestion
CHECK_DEADLOCK FALSE
