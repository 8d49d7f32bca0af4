SPECIFICATION EvaluationSpec
CONSTANTS
  Rows <- MCRows
  MaxAnswer = 2
  MaxCases = 3
INVARIANTS
  PassedMeansAgreement
  CategoryIsTrue
  VerdictIsWorstRule
  ReportIsComplete
CHECK_DEADLOCK FALSE
