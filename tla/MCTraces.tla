------------------------------ MODULE MCTraces ------------------------------
EXTENDS Traces, TLC

\* d2 cannot be validated in version 1 and its schema not be pruned in version 2.
MCEarly == [x \in Versions \X Dialects |-> IF x = <<2, "d2">> THEN "schema_pruning_failed" ELSE "none"]

\* Version 2 selects another table, unless the statements are judged anew as well.
MCTables == [x \in Versions \X Dialects |-> IF x[1] = 1 THEN {"t1"} ELSE {"t1", "t2"}]

MCVerdict ==
  [x \in Versions \X Dialects \X Sqls |->
     CASE x[3] = "blank" -> "empty_sql"
       [] x[3] = "good" -> "ok"
       [] x[2] = "d2" /\ x[3] \in {"drops", "keyed"} -> "unsupported_dialect"
       [] x[2] = "d2" /\ x[3] = "odd" -> "missing_column"
       [] x[2] = "d1" /\ x[3] = "keyed" -> "ok"
       [] x[2] = "d1" /\ x[3] = "drops" -> IF x[1] = 1 THEN "ok" ELSE "non_select_statement"
       [] x[2] = "d1" /\ x[3] = "odd" -> IF x[1] = 1 THEN "ok" ELSE "sql_parse_error"]

\* "keyed" holds what looks like a key; what is left of it is not valid everywhere.
MCRedacted == [s \in Sqls |-> IF s = "keyed" THEN "odd" ELSE s]

\* The job is created for d1.
MCInit == TracesInit /\ job.dialect = "d1"

\* Bound: of a deployment, a change of settings and a loss of the input, at most two.
MCChanges == (version - 1) + config.changes + (IF input THEN 0 ELSE 1)

MCNext == TracesNext /\ MCChanges' <= 2

MCSpec == MCInit /\ [][MCNext]_tracesVars

MCSymmetry == Permutations(Runs)
=============================================================================
