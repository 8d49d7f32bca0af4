---------------------------- MODULE MCEvaluation ----------------------------
EXTENDS Evaluation

\* Values one apart, one value in three types, one row with other columns.
MCRows == {[cols |-> "s", val |-> v, type |-> "int"] : v \in 0..2}
            \cup {[cols |-> "s", val |-> 1, type |-> t] : t \in {"float", "bool"}}
            \cup {[cols |-> "t", val |-> 1, type |-> "int"]}
=============================================================================
