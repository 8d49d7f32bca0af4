--------------------------- MODULE MCSchemaCache ----------------------------
EXTENDS SchemaCache, TLC

\* A table is hidden, shown by the first save and hidden again by the second.
MCSetting == [v \in Saves |-> IF v % 2 = 0 THEN "hidden" ELSE "shown"]

MCSymmetry == Permutations(Threads)
=============================================================================
