----------------------------- MODULE MCPipeline -----------------------------
EXTENDS Pipeline, TLC

\* A statement of every kind the validators stop, one that fits all of version 1, as
\* written and as printed, and one that fits a part of it and version 2.
MCSqls == {"b", "f", "u", "o", "s1", "p1", "s2"}

MCKind == [s \in MCSqls |->
  CASE s = "b" -> "broken" [] s = "f" -> "forbidden" [] s = "u" -> "unsafe"
    [] s = "o" -> "odd" [] OTHER -> "fine"]

\* The pruner selects one of two parts of version 1.
MCViews == {"v1", "v1part", "v2"}
MCViewsAt == [v \in Versions |-> IF v = 1 THEN {"v1", "v1part"} ELSE {"v2"}]

MCFits == {<<"s1", "v1">>, <<"p1", "v1">>, <<"s2", "v2">>, <<"s2", "v1part">>}

MCPretty == [s \in MCSqls |-> IF s = "s1" THEN "p1" ELSE s]

MCSymmetry == Permutations(Runs) \cup Permutations(Texts)
=============================================================================
