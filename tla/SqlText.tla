------------------------------ MODULE SqlText ------------------------------
(* What the security contracts read of a statement: security/_sql_text.py    *)
(* and the four classifiers built on it.  A statement is a sequence of       *)
(* phrases.  A phrase is a record: the word it begins with, the set of       *)
(* things it does to the statement, the table and the column it names, as    *)
(* written (a table may be named with its schema or by an alias, a column    *)
(* without a table), the alias it gives to its table, the categories of      *)
(* personal data its name and its value look like, and, of a group of        *)
(* digits, how many they are and what they add to a Luhn sum.  Every phrase  *)
(* but a quotation mark is followed by a blank, so two quotation marks in a  *)
(* row are a doubled one.                                                    *)
EXTENDS Integers, SequencesExt

CONSTANTS NotAString, \* an sql argument that is no string
          None

Does(p, what) == what \in p.does

\* The position after the literal or quoted name that position i opens.
EndOfLiteral(text, i) ==
    LET n == Len(text)
        end[j \in i + 1 .. n + 1] ==
            IF j > n THEN j
            ELSE IF text[j] # text[i] THEN end[j + 1]
            ELSE IF j < n /\ text[j + 1] = text[i] THEN end[j + 2]
            ELSE j + 1
    IN  end[i + 1]

\* The first position from i that does `what`, or the end of the text.
FirstAt(text, i, what) ==
    Min({j \in i .. Len(text) : Does(text[j], what)} \cup {Len(text) + 1})

EndOfLine(text, i) == FirstAt(text, i, "newline")

EndOfBlock(text, i) == Min({FirstAt(text, i + 1, "close"), Len(text)}) + 1

\* MUTANT (Sanitize): a line comment hides the rest of the statement.
SanitizeToTheEnd(text) ==
    LET code[i \in 1 .. Len(text) + 1] ==
            IF i > Len(text) \/ Does(text[i], "dashes") THEN <<>>
            ELSE IF Does(text[i], "quote") THEN code[EndOfLiteral(text, i)]
            ELSE IF Does(text[i], "open") THEN code[EndOfBlock(text, i)]
            ELSE <<text[i]>> \o code[i + 1]
    IN  code[1]

\* sanitize: comments removed, literals and quoted names masked.
Sanitize(text) ==
    LET code[i \in 1 .. Len(text) + 1] ==
            IF i > Len(text) THEN <<>>
            ELSE IF Does(text[i], "quote") THEN code[EndOfLiteral(text, i)]
            ELSE IF Does(text[i], "dashes") THEN code[EndOfLine(text, i)]
            ELSE IF Does(text[i], "open") THEN code[EndOfBlock(text, i)]
            ELSE <<text[i]>> \o code[i + 1]
    IN  code[1]

Normalize(text) == FoldLeft(LAMBDA rest, p : IF Does(p, "newline") THEN rest ELSE Append(rest, p), <<>>, text)

ExecutableCore(sql) ==
    LET norm == Normalize(Sanitize(sql))
    IN  IF norm # <<>> /\ Does(Last(norm), "semicolon") THEN Front(norm) ELSE norm

LeadingKeyword(core) == IF core = <<>> THEN None ELSE Head(core).word

\* What a core does, anywhere.
Anywhere(core) == UNION {p.does : p \in ToSet(core)}

Blank(sql) == Normalize(sql) = <<>>

\* The first rule whose condition holds: how a contract with an order of
\* checks comes to its reason.
FirstOf(rules) == rules[Min({i \in DOMAIN rules : rules[i].when})].so
When(condition, reason) == [when |-> condition, so |-> reason]

ReadStart == {"SELECT", "WITH"}

-----------------------------------------------------------------------------
(* sql_read_only_enforcement.py                                            *)

ReadOnlyReasons == {"read_only_select", "empty_sql", "multi_statement", "non_select_statement",
                    "forbidden_keyword", "unsafe_procedure", "unsafe_data_movement", "invalid_sql_type"}

\* The category of a keyword that must not lead a statement.
KeywordCategory(word) ==
    CASE word \in {"CALL", "EXECUTE", "EXEC"} -> "unsafe_procedure"
      [] word \in {"COPY", "MERGE", "INTO"} -> "unsafe_data_movement"
      [] word \in {"INSERT", "UPDATE", "DELETE", "DROP", "ALTER", "CREATE", "TRUNCATE", "LOCK"} -> "forbidden_keyword"
      [] OTHER -> None

\* Where keywords stand that write wherever they stand: DML, or SELECT ... INTO.
WritesAnywhere(core) == {i \in DOMAIN core : core[i].word \in {"INSERT", "UPDATE", "DELETE", "INTO"}}

\* MUTANT (Reason): a statement after a literal is read as part of it.
ReasonLeadOnly(sql) ==
    LET core == ExecutableCore(sql)
    IN  FirstOf(<<When(Blank(sql), "empty_sql"),
                  When("semicolon" \in Anywhere(core), "multi_statement"),
                  When(KeywordCategory(LeadingKeyword(core)) # None, KeywordCategory(LeadingKeyword(core))),
                  When(LeadingKeyword(core) \notin ReadStart, "non_select_statement"),
                  When(TRUE, "read_only_select")>>)

Reason(sql) ==
    LET core == ExecutableCore(sql)
        hits == WritesAnywhere(core)
    IN  FirstOf(<<When(Blank(sql), "empty_sql"),
                  When("semicolon" \in Anywhere(core), "multi_statement"),
                  When(KeywordCategory(LeadingKeyword(core)) # None, KeywordCategory(LeadingKeyword(core))),
                  When(hits # {}, IF hits = {} THEN None ELSE KeywordCategory(core[Min(hits)].word)),
                  When(LeadingKeyword(core) \notin ReadStart, "non_select_statement"),
                  When(TRUE, "read_only_select")>>)

Enforce(sql) ==
    LET reason == IF sql = NotAString THEN "invalid_sql_type" ELSE Reason(sql)
    IN  [decision |-> IF reason = "read_only_select" THEN "allow" ELSE "deny",
         reason |-> reason,
         prefix |-> IF reason \in {"invalid_sql_type", "empty_sql"} THEN None ELSE LeadingKeyword(ExecutableCore(sql))]

-----------------------------------------------------------------------------
(* sql_query_risk_classifier.py                                            *)

HighJoinThreshold == 4

RiskLevels == <<"low", "medium", "high", "critical">>

SignalSeverity ==
    [select_star |-> 2, no_where_filter |-> 2, no_row_limit |-> 2, high_join_count |-> 3, unbounded_result |-> 3,
     cartesian_join |-> 4, side_effecting_function |-> 4, invalid_or_unparseable |-> 4]

\* From the first FROM to the next clause.
FromClause(core) ==
    LET start == FirstAt(core, 1, "from")
        end == Min({FirstAt(core, start, "where"), FirstAt(core, start, "limit")})
    IN  SubSeq(core, start, end - 1)

Joins(core) == FoldLeft(LAMBDA n, p : n + p.joins, 0, core)

Triggered(core) ==
    LET has == Anywhere(core)
    IN  [select_star |-> has \cap {"star", "table_star"} # {},
         no_where_filter |-> "from" \in has /\ "where" \notin has,
         no_row_limit |-> "from" \in has /\ "limit" \notin has,
         cartesian_join |-> "cross" \in has \/ ("where" \notin has /\ "comma" \in Anywhere(FromClause(core))),
         high_join_count |-> Joins(core) >= HighJoinThreshold,
         side_effecting_function |-> "effect" \in has,
         unbounded_result |-> Joins(core) >= 1 /\ "limit" \notin has]

Signals(sql) ==
    IF sql = NotAString THEN {"invalid_or_unparseable"}
    ELSE LET core == ExecutableCore(sql)
             on == Triggered(core)
         IN  IF LeadingKeyword(core) \notin ReadStart \/ Enforce(sql).decision = "deny"
             THEN {"invalid_or_unparseable"}
             ELSE {s \in DOMAIN on : on[s]}

MaxSeverity(signals) == Max({1} \cup {SignalSeverity[s] : s \in signals})

Classify(sql) == [level |-> RiskLevels[MaxSeverity(Signals(sql))], signals |-> Signals(sql)]

-----------------------------------------------------------------------------
(* sql_sensitive_data_policy.py.  A rule is a record [column, table, level, *)
(* action]; the column of a table's rule is None.                           *)

SensitivityLevels == <<"public", "internal", "confidential", "restricted">>
Restrictiveness == <<"allow", "requires_approval", "deny">>

Rank(order, value) == CHOOSE i \in DOMAIN order : order[i] = value
Highest(order, values) == order[Max({Rank(order, v) : v \in values})]

ExtractTables(core) == {p.table : p \in {q \in ToSet(core) : q.does \cap {"from", "join"} # {}}}
ExtractColumns(core) == {<<p.table, p.column>> : p \in {q \in ToSet(core) : q.column # None /\ q.table # None}}
HasUnqualifiedStar(core) == "star" \in Anywhere(core)
StarQualifiers(core) == {p.table : p \in {q \in ToSet(core) : Does(q, "table_star")}}

\* MUTANT (Extracted): t.* is not a star.
ExtractedNoQualifier(core) ==
    [tables |-> ExtractTables(core), columns |-> ExtractColumns(core),
     whole |-> IF HasUnqualifiedStar(core) THEN ExtractTables(core) ELSE {}]

\* The references of a statement, as written: no alias and no schema is resolved,
\* a column without a table is not seen, nor is a table behind a comma.  A star
\* counts as every column of its tables.
Extracted(core) ==
    [tables |-> ExtractTables(core), columns |-> ExtractColumns(core),
     whole |-> StarQualifiers(core) \cup IF HasUnqualifiedStar(core) THEN ExtractTables(core) ELSE {}]

Explicit(tables, columns) == [tables |-> tables, columns |-> columns, whole |-> {}]

Match(rules, refs) ==
    {r \in rules : IF r.column = None THEN r.table \in refs.tables
                   ELSE <<r.table, r.column>> \in refs.columns \/ r.table \in refs.whole}

Aggregate(matched) ==
    IF matched = {} THEN [decision |-> "allow", level |-> "public", reason |-> "no_sensitive_match"]
    ELSE LET decision == Highest(Restrictiveness, {r.action : r \in matched})
         IN  [decision |-> decision, level |-> Highest(SensitivityLevels, {r.level : r \in matched}),
              reason |-> decision]

\* What there is to judge: None when the statement has no code at all.
ResolveRefs(sql) ==
    IF sql = NotAString THEN None
    ELSE LET core == ExecutableCore(sql)
         IN  IF core = <<>> THEN None ELSE Extracted(core)

\* evaluate, of the references given or extracted.
Sensitive(rules, refs) ==
    IF refs = None THEN [decision |-> "deny", level |-> "public", reason |-> "unusable_input"]
    ELSE Aggregate(Match(rules, refs))

-----------------------------------------------------------------------------
(* sql_pii_phi_detection.py, _pii_value_scan.py                            *)

Confidences == <<"low", "medium", "high">>

PhiCategories == {"medical_record_number", "diagnosis", "health_generic"}

\* How sure a value's format makes the scan.
ValueConfidence(category) ==
    CASE category = "credit_card" -> "high"
      [] category = "phone" -> "low"
      [] OTHER -> "medium"

Detection(category) == [category |-> category, confidence |-> ValueConfidence(category)]

ScanValue(p) == {Detection(c) : c \in p.values}

\* A group of digits that is a phrase of its own, and the next one may continue it.
IsDigits(p) == p.digits > 0

\* The digits of a run of groups, and their Luhn sum: sums[1] is what a group adds
\* with an even number of digits behind it, sums[2] with an odd one.
Luhn(run) ==
    FoldRight(LAMBDA p, s : [digits |-> s.digits + p.digits, sum |-> s.sum + p.sums[1 + (s.digits % 2)]],
              run, [digits |-> 0, sum |-> 0])

IsCard(run) == Luhn(run).digits \in 13 .. 19 /\ Luhn(run).sum % 10 = 0

\* The longest end of a run that a card number has room for.
Fitting(run) ==
    SubSeq(run, Min({i \in DOMAIN run : Luhn(SubSeq(run, i, Len(run))).digits <= 19} \cup {Len(run) + 1}), Len(run))

\* The pattern takes as many groups as there is room for, from the left, and
\* only then is the sum looked at.
CardStep(s, p) ==
    LET longer == Append(s.run, p)
        ended == ~IsDigits(p) \/ (Luhn(longer).digits > 19 /\ Luhn(s.run).digits >= 13)
    IN  [card |-> s.card \/ (ended /\ IsCard(s.run)),
         run |-> IF ~IsDigits(p) THEN <<>> ELSE Fitting(IF ended THEN <<p>> ELSE longer)]

Cards(sql) == FoldLeft(CardStep, [card |-> FALSE, run |-> <<>>], sql)

HasCard(sql) == Cards(sql).card \/ IsCard(Cards(sql).run)

\* Nine digits and blanks.  (Brackets, dots and line ends between groups are left out.)
HasPhone(sql) ==
    \E i \in DOMAIN sql : \E j \in i .. Len(sql) :
        (\A k \in i .. j : IsDigits(sql[k])) /\ Luhn(SubSeq(sql, i, j)).digits + (j - i) >= 9

\* scan_value_categories: what a phrase looks like, and runs of groups of digits.
ScanValues(sql) ==
    (UNION {ScanValue(p) : p \in ToSet(sql)})
    \cup (IF HasCard(sql) THEN {Detection("credit_card")} ELSE {})
    \cup (IF HasPhone(sql) THEN {Detection("phone")} ELSE {})

\* Declared columns and names of the executable core, values of the raw text.
Detected(declared, sql) ==
    LET core == ToSet(ExecutableCore(sql))
    IN  {[category |-> d.category, confidence |-> "high"] :
            d \in {e \in declared : \E p \in core : <<p.table, p.column>> = e.id}}
        \cup {[category |-> c, confidence |-> "medium"] : c \in UNION {p.names : p \in core}}
        \cup ScanValues(sql)

\* The summary of a set of detections: the audit's severity is read off it.
Summary(found) ==
    [categories |-> {m.category : m \in found},
     phi |-> \E m \in found : m.category \in PhiCategories,
     highest |-> IF found = {} THEN None ELSE Highest(Confidences, {m.confidence : m \in found})]

Detect(declared, sql) ==
    IF sql = NotAString \/ Blank(sql) THEN [reason |-> "unusable_input", summary |-> Summary({})]
    ELSE LET s == Summary(Detected(declared, sql))
         IN  [summary |-> s,
              reason |-> FirstOf(<<When(s.categories = {}, "no_pii_phi_detected"),
                                   When(s.phi, "phi_detected"), When(TRUE, "pii_detected")>>)]
=============================================================================
