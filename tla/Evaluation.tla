------------------------------ MODULE Evaluation ------------------------------
(***************************************************************************)
(* An evaluation of predicted statements against golden cases              *)
(* (app/evaluation): the harness runs a case and compares two answers, the *)
(* analyzer names what went wrong, the gate decides over the whole run and *)
(* the dashboard reports it.                                               *)
(*                                                                         *)
(* A row is its columns (by a name for the whole set) and one value with   *)
(* its Python type.  Rates are counted in halves.                          *)
(***************************************************************************)
EXTENDS Integers, Sequences, FiniteSets, SequencesExt

CONSTANTS
  Rows,       \* rows an answer may have
  MaxAnswer,    \* bound: rows of an answer
  MaxCases    \* bound: cases of a run

ASSUME EvaluationAssumption ==
  /\ Rows \subseteq [cols : STRING, val : Int, type : {"int", "float", "bool"}]
  /\ MaxAnswer \in Nat /\ MaxCases \in Nat

VARIABLES
  last,       \* the case judged last: what was run and what came of it
  results,    \* the categories of the cases so far, by case id
  decision,   \* the gate's decision
  report      \* the dashboard's report

evaluationVars == <<last, results, decision, report>>

Answers == BoundedSeq(Rows, MaxAnswer)
Abs(n) == IF n < 0 THEN -n ELSE n
Larger(a, b) == IF a >= b THEN a ELSE b

-----------------------------------------------------------------------------
(* Comparing two answers (SQLExecutionResultComparator).                   *)

Policies == {"exact_ordered", "exact_unordered", "numeric_tolerance", "subset_allowed", "custom"}
Tolerances == {"none", "absolute", "relative"}

\* Python's equality: 1 = 1.0 = True.
Equal(r, s) == r.cols = s.cols /\ r.val = s.val

\* Equal as JSON text: 1, 1.0 and true are three texts.
SameText(r, s) == r = s

Numeric(r) == r.type \in {"int", "float"}

\* epsilon is one, or one half of the larger value; by default it tells any two apart.
Near(a, b, tolerance) ==
  CASE tolerance = "none" -> a = b
    [] tolerance = "absolute" -> Abs(a - b) <= 1
    [] tolerance = "relative" -> 2 * Abs(a - b) <= Larger(Abs(a), Abs(b))

Close(r, s, tolerance) ==
  /\ r.cols = s.cols
  /\ IF Numeric(r) /\ Numeric(s) THEN Near(r.val, s.val, tolerance) ELSE r.val = s.val

Pairwise(act, exp, Eq(_, _)) == Len(act) = Len(exp) /\ \A i \in DOMAIN act : Eq(act[i], exp[i])

\* Each expected row takes the first row left that matches it.
Greedy(act, exp, tolerance) ==
  LET Take(left, row) ==
        LET fits == {i \in left : i > 0 /\ Close(act[i], row, tolerance)} IN
        IF fits = {} THEN left \cup {0}
        ELSE left \ {CHOOSE i \in fits : \A k \in fits : i <= k}
  IN  0 \notin FoldLeft(Take, DOMAIN act, exp)

\* Each expected row takes the first match behind the one before.
Subsequence(act, exp, tolerance) ==
  LET Take(at, row) ==
        LET fits == {i \in DOMAIN act : i > at /\ Close(act[i], row, tolerance)} IN
        IF fits = {} THEN Len(act) + 1 ELSE CHOOSE i \in fits : \A k \in fits : i <= k
  IN  FoldLeft(Take, 0, exp) <= Len(act)

\* Mutant of SameBag: each expected row is looked for, and none is used up.
SameBagAgain(act, exp) ==
  Len(act) = Len(exp) /\ \A i \in DOMAIN exp : \E k \in DOMAIN act : SameText(act[k], exp[i])

\* Sorted texts are compared.
SameBag(act, exp) ==
  /\ Len(act) = Len(exp)
  /\ \A i \in DOMAIN exp : Cardinality({k \in DOMAIN exp : SameText(exp[k], exp[i])})
                             = Cardinality({k \in DOMAIN act : SameText(act[k], exp[i])})

Compare(act, exp, case) ==
  LET Eq(r, s) == Close(r, s, case.tolerance) IN
  CASE case.policy = "exact_ordered" -> Pairwise(act, exp, Equal)
    [] case.policy = "exact_unordered" -> SameBag(act, exp)
    [] case.policy = "numeric_tolerance" ->
         IF case.ordered THEN Pairwise(act, exp, Eq)
                         ELSE Len(act) = Len(exp) /\ Greedy(act, exp, case.tolerance)
    [] case.policy = "subset_allowed" ->
         IF case.ordered THEN Subsequence(act, exp, case.tolerance)
                         ELSE Greedy(act, exp, case.tolerance)
    [] case.policy = "custom" ->
         IF case.ordered THEN Pairwise(act, exp, Equal) ELSE SameBag(act, exp)

-----------------------------------------------------------------------------
(* Running a case (SQLExecutionAccuracyHarness), through the orchestrator  *)
(* or straight in the sandbox.                                             *)

\* What becomes of a statement: "run" has an answer, the others are errors.  The
\* messages of the two kinds of unsafe statement are not alike (sql_safety.py).
Fates == {"run", "write_node", "not_select", "write_word", "several", "syntax", "sqlite"}
Refused == {"write_node", "not_select", "write_word", "several", "syntax"}

Case == [policy : Policies, ordered : BOOLEAN, tolerance : Tolerances,
         dialect : {"sqlite", "oracle"}, fixture : BOOLEAN, expected : {"rows", "malformed", "gold"}]

\* Tolerance matters only to the policies that use it, order not to the exact ones.
Plain(case) ==
  /\ case.policy \in {"exact_ordered", "exact_unordered"} => ~case.ordered
  /\ case.policy \in {"exact_ordered", "exact_unordered", "custom"} => case.tolerance = "none"

Error(stage, cause) == [stage |-> stage, cause |-> cause]
NoError == Error("none", "none")

\* The error of the prediction, if any.
PredictedError(case, direct, fate) ==
  CASE fate = "missing" -> Error("empty", "none")
    [] fate # "missing" /\ ~direct /\ case.dialect # "sqlite" -> Error("rejected", "dialect")
    [] fate # "missing" /\ (direct \/ case.dialect = "sqlite") /\ ~case.fixture ->
         Error(IF direct THEN "run" ELSE "rejected", "no_fixture")
    [] fate # "missing" /\ (direct \/ case.dialect = "sqlite") /\ case.fixture ->
         CASE fate = "run" -> NoError
           [] fate \in Refused /\ ~direct -> Error("rejected", fate)
           [] OTHER -> Error("run", fate)

\* The error of the reference answer, if any.
GoldError(case, fate) ==
  CASE case.expected = "rows" -> NoError
    [] case.expected = "malformed" -> Error("expected", "none")
    [] case.expected = "gold" ->
         IF ~case.fixture THEN Error("gold", "no_fixture")
         ELSE IF fate = "run" THEN NoError ELSE Error("gold", fate)

ErrorOf(predicted, gold) == IF predicted # NoError THEN predicted ELSE gold

\* run_case, and run_harness for a missing prediction.
Judged(case, direct, fate, goldFate, act, exp) ==
  LET predicted == PredictedError(case, direct, fate)
      gold == GoldError(case, goldFate)
      error == ErrorOf(predicted, gold)
  IN  [case |-> case, fate |-> fate, gold |-> goldFate, direct |-> direct, error |-> error,
       act |-> IF predicted = NoError THEN act ELSE <<>>,
       exp |-> IF gold = NoError THEN exp ELSE <<>>,
       passed |-> error = NoError /\ Compare(act, exp, case)]

-----------------------------------------------------------------------------
(* The category of a result (SQLFailureAnalyzer.analyze_case).             *)

Severity ==
  [passed |-> 0, order_mismatch |-> 1, numeric_tolerance_mismatch |-> 1,
   row_count_mismatch |-> 2, column_shape_mismatch |-> 2, value_mismatch |-> 2,
   sql_execution_error |-> 2, unknown_failure |-> 2, empty_predicted_sql |-> 3,
   gold_sql_execution_error |-> 3, expected_result_invalid |-> 3, rejected_by_orchestrator |-> 3,
   unsafe_sql_rejected |-> 4, fixture_not_found |-> 4]

Category == DOMAIN Severity

\* By phrases looked for in the text of the error, whoever it came from.
OfError(e) ==
  CASE e.stage = "empty" -> "empty_predicted_sql"
    [] e.cause \in {"write_node", "not_select"} -> "unsafe_sql_rejected"
    [] e.cause = "no_fixture" -> "fixture_not_found"
    [] e.stage = "gold" /\ e.cause \notin {"write_node", "not_select", "no_fixture"} ->
         "gold_sql_execution_error"
    [] e.stage = "expected" -> "expected_result_invalid"
    [] e.stage = "rejected" /\ e.cause \notin {"write_node", "not_select", "no_fixture"} ->
         "rejected_by_orchestrator"
    [] e.stage = "run" /\ e.cause \notin {"write_node", "not_select", "no_fixture"} ->
         "sql_execution_error"

\* Mutant of OfMismatch: the columns are looked at in the first row only.
OfMismatchFirstRow(r) ==
  CASE Len(r.act) # Len(r.exp) -> "row_count_mismatch"
    [] Len(r.act) = Len(r.exp) /\ r.act # <<>> /\ r.act[1].cols # r.exp[1].cols -> "column_shape_mismatch"
    [] OTHER ->
         IF r.case.policy = "exact_ordered" /\ SameBag(r.act, r.exp) THEN "order_mismatch"
         ELSE IF r.case.policy = "numeric_tolerance" THEN "numeric_tolerance_mismatch"
         ELSE "value_mismatch"

OfMismatch(r) ==
  CASE Len(r.act) # Len(r.exp) -> "row_count_mismatch"
    [] Len(r.act) = Len(r.exp) /\ (\E i \in DOMAIN r.act : r.act[i].cols # r.exp[i].cols) ->
         "column_shape_mismatch"
    [] OTHER ->
         IF r.case.policy = "exact_ordered" /\ SameBag(r.act, r.exp) THEN "order_mismatch"
         ELSE IF r.case.policy = "numeric_tolerance" THEN "numeric_tolerance_mismatch"
         ELSE "value_mismatch"

CategoryOf(r) ==
  IF r.passed THEN "passed" ELSE IF r.error # NoError THEN OfError(r.error) ELSE OfMismatch(r)

Count(category) == Cardinality({i \in DOMAIN results : results[i] = category})
Total == Len(results)
Passed == Count("passed")
Failed == Total - Passed

-----------------------------------------------------------------------------
(* The gate (SQLEvalGateAggregator.aggregate).                             *)

GateStatuses == {"PASS", "WARN", "FAIL"}
NoLimit == -1

Config == [minPass : 0..2, maxUnknown : 0..1, blocked : {{"unsafe_sql_rejected", "fixture_not_found"}, {}},
           warn : {{"unknown_failure"}, {"order_mismatch", "fixture_not_found"}}, failOnEmpty : BOOLEAN,
           unknownStatus : {"WARN", "FAIL"}, emptyStatus : {"PASS", "WARN"},
           maxFailures : {NoLimit, 1}, maxFailureRate : {NoLimit, 1}]

Exceeds(n, halves) == 2 * n > halves * Total
Found(categories) == {c \in categories : Count(c) > 0}
Unknown == Count("unknown_failure")

EmptyStatus(c) == IF c.failOnEmpty THEN "FAIL" ELSE c.emptyStatus
Broken(holds, status) == IF holds THEN status ELSE "PASS"

\* Each rule by itself; requiring the P0 cases is not implemented and passes.
Rules(c) ==
  [min_pass_rate |-> IF Total = 0 THEN EmptyStatus(c) ELSE Broken(2 * Passed < c.minPass * Total, "FAIL"),
   max_failure_count |-> Broken(c.maxFailures # NoLimit /\ Failed > c.maxFailures, "FAIL"),
   max_failure_rate |-> Broken(c.maxFailureRate # NoLimit /\ Exceeds(Failed, c.maxFailureRate), "FAIL"),
   block_failure_category |-> IF Found(c.blocked) # {} THEN "FAIL" ELSE Broken(Found(c.warn) # {}, "WARN"),
   max_unknown_failure_rate |-> Broken(Exceeds(Unknown, c.maxUnknown), c.unknownStatus),
   require_p0_pass |-> "PASS"]

\* Mutant of Status: a warning category is looked at before the failure limits.
StatusWarnFirst(c) ==
  CASE Total = 0 -> EmptyStatus(c)
    [] Total > 0 ->
         IF Found(c.blocked) # {} THEN "FAIL"
         ELSE IF 2 * Passed < c.minPass * Total THEN "FAIL"
         ELSE IF Found(c.warn) # {} THEN "WARN"
         ELSE IF c.maxFailures # NoLimit /\ Failed > c.maxFailures THEN "FAIL"
         ELSE IF c.maxFailureRate # NoLimit /\ Exceeds(Failed, c.maxFailureRate) THEN "FAIL"
         ELSE IF Exceeds(Unknown, c.maxUnknown) THEN c.unknownStatus ELSE "PASS"

\* The decision is a chain of its own, in the order its comment gives.
Status(c) ==
  CASE Total = 0 -> EmptyStatus(c)
    [] Total > 0 ->
         IF Found(c.blocked) # {} THEN "FAIL"
         ELSE IF 2 * Passed < c.minPass * Total THEN "FAIL"
         ELSE IF c.maxFailures # NoLimit /\ Failed > c.maxFailures THEN "FAIL"
         ELSE IF c.maxFailureRate # NoLimit /\ Exceeds(Failed, c.maxFailureRate) THEN "FAIL"
         ELSE IF Exceeds(Unknown, c.maxUnknown) THEN c.unknownStatus
         ELSE IF Found(c.warn) # {} THEN "WARN" ELSE "PASS"

NoDecision == [status |-> "none", rules |-> <<>>]

-----------------------------------------------------------------------------
(* The dashboard (SQLRegressionDashboardBuilder.build).                    *)

\* The categories by their text.
CategoryNames == <<"column_shape_mismatch", "empty_predicted_sql", "expected_result_invalid", "fixture_not_found",
           "gold_sql_execution_error", "numeric_tolerance_mismatch", "order_mismatch", "passed",
           "rejected_by_orchestrator", "row_count_mismatch", "sql_execution_error", "unknown_failure",
           "unsafe_sql_rejected", "value_mismatch">>

Place(category) == CHOOSE n \in DOMAIN CategoryNames : CategoryNames[n] = category

\* Worst first, then by category and case id.
Before(i, j) ==
  \/ Severity[results[i]] > Severity[results[j]]
  \/ Severity[results[i]] = Severity[results[j]] /\ Place(results[i]) < Place(results[j])
  \/ results[i] = results[j] /\ i < j

\* The cases of a set in that order.
Sorted(cases) ==
  CHOOSE s \in Bijection(1 .. Cardinality(cases), cases) : \A m, n \in DOMAIN s : m < n => Before(s[m], s[n])

\* Mutant of Listed: cut before sorting.
ListedCutFirst(withPassed, limit) ==
  Sorted({i \in DOMAIN results : (withPassed \/ results[i] # "passed") /\ i <= limit})

Listed(withPassed, limit) ==
  LET sorted == Sorted({i \in DOMAIN results : withPassed \/ results[i] # "passed"}) IN
  SubSeq(sorted, 1, IF limit < Len(sorted) THEN limit ELSE Len(sorted))

Alarm == [PASS |-> "info", WARN |-> "warn", FAIL |-> "critical"]

Report(withPassed, limit) ==
  [cases |-> Listed(withPassed, limit), limit |-> limit,
   breakdown |-> [c \in Found(Category \ {"passed"}) |-> Count(c)],
   failed |-> IF Failed > 0 THEN "critical" ELSE "info",
   gate |-> Alarm[decision.status],
   unknown |-> IF 20 * Unknown <= Total THEN "info"
               ELSE IF decision.rules.max_unknown_failure_rate = "FAIL" THEN "critical" ELSE "warn"]

NoReport == [cases |-> <<>>]

-----------------------------------------------------------------------------
NoCase == [case |-> <<>>]

EvaluationInit == last = NoCase /\ results = <<>> /\ decision = NoDecision /\ report = NoReport

\* The harness judges the next case and the analyzer names its category.  That the
\* result sets are missing without an error is left to another harness.
RunCase(case, direct, fate, goldFate, act, exp) ==
  LET r == Judged(case, direct, fate, goldFate, act, exp) IN
  /\ last' = r /\ results' = Append(results, CategoryOf(r))
  /\ UNCHANGED <<decision, report>>

OtherHarness ==
  /\ last' = NoCase /\ results' = Append(results, "unknown_failure") /\ UNCHANGED <<decision, report>>

\* The answers matter only where both statements have one.
Ran(case, fate, goldFate) ==
  PredictedError(case, TRUE, fate) = NoError /\ GoldError(case, goldFate) = NoError

RunCases ==
  /\ decision = NoDecision /\ last = NoCase /\ Len(results) < MaxCases
  /\ \/ \E case \in {c \in Case : Plain(c) /\ c.dialect = "sqlite" /\ c.fixture /\ c.expected = "rows"},
          act, exp \in Answers :
          /\ results = <<>>
          /\ RunCase(case, FALSE, "run", "run", act, exp)
     \/ \E case \in {c \in Case : c.policy = "exact_unordered" /\ Plain(c)}, direct \in BOOLEAN,
          fate \in Fates \cup {"missing"}, goldFate \in Fates :
          RunCase(case, direct, fate, goldFate, <<>>, <<>>)
     \/ OtherHarness

\* Only the result's category is looked at from here on.
PutAside == last # NoCase /\ last' = NoCase /\ UNCHANGED <<results, decision, report>>

Aggregate(c) ==
  /\ decision = NoDecision /\ last = NoCase
  /\ decision' = [status |-> Status(c), rules |-> Rules(c)]
  /\ UNCHANGED <<last, results, report>>

Dashboard(withPassed, limit) ==
  /\ decision # NoDecision /\ report = NoReport
  /\ report' = Report(withPassed, limit) /\ UNCHANGED <<last, results, decision>>

EvaluationNext ==
  \/ RunCases
  \/ PutAside
  \/ \E c \in Config : Aggregate(c)
  \/ \E withPassed \in BOOLEAN, limit \in 0..MaxCases : Dashboard(withPassed, limit)

EvaluationSpec == EvaluationInit /\ [][EvaluationNext]_evaluationVars

-----------------------------------------------------------------------------
\* A one-to-one assignment of expected rows to actual rows.
Assigns(act, exp, Eq(_, _), increasing) ==
  \E f \in [DOMAIN exp -> DOMAIN act] :
    /\ \A i, j \in DOMAIN exp : i < j => f[i] # f[j] /\ (increasing => f[i] < f[j])
    /\ \A i \in DOMAIN exp : Eq(act[f[i]], exp[i])

\* What a policy asks of two answers, said by assignments.
Agree(r, Eq(_, _)) ==
  LET c == r.case IN
  /\ c.policy # "subset_allowed" => Len(r.act) = Len(r.exp)
  /\ Assigns(r.act, r.exp, Eq, c.policy = "exact_ordered" \/ c.ordered)

Tolerant(r) == r.case.policy \in {"numeric_tolerance", "subset_allowed"}

\* A case passes only if its rows can be assigned one to one as its policy asks, and
\* where the match cannot be missed (greedy matching without order can) it passes if
\* they can: the comparator against its meaning (execution_accuracy.py).
PassedMeansAgreement ==
  last # NoCase /\ last.error = NoError =>
    LET r == last
        Eq(a, b) == IF Tolerant(r) THEN Close(a, b, r.case.tolerance) ELSE Equal(a, b)
    IN  /\ r.passed => Agree(r, Eq)
        /\ (r.case.ordered \/ r.case.policy = "exact_ordered") /\ Agree(r, Eq) => r.passed
        /\ ~r.passed /\ r.case.policy = "exact_unordered" => ~Agree(r, SameText)

\* The category says what happened: it blames the reference only if the prediction
\* has an answer, and a mismatch only if both have; the mismatch it names is there.
CategoryIsTrue ==
  last # NoCase =>
    LET r == last
        category == CategoryOf(r)
        ran == PredictedError(r.case, r.direct, r.fate) = NoError
        answered == ran /\ GoldError(r.case, r.gold) = NoError
    IN  /\ category \in {"gold_sql_execution_error", "expected_result_invalid"} => ran
        /\ category = "unsafe_sql_rejected" => "run" # r.fate \/ "run" # r.gold
        /\ Severity[category] \in 1..2 /\ category # "sql_execution_error" => answered
        /\ category = "order_mismatch" => SameBag(r.act, r.exp) /\ r.act # r.exp
        /\ category \in {"value_mismatch", "numeric_tolerance_mismatch"} =>
             Pairwise(r.act, r.exp, LAMBDA a, b : a.cols = b.cols)

Worse(s) == CASE s = "PASS" -> 0 [] s = "WARN" -> 1 [] s = "FAIL" -> 2

\* The decision, a chain of its own, is the worst of the rules shown beside it, but
\* for an empty run, which is decided by its own setting (eval_gate.py).
VerdictIsWorstRule ==
  decision # NoDecision =>
    LET rules == {decision.rules[r] : r \in DOMAIN decision.rules} IN
    decision.status \in rules /\ \A s \in rules : Worse(s) <= Worse(decision.status)

SumOf(f) == MapThenSumSet(LAMBDA x : f[x], DOMAIN f)

\* What the dashboard lists are the worst cases, and none but the limit is left out;
\* its breakdown counts every failing case once (regression_dashboard.py).
ReportIsComplete ==
  report # NoReport =>
    LET listed == {report.cases[i] : i \in DOMAIN report.cases}
        left == {i \in DOMAIN results : results[i] # "passed"} \ listed
    IN  /\ left # {} => Len(report.cases) = report.limit
        /\ \A i \in left, j \in listed : Severity[results[j]] >= Severity[results[i]]
        /\ Failed = SumOf(report.breakdown)
=============================================================================
