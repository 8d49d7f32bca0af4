------------------------------- MODULE Traces -------------------------------
(***************************************************************************)
(* What a run of a job leaves behind and what is made of it later: the two *)
(* traces _capture_trace_on_exit saves (trace/), the result in the job row *)
(* (jobs/executor.py), the replay of a job on today's code (replay/,       *)
(* replay_service.py), the debug listing (trace/debug_api.py) and the      *)
(* metrics and dashboard of a window (metrics/, dashboard/ and their       *)
(* services).                                                              *)
(*                                                                         *)
(* One job, run more than once: a recovered or requeued job, or a worker   *)
(* that lost its job and goes on.  JobQueue has who may run when.  Code    *)
(* and schema change together as the version.  A statement is known by     *)
(* what validate_sql says of it, and by what redaction makes of it.  Left  *)
(* out: durations, hashes, the redaction of anything else, and the PROMPT  *)
(* and EXECUTION spans, which are never an error or warning here.  Two     *)
(* traces are never stamped in the same microsecond, and nothing is saved  *)
(* while a listing reads its two tables.                                   *)
(***************************************************************************)
EXTENDS Integers, Sequences, FiniteSetsExt

CONSTANTS
  Runs,         \* executions of the job
  MaxAttempts,  \* attempts of the writer-critic loop
  MaxVersion,   \* bound: versions of code and schema
  MaxConfigs,   \* bound: changes of the configured dialect
  MaxBuckets,   \* MAX_TIMESERIES_BUCKETS
  Dialects,
  TableNames,
  Sqls,         \* statements the LLM may write
  Blank,        \* one of them: the empty string
  NoSql,        \* NULL
  NoRun,        \* no execution
  Early,        \* Early[<<v, d>>]: how version v fails before it generates, or "none"
  Tables,       \* Tables[<<v, d>>]: the tables version v selects
  Verdict,      \* Verdict[<<v, d, s>>]: the code validate_sql of version v refuses s with, or "ok"
  Redacted      \* Redacted[s]: what is left of s when what looks like a secret is masked

Versions == 1..MaxVersion

EarlyErrors == {"none", "excel_parse_error", "schema_pruning_failed"}

\* The codes that stand here for their like, by the stage that reports them.
GuardrailCodes == {"sql_parse_error", "empty_sql", "unsupported_dialect", "non_select_statement"}
SecurityStageCodes == GuardrailCodes \cup {"unsafe_sandbox_rejected"}
Refusals == SecurityStageCodes \cup {"missing_column"}

\* The category the registry gives a code.
Category(c) ==
  CASE c = "excel_parse_error" -> "input"
    [] c = "schema_pruning_failed" -> "retrieval"
    [] c = "llm_api_error" -> "generation"
    [] c \in {"non_select_statement", "unsafe_sandbox_rejected"} -> "security"
    [] OTHER -> "validation"

ASSUME TracesAssumption ==
  /\ MaxAttempts \in Nat \ {0} /\ MaxVersion \in Nat \ {0} /\ MaxConfigs \in Nat /\ MaxBuckets \in Nat \ {0}
  /\ Blank \in Sqls /\ NoSql \notin Sqls /\ NoRun \notin Runs
  /\ Early \in [Versions \X Dialects -> EarlyErrors]
  /\ Tables \in [Versions \X Dialects -> SUBSET TableNames]
  /\ Verdict \in [Versions \X Dialects \X Sqls -> Refusals \cup {"ok"}]
  /\ \A v \in Versions, d \in Dialects : Verdict[<<v, d, Blank>>] \in {"empty_sql", "unsupported_dialect"}
  /\ Redacted \in [Sqls -> Sqls] /\ \A s \in Sqls : Redacted[s] = Blank <=> s = Blank

\* An attempt: the statement and what became of it; the LLM may fail instead.
Attempts == [sql : Sqls \cup {NoSql}, code : Refusals \cup {"ok", "llm_api_error"}]

VARIABLES
  version,   \* of the code and the schema today
  config,    \* target_db_type and how often it was changed
  input,     \* what the job asks with can still be read
  job,       \* the row of the job; by: the run that wrote its SQL, ran: what that run validated
  run,       \* run[r]: where an execution is, and the SQL it answers with, if any
  legacy,    \* nl2sql_traces
  canonical, \* traces, those of type end_to_end
  replay     \* one replay of the job

tracesVars == <<version, config, input, job, run, legacy, canonical, replay>>

NewRun == [pc |-> "idle", dialect |-> "none", answer |-> {}]

\* An execution is forgotten when it ends; its number is not used again.
DoneRun == [NewRun EXCEPT !.pc = "done"]

NoReplay == [pc |-> "idle", sql |-> NoSql, ran |-> NoSql, by |-> NoRun]

\* The dialect in the row is the one configured when the job was created.
TracesInit ==
  /\ version = 1
  /\ config \in [dialect : Dialects, changes : {0}]
  /\ input = TRUE
  /\ job = [dialect |-> config.dialect, status |-> "queued", sql |-> NoSql, ran |-> NoSql, by |-> NoRun]
  /\ run = [r \in Runs |-> NewRun]
  /\ legacy = {} /\ canonical = {}
  /\ replay = NoReplay

-----------------------------------------------------------------------------
(* The world around.                                                       *)

Deploy ==
  /\ version < MaxVersion
  /\ version' = version + 1
  /\ UNCHANGED <<config, input, job, run, legacy, canonical, replay>>

Configure ==
  /\ config.changes < MaxConfigs
  /\ \E d \in Dialects \ {config.dialect} : config' = [dialect |-> d, changes |-> config.changes + 1]
  /\ UNCHANGED <<version, input, job, run, legacy, canonical, replay>>

\* The uploaded Excel file is removed.
LoseInput ==
  /\ input' = FALSE
  /\ UNCHANGED <<version, config, job, run, legacy, canonical, replay>>

CancelJob ==
  /\ job.status \in {"queued", "processing"}
  /\ job' = [job EXCEPT !.status = "cancelled"]
  /\ UNCHANGED <<version, config, input, run, legacy, canonical, replay>>

-----------------------------------------------------------------------------
(* A run.                                                                  *)

At(r, pc) == run[r].pc = pc

\* Claimed, or claimed again from an execution that may not have ended.  The job is
\* executed in the dialect configured now, not in its own.
StartRun(r) ==
  /\ At(r, "idle")
  /\ job.status \in {"queued", "processing"}
  /\ run' = [run EXCEPT ![r].pc = "pipeline", ![r].dialect = config.dialect]
  /\ job' = [job EXCEPT !.status = "processing"]
  /\ UNCHANGED <<version, config, input, legacy, canonical, replay>>

\* The loop goes on after a failure of the LLM and what another statement may mend.
Retryable(c) == c \in {"llm_api_error", "sql_parse_error", "missing_column"}

\* The attempts the writer-critic loop can come to.
Loops(v, d) ==
  LET Try == {a \in Attempts : IF a.sql = NoSql THEN a.code = "llm_api_error"
                                                ELSE a.code = Verdict[<<v, d, a.sql>>]}
  IN  {s \in UNION {[1..n -> Try] : n \in 1..MaxAttempts} :
         /\ \A i \in 1..Len(s) - 1 : Retryable(s[i].code)
         /\ Len(s) < MaxAttempts => ~Retryable(s[Len(s)].code)}

\* run_pipeline raises, for example in the result cache: no trace.
Raise(r) ==
  /\ At(r, "pipeline")
  /\ run' = [run EXCEPT ![r] = DoneRun]
  /\ job' = IF job.status = "cancelled" THEN job ELSE [job EXCEPT !.status = "failed"]
  /\ UNCHANGED <<version, config, input, legacy, canonical, replay>>

\* The process dies.
CrashRun(r) ==
  /\ run[r].pc \in {"pipeline", "write"}
  /\ run' = [run EXCEPT ![r] = DoneRun]
  /\ UNCHANGED <<version, config, input, job, legacy, canonical, replay>>

-----------------------------------------------------------------------------
(* The end_to_end trace.                                                   *)

Last(s) == s[Len(s)]

Success(s) == s # <<>> /\ Last(s).code = "ok"

\* Issues of all attempts, and of the last one.
Issues(s) == {s[i].code : i \in 1..Len(s)} \ {"ok"}
FinalIssues(s) == {Last(s).code} \ {"ok"}

\* The last statement the LLM returned, if any.
Generated(s) ==
  LET given == {i \in 1..Len(s) : s[i].sql # NoSql}
  IN  IF given = {} THEN NoSql ELSE s[CHOOSE i \in given : \A k \in given : k <= i].sql

\* Mutant of Denies: what a security stage refuses is denied.
DeniesAll(c) == c \in SecurityStageCodes

\* Only a code of the category SECURITY is a denial, the rest is flagged.
Denies(c) == Category(c) = "security"

\* A missing statement is an error of generation, and so is an empty one.
GenerationStatus(s) == IF Generated(s) \in {NoSql, Blank} THEN "error" ELSE "ok"

\* What a security stage refused last has not failed validation.
Valid(s) == FinalIssues(s) = {} \/ FinalIssues(s) \cap SecurityStageCodes # {}

ValidationStatus(s) ==
  IF ~Valid(s) THEN "error"
  ELSE IF Issues(s) \subseteq SecurityStageCodes THEN "ok" ELSE "warning"

SecurityStatus(s) ==
  LET found == Issues(s) \cap SecurityStageCodes
  IN  IF \E c \in found : Denies(c) THEN "error" ELSE IF found # {} THEN "warning" ELSE "ok"

\* The status of every span; an early error leaves the later stages skipped.
Statuses(error, tables, s) ==
  [intent     |-> IF Category(error) = "input" THEN "error" ELSE "skipped",
   retrieval  |-> IF Category(error) = "retrieval" THEN "error"
                  ELSE IF error # "none" THEN "skipped"
                  ELSE IF tables = {} THEN "warning" ELSE "ok",
   generation |-> IF s = <<>> THEN "skipped" ELSE GenerationStatus(s),
   validation |-> IF s = <<>> THEN "skipped" ELSE ValidationStatus(s),
   security   |-> IF s = <<>> THEN "skipped" ELSE SecurityStatus(s)]

\* What the details keep: candidates, the valid flag, issues and checks.  run and
\* last are there for the properties only.
EndToEndTrace(r, at, error, tables, s) ==
  [type |-> "end_to_end", at |-> at, run |-> r, dialect |-> run[r].dialect, valid |-> {},
   status |-> Statuses(error, tables, s), reason |-> error, tables |-> tables,
   sqlValid |-> s = <<>> \/ Valid(s),
   issues |-> Issues(s) \ SecurityStageCodes,
   denied |-> {c \in Issues(s) \cap SecurityStageCodes : Denies(c)},
   last |-> IF s = <<>> THEN {} ELSE {[code |-> Last(s).code, blank |-> Last(s).sql = Blank]}]

\* sql_valid is NULL when nothing was attempted.
LegacyTrace(r, at, s) ==
  [type |-> "nl2sql", at |-> at, run |-> r, dialect |-> run[r].dialect,
   valid |-> IF s = <<>> THEN {} ELSE {Success(s)}]

\* The last time stamp.  Only their order matters.
Clock ==
  LET stamps == {0} \cup {t.at : t \in legacy \cup canonical}
  IN  CHOOSE n \in stamps : \A k \in stamps : k <= n

\* The store adds a row or raises, and whatever it raises, the run goes on.
Save(t) == canonical' \in {canonical, canonical \cup {t}}
SaveLegacy(t) == legacy' \in {legacy, legacy \cup {t}}

Capture(r, error, tables, s) ==
  /\ SaveLegacy(LegacyTrace(r, Clock + 1, s))
  /\ Save(EndToEndTrace(r, Clock + 2, error, tables, s))

\* run_pipeline redacts the answer as a whole, its SQL too, after it was validated.
\* by and ran, here and in the row, are there for the properties only.
Answer(s) == IF Success(s) THEN {[sql |-> Redacted[Last(s).sql], ran |-> Last(s).sql]} ELSE {}

\* run_pipeline: the request, the tables, the attempts, the traces.
RunPipeline(r) ==
  /\ At(r, "pipeline")
  /\ LET here == <<version, run[r].dialect>>
         error == IF input THEN Early[here] ELSE "excel_parse_error"
     IN  \E s \in IF error = "none" THEN Loops(version, run[r].dialect) ELSE {<<>>} :
           /\ Capture(r, error, IF error = "none" THEN Tables[here] ELSE {}, s)
           /\ run' = [run EXCEPT ![r].pc = "write", ![r].answer = Answer(s)]
  /\ UNCHANGED <<version, config, input, job, replay>>

\* The result is written unless the job is cancelled by now.  A failure keeps the SQL
\* of an earlier run; the worker may queue the job again.
Write(r) ==
  /\ At(r, "write")
  /\ run' = [run EXCEPT ![r] = DoneRun]
  /\ \/ job.status = "cancelled" /\ UNCHANGED job
     \/ /\ job.status # "cancelled"
        /\ \E a \in run[r].answer :
             job' = [job EXCEPT !.status = "completed", !.sql = a.sql, !.ran = a.ran, !.by = r]
     \/ /\ job.status # "cancelled" /\ run[r].answer = {}
        /\ \E status \in {"failed", "queued"} : job' = [job EXCEPT !.status = status]
  /\ UNCHANGED <<version, config, input, legacy, canonical, replay>>

-----------------------------------------------------------------------------
(* Listings.                                                               *)

\* The place of t among S, newest first, and the rows OFFSET and LIMIT leave.
Rank(S, t) == Cardinality({u \in S : u.at >= t.at})
Page(S, offset, limit) == {t \in S : Rank(S, t) \in offset + 1..offset + limit}

\* Filters, an empty set does not filter; at most one is set here.
Queries ==
  {q \in [type : SUBSET {"nl2sql", "end_to_end"}, dialect : SUBSET {job.dialect}, valid : SUBSET {TRUE}] :
     Cardinality(q.type) + Cardinality(q.dialect) + Cardinality(q.valid) <= 1}

Takes(filter, value) == filter \in {{}, value}

\* Both tables, as SQL filters them.  The legacy one does not know the type.
ListTraces(q, offset, limit) ==
  Page({t \in canonical : Takes(q.type, {t.type}) /\ Takes(q.dialect, {t.dialect}) /\ Takes(q.valid, t.valid)},
       offset, limit)
ListTracesLegacy(q, offset, limit) ==
  Page({t \in legacy : Takes(q.dialect, {t.dialect}) /\ Takes(q.valid, t.valid)}, offset, limit)

MatchesDebugQuery(t, q) ==
  Takes(q.type, {t.type}) /\ Takes(q.dialect, {t.dialect}) /\ Takes(q.valid, t.valid)

\* Mutant of SubQuery: the page is taken of either table.
SubQueryPage(offset, limit) == [offset |-> offset, limit |-> limit]

\* As many rows of either table as could come before the end of the page.
SubQuery(offset, limit) == [offset |-> 0, limit |-> offset + limit]

Merged(q, offset, limit) ==
  LET sub == SubQuery(offset, limit)
      found == ListTraces(q, sub.offset, sub.limit) \cup ListTracesLegacy(q, sub.offset, sub.limit)
  IN  Page({t \in found : MatchesDebugQuery(t, q)}, offset, limit)

\* The endpoint asks for one row more than it shows.
DebugList(q, offset, limit) ==
  LET rows == Merged(q, offset, limit + 1)
  IN  [traces |-> Page(rows, 0, limit), more |-> Cardinality(rows) > limit]

-----------------------------------------------------------------------------
(* Metrics and dashboard.                                                  *)

TerminalStatus(t) == IF \E st \in DOMAIN t.status : t.status[st] = "error" THEN "failed" ELSE "completed"

\* The codes an error span names: its reason, its issues, or what was denied.
ErrorCodes(t) ==
  (IF "error" \in {t.status.intent, t.status.retrieval} THEN {t.reason} ELSE {})
    \cup (IF t.status.validation = "error" THEN t.issues ELSE {})
    \cup (IF t.status.security = "error" THEN t.denied ELSE {})

\* Mutant of Scan: the window is read up to its cap.
ScanToCap(cap) == cap

\* One row more than is counted, to see that there is one.
Scan(cap) == cap + 1

\* The traces of a window that are counted, and whether there are more.
Window(d, cap) ==
  LET rows == ListTraces([type |-> {"end_to_end"}, dialect |-> d, valid |-> {}], 0, Scan(cap))
  IN  [used |-> Page(rows, 0, cap), truncated |-> Cardinality(rows) > cap]

Ended(used, status) == Cardinality({t \in used : TerminalStatus(t) = status})

OutcomeMetrics(used) == [total |-> Cardinality(used), completed |-> Ended(used, "completed")]

\* The codes that are counted; how often each occurs is left out.
ErrorMetrics(used) == UNION {ErrorCodes(t) : t \in used}

ComputeMetrics(used) == [outcome |-> OutcomeMetrics(used), errors |-> ErrorMetrics(used)]

\* The hour or day of a time stamp; hours are two stamps here, days eight.
Floor(bucket, t) == t.at \div (IF bucket = "hour" THEN 2 ELSE 8)

\* The newest buckets that have a trace.
BucketTimeseries(bucket, used) ==
  LET starts == {Floor(bucket, t) : t \in used}
      into(x) == {t \in used : Floor(bucket, t) = x}
  IN  [x \in {y \in starts : Cardinality({z \in starts : z >= y}) <= MaxBuckets} |->
         [total |-> Cardinality(into(x)), errors |-> Ended(into(x), "failed")]]

\* What the dashboard makes of one fetch.  Top errors and recent activity only select.
ComposeDashboard(bucket, window) ==
  LET series == BucketTimeseries(bucket, window.used)
  IN  [truncated |-> window.truncated, metrics |-> ComputeMetrics(window.used), timeseries |-> series,
       cut |-> {Floor(bucket, t) : t \in window.used} # DOMAIN series]

-----------------------------------------------------------------------------
(* Replay.                                                                 *)

\* The row is read first ...
ReplayRead ==
  /\ replay.pc = "idle"
  /\ replay' = [pc |-> "read", sql |-> job.sql, ran |-> job.ran, by |-> job.by]
  /\ UNCHANGED <<version, config, input, job, run, legacy, canonical>>

\* A span that was skipped has not measured anything: the empty set.
Measured(t, stage, value) == IF t.status[stage] = "skipped" THEN {} ELSE {value}

Baseline(t) ==
  [tables |-> Measured(t, "retrieval", t.tables),
   valid  |-> Measured(t, "validation", t.sqlValid),
   denied |-> Measured(t, "security", t.denied)]

\* Mutant of SecurityAxis: what a security stage says is of the security axis.
SecurityAxisOfStage(c) == c \in SecurityStageCodes

\* By the category of the code, whatever stage reports it.
SecurityAxis(c) == Category(c) = "security"

\* What today's code makes of the input and of the SQL in the row.
Observed(sql) ==
  LET here == <<version, job.dialect>>
      code == Verdict[<<version, job.dialect, sql>>]
      denied == IF SecurityAxis(code) THEN {code} ELSE {}
  IN  [tables |-> {Tables[here]},
       valid  |-> IF sql \in {NoSql, Blank} THEN {} ELSE {code = "ok" \/ denied # {}},
       denied |-> IF sql \in {NoSql, Blank} THEN {} ELSE {denied}]

\* How an axis changed, if both sides measured it.
RetrievalDelta(a, b) == {IF x = y THEN "same" ELSE "drift" : x \in a.tables, y \in b.tables}
ValidationDelta(a, b) ==
  {IF x = y THEN "same" ELSE IF x THEN "regression" ELSE "recovery" : x \in a.valid, y \in b.valid}
SecurityDelta(a, b) ==
  {IF x = y THEN "same" ELSE IF y \subseteq x THEN "recovery" ELSE "regression" :
     x \in a.denied, y \in b.denied}

\* The gravest change of baseline a to observation b names the verdict.
Compare(a, b) ==
  IF "regression" \in SecurityDelta(a, b) THEN "security_regression"
  ELSE IF "regression" \in ValidationDelta(a, b) THEN "validation_regression"
  ELSE IF "drift" \in RetrievalDelta(a, b) THEN "retrieval_drift"
  ELSE IF "recovery" \in ValidationDelta(a, b) THEN "validation_recovery"
  ELSE IF "recovery" \in SecurityDelta(a, b) THEN "security_recovery"
  ELSE "identical"

\* ... then the newest end_to_end trace ...
Newest == ListTraces([type |-> {"end_to_end"}, dialect |-> {}, valid |-> {}], 0, 1)

\* ... and today's code and schema.
ReplayVerdict(sql) ==
  IF ~input THEN "input_unavailable"
  ELSE IF Newest = {} THEN "baseline_unavailable"
  ELSE IF Early[<<version, job.dialect>>] # "none" THEN "replay_failed"
  ELSE Compare(Baseline(CHOOSE t \in Newest : TRUE), Observed(sql))

\* Nothing is written; the verdict is returned.
ReplayReturn ==
  /\ replay.pc = "read"
  /\ replay' = NoReplay
  /\ UNCHANGED <<version, config, input, job, run, legacy, canonical>>

-----------------------------------------------------------------------------

TracesNext ==
  \/ Deploy \/ Configure \/ LoseInput \/ CancelJob
  \/ \E r \in Runs : StartRun(r) \/ RunPipeline(r) \/ Raise(r) \/ CrashRun(r) \/ Write(r)
  \/ ReplayRead \/ ReplayReturn

TracesSpec == TracesInit /\ [][TracesNext]_tracesVars

-----------------------------------------------------------------------------
(* Properties.                                                             *)

\* The only failures a trace hides are statements the guardrail refused last for a
\* reason that is not one of security, such as one that does not parse: their run
\* failed, no code is counted for it, and its trace says completed unless there was no
\* text at all.  Of every other run the trace says failed, with a code, exactly when
\* the run failed.  (live_trace_assembly.py, metrics/compute.py)
TraceTellsOutcome ==
  \A t \in canonical :
    LET ok == \E x \in t.last : x.code = "ok"
        hidden == {x \in t.last : x.code \in {"sql_parse_error", "empty_sql", "unsupported_dialect"}}
    IN  /\ ErrorCodes(t) = {} <=> ok \/ hidden # {}
        /\ TerminalStatus(t) = "completed" <=> ok \/ \E x \in hidden : ~x.blank

\* When the SQL in the row and the newest trace are of one run, in the dialect the job
\* was created for, a replay tells exactly what happened since to the statement that
\* run validated: it is now dangerous, is now invalid, is now written over other
\* tables, in this order, or nothing; and it never reports that something got better.
\* Not so if redaction changed the statement: what is left of it is judged, and may be
\* reported as a regression though nothing happened (sql_pipeline.py:819).
\* (replay_service.py, baseline_extraction.py, compare.py, live_trace_assembly.py)
ReplayTellsTheChange ==
  \A t \in Page(canonical, 0, 1) :
    LET now == <<version, job.dialect>>
        code == Verdict[<<version, job.dialect, replay.ran>>]
    IN  /\ replay.pc = "read" /\ replay.by = t.run /\ t.dialect = job.dialect
        /\ Redacted[replay.ran] = replay.ran
        => ReplayVerdict(replay.sql) =
            CASE ~input -> "input_unavailable"
              [] input /\ Early[now] # "none" -> "replay_failed"
              [] OTHER -> IF code \in {"non_select_statement", "unsafe_sandbox_rejected"}
                          THEN "security_regression"
                          ELSE IF code # "ok" THEN "validation_regression"
                          ELSE IF Tables[now] # t.tables THEN "retrieval_drift" ELSE "identical"

\* A page of the debug listing, merged from two tables of which one knows fewer filters,
\* is the slice of all matching traces in their order, and has_more is true exactly when
\* some come after it.  (debug_api.py list_traces, api/debug_traces.py)
PagesAreExact ==
  \A q \in Queries :
    LET all == {t \in canonical \cup legacy : MatchesDebugQuery(t, q)}
    IN  \A offset \in 0..1 :
          DebugList(q, offset, 1) = [traces |-> Page(all, offset, 1), more |-> Cardinality(all) > offset + 1]

SumOf(f) == MapThenSumSet(LAMBDA x : f[x], DOMAIN f)

\* Metrics and dashboard of a window count every trace in it, or say that they do not
\* and count the newest; what is not completed has a code, except runs that ended on an
\* empty answer; and the buckets add up to the totals, or are said to be cut and hold the
\* newest trace.  (metrics_service.py, metrics/compute.py, dashboard/compose.py)
MetricsAreWhole ==
  \A d \in SUBSET {job.dialect} :
    LET all == {t \in canonical : Takes(d, {t.dialect})} IN
    \A cap \in 1..2 :
      LET window == Window(d, cap) IN
      \A bucket \in {"hour", "day"} :
        LET board == ComposeDashboard(bucket, window)
            outcome == board.metrics.outcome
            series == board.timeseries
        IN  /\ board.truncated <=> Cardinality(all) > cap
            /\ ~board.truncated => outcome.total = Cardinality(all)
            /\ outcome.completed < outcome.total =>
                 \/ board.metrics.errors # {}
                 \/ \E t \in all : \E x \in t.last : x.blank
            /\ ~board.cut => /\ SumOf([x \in DOMAIN series |-> series[x].total]) = outcome.total
                             /\ SumOf([x \in DOMAIN series |-> series[x].errors]) = outcome.total - outcome.completed
            /\ \A t \in Page(all, 0, 1) : Floor(bucket, t) \in DOMAIN series
=============================================================================
