# TLA+ specifications of SQL-Generator

SQL-Generator turns natural-language questions into SQL. A FastAPI backend
(`src/backend/app`) accepts a question, stores it as a *job* in a SQLite (or
PostgreSQL) app database and runs it either on a thread of its own (inline mode)
or in separate worker processes (worker mode); a job goes through a pipeline of
stages that ends with a writer-critic loop around an LLM. A Vue client watches
the job through a server-sent-events stream. Around this core are a registry of
organizations, workspaces and connections, a set of security contracts, a trace
store with replay and dashboards, and an evaluation harness that runs statements
on live databases.

These modules specify the parts of the backend in which concurrency, failures,
ordering or many interacting rules decide whether it is correct. They are
translated from the source; `PROJECT.json` maps every definition to the lines it
stands for.

## Inventory

| component | state | operations | hard behaviour | what makes it correct |
|---|---|---|---|---|
| Job queue, worker mode (`jobs/`) | `jobs` rows: status, worker, attempts, backoff, heartbeat, dead-letter mark; each worker's place in `run_once` | create, cancel, claim, start, finish, retry, dead-letter, recover, heartbeat, requeue | several processes, check-then-write across transactions, crashes, failing database calls | a job runs once at a time, is never lost, settles; a cancel loses only to a worker that had read the row |
| Log streams (`main.py`, `jobs/executor.py`) | `job_logs`, or `job_logs_cache` and `job_queues` | log, push, EOF, open, poll, replay, register, unregister | event loop against executor's thread; polling two tables; API restart | nothing lost, repeated or reordered; every polled stream ends |
| LLM failover (`llm/failover.py`) | a circuit breaker per model | look, call, record, forced trial | threads sharing breakers; clock readings that age, for a call and for a failure | open circuits are skipped, a call never locks up |
| Pipeline and writer-critic loop (`sql_pipeline.py`, validators) | attempts, errors | stages with early returns, attempts | exceptions inside an attempt | only validated SQL is a success or cached |
| Result cache (`result_cache.py`, `cache/`) | rows by key | lookup, put, clear | schema changes between lookup and use | a hit is validated again |
| Schema manager (`schema_manager.py`, `api/schema_sync_api.py`) | `schema_cache.json`, `_schema_lock` | load, refresh, reindex | settings saved while a schema is read; writers without the lock | what is hidden stays hidden; no step back |
| App database and migrations (`database.py`, `migrations/`) | recorded versions, seeds | inspect, migrate, seed | processes booting together, waiting for each other's lock, a crash or a failure between versions, a newer schema | version and schema agree |
| Backup (`backup/`) | copies before migrations, archives | create, verify, restore, prune | a live source; a restore cut short | a restore can be undone |
| Registry (`*_repository.py`, `api/`) | rows that refer to each other, no foreign keys | create, update, delete, revoke | rules kept by separate transactions | references resolve, one delete wins |
| Live execution (`evaluation/*_adapter.py`, planner, router, `sql_sandbox.py`) | a driver's session | plan, route, gate, connect, calls, clean-up | any call may raise, clean-up included | only guarded reads run; sessions end; nothing leaks |
| Evaluation (`evaluation/execution_accuracy.py`, `failure_analytics.py`, `eval_gate.py`, `regression_dashboard.py`) | results of a run | compare, categorise, gate, report | chains of conditions, greedy matching, text matching | a pass is agreement, a verdict the worst rule |
| Security contracts (`security/`) | none; an approval request; an audit chain | judge; vote, cancel, expire; link, verify | nested quotes and comments, many rules on one input, order of votes, a faulty store | the gravest finding decides; quorum of distinct approvers; a break is found |
| Traces, replay, debug pages, metrics, dashboard (`trace/`, `replay/`, `metrics/`, `dashboard/`) | two trace tables | save, list, page, count, replay | runs, code, schema and settings of different times side by side; limits | a trace tells the outcome; pages and counts are exact or say they are not |
| Not modelled: LLM client and API rate limiters, schema graph pruner, retrieval, prompting, query understanding, vector store, Excel parser, frontend | | | | see below |

**Interactions.** The API writes rows the workers read (shared tables, no
messages). `execute_job` is called by a worker or by the inline pool; it calls
`run_pipeline`, which calls the failover client; whether a failed run is
retried depends on the kinds of error its attempts report
(`is_transient_failure`). Log lines go from `execute_job` to a table or to
in-process queues, and from there to the SSE generators. Cancel and requeue only
change the row: nothing signals the worker. Every run loads the schema through
the schema manager, then reads the signature for its result-cache key from the
cache file a second time, without the lock. On its way out a run saves two
traces, which debug pages, metrics, dashboards and replays read later. Backend
and workers all call `init_db` when they start, on one database file; backups
and restores are made by an operator, restores with the processes stopped.

## Modules

| module | role |
|---|---|
| `WorkQueue` | abstract promise: leases, at most `MaxUses` between two reopenings |
| `JobQueue`, `JobQueueProofs` | the queue in worker mode; implements `WorkQueue` |
| `LogStream` | one job's log stream, both execution modes |
| `Failover` | circuit breakers and candidate selection |
| `SchemaCache`, `SchemaCacheProofs` | the schema cache file, `load_schema`, refresh, reindex |
| `Pipeline` | stages of `run_pipeline`, writer-critic loop, result cache |
| `AppDb`, `AppDbProofs` | init_db, migrations, the copy before them, backup and restore |
| `Registry` | the tables behind `/api/v1` and their handlers |
| `Execution` | one request through planner, router, bridge, adapter and session |
| `Evaluation` | comparator, harness, failure analysis, gate, dashboard |
| `SqlText` | the contracts that read a statement: lexer, read-only, risk, sensitive data, PII |
| `Contracts` | the other contracts, approval workflow, audit chain; extends `SqlText` |
| `Traces` | traces of a job's runs and everything made of them |
| `GenerationProofs` | how a statement comes about: `Failover` and `Pipeline` |
| `GovernanceProofs` | who owns what, who approved what, what a statement does: `Registry` and `Contracts` |
| `EvaluationProofs` | `Execution` and `Evaluation` |
| `ObservationProofs` | what one sees of a job: `LogStream` and `Traces` |
| `DataLemmas` | induction, recursion, folds and sums over data, for the proofs above |
| `MC*` | constants and symmetry for TLC |

### JobQueue

`rows[j]` is the row of a job. Two columns that hold times are kept as what the
code asks of them: `stale` (is `heartbeat_at`, or `updated_at` where it is NULL,
older than the threshold) and `backoff` (is `next_attempt_at` in the future).
`wk[w].pc` is the worker's place in `run_once`:

* `poll` - before `recover_stale_jobs`; `claim` - before `claim_next_job`;
* `start` - claimed, before `execute_job` writes `processing` (`Start`);
* `run` - inside `run_pipeline`; `write` - after the status re-read, before the
  final write (`Write`); `down` - the process is dead.

A step is one SQL transaction. `recover_stale_jobs` selects and updates inside
one immediate transaction, so it is one step for all rows; the claim likewise.
What lies *between* transactions is where the interesting interleavings are:
`CancelCheck`/`CancelWrite` (two connections in `cancel_job_execution`),
`Claim`/`Start`, `Finish`/`Write`. `DbError` is a statement that raises: the
final write then falls into the `except` branch, which writes `failed`, and any
other failure leaves the row as it is. The heartbeat thread is `Beat`, and
`GoStale` makes a processing row stale when nobody beats. `HeartbeatLoss`
allows a worker to miss its beats (its thread ends when `touch_heartbeat` raises).

### LogStream

`exec` is the executor, `sub[l]` a listener, `queues` the list
`job_queues[job_id]`. Inline, `on_log` caches the line, then looks the list up
(`PushBegin`) and iterates over it in the executor's thread while the event loop
appends to it and removes from it, so a push is a sequence of steps with an
index into the list as it is at each step; a list that became empty is deleted
from the dictionary, and the iterator keeps the old one (`push.list`). In worker
mode a poll is two reads, logs then status, and a third read (`Drain`) when the
status is final. A listener's `last` is the last id it has passed on.
`FailAbandoned` is what the next start of the API does to an inline job that was
under way.

### Failover

`breaker[m]` is a `CircuitBreaker`, `call[c]` a thread inside `generate_sql`.
Each access to a breaker is under its lock and is one step; the candidates are
collected one breaker at a time with the clock reading taken when the call
began, and so are the comparisons of `min(chain, key=retry_in)`. A failure takes
two steps: `Fails` reads the clock, an argument of `record_failure`, and `Failure`
records it once the lock is there (`call[c].seen`), by when the reading may be
older than a call that has begun since; it can even set a breaker's timer back.
`hurt[c]` is a history variable: the models a failure of which was recorded after
`c` looked at them.

### SchemaCache

A schema is a record of the version of the target database it was read from, the
save of the settings it was filtered with, and its form: `whole`, `cut` off by
an extractor that raised, or `unfiltered` because the filter raised; all three
are returned and cached alike by `extract_schema_metadata`. `loader[t].pc` is
the place of a thread in `load_schema` (or, with task `reindex`, in the reindex
endpoint): `read` the file with the lock held and the fingerprint computed,
`drift` with a fresh file in hand, `extract`, `embed`, `open`, `dump`. `open`
truncates the file, so between `Open` and `Dump` it does not parse; two writers
at once can leave it that way. `Setting[v]` is what the settings are after the
`v`-th save, so a save may restore what an earlier one replaced; the run hides a
table, shows it and hides it again. The two reads
of the fingerprint (hidden tables, hidden columns) are one step: a mixture of
two saves matches neither and only costs an extraction. `newest` is a history
variable.

### Pipeline

`run[r]` is one call of `run_pipeline`: `intent`, `retrieve`, `lookup` (the
signature), `get` (the row), `bump`, `attempt`, `put`, then `done` or `raised`
(a database error in the result cache has no handler). A statement is known by
the validator that stops it (`Kind`) and, when none does, by the schema views it
fits (`Fits`); `Pretty` is sqlglot's printer, assumed to keep a valid statement
valid. The version in the cache file stands for its signature; `RewriteFile` is
everything `SchemaCache` does to the file meanwhile. `done` with `success` is
what completes a job of `JobQueue`; without it, `is_transient_failure` of the
attempts decides about a retry. The link to `JobQueue` is this outcome: there a
run ends in any of them.

### AppDb

A release is the number of its newest migration, a database the set of
migrations recorded in it and a counter of client writes; each migration runs in
one immediate transaction with its record, so the set is also what the tables
are. `proc[p].pc` is the place of a process in `init_db`: `look` (is a copy
needed), `copy` and `thin` (`backup_db_before_migration`), `inspect`, `migrate`
with the versions still to do, `seed`, `up`. `Skips` is the version read again
inside the transaction. `ApplyFails` is a migration that raises, `ApplyLocked` a
`BEGIN IMMEDIATE`, inside the same `try`, that waited for another process's lock
longer than the busy timeout; both end `migrate` at that version. Whatever raises
outside the `try` (creating the table of versions, reading it) ends the process
(`Stop`). `op` is the operator's command: `app`, `trace`, `hash`,
`pack` make an archive, `restoreapp`, `restoretrace`, `restoretrees` put one back;
`op.then` is where a safety backup leads. Restores need the writers stopped
(the command asks for it, and so does the runbook); a backup does not, so its checksums
and its files may differ. `op.undo` is a history variable: the databases before
the latest restore, forgotten when a process starts or archives are pruned.

### Registry

`table[t]` holds the rows, `req[c]` the request a client waits for. A handler is
one action per transaction: creating a workspace or a connection checks the
parent, the unique key and inserts in one (`PostAtomic`), the others look for
the parent first and insert later (`PostChecked`); deleting an organization or
a workspace is one conditional `DELETE`, and why it removed nothing is asked
afterwards (`DeleteWhy`). `PATCH` of a connection reads and validates
(`PatchRead`), then writes its own columns (`PatchWrite`). Ids are UUIDs, given
once. `credit` and `synced` are history variables.

### Execution

One request at a time, from `SQLConnectionAwareExecutionOrchestrator` or the
router down to a session. `session.todo` are the driver's calls still to come,
in the order of each adapter; `CallFails` may hit any of them, and the clean-up
too (`PutAway`). Drivers' exceptions are known by what the sanitizers look at (a
code, a text, neither), and every text is assumed to tell the login. An answer
is a number of rows and its column names; what a caller gets of a row are the
`Cells` whose names survive making a dict of it: the last of a name from the
drivers whose rows are zipped with the names, the first from SQLite (which also
finds a name in another case; names do not differ in case only here).

### Evaluation

The comparator, the harness, the analyzer, the gate and the dashboard, applied
to up to three cases. A value is a number with a type, so equality by JSON text,
by Python's `==` and by tolerance differ. Errors are known by the branch of the
harness they come from; `OfError` is the analyzer's search for phrases in the
message this branch gives, whichever side it came from. `Agree` says what a
policy asks without any search: a one-to-one assignment of rows. `Sorted` is what
the dashboard's sort is of, the arrangement in the order `Before`. For cases a
dataset can hold, building the execution request never fails, and a live
connection is not reachable from the harness.

### SqlText and Contracts

A statement is a sequence of phrases; a phrase is known by what the contracts'
patterns see in it (quote, comment mark, semicolon, keyword, table, column,
star, join, personal value), and is followed by a blank unless it is a quotation
mark. Tables and columns are names as written: a table may be named with its
schema or by an alias, a column without its table, and a comma may bring in a
table. `Extracted` takes the names as they stand, as the code does; `Catalog`
and `Meant` say which table a name stands for, and `OwnNames` holds of a
statement in which every table goes by its own name. Groups of digits carry
their number and their share of a Luhn sum: `Cards` is the pattern that takes as
many groups as a card number has room for, from the left, before the sum is
looked at; `HasPhone` looks for one run long enough. Quoted names are masked
like literals. `Sanitize` is the lexer with its jumps; `Lexed`, its reference,
reads phrase by phrase with one state. The machine of `Contracts` judges what is
written, opens an approval when called for, logs events, and reads the chain
back from a store with up to `MaxFaults` faults. A hash is the pair of what it
is a hash of. Requests and events are values: there is no store of requests in
the code, so two holders of one version are two behaviours.

### Traces

One job and its runs. `run_pipeline` ends in one of the ways `Pipeline` has and
saves an end-to-end and a legacy trace, each of which the store may lose; then
the row is written, unless cancelled. What a run answers with, and so what the
row keeps and a replay judges again, is the statement after `redact_sensitive`
(`Redacted`); `ran` remembers the statement the run validated. `Deploy` changes
code and schema together, `Configure` the dialect the executor uses, `LoseInput`
deletes the uploaded file. `ReplayRead` and `ReplayVerdict` are the two reads of
a replay, with anything in between. `SubQuery` asks either table for as many
rows as could come before the page's end; `MatchesDebugQuery` filters what the
legacy table could not. A page is made of one state here, while the endpoint
reads one table after the other. Time stamps are ordered and distinct. Left out:
durations, redaction of anything but the SQL, the prompt and execution spans,
feedback rows, the debug bundle, the time filters of metrics (`created_after`,
`created_before`) and how often each error code occurs.

## Runs

| run | bounds | shows |
|---|---|---|
| `queue` | 2 jobs, 2 workers, 2 attempts, cap 1, 1 crash, 1 requeue | no double execution; a cancelled job is revived only by a worker that had read its row; every queued job settles; `JobQueue` implements `WorkQueue` |
| `queue_cancel` (violation) | 2 jobs, 2 workers | a cancelled job is overwritten by its worker |
| `log_stream` | 2 listeners, 1 pipeline line and the closing line of each run, 2 runs, 1 cancel, requeue, crash | worker streams exact, complete and ending; inline streams ordered |
| `failover` | 2 threads, 2 models, threshold 2, reset 2, clock to 3, 4 calls | open circuits are skipped and the soonest is tried, but for failures recorded since the call looked; calls end |
| `schema_cache` | 2 threads, 1 change of the database, 2 saves, the second undoing the first | a load never returns what its settings hide, except after a reindex or a save taken back, nor an older database version than was cached |
| `pipeline` | 2 runs, 2 attempts, 2 versions, 3 views, 2 questions, 7 statements | successes are valid for the run's own schema; refused SQL is neither shown nor cached; the cache answers only its own question |
| `app_db` | 2 processes, 2 releases, 1 write, 2 stamps, 1 failure | migrate fails only over a migration that raised or a lock waited for in vain, and what comes before is recorded; no start on another schema; a restore can be undone |
| `registry` | 2 clients, 5 rows, 1 name, 1 signature, 2 auth modes | nothing orphaned; one delete wins; drift is against the connection's own snapshot |
| `execution` | 5 engines, limits 1 and 2, 3 rows, 3 columns of 2 names | only accepted statements run, read-only; rows exact, and cells too where columns have names of their own; sessions end; no login in an error |
| `evaluation` | 3 cases, answers of 2 rows of 6 values, all policies and errors | a pass is agreement; category, verdict and report say what happened |
| `contracts` | 4 phrases of 17, 3 segments, 2 rows, 3 approvers, 3 entries, 2 faults | the lexer finds the code; what is allowed reads; no star escapes where tables go by their own names; more text is never milder, but for a continued card number; quorum; breaks are found |
| `traces` | 2 runs, 2 attempts, 2 versions, 1 change of settings, of deployment, settings and input at most 2 changes, 5 statements (one that redaction changes), 2 dialects, 1 bucket | the trace tells the outcome; the replay of an unredacted statement tells the change; pages and counts are exact |

Why these bounds are enough. In the queue every race is between one holder of a
job, one process that takes it over and one API call; a second job is there so
that the cap and the priority order can interfere with it, and two attempts let
a job be retried, recovered and exhausted. `MCPriority` gives the later job the
higher priority, so order of creation and priority disagree. Two listeners are
what it takes for one to shift the list the other is in. Two models make "the
next candidate" and "the soonest" differ; a reset of 2 within a clock of 3 and
four calls let a circuit open, half-open and open again, and a failure be
recorded with a reading the other thread has overtaken. A stale schema takes one
writer and one reader, and two saves so that one can fall before and one after
the extraction, and the second can take back the first. A bad hit takes one run
that writes a row and one that reads it. The loop has 3 attempts in the code;
with 2 there is a first, a last and a retry between them. Two processes are one
that applies a migration and one that meets it; two versions give an older and a
newer release, and a failure between them; two stamps are an archive and the
safety backup of its restore. Five rows hold a whole line of parents
(organization, workspace, connection) with a row below the connection and one
beside it. Three rows against limits of 1 and 2 are below, at and beyond the
limit by one or two. Four phrases are an opening, something inside, a closing
and something behind, or SELECT, a FROM with an alias, a comma or a join, and a
column; two groups of digits are a card number and what continues it. Three
names of columns out of two make two columns share one. Three approvers are the
requester, and a quorum of two or a vote and a veto; three entries have a first,
a middle and a last. Symmetry is used in runs without liveness properties only.

**Deadlock** is not checked: all clients may go away, and a queue without jobs
in which every bounded event has been used up just polls.

**What the code does otherwise than a reader may expect.** The violation run
contradicts a test of the repository; `findings` quotes it. These were met while
modelling, are possible in the modules, and contradict no promise of the code,
or only a wording:

* the concurrency cap counts rows: a cancelled job gives its place up while it runs;
* with missed heartbeats, a zombie's late retry goes beyond `NL2SQL_JOB_MAX_ATTEMPTS`;
* inline, a listener that registers after the EOF loop waits for ever, and one
  that saw a final status after its replay may lack lines;
* a refresh that could not read the database answers success and caches what it had;
* the result cache ignores the filters of an Excel request: one is answered with
  the SQL of another that has the same text;
* two overlapping updates can leave a connection no update validated;
* a run whose last statement the guardrail could not parse failed, but its trace
  says completed; the job row keeps the SQL of an earlier run when a later one fails;
* `verify_chain` cannot see that the newest entries are missing
  (`audit_event.py:325-327` lists deletion);
* a sensitive-data rule of a public or internal level that asks for approval can
  never open one, since these levels have no quorum (`approval_workflow.py:206`);
* extraction of references takes names as written: an alias, a schema, a column
  without its table and the further tables of a comma list hide what a rule names
  (the KNOWN LIMITATIONS of `sql_sensitive_data_policy.py:40-43`), which is why
  `StarIsCovered` speaks of statements in which tables go by their own names;
* a card number is not detected when more digits follow it after a blank, since the
  pattern takes them in before the sum is checked (`_pii_value_scan.py:76, 110-113`);
* a failure is recorded with a clock reading taken before the breaker's lock
  (`failover.py:163, 168`), so a breaker may open with a time before a call that
  has looked already, and that call tries it;
* hide a table, show it between the fingerprint and the extraction of a load, and
  hide it again: the file shows the table and counts as fresh
  (`schema_manager.py:511-516` and `127-130`);
* of columns with one name an adapter keeps one cell of a row and says nothing,
  though `postgres_execution_adapter.py:44-45` says it never silently drops data;
* SQL that redaction changed is judged as redacted when it is replayed, and may be
  reported as a regression though nothing happened (`sql_pipeline.py:819`,
  `replay_service.py:149-157`);
* a page of the debug listing is made of two reads (`debug_api.py:166-167`), so a
  trace saved in between makes it a page of no single moment;
* every error at a security stage is an ERROR check according to
  `live_trace_assembly.py:26-27`; `_security_outcome` (79-85) only flags those
  whose code is of another category;
* greedy matching without order and with a tolerance may miss an assignment that exists.

## Fairness

* Workers: weak fairness of a worker's own steps and of its restart. `run_forever`
  catches every exception and polls again; the container restarts a dead process;
  every LLM request has a timeout, so `run_pipeline` ends. Claim and recovery are
  among the worker's steps, so fairness says that these two database calls do not
  fail for ever; any other call may (`DbError`). Not assumed: that two *particular*
  workers alternate, or that a claim wins a job.
* Time: backoff elapses, and an unattended processing row goes stale.
* Streams: weak fairness of the executor and of each generator. Nothing about clients.
* Failover: weak fairness of a call under way.

The other modules state no liveness property and no fairness.

## Proofs

Everything in the proof modules is checked for all values of the constants that
satisfy the named assumptions of the module: any number of jobs, workers,
listeners, threads, models, clients, processes, rows, traces and approvers, any
limits, statements and answers of any length. Every safety invariant and action
property that a run checks, and the refinement of `WorkQueue`, is a theorem.

Assumptions that are about code outside `src/` or about the abstraction:

* `PipelineAssumption` has sqlglot's printer keep a valid statement valid.
* `PhrasesAssumption` says what a phrase is: at most one of the marks that change
  the lexer's state, none of them together with a newline, and a semicolon by
  itself; and that what stands behind FROM, JOIN, a comma or before `.*` is a table.
  Any SQL text can be cut into such phrases, at the places where the
  scanner of `security/_sql_text.py` looks. The rest of it only keeps sentinels apart
  from values (`None` is no phrase).
* `RulesAssumption`: a rule's action and level are members of the two enumerations,
  which the policy class checks.

### Machines

`JobQueue`. `MutualExclusion` is not inductive: a claim is exclusive because a
worker that is inside `execute_job` still owns a row that neither a claim, nor a
recovery, nor a requeue would touch. The invariant `IInv` of `JobQueueProofs`
says this (`Held`: the row's owner is the holder, it is processing or cancelled,
fresh, without a dead-letter mark, and at the attempt number the holder
remembers) together with what attempts and marks each status allows
(`Accounted`). It needs `~HeartbeatLoss`, and every theorem but `Typing` carries
that assumption. `Refinement` shows initial state to initial state and every step
to a step of `WorkQueue` or a stutter: a cancel that hits a held job is a stutter
there, a lost worker strands the job, recovery reclaims any set of stranded jobs
at once. `Revival` is an action property from the same invariant.

`LogStream`. In worker mode a listener has passed on exactly the lines up to its
`last`, and at `drain` all there can be: no line is added once a status is
final, unless a requeue starts a new run. Inline, `Rising` says that a listener's
output, its inbox and the line the push has yet to hand it rise, except for one
repetition at the seam of replay and registration, and `CanTake` which line that
is; registered queues are shown to belong to listeners that still read them,
which is what makes the index of a push mean anything while the list shifts.

`Failover`. `FailoverTyping` includes that no recorded time lies in the future.
`CircuitsOpenAtThreshold` and `AlwaysErrorToRaise` follow by induction from the
types. A failure may be recorded with a reading older than a call under way, so
a plan is only good (`AlwaysSkipped`) for models no failure of which was
recorded since the call looked: their breakers are as they were seen, or closed
by a success. `AlwaysSoonest` needs that the comparisons of `min` so far found
no one sooner, with the same exception.

`SchemaCache`. Neither property is inductive: a file is as good as the load that
wrote it, a load as good as the file it found. `IInv` of `SchemaCacheProofs`
therefore has the same kind of bounds for the file (`GoodFile`) and for every
thread's memory (`GoodLoader`): nothing comes from the future; a fingerprint is
no newer than the settings the schema was filtered with; and whoever holds the
lock holds a schema at least as new as `newest`. A reindex may put an older file
back at any time, which is why its files are marked and excepted, and settings may
come back, so a matching fingerprint means the settings of its save or one that
restored them (`SavedAndRestored`). `Assemble`
collects what every step must show of its own thread and of the file.

`Pipeline`. A run changes only its own record, so `IInv` is a predicate on single
records (`GoodRun`) and what rows and hits owe to the request of the run that
wrote them (`GoodRow`, `GoodHit`); requests never change, which lets these
survive the steps of others (`BecomeInv`).

`AppDb`. Recorded versions have no gap (`NoGap`), in archives as well; what a
process has left to do starts no later than right after them (`Ready`), so the
version it applies next is recorded already and skipped, or is the next one.
A release changes only while all are stopped. For `RestoreCanBeUndone` the
invariant follows the safety backup step by step: with everything stopped its
members equal the files, so what is packed verifies (`UndoInv`).

`Registry`. `IdsInv` gives every row an id no other row of any table had, which
makes a row deleted for a 200 unable to come back; with the conditional deletes
this gives `OneDeleteWins`, with the atomic creates `NothingOrphaned`. That
`Latest` has a newest member (`NewestInv`) would be an induction over ids; as an
invariant it needs none, since syncs are only ever added with the largest id.

`Execution`. `Guarded` says of the calls still to come that the one that makes
the transaction read-only comes before the statement; the others follow
from what each step may have told the caller. `Exactness` needs which cells a dict
keeps: exactly one of every name, for either kind of driver.

`Contracts`, the workflow and the chain. `ApprovalInv` adds to the quorum that a
rejection has ended its request and that the requester is not among the
approvers; the counting of distinct approvers is a cardinality. `LogInv` is that
each entry is linked to the one before and no two entries have one hash, which
holds since a hash contains all hashes before it; `StoredInv` is that a faulty
store can drop, swap, repeat and alter bodies, but invents no hash. From both,
the first entry at which verification stops is the first whose link or body is
not the logged one (`Chaining`).

`Traces`. `TableInv`: stamps are distinct and every trace knows its run. `Told`
is what one end-to-end trace says, and the lemmas about terminal, early and loop
traces show it for the ways a run can end. `RunInv`, `JobInv` and `ReplayInv`
follow a statement from the run that answered with it, through the job's row, to
the replay that read it: wherever it is, it is the redacted form of what its run
validated, and a saved trace of that run says completed.

### Computations

The other half of `Contracts`, `Evaluation` and `Traces` is computed from data in
one step, and its properties compare the result with a reference. They are proved
by induction over the data. `DataLemmas` states induction over naturals, over the
subsets of a finite set, and from the right end of a sequence, each about a set of
values instead of a predicate, and derives from it that the recursive functions
behind folds and sums exist and obey their equations. (The library's induction
theorems take an operator as parameter, which the provers cannot instantiate; a set
they can.)

*Reading a statement.* `TextInv` is a type: text and prompt are finite sequences
of phrases and segments. `Scanning` (`ScansLikeSQL`): `Sanitize` jumps from a
quote or comment mark to where the literal or comment ends, `Lexed` reads phrase by
phrase with one state. `LiteralEnds`, `LiteralLands`, `LineLands` and `BlockLands`
show that after as many phrases as were jumped over the reader is back in the
state `code` and has kept nothing in between; `ScanFinds` is the induction from
the right. `ReadOnly` follows, since what is allowed is judged on the kept code
only (`AllowedIs`). `Covering` (`StarIsCovered`): the action of an aggregate is
the greatest by restrictiveness (`HighestIs`), so it grows with the set of
findings (`AggregateGrows`), and a star's findings are those of its columns; where tables go by their
own names, the references extracted include the meant ones.
`Monotony` (`NeverMilder`): a phrase or segment added behind leaves the reading
of those before as it was (`LexRuns`, `LexedGrows`, `CoreGrows`), so what is found
stays found. The pattern for card numbers is a fold over the phrases: all it has
found by the last phrase stays, and what ends with that phrase is lost only if
the new one is digits.

*Comparing answers.* `Agreements` (`PassedMeansAgreement`) needs for each policy
that its search means an assignment: greedy matching takes rows it has not taken
yet, and so yields a one-to-one assignment (`GreedyAssigns`; it need not find one);
in order, an assignment that rises is the identity (`InOrder`), and for a part the
leftmost choice yields one (`SubsequenceAssigns`); rows counted as bags are rows
assigned one to one (`SameBagAssigns`, `AssignedSameBag`). `Categories` goes
through the sources of an error, `Verdicts` through the chains of rules. `Reports`
(`ReportIsComplete`): `Before` is a strict total order on the cases
(`BeforeOrders`), so every set of them can be arranged (`OrderExists`), what is
cut off is not worse than what is kept (`WorstAreListed`), and the counts per
category are the parts of a whole (`FailedIsBrokenDown`).

*Listing traces.* A page is by rank, the number of newer traces. `Paging` shows
that the newest of either table, as many as could come before the page's end, hold
the page of the union (`MergedIsPage`), and that one more tells whether there is
another. `Metrics` shows that the buckets are the parts of the traces used
(`BucketsAddUp`). The run checks both for a few queries and windows; `EveryPage`
and `EveryWindow` state them for every query, offset, limit, cap and width.

**Only model-checked.** Liveness (`EveryJobSettles`, `WorkerStreamEnds`,
`EveryCallEnds`): fairness and `ENABLED` are beyond the prover. That the models'
folds and sorts are those of the code is a matter of translation, not of proof.

## Not modelled

Listed with reasons in `PROJECT.json`. The LLM client's and the API's token
buckets promise a rate in real time. The schema graph and the pruner are pure
searches; `Pipeline` takes any view they may choose. Retrieval, prompting, query
understanding and SQL generation are text processing over one request. External
databases, the vector store and the LLM are only their outcomes; the frontend is
left out. The PostgreSQL variant of the queue runs the same statements.

## Plan

1. *(done)* `JobQueue` and `WorkQueue`, `LogStream`, `Failover`, with proofs.
2. *(done)* `SchemaCache` and `Pipeline`, with proofs.
3. *(done)* `AppDb`, `Registry`, `Execution`, with proofs; `Evaluation`, `Contracts`, `Traces`.
4. *(done)* Every safety property of the runs proved; `DataLemmas`.
5. Left: what the proofs of `JobQueue` say without `~HeartbeatLoss`; finality of the
   approval workflow and of completed rows as action properties; progress of each
   module as theorems about what can never be stuck; the token buckets and the
   schema graph's path search as functions with references.
