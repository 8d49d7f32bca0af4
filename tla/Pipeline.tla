------------------------------ MODULE Pipeline ------------------------------
(***************************************************************************)
(* run_pipeline (sql_pipeline.py): reading the request, retrieval of the   *)
(* schema, the result cache (result_cache.py) and the writer-critic loop   *)
(* around the LLM, for runs of several jobs that share the result cache    *)
(* and the schema cache file.                                              *)
(*                                                                         *)
(* The file is known by the version of the schema in it (SchemaCache has   *)
(* the details).  A statement is known by what the validators make of it.  *)
(* Prompts, traces, redaction, log lines, hit counts, and the upper-casing *)
(* of Oracle names are left out.                                           *)
(***************************************************************************)
EXTENDS Integers, Sequences, FiniteSets

CONSTANTS
  Runs,         \* calls of run_pipeline
  MaxAttempts,  \* attempts of the writer-critic loop
  MaxVersion,   \* bound: versions of the schema of the target database
  Texts,        \* normalised questions, each with its dialect
  Rests,        \* filters, fields and rules an Excel file has beside its question
  NoRest,       \* none of these
  Sqls,         \* statements the LLM may write
  NoSql,        \* the empty string
  Kind,         \* Kind[s]: how far s gets through the validators
  Views,        \* parts of a schema the pruner selects
  ViewsAt,      \* ViewsAt[v]: those of version v
  Fits,         \* <<s, view>>: tables and columns of s are in view
  Pretty        \* Pretty[s]: s as sqlglot prints it

Versions == 1..MaxVersion

Kinds == {"broken", "forbidden", "unsafe", "odd", "fine"}

\* "broken" does not parse; "forbidden" is refused by the guardrail, "unsafe" by the
\* sandbox; "odd" makes the sandbox raise something else than a refusal.
PassesSafety(s) == Kind[s] = "fine"

Accepts(s, view) == PassesSafety(s) /\ <<s, view>> \in Fits

ASSUME PipelineAssumption ==
  /\ MaxAttempts \in Nat \ {0} /\ MaxVersion \in Nat \ {0}
  /\ NoRest \in Rests /\ NoSql \notin Sqls
  /\ Kind \in [Sqls -> Kinds]
  /\ ViewsAt \in [Versions -> SUBSET Views]
  /\ Pretty \in [Sqls -> Sqls]
  /\ \A s \in Sqls, view \in Views : Accepts(s, view) => Accepts(Pretty[s], view)

VARIABLES
  live,    \* version of the schema of the target database
  file,    \* version in the schema cache file, 0 when it cannot be read
  cache,   \* sql_cache: key -> row
  run      \* run[r]: where a run is and the result it builds

vars == <<live, file, cache, run>>

Keys == Texts \X Versions
Rows == [sql : Sqls, by : Runs]
NoRow == [sql |-> NoSql]

Requests == { q \in [source : {"excel", "text", "none"}, text : Texts, rest : Rests, revision : BOOLEAN] :
                q.source # "excel" => q.rest = NoRest }

\* Why an attempt failed.  The guardrail is the one to find that a statement does
\* not parse; what raises in the loop counts as an error of the LLM.
Errors == {"parse", "guardrail", "sandbox", "semantic", "llm"}

\* view: the schema validated against; sig: the signature in the cache key, 0 when
\* the cache is not used; attempts: why each failed; out: generated_sql; from: whose
\* SQL a hit returned.
RunRecord == [pc : {"intent", "retrieve", "lookup", "get", "bump", "attempt", "put", "done", "raised"},
              req : Requests, view : SUBSET Views, sig : 0..MaxVersion, attempts : Seq(Errors),
              success : BOOLEAN, out : Sqls \cup {NoSql}, from : SUBSET Runs]

NewRun(q) == [pc |-> "intent", req |-> q, view |-> {}, sig |-> 0, attempts |-> <<>>,
              success |-> FALSE, out |-> NoSql, from |-> {}]

Init ==
  /\ live = 1
  /\ file \in {0, 1}
  /\ cache = [k \in Keys |-> NoRow]
  /\ run \in [Runs -> {NewRun(q) : q \in Requests}]

-----------------------------------------------------------------------------
(* The world around.                                                       *)

ChangeSchema ==
  /\ live < MaxVersion
  /\ live' = live + 1
  /\ UNCHANGED <<file, cache, run>>

\* A load, refresh or reindex by someone else: another version, or a file half written.
RewriteFile ==
  /\ file' \in 0..live
  /\ UNCHANGED <<live, cache, run>>

ClearCache ==
  /\ cache' = [k \in Keys |-> NoRow]
  /\ UNCHANGED <<live, file, run>>

-----------------------------------------------------------------------------
(* A run.                                                                  *)

At(r, pc) == run[r].pc = pc

Become(r, s) == run' = [run EXCEPT ![r] = s]

\* What a database error in the result cache or the settings does: no handler.
Raise(r) == Become(r, [run[r] EXCEPT !.pc = "raised", !.success = FALSE, !.out = NoSql])

\* INPUT_ERROR without any input, EXCEL_PARSE_ERROR.
ReadRequest(r) ==
  /\ At(r, "intent")
  /\ \/ run[r].req.source # "none" /\ Become(r, [run[r] EXCEPT !.pc = "retrieve"])
     \/ run[r].req.source # "text" /\ Become(r, [run[r] EXCEPT !.pc = "done"])
  /\ UNCHANGED <<live, file, cache>>

\* The schema in the file, or a new one, which may fail to get into the file; then
\* the part of it the request needs, or SCHEMA_PRUNING_FAILED and the like.
Retrieve(r) ==
  /\ At(r, "retrieve")
  /\ \E v \in Versions :
       /\ \/ v = file /\ UNCHANGED file
          \/ v = live /\ file' \in {file, 0, live}
       /\ \/ \E view \in ViewsAt[v] : Become(r, [run[r] EXCEPT !.pc = "lookup", !.view = {view}])
          \/ Become(r, [run[r] EXCEPT !.pc = "done"])
  /\ UNCHANGED <<live, cache>>

\* Mutant of Cacheable: revisions use the cache.
CacheableRevision(r) == file # 0

\* A revision is neither looked up nor stored.
Cacheable(r) == file # 0 /\ ~run[r].req.revision

\* The signature is read from the file as it is now, the cache may be switched off.
Lookup(r) ==
  /\ At(r, "lookup")
  /\ \/ Cacheable(r) /\ Become(r, [run[r] EXCEPT !.pc = "get", !.sig = file])
     \/ Become(r, [run[r] EXCEPT !.pc = "attempt"])
     \/ Raise(r)
  /\ UNCHANGED <<live, file, cache>>

Key(r) == <<run[r].req.text, run[r].sig>>

View(r) == CHOOSE view \in run[r].view : TRUE

\* Mutant of Hit: what is in the cache has been validated.
HitUnchecked(r) == cache[Key(r)] # NoRow

\* A hit is validated again, against the schema of this run.
Hit(r) == cache[Key(r)] # NoRow /\ Accepts(cache[Key(r)].sql, View(r))

CacheGet(r) ==
  /\ At(r, "get")
  /\ \/ Hit(r) /\ Become(r, [run[r] EXCEPT !.pc = "bump", !.success = TRUE,
                                          !.out = Pretty[cache[Key(r)].sql],
                                          !.from = {cache[Key(r)].by}])
     \/ ~Hit(r) /\ Become(r, [run[r] EXCEPT !.pc = "attempt"])
     \/ Raise(r)
  /\ UNCHANGED <<live, file, cache>>

BumpHit(r) ==
  /\ At(r, "bump")
  /\ Become(r, [run[r] EXCEPT !.pc = "done"]) \/ Raise(r)
  /\ UNCHANGED <<live, file, cache>>

-----------------------------------------------------------------------------
(* The writer-critic loop.                                                 *)

\* validate_sql; a statement it accepts has no verdict.
Verdict(s) ==
  CASE Kind[s] = "broken"    -> "parse"
    [] Kind[s] = "forbidden" -> "guardrail"
    [] Kind[s] = "unsafe"    -> "sandbox"
    [] Kind[s] = "odd"       -> "llm"
    [] OTHER                 -> "semantic"

\* retry_disposition.
Retryable(error) == error \in {"parse", "semantic", "llm"}

\* Mutant of Public: only refusals of the sandbox are kept back.
PublicGuardrail(error, s) == IF error = "sandbox" THEN NoSql ELSE s

\* What a failed run shows: nothing that guardrail or sandbox rejected.
Public(error, s) == IF error \in {"parse", "guardrail", "sandbox"} THEN NoSql ELSE s

Failed(r, error, s) ==
  LET done == Append(run[r].attempts, error)
  IN  IF Retryable(error) /\ Len(done) < MaxAttempts
      THEN Become(r, [run[r] EXCEPT !.attempts = done])
      ELSE Become(r, [run[r] EXCEPT !.attempts = done, !.pc = "done", !.out = Public(error, s)])

\* The LLM fails, or writes a statement that is validated.
Attempt(r) ==
  /\ At(r, "attempt")
  /\ \/ Failed(r, "llm", NoSql)
     \/ \E s \in Sqls :
          /\ ~Accepts(s, View(r))
          /\ Failed(r, Verdict(s), s)
     \/ \E s \in Sqls :
          /\ Accepts(s, View(r))
          /\ Become(r, [run[r] EXCEPT !.pc = IF run[r].sig = 0 THEN "done" ELSE "put",
                                      !.success = TRUE, !.out = Pretty[s]])
  /\ UNCHANGED <<live, file, cache>>

Row(r) == [sql |-> run[r].out, by |-> r]

PutCached(r) ==
  /\ At(r, "put")
  /\ \/ /\ cache' = [cache EXCEPT ![Key(r)] = Row(r)]
        /\ Become(r, [run[r] EXCEPT !.pc = "done"])
     \/ Raise(r) /\ UNCHANGED cache
  /\ UNCHANGED <<live, file>>

-----------------------------------------------------------------------------

Next ==
  \/ ChangeSchema \/ RewriteFile \/ ClearCache
  \/ \E r \in Runs :
       \/ ReadRequest(r) \/ Retrieve(r) \/ Lookup(r) \/ CacheGet(r) \/ BumpHit(r)
       \/ Attempt(r) \/ PutCached(r)

Spec == Init /\ [][Next]_vars

-----------------------------------------------------------------------------
(* Properties.                                                             *)

\* Types; a run has a schema from the lookup on, a place in the cache while it reads
\* or writes it, and a result when it has succeeded.
TypeOK ==
  /\ live \in Versions /\ file \in 0..MaxVersion
  /\ cache \in [Keys -> Rows \cup {NoRow}]
  /\ run \in [Runs -> RunRecord]
  /\ \A r \in Runs :
       /\ run[r].pc \in {"lookup", "get", "bump", "attempt", "put"} => run[r].view # {}
       /\ run[r].pc \in {"get", "bump", "put"} => run[r].sig # 0
       /\ run[r].success => run[r].out # NoSql

\* A successful result is SQL that passes every validator against the schema that
\* this very run retrieved, whoever wrote it into the cache, at whatever version,
\* and whatever became of the cache file in between.
ReportedSqlValid ==
  \A r \in Runs : run[r].success => \E view \in run[r].view : Accepts(run[r].out, view)

Rejected(s) == s # NoSql /\ Kind[s] \in {"broken", "forbidden", "unsafe"}

\* "Do not expose unsafe/rejected SQL in the public generated_sql field", nor in the
\* result cache, which other runs answer from.
RejectedNeverExposed ==
  /\ \A r \in Runs : ~Rejected(run[r].out)
  /\ \A k \in Keys : ~Rejected(cache[k].sql)

\* "A revision is never silently answered with a stale cached SQL", nor is a fresh
\* question answered with the SQL of a revision, or of another question.
HitAnswersQuestion ==
  \A r \in Runs : \A by \in run[r].from :
    /\ run[by].req.text = run[r].req.text
    /\ ~run[by].req.revision /\ ~run[r].req.revision

\* The LLM is not asked again once guardrail or sandbox refused a statement.
RefusalIsFinal ==
  \A r \in Runs : \A i \in 1..Len(run[r].attempts) :
    run[r].attempts[i] \in {"guardrail", "sandbox"} =>
      i = Len(run[r].attempts) /\ At(r, "done") /\ ~run[r].success
=============================================================================
