------------------------------ MODULE Execution -------------------------------
(***************************************************************************)
(* One request to run a SELECT against a database, from the orchestrator   *)
(* or the router down to a driver (app/evaluation).                        *)
(*                                                                         *)
(* The orchestrator plans and lets only local fixtures through; the router *)
(* hands a request to the adapter of its dialect: SQLite runs it in the    *)
(* sandbox, the four others are bridges to an adapter that opens a session *)
(* of its own, any call of which may fail.                                 *)
(***************************************************************************)
EXTENDS Integers, Sequences, SequencesExt

CONSTANTS
  Names,      \* names the columns of an answer may have
  Caps,       \* max_rows of requests
  MaxRows,    \* bounds: rows of an answer,
  MaxCols     \* and its columns

ASSUME ExecutionAssumption == Caps \subseteq Nat \ {0} /\ MaxRows \in Nat /\ MaxCols \in Nat

VARIABLES
  pc,         \* the next step of the request
  request,    \* the request
  path,       \* "orchestrator" or "router": who was asked
  session,    \* the driver's session
  answer,     \* what the database answers
  result      \* what the caller gets

vars == <<pc, request, path, session, answer, result>>

Engines == {"sqlite", "postgresql", "mysql", "oracle", "sqlserver"}
Live == Engines \ {"sqlite"}

\* A reference may be left out, blank, or name something that is there or not.
Refs == {"none", "blank", "known", "unknown"}
Named(ref) == ref \in {"known", "unknown"}

Request == [engine : Engines, fixture : Refs, conn : Refs, mode : {"read_only", "explain_only"},
            cap : Caps, sql : {"select", "write"}]

\* SQLDatabaseExecutionRequest: one of the two references.
ValidRequest(r) == Named(r.fixture) # Named(r.conn)

NoSession == [open |-> FALSE, todo |-> <<>>, readonly |-> FALSE, ran |-> FALSE, undone |-> TRUE,
              leaked |-> FALSE]
NoAnswer == [cols |-> <<>>, rows |-> 0]
NoResult == [status |-> "none", rows |-> 0, truncated |-> FALSE, cells |-> {}, tells |-> {}]

Init ==
  /\ pc = "idle" /\ request \in {r \in Request : ValidRequest(r)}
  /\ path \in {"orchestrator", "router"}
  /\ session = NoSession /\ answer = NoAnswer /\ result = NoResult

At(p) == pc = p
Goto(p) == pc' = p /\ UNCHANGED <<request, path>>
Same == UNCHANGED <<session, answer, result>>

\* The caller's answer; tells: the references its text contains.
End(r) == Goto("done") /\ result' = r
Only(status, tells) == [NoResult EXCEPT !.status = status, !.tells = tells]

\* A contract error is raised; the orchestrator makes it an outcome, or not.
Raises(tells) ==
  \E status \in IF path = "orchestrator" THEN {"rejected", "raised"} ELSE {"raised"} :
    End(Only(status, tells))

-----------------------------------------------------------------------------
(* The orchestrator and its planner.                                       *)

\* What a connection_ref names, and what the policy allows.
Profile == [engine : Engines, prod : BOOLEAN]
Policy == [engines : {Engines, Engines \ {"mysql", "sqlserver"}}, prod : BOOLEAN, allowProd : BOOLEAN]

\* SQLConnectionResolver.resolve
Resolves(p, policy) ==
  /\ p.prod => policy.prod /\ policy.allowProd
  /\ p.engine \in policy.engines

\* A plan uses the fixture or the connection, by what is given, blank or not.
PlansLocally(r) ==
  r.mode = "read_only" /\ r.fixture # "none" /\ r.conn = "none" /\ r.engine = "sqlite"

PlansLive(r, p, policy) ==
  /\ r.mode = "read_only" /\ r.fixture = "none" /\ r.conn = "known"
  /\ Resolves(p, policy) /\ p.engine = r.engine

\* allowed: connection plans are enabled and there is a resolver.
Plan(p, policy, allowed) ==
  /\ At("idle") /\ path = "orchestrator"
  /\ \/ PlansLocally(request) /\ Goto("route") /\ result' = result
     \/ allowed /\ PlansLive(request, p, policy) /\ End(Only("blocked", {}))
     \/ /\ ~PlansLocally(request) /\ ~(allowed /\ PlansLive(request, p, policy))
        /\ Raises(IF allowed /\ request.fixture = "none" /\ request.conn = "unknown"
                        /\ request.mode = "read_only" THEN {"conn"} ELSE {})
  /\ UNCHANGED <<session, answer>>

-----------------------------------------------------------------------------
(* The router and the adapters' contract checks.                           *)

\* The router may have no adapter for the dialect.
Route(adapters) ==
  /\ (At("idle") /\ path = "router") \/ At("route")
  /\ IF request.engine \in adapters THEN Goto("check") /\ result' = result ELSE Raises({})
  /\ UNCHANGED <<session, answer>>

Modes(e) == {"read_only"} \cup IF e = "postgresql" THEN {"explain_only"} ELSE {}

Accepted(sql) == sql = "select"

CheckSQLite ==
  LET r == request IN
  /\ At("check") /\ r.engine = "sqlite"
  /\ \/ /\ r.conn = "none" /\ r.mode \in Modes("sqlite") /\ r.fixture = "known" /\ Accepted(r.sql)
        /\ Goto("connect") /\ result' = result
     \/ /\ r.conn # "none" \/ r.mode \notin Modes("sqlite") \/ r.fixture # "known" \/ ~Accepted(r.sql)
        /\ Raises(IF r.conn = "none" /\ r.mode \in Modes("sqlite") /\ r.fixture = "unknown"
                    THEN {"fixture"} ELSE {})
  /\ UNCHANGED <<session, answer>>

CheckBridge ==
  LET r == request IN
  /\ At("check") /\ r.engine \in Live
  /\ IF r.conn # "none" /\ r.fixture = "none" /\ r.mode \in Modes(r.engine)
       THEN Goto("gate") /\ result' = result
       ELSE Raises({})
  /\ UNCHANGED <<session, answer>>

\* The environment names the database; each part may be missing its form.
Environment == [host : {"local", "remote"}, port : {"good", "bad"}, names : {"given", "blank"}]

\* The only connection there is: to a local container.
LocalDocker(env) == env.host = "local" /\ env.port = "good" /\ env.names = "given"

\* resolve_local_docker_connection never raises: no connection is one of its answers.
Resolved(env) == {env} \cap {c \in Environment : LocalDocker(c)}

\* The low-level adapter before it opens a session.
Gated(connections, driver) ==
  IF ~Accepted(request.sql) THEN "rejected"
  ELSE IF connections = {} THEN "not_implemented"
  ELSE IF ~driver THEN "execution_error" ELSE "goes_on"

\* No connection, a refused statement, no driver: an error result.
Gate(env, driver) ==
  /\ At("gate")
  /\ IF Resolved(env) # {} /\ Gated(Resolved(env), driver) = "goes_on"
       THEN Goto("connect") /\ result' = result
       ELSE End(Only("failed", {}))
  /\ UNCHANGED <<session, answer>>

-----------------------------------------------------------------------------
(* The session.  Its calls in order; "readonly" is the one that makes the  *)
(* transaction read-only, and SQL Server leaves that to the login.         *)

\* Mutant of Calls: the read-only transaction starts after the statement.
CallsLate(e) ==
  CASE e = "mysql" -> <<"timeout", "run", "readonly", "fetch">>
    [] e = "oracle" -> <<"timeout", "readonly", "run", "fetch">>
    [] e = "postgresql" -> <<"readonly", "run", "fetch", "rollback">>
    [] OTHER -> <<"timeout", "run", "fetch">>

MySql == <<"timeout", "readonly", "run", "fetch">>
Oracle == <<"timeout", "readonly", "run", "fetch">>
Postgres == <<"readonly", "run", "fetch", "rollback">>
SqlServer == <<"run", "fetch">>
Sandbox == <<"timeout", "run", "fetch">>

Calls(e) == [mysql |-> MySql, oracle |-> Oracle, postgresql |-> Postgres,
             sqlserver |-> SqlServer, sqlite |-> Sandbox][e]

\* What a driver's exception is known by, beside its class; its text tells the login.
Faults == {"code", "text", "other"}

\* A timeout has a message of its own, by what each driver tells it by.
TimedOut(e, fault) ==
  \/ fault = "code" /\ e \in Live
  \/ fault = "text" /\ e \in {"mysql", "sqlserver"}

\* Mutant of ErrorText: the driver's text is passed on.
ErrorTextRaw(e, fault) == Only(IF TimedOut(e, fault) THEN "timed_out" ELSE "failed", {"login"})

\* The sanitizers give the class of the exception only; SQLite's text, which names
\* no login, is passed on.
ErrorText(e, fault) == Only(IF TimedOut(e, fault) THEN "timed_out" ELSE "failed", {})

\* Postgres is connected with default_transaction_read_only, SQLite with mode=ro.
Connect ==
  /\ At("connect")
  /\ session' = [NoSession EXCEPT !.open = TRUE, !.todo = Calls(request.engine),
                                  !.readonly = request.engine \in {"postgresql", "sqlite"}]
  /\ Goto("call") /\ UNCHANGED <<answer, result>>

ConnectFails(fault) ==
  At("connect") /\ End(ErrorText(request.engine, fault)) /\ UNCHANGED <<session, answer>>

Next1 == Head(session.todo)
Rest == Tail(session.todo)

\* A call that succeeds.
Call ==
  /\ At("call") /\ session.todo # <<>>
  /\ session' = [session EXCEPT !.todo = Rest,
                                !.readonly = @ \/ Next1 = "readonly",
                                !.ran = @ \/ Next1 = "run",
                                !.undone = Next1 = "rollback" \/ (@ /\ Next1 # "run")]
  /\ IF Next1 = "run"
       THEN \E cols \in BoundedSeq(Names, MaxCols), rows \in 0..MaxRows :
              answer' = [cols |-> cols, rows |-> rows]
       ELSE answer' = answer
  /\ Goto("call") /\ UNCHANGED result

\* Mutant of CallFails: the error is returned past the clean-up.
CallFailsEarly(fault) ==
  /\ At("call") /\ session.todo # <<>>
  /\ session' = [session EXCEPT !.ran = @ \/ Next1 = "run", !.undone = @ /\ Next1 # "run"]
  /\ End(ErrorText(request.engine, fault)) /\ UNCHANGED answer

\* Every failure ends in an error result, after the session is put away.
CallFails(fault) ==
  /\ At("call") /\ session.todo # <<>>
  /\ session' = [session EXCEPT !.ran = @ \/ Next1 = "run", !.undone = @ /\ Next1 # "run"]
  /\ Goto("putaway") /\ result' = ErrorText(request.engine, fault)
  /\ UNCHANGED answer

Fewer(a, b) == IF a <= b THEN a ELSE b

\* Mutant of Cut: max_rows rows are fetched, not one more.
CutShort(rows, cap) == [rows |-> Fewer(rows, cap), truncated |-> Fewer(rows, cap) > cap]

\* fetchmany(max_rows + 1): one row more than is shown tells that there are more.
Cut(rows, cap) == LET fetched == Fewer(rows, cap + 1) IN
                  [rows |-> Fewer(fetched, cap), truncated |-> fetched > cap]

\* The cells of a row that its dict keeps: of columns with one name the last
\* (dict(zip(columns, row))), and of a row of SQLite the first (dict(row)).
Cells(e, cols) ==
  {i \in DOMAIN cols : \A j \in DOMAIN cols \ {i} : cols[j] = cols[i] => (i < j <=> e = "sqlite")}

\* SQLite refuses what is longer than max_rows, the others cut it.  A result whose
\* columns are not all text is refused by its class, and that is an error as well.
Answered(text) ==
  LET cut == Cut(answer.rows, request.cap) IN
  /\ At("call") /\ session.todo = <<>>
  /\ request.engine = "sqlite" \/ answer.cols = <<>> => text
  /\ result' = IF ~text \/ (request.engine = "sqlite" /\ cut.truncated)
                 THEN ErrorText(request.engine, "other")
                 ELSE [status |-> "executed", rows |-> cut.rows, truncated |-> cut.truncated,
                       cells |-> Cells(request.engine, answer.cols), tells |-> {}]
  /\ Goto("putaway") /\ UNCHANGED <<session, answer>>

\* rollback (not for Postgres, where it is one of the calls) and close; what
\* they raise is swallowed.
PutAway(rolledBack, closed) ==
  /\ At("putaway")
  /\ session' = [session EXCEPT !.open = FALSE, !.leaked = ~closed,
                   !.undone = @ \/ closed \/ (rolledBack /\ request.engine \in Live \ {"postgresql"})]
  /\ Goto("done") /\ UNCHANGED <<answer, result>>

\* The next request.
Again ==
  /\ At("done")
  /\ pc' = "idle" /\ request' \in {r \in Request : ValidRequest(r)}
  /\ path' \in {"orchestrator", "router"}
  /\ session' = NoSession /\ answer' = NoAnswer /\ result' = NoResult

Next ==
  \/ \E p \in Profile, policy \in Policy, allowed \in BOOLEAN : Plan(p, policy, allowed)
  \/ \E adapters \in {Engines, {"sqlite"}} : Route(adapters)
  \/ CheckSQLite \/ CheckBridge
  \/ \E env \in Environment, driver \in BOOLEAN : Gate(env, driver)
  \/ \E fault \in Faults : ConnectFails(fault) \/ CallFails(fault)
  \/ \E text \in BOOLEAN : Answered(text)
  \/ Connect \/ Call
  \/ \E rolledBack, closed \in BOOLEAN : PutAway(rolledBack, closed)
  \/ Again

Spec == Init /\ [][Next]_vars

-----------------------------------------------------------------------------
\* Only what the gate accepts is ever run, and in a session that is read-only by
\* then, whatever failed before; SQL Server alone relies on its login
\* (mssql_adapter.py).  The orchestrator never opens a live session.
RunsAreGuarded ==
  /\ session.ran => /\ request.sql = "select"
                    /\ request.engine # "sqlserver" => session.readonly
  /\ session.open /\ path = "orchestrator" => request.engine = "sqlite"

\* Of every name among the columns one cell is kept, and no more.
OneOfEach(cells, cols) ==
  /\ cells \subseteq DOMAIN cols
  /\ \A i \in DOMAIN cols : \E j \in cells : \A k \in cells : cols[k] = cols[i] <=> k = j

\* A caller who is told of no error has the first max_rows rows, is told whether
\* there are more, and has a cell of every column name in them: every cell of the
\* answer when no two columns have one name, and silently fewer when two have, though
\* postgres_execution_adapter.py:44-45 says that it never silently drops data.
RowsAreExact ==
  result.status = "executed" =>
    /\ result.rows = Fewer(answer.rows, request.cap)
    /\ result.truncated <=> answer.rows > request.cap
    /\ OneOfEach(result.cells, answer.cols)
    /\ (\A i, j \in DOMAIN answer.cols : answer.cols[i] = answer.cols[j] => i = j)
         <=> result.cells = DOMAIN answer.cols

\* No session outlives its request, and nothing it did stays: every way out
\* passes the rollback and the close (_execute_select, sql_sandbox.py).  Once the
\* statement ran the caller gets a result, never an exception.
SessionsEnd ==
  At("done") => /\ ~session.open /\ (session.undone \/ session.leaked)
                /\ session.ran => result.status \in {"executed", "failed", "timed_out"}

\* What the caller is told never holds the login, whatever the driver raised
\* (the adapters' sanitizers), and names a connection only to reject it.
ErrorsKeepTheLogin ==
  /\ "login" \notin result.tells
  /\ "conn" \in result.tells => ~session.ran /\ result.status \in {"rejected", "raised"}

=============================================================================
