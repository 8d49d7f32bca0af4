--------------------------- MODULE EvaluationProofs ---------------------------
(***************************************************************************)
(* Execution and Evaluation, the two halves of app/evaluation, for any names, *)
(* limits, rows and lengths of answers.                                    *)
(***************************************************************************)
EXTENDS Execution, Evaluation, DataLemmas, SequenceTheorems

-----------------------------------------------------------------------------
(***************************************************************************)
(* Execution.  The invariant says for each step of a request what its      *)
(* session may have done by then and what its caller may have been told.   *)
(***************************************************************************)

Statuses == {"none", "blocked", "rejected", "raised", "failed", "timed_out", "executed"}

CallNames == {"timeout", "readonly", "run", "fetch", "rollback"}

Session == [open : BOOLEAN, todo : Seq(CallNames),
            readonly : BOOLEAN, ran : BOOLEAN, undone : BOOLEAN, leaked : BOOLEAN]

\* The calls still to come cannot run the statement before the transaction is
\* read-only.  SQL Server has no call for it.
Guarded(todo) ==
  \A i \in DOMAIN todo : todo[i] = "run" => \E j \in DOMAIN todo : j < i /\ todo[j] = "readonly"

SessionInv ==
  /\ session \in Session
  /\ session.undone \/ session.leaked \/ session.open
  /\ pc = "call" => session.open
  /\ pc \notin {"call", "putaway"} => ~session.open
  /\ pc \notin {"call", "putaway", "done"} => ~session.ran
  /\ session.ran => request.sql = "select" /\ (request.engine # "sqlserver" => session.readonly)

AnswerInv ==
  /\ answer.rows \in Nat /\ answer.cols \in Seq(Names)
  /\ pc \in {"putaway", "done"} /\ session.ran =>
       result.status \in {"executed", "failed", "timed_out"}
  /\ pc \notin {"putaway", "done"} => result = NoResult
  /\ RowsAreExact /\ ErrorsKeepTheLogin

RequestInv ==
  /\ pc \in {"idle", "route", "check", "gate", "connect", "call", "putaway", "done"}
  /\ request \in Request
  /\ path \in {"orchestrator", "router"}
  /\ pc \in {"connect", "call"} => request.sql = "select"
  /\ pc \in {"gate"} => request.engine \in Live
  /\ path = "orchestrator" /\ pc \in {"route", "check", "gate", "connect", "call", "putaway"} =>
       request.engine = "sqlite"
  /\ pc = "call" => request.engine = "sqlserver" \/ session.readonly \/ Guarded(session.todo)

IInv == RequestInv /\ SessionInv /\ AnswerInv


-----------------------------------------------------------------------------
(* The helpers.                                                            *)

\* Of columns with one name the first is kept, or the last; there is always one.
LEMMA CellsAreNames ==
  ASSUME NEW e, NEW cols \in Seq(Names)
  PROVE  /\ OneOfEach(Cells(e, cols), cols)
         /\ (\A i, j \in DOMAIN cols : cols[i] = cols[j] => i = j) <=> Cells(e, cols) = DOMAIN cols
<1> DEFINE n == Len(cols)
           D == 1 .. n
           kept == Cells(e, cols)
<1>1. n \in Nat /\ DOMAIN cols = D
  OBVIOUS
<1>2. kept = {i \in D : \A j \in D \ {i} : cols[j] = cols[i] => (i < j <=> e = "sqlite")}
  BY <1>1 DEF Cells
<1> HIDE DEF kept
<1>3. ASSUME NEW i \in D
      PROVE  \E j \in kept : cols[j] = cols[i]
  <2> DEFINE same == {k \in D : cols[k] = cols[i]}
  <2>1. same \in SUBSET D /\ same \in SUBSET Nat /\ same # {}
    OBVIOUS
  <2>2. CASE e = "sqlite"
    <3>1. Min(same) \in same /\ \A y \in same : Min(same) <= y
      <4> HIDE DEF same
      <4> QED
        BY <2>1, MinIsLeast
    <3> DEFINE m == Min(same)
    <3> HIDE DEF m
    <3>2. m \in D /\ cols[m] = cols[i] /\ \A y \in D : cols[y] = cols[i] => m <= y
      BY <3>1 DEF m
    <3>3. \A y \in D \ {m} : cols[y] = cols[m] => m < y
      BY <1>1, <3>2
    <3> QED
      BY <1>2, <2>2, <3>2, <3>3
  <2>3. CASE e # "sqlite"
    <3>1. Max(same) \in same /\ \A y \in same : Max(same) >= y
      <4> HIDE DEF same
      <4> QED
        BY <1>1, <2>1, GreatestIsIn
    <3> DEFINE m == Max(same)
    <3> HIDE DEF m
    <3>2. m \in D /\ cols[m] = cols[i] /\ \A y \in D : cols[y] = cols[i] => m >= y
      BY <3>1 DEF m
    <3>3. \A y \in D \ {m} : cols[y] = cols[m] => ~(m < y)
      BY <1>1, <3>2
    <3> QED
      BY <1>2, <2>3, <3>2, <3>3
  <2> QED
    BY <2>2, <2>3
<1>4. ASSUME NEW j \in kept, NEW k \in kept, cols[j] = cols[k] PROVE j = k
  <2>1. j \in D /\ k \in D
    BY <1>2
  <2>2. j # k => ((j < k <=> e = "sqlite") /\ (k < j <=> e = "sqlite"))
    BY <1>2, <1>4, <2>1
  <2>3. j \in Nat /\ k \in Nat
    BY <1>1, <2>1
  <2> QED
    BY <2>2, <2>3
<1>5. kept \subseteq D
  BY <1>2
<1>6. OneOfEach(kept, cols)
  <2>1. ASSUME NEW i \in D PROVE \E j \in kept : \A k \in kept : cols[k] = cols[i] <=> k = j
    <3>1. PICK j \in kept : cols[j] = cols[i]
      BY <1>3
    <3> QED
      BY <1>4, <3>1
  <2> HIDE DEF D
  <2> QED
    BY <1>1, <1>5, <2>1 DEF OneOfEach
<1>7. (\A i, j \in D : cols[i] = cols[j] => i = j) => kept = D
  BY <1>2
<1>8. kept = D => \A i, j \in D : cols[i] = cols[j] => i = j
  BY <1>4
<1> QED
  BY <1>1, <1>6, <1>7, <1>8 DEF kept

LEMMA CutExact ==
  ASSUME NEW rows \in Nat, NEW cap \in Nat \ {0}
  PROVE  /\ Cut(rows, cap).rows = Fewer(rows, cap)
         /\ Cut(rows, cap).truncated <=> rows > cap
<1> DEFINE f == Fewer(rows, cap + 1)
           more == f > cap
<1>1. (more <=> rows > cap) /\ Fewer(f, cap) = Fewer(rows, cap)
  BY DEF Fewer
<1>2. Cut(rows, cap) = [rows |-> Fewer(f, cap), truncated |-> more]
  BY DEF Cut
<1> HIDE DEF more
<1>3. Cut(rows, cap).truncated = more /\ Cut(rows, cap).rows = Fewer(f, cap)
  BY <1>2
<1> QED
  BY <1>1, <1>3

LEMMA Tuples ==
  ASSUME NEW S, NEW a \in S, NEW b \in S, NEW c \in S, NEW d \in S
  PROVE  <<a, b>> \in Seq(S) /\ <<a, b, c>> \in Seq(S) /\ <<a, b, c, d>> \in Seq(S)
OBVIOUS

LEMMA GuardedCalls ==
  ASSUME NEW a, NEW b, NEW c
  PROVE  (a # "run" /\ b # "run") =>
           /\ b = "readonly" => Guarded(<<a, b, "run", c>>)
           /\ c # "run" /\ a = "readonly" => Guarded(<<a, "run", c, b>>)
<1> SUFFICES ASSUME a # "run", b # "run"
             PROVE  /\ b = "readonly" => Guarded(<<a, b, "run", c>>)
                    /\ c # "run" /\ a = "readonly" => Guarded(<<a, "run", c, b>>)
  OBVIOUS
<1> QED
  BY DEF Guarded

LEMMA CallsType ==
  ASSUME NEW e \in Engines
  PROVE  /\ Calls(e) \in Seq(CallNames)
         /\ e \in {"sqlserver", "postgresql", "sqlite"} \/ Guarded(Calls(e))
<1>s. /\ "timeout" \in CallNames /\ "readonly" \in CallNames /\ "run" \in CallNames
      /\ "fetch" \in CallNames /\ "rollback" \in CallNames
  BY DEF CallNames
<1>1. CASE e \in {"mysql", "oracle"}
  <2>1. Calls(e) = <<"timeout", "readonly", "run", "fetch">>
    BY <1>1 DEF Calls, MySql, Oracle
  <2> QED
    BY <1>s, <2>1, Tuples, GuardedCalls
<1>2. CASE e = "postgresql"
  <2>1. Calls(e) = <<"readonly", "run", "fetch", "rollback">>
    BY <1>2 DEF Calls, Postgres
  <2> QED
    BY <1>2, <1>s, <2>1, Tuples
<1>3. CASE e = "sqlserver"
  <2>1. Calls(e) = <<"run", "fetch">>
    BY <1>3 DEF Calls, SqlServer
  <2> QED
    BY <1>3, <1>s, <2>1, Tuples
<1>4. CASE e = "sqlite"
  <2>1. Calls(e) = <<"timeout", "run", "fetch">>
    BY <1>4 DEF Calls, Sandbox
  <2> QED
    BY <1>4, <1>s, <2>1, Tuples
<1> QED
  BY <1>1, <1>2, <1>3, <1>4 DEF Engines

LEMMA GuardedTail ==
  ASSUME NEW S, NEW todo \in Seq(S), todo # <<>>, Guarded(todo)
  PROVE  /\ Tail(todo) \in Seq(S)
         /\ Head(todo) # "run"
         /\ Head(todo) = "readonly" \/ Guarded(Tail(todo))
<1>1. /\ Tail(todo) \in Seq(S) /\ Head(todo) = todo[1] /\ 1 \in DOMAIN todo
      /\ Len(Tail(todo)) = Len(todo) - 1 /\ Len(todo) \in Nat
      /\ \A i \in DOMAIN Tail(todo) : Tail(todo)[i] = todo[i + 1] /\ i + 1 \in DOMAIN todo
  OBVIOUS
<1>2. todo[1] # "run"
  BY <1>1 DEF Guarded
<1>3. ASSUME todo[1] # "readonly", NEW i \in DOMAIN Tail(todo), Tail(todo)[i] = "run"
      PROVE  \E j \in DOMAIN Tail(todo) : j < i /\ Tail(todo)[j] = "readonly"
  <2>1. PICK j \in DOMAIN todo : j < i + 1 /\ todo[j] = "readonly"
    BY <1>1, <1>3 DEF Guarded
  <2>2. j # 1 /\ j \in 1..Len(todo) /\ i \in Nat
    BY <1>1, <1>3, <2>1
  <2>3. j - 1 \in DOMAIN Tail(todo) /\ j - 1 < i
    BY <1>1, <2>1, <2>2
  <2>4. Tail(todo)[j - 1] = todo[j]
    <3>1. Tail(todo)[j - 1] = todo[(j - 1) + 1] /\ (j - 1) + 1 = j
      BY <1>1, <2>2, <2>3
    <3> QED
      BY <3>1
  <2> QED
    BY <2>1, <2>3, <2>4
<1> QED
  BY <1>1, <1>2, <1>3 DEF Guarded

\* What an error tells its caller.
LEMMA ErrorTold ==
  ASSUME NEW e, NEW fault
  PROVE  /\ ErrorText(e, fault).status \in {"failed", "timed_out"}
         /\ ErrorText(e, fault).tells = {}
BY DEF ErrorText, Only, NoResult

LEMMA OnlyTold ==
  ASSUME NEW status, NEW tells
  PROVE  Only(status, tells).status = status /\ Only(status, tells).tells = tells
BY DEF Only, NoResult

-----------------------------------------------------------------------------
(* The steps.                                                              *)

LEMMA InitInv == Init => IInv
BY DEF Init, IInv, RequestInv, SessionInv, AnswerInv, NoSession, NoAnswer, NoResult, Session,
       RowsAreExact, ErrorsKeepTheLogin

\* The request is over before a session was opened.
LEMMA EndUnopened ==
  ASSUME IInv, pc \in {"idle", "route", "check", "gate", "connect"}, pc' = "done",
         UNCHANGED <<request, path, session, answer>>,
         result'.status # "executed", "login" \notin result'.tells,
         "conn" \in result'.tells => result'.status \in {"rejected", "raised"}
  PROVE  IInv'
BY DEF IInv, RequestInv, SessionInv, AnswerInv, RowsAreExact, ErrorsKeepTheLogin

\* The request goes on before a session is opened.
LEMMA GoOn ==
  ASSUME IInv, pc \in {"idle", "route", "check", "gate"},
         pc' \in {"route", "check", "gate", "connect"},
         UNCHANGED <<request, path, session, answer, result>>,
         pc' = "connect" => request.sql = "select",
         pc' = "gate" => request.engine \in Live,
         path = "orchestrator" => request.engine = "sqlite"
  PROVE  IInv'
BY DEF IInv, RequestInv, SessionInv, AnswerInv, RowsAreExact, ErrorsKeepTheLogin

LEMMA RaisesInv ==
  ASSUME IInv, pc \in {"idle", "route", "check", "gate"}, NEW tells,
         Raises(tells), "login" \notin tells, UNCHANGED <<session, answer>>
  PROVE  IInv'
<1>1. PICK status \in {"rejected", "raised"} : End(Only(status, tells))
  BY DEF Raises
<1>2. result'.status = status /\ result'.tells = tells /\ pc' = "done" /\ UNCHANGED <<request, path>>
  BY <1>1, OnlyTold DEF End, Goto
<1> QED
  BY <1>1, <1>2, EndUnopened

LEMMA NextInv == ASSUME ExecutionAssumption, IInv, [Next]_vars PROVE IInv'
<1>t. /\ request \in Request /\ request.engine \in Engines /\ session \in Session
      /\ request.cap \in Nat \ {0} /\ answer.rows \in Nat /\ answer.cols \in Seq(Names)
  BY DEF IInv, RequestInv, SessionInv, AnswerInv, Request, ExecutionAssumption
<1>1. ASSUME NEW p \in Profile, NEW policy \in Policy, NEW allowed \in BOOLEAN,
             Plan(p, policy, allowed)
      PROVE  IInv'
  <2>1. CASE PlansLocally(request) /\ Goto("route") /\ result' = result
    BY <1>1, <2>1, GoOn DEF Plan, At, Goto, PlansLocally
  <2>2. CASE End(Only("blocked", {}))
    BY <1>1, <2>2, OnlyTold, EndUnopened DEF Plan, At, End, Goto
  <2>3. ASSUME NEW c \in BOOLEAN, Raises(IF c THEN {"conn"} ELSE {}) PROVE IInv'
    BY <1>1, <2>3, RaisesInv DEF Plan, At
  <2> QED
    BY <1>1, <2>1, <2>2, <2>3 DEF Plan
<1>2. ASSUME NEW adapters, Route(adapters) PROVE IInv'
  <2>1. CASE Goto("check") /\ result' = result
    BY <1>2, <2>1, GoOn DEF Route, At, Goto, IInv, RequestInv
  <2>2. CASE Raises({})
    BY <1>2, <2>2, RaisesInv DEF Route, At
  <2> QED
    BY <1>2, <2>1, <2>2 DEF Route
<1>3. CASE CheckSQLite
  <2>1. CASE Goto("connect") /\ result' = result /\ Accepted(request.sql)
    BY <1>3, <2>1, GoOn DEF CheckSQLite, At, Goto, Accepted
  <2>2. ASSUME NEW c \in BOOLEAN, Raises(IF c THEN {"fixture"} ELSE {}) PROVE IInv'
    BY <1>3, <2>2, RaisesInv DEF CheckSQLite, At
  <2> QED
    BY <1>3, <2>1, <2>2 DEF CheckSQLite
<1>4. CASE CheckBridge
  <2>1. CASE Goto("gate") /\ result' = result
    BY <1>4, <2>1, GoOn DEF CheckBridge, At, Goto, IInv, RequestInv, Live
  <2>2. CASE Raises({})
    BY <1>4, <2>2, RaisesInv DEF CheckBridge, At
  <2> QED
    BY <1>4, <2>1, <2>2 DEF CheckBridge
<1>5. ASSUME NEW env, NEW driver \in BOOLEAN, Gate(env, driver) PROVE IInv'
  <2>1. CASE Goto("connect") /\ result' = result /\ Gated(Resolved(env), driver) = "goes_on"
    BY <1>5, <2>1, GoOn DEF Gate, Gated, Accepted, At, Goto, IInv, RequestInv
  <2>2. CASE End(Only("failed", {}))
    BY <1>5, <2>2, OnlyTold, EndUnopened DEF Gate, At, End, Goto
  <2> QED
    BY <1>5, <2>1, <2>2 DEF Gate
<1>6. CASE Connect
  <2> DEFINE e == request.engine
  <2>1. /\ session'.open /\ session'.todo = Calls(e) /\ ~session'.ran /\ session' \in Session
        /\ session'.readonly <=> e \in {"postgresql", "sqlite"}
    <3>1. NoSession \in Session
      BY DEF NoSession, Session
    <3>2. Calls(e) \in Seq(CallNames)
      BY <1>t, CallsType
    <3> DEFINE calls == Calls(e)
               ro == e \in {"postgresql", "sqlite"}
    <3>3. session' = [NoSession EXCEPT !.open = TRUE, !.todo = calls, !.readonly = ro]
      BY <1>6 DEF Connect
    <3>4. ro \in BOOLEAN
      OBVIOUS
    <3> HIDE DEF calls, ro
    <3>5. /\ session'.open /\ session'.todo = calls /\ ~session'.ran /\ session' \in Session
          /\ session'.readonly = ro
      BY <3>1, <3>2, <3>3, <3>4 DEF Session, NoSession, calls
    <3> QED
      BY <3>5 DEF calls, ro
  <2>2. e = "sqlserver" \/ session'.readonly \/ Guarded(session'.todo)
    BY <1>t, <2>1, CallsType
  <2>3. pc = "connect" /\ pc' = "call" /\ UNCHANGED <<request, path, answer, result>>
    BY <1>6 DEF Connect, At, Goto
  <2> QED
    BY <2>1, <2>2, <2>3
       DEF IInv, RequestInv, SessionInv, AnswerInv, RowsAreExact, ErrorsKeepTheLogin
<1>7. ASSUME NEW fault, ConnectFails(fault) PROVE IInv'
  BY <1>7, ErrorTold, EndUnopened DEF ConnectFails, At, End, Goto
<1>8. CASE Call
  <2> DEFINE todo == session.todo
  <2>1. todo \in Seq(CallNames) /\ todo # <<>>
    BY <1>8, <1>t DEF Call, Session
  <2>2. Tail(todo) \in Seq(CallNames)
    BY <2>1
  <2>3. /\ pc = "call" /\ pc' = "call" /\ UNCHANGED <<request, path, result>>
        /\ session' = [session EXCEPT !.todo = Tail(todo),
                                      !.readonly = session.readonly \/ Head(todo) = "readonly",
                                      !.ran = session.ran \/ Head(todo) = "run",
                                      !.undone = Head(todo) = "rollback" \/ (session.undone /\ Head(todo) # "run")]
    BY <1>8 DEF Call, At, Goto, Next1, Rest
  <2>4. answer'.rows \in Nat /\ answer'.cols \in Seq(Names)
    <3>1. CASE answer' = answer
      BY <1>t, <3>1
    <3>2. ASSUME NEW cols \in BoundedSeq(Names, MaxCols), NEW rows \in 0..MaxRows,
                 answer' = [cols |-> cols, rows |-> rows]
          PROVE  answer'.rows \in Nat /\ answer'.cols \in Seq(Names)
      <4>1. PICK k \in 0..MaxCols : cols \in [1..k -> Names]
        BY DEF BoundedSeq, SeqOf
      <4>2. k \in Nat /\ MaxRows \in Nat
        BY DEF ExecutionAssumption
      <4>3. cols \in Seq(Names)
        BY <4>1, <4>2
      <4> QED
        BY <3>2, <4>2, <4>3
    <3> QED
      BY <1>8, <3>1, <3>2 DEF Call
  <2> DEFINE t == Tail(todo)
             ro == session.readonly \/ Head(todo) = "readonly"
             ran == session.ran \/ Head(todo) = "run"
             un == Head(todo) = "rollback" \/ (session.undone /\ Head(todo) # "run")
  <2>5. ro \in BOOLEAN /\ ran \in BOOLEAN /\ un \in BOOLEAN
    BY <1>t DEF Session
  <2>6. request.engine = "sqlserver" \/ ro \/ Guarded(t)
    BY <2>1, <2>3, GuardedTail DEF IInv, RequestInv
  <2>7. ran /\ request.engine # "sqlserver" => ro
    <3>1. CASE session.ran
      BY <3>1 DEF IInv, SessionInv
    <3>2. CASE Head(todo) = "run"
      BY <2>1, <2>3, <3>2, GuardedTail DEF IInv, RequestInv
    <3> QED
      BY <3>1, <3>2
  <2>10. request.sql = "select"
    BY <2>3 DEF IInv, RequestInv
  <2> HIDE DEF t, ro, ran, un
  <2>8. session' = [session EXCEPT !.todo = t, !.readonly = ro, !.ran = ran, !.undone = un]
    BY <2>3 DEF t, ro, ran, un
  <2>9. /\ session' \in Session /\ session'.todo = t /\ session'.readonly = ro
        /\ session'.ran = ran /\ session'.open = session.open
    BY <1>t, <2>2, <2>5, <2>8 DEF Session, t
  <2>11. session.open /\ result = NoResult
    BY <2>3 DEF IInv, SessionInv, AnswerInv
  <2>12. RequestInv'
    BY <2>3, <2>6, <2>9, <2>10 DEF IInv, RequestInv
  <2>13. SessionInv'
    BY <2>3, <2>7, <2>9, <2>10, <2>11 DEF SessionInv
  <2>14. AnswerInv'
    BY <2>3, <2>4, <2>11 DEF AnswerInv, RowsAreExact, ErrorsKeepTheLogin, NoResult
  <2> QED
    BY <2>12, <2>13, <2>14 DEF IInv
<1>9. ASSUME NEW fault, CallFails(fault) PROVE IInv'
  <2> DEFINE head == Head(session.todo)
             ran == session.ran \/ head = "run"
             un == session.undone /\ head # "run"
  <2>1. /\ pc = "call" /\ pc' = "putaway" /\ UNCHANGED <<request, path, answer>>
        /\ result' = ErrorText(request.engine, fault)
        /\ session' = [session EXCEPT !.ran = ran, !.undone = un]
    BY <1>9 DEF CallFails, At, Goto, Next1
  <2>2. session.todo \in Seq(CallNames) /\ session.todo # <<>>
    BY <1>9, <1>t DEF CallFails, Session
  <2>3. ran /\ request.engine # "sqlserver" => session.readonly
    <3>1. CASE session.ran
      BY <3>1 DEF IInv, SessionInv
    <3>2. CASE head = "run"
      BY <2>1, <2>2, <3>2, GuardedTail DEF IInv, RequestInv
    <3> QED
      BY <3>1, <3>2
  <2>4. ran \in BOOLEAN /\ un \in BOOLEAN /\ request.sql = "select" /\ session.open
    BY <1>t, <2>1 DEF Session, IInv, RequestInv, SessionInv
  <2> HIDE DEF ran, un
  <2>5. /\ session' \in Session /\ session'.readonly = session.readonly
        /\ session'.ran = ran /\ session'.open = session.open
    BY <1>t, <2>1, <2>4 DEF Session
  <2>6. result'.status \in {"failed", "timed_out"} /\ result'.tells = {}
    BY <2>1, ErrorTold
  <2>7. RequestInv'
    BY <2>1 DEF IInv, RequestInv
  <2>8. SessionInv'
    BY <2>1, <2>3, <2>4, <2>5 DEF SessionInv
  <2>9. AnswerInv'
    BY <1>t, <2>1, <2>6 DEF AnswerInv, RowsAreExact, ErrorsKeepTheLogin
  <2> QED
    BY <2>7, <2>8, <2>9 DEF IInv
<1>10. ASSUME NEW text \in BOOLEAN, Answered(text) PROVE IInv'
  <2> DEFINE cut == Cut(answer.rows, request.cap)
  <2>1. pc = "call" /\ pc' = "putaway" /\ UNCHANGED <<request, path, session, answer>>
    BY <1>10 DEF Answered, At, Goto
  <2>2. RequestInv' /\ SessionInv'
    BY <2>1 DEF IInv, RequestInv, SessionInv
  <2>3. AnswerInv'
    <3>1. CASE result' = ErrorText(request.engine, "other")
      <4>1. result'.status \in {"failed", "timed_out"} /\ result'.tells = {}
        BY <3>1, ErrorTold
      <4> QED
        BY <1>t, <2>1, <4>1 DEF AnswerInv, RowsAreExact, ErrorsKeepTheLogin
    <3>2. CASE /\ result'.status = "executed" /\ result'.tells = {}
               /\ result'.rows = cut.rows /\ result'.truncated = cut.truncated
               /\ result'.cells = Cells(request.engine, answer.cols)
      <4>1. /\ cut.rows = Fewer(answer.rows, request.cap)
            /\ cut.truncated <=> answer.rows > request.cap
        BY <1>t, CutExact
      <4> HIDE DEF cut
      <4>3. /\ OneOfEach(result'.cells, answer.cols)
            /\ (\A i, j \in DOMAIN answer.cols : answer.cols[i] = answer.cols[j] => i = j)
                 <=> result'.cells = DOMAIN answer.cols
        BY <1>t, <3>2, CellsAreNames
      <4>2. RowsAreExact'
        BY <2>1, <3>2, <4>1, <4>3 DEF RowsAreExact
      <4> QED
        BY <1>t, <2>1, <3>2, <4>2 DEF AnswerInv, ErrorsKeepTheLogin
    <3> QED
      BY <1>10, <3>1, <3>2 DEF Answered
  <2> QED
    BY <2>2, <2>3 DEF IInv
<1>11. ASSUME NEW back \in BOOLEAN, NEW closed \in BOOLEAN, PutAway(back, closed) PROVE IInv'
  <2> DEFINE un == \/ session.undone \/ closed
                   \/ (back /\ request.engine \in Live \ {"postgresql"})
             leaked == ~closed
  <2>1. /\ pc = "putaway" /\ pc' = "done" /\ UNCHANGED <<request, path, answer, result>>
        /\ session' = [session EXCEPT !.open = FALSE, !.leaked = leaked, !.undone = un]
    BY <1>11 DEF PutAway, At, Goto
  <2>2. un \in BOOLEAN /\ leaked \in BOOLEAN /\ (un \/ leaked)
    BY <1>t DEF Session
  <2> HIDE DEF un, leaked
  <2>3. /\ session' \in Session /\ session'.readonly = session.readonly
        /\ session'.ran = session.ran /\ ~session'.open
        /\ session'.undone = un /\ session'.leaked = leaked
    BY <1>t, <2>1, <2>2 DEF Session
  <2>4. RequestInv'
    BY <2>1 DEF IInv, RequestInv
  <2>5. SessionInv'
    BY <2>1, <2>2, <2>3 DEF IInv, SessionInv
  <2>6. AnswerInv'
    BY <2>1, <2>3 DEF IInv, AnswerInv, RowsAreExact, ErrorsKeepTheLogin
  <2> QED
    BY <2>4, <2>5, <2>6 DEF IInv
<1>12. CASE Again
  BY <1>12 DEF Again, IInv, RequestInv, SessionInv, AnswerInv, NoSession, NoAnswer, NoResult,
               Session, RowsAreExact, ErrorsKeepTheLogin
<1>13. CASE UNCHANGED vars
  BY <1>13 DEF vars, IInv, RequestInv, SessionInv, AnswerInv, RowsAreExact, ErrorsKeepTheLogin
<1> QED
  BY <1>1, <1>2, <1>3, <1>4, <1>5, <1>6, <1>7, <1>8, <1>9, <1>10, <1>11, <1>12, <1>13 DEF Next

LEMMA Inv == Spec => []IInv
<1>1. IInv /\ [Next]_vars => IInv'
  BY NextInv, ExecutionAssumption
<1> QED
  BY <1>1, InitInv, PTL DEF Spec

-----------------------------------------------------------------------------
\* Only an accepted statement ever runs, in a session that is read-only by then
\* (SQL Server excepted), and the orchestrator opens no live session.
THEOREM Guarding == Spec => []RunsAreGuarded
<1>1. IInv => RunsAreGuarded
  BY DEF IInv, RequestInv, SessionInv, RunsAreGuarded
<1> QED
  BY <1>1, Inv, PTL

\* Who is told of no error has the first max_rows rows of the answer, however
\* many there are, knows whether there are more, and has one cell of every column
\* name: every cell when the names differ (the adapters' _rows_to_dicts, sql_sandbox.py).
THEOREM Exactness == Spec => []RowsAreExact
<1>1. IInv => RowsAreExact
  BY DEF IInv, AnswerInv
<1> QED
  BY <1>1, Inv, PTL

\* Whichever call fails, the session is put away before the request ends, and a
\* statement that ran is answered with a result.
THEOREM Ending == Spec => []SessionsEnd
<1>1. IInv => SessionsEnd
  BY DEF IInv, SessionInv, AnswerInv, SessionsEnd, At
<1> QED
  BY <1>1, Inv, PTL

\* No answer holds the login.
THEOREM Secrecy == Spec => []ErrorsKeepTheLogin
<1>1. IInv => ErrorsKeepTheLogin
  BY DEF IInv, AnswerInv
<1> QED
  BY <1>1, Inv, PTL

-----------------------------------------------------------------------------
(***************************************************************************)
(* Evaluation.  What the analyzer and the gate say of results is said in one *)
(* step, from what is known then.                                          *)
(***************************************************************************)

-----------------------------------------------------------------------------
(* The gate: a decision is put together in one step, from the counts of the *)
(* results at that time.                                                    *)

LEMMA CountOfNothing ==
  ASSUME results = <<>>, NEW c
  PROVE  Count(c) = 0
<1>1. {i \in DOMAIN results : results[i] = c} = {}
  OBVIOUS
<1> QED
  BY <1>1, FS_EmptySet DEF Count

\* The settings of a gate, and that Python's None is no limit.
LEMMA ConfigTypes ==
  ASSUME NEW c \in Config
  PROVE  /\ EmptyStatus(c) \in {"PASS", "WARN", "FAIL"}
         /\ c.unknownStatus \in {"WARN", "FAIL"}
         /\ c.maxUnknown \in Nat /\ c.maxFailures \in Int /\ c.maxFailureRate \in Int
         /\ c.maxFailures # NoLimit => c.maxFailures >= 0
BY DEF Config, EmptyStatus, NoLimit

\* A run without results breaks no rule but the pass rate's.
LEMMA EmptyRun ==
  ASSUME results \in Seq(Category), Total = 0, NEW c \in Config
  PROVE  /\ Found(c.blocked) = {} /\ Found(c.warn) = {}
         /\ ~(c.maxFailures # NoLimit /\ Failed > c.maxFailures)
         /\ ~Exceeds(Failed, c.maxFailureRate) /\ ~Exceeds(Unknown, c.maxUnknown)
<1>1. results = <<>>
  BY DEF Total
<1>2. \A d : Count(d) = 0
  BY <1>1, CountOfNothing
<1>3. Passed = 0 /\ Unknown = 0 /\ Failed = 0
  BY <1>2 DEF Passed, Unknown, Failed
<1> QED
  BY <1>2, <1>3, ConfigTypes DEF Found, Exceeds

\* The chain of the decision and the rules, for the same results.
Shown(c) == {Rules(c)[r] : r \in DOMAIN Rules(c)}

LEMMA ShownRules ==
  ASSUME NEW c
  PROVE  Shown(c) = {Rules(c).min_pass_rate, Rules(c).max_failure_count, Rules(c).max_failure_rate,
                     Rules(c).block_failure_category, Rules(c).max_unknown_failure_rate, "PASS"}
<1>1. DOMAIN Rules(c) = {"min_pass_rate", "max_failure_count", "max_failure_rate", "block_failure_category",
                         "max_unknown_failure_rate", "require_p0_pass"}
  BY DEF Rules
<1>2. Rules(c).require_p0_pass = "PASS"
  BY DEF Rules
<1> QED
  BY <1>1, <1>2 DEF Shown

LEMMA StatusIsWorst ==
  ASSUME results \in Seq(Category), NEW c \in Config
  PROVE  Status(c) \in Shown(c) /\ \A s \in Shown(c) : Worse(s) <= Worse(Status(c))
<1> DEFINE blocked == Found(c.blocked) # {}
           warned == Found(c.warn) # {}
           few == 2 * Passed < c.minPass * Total
           many == c.maxFailures # NoLimit /\ Failed > c.maxFailures
           often == c.maxFailureRate # NoLimit /\ Exceeds(Failed, c.maxFailureRate)
           strange == Exceeds(Unknown, c.maxUnknown)
<1>1. /\ Rules(c).min_pass_rate = IF Total = 0 THEN EmptyStatus(c) ELSE IF few THEN "FAIL" ELSE "PASS"
      /\ Rules(c).max_failure_count = IF many THEN "FAIL" ELSE "PASS"
      /\ Rules(c).max_failure_rate = IF often THEN "FAIL" ELSE "PASS"
      /\ Rules(c).block_failure_category =
           IF blocked THEN "FAIL" ELSE IF warned THEN "WARN" ELSE "PASS"
      /\ Rules(c).max_unknown_failure_rate = IF strange THEN c.unknownStatus ELSE "PASS"
  BY DEF Rules, Broken
<1>2. Total \in Nat
  BY DEF Total
<1>3. Total = 0 => /\ ~blocked /\ ~warned /\ ~many /\ ~often /\ ~strange
                   /\ Status(c) = EmptyStatus(c)
  <2>1. Total = 0 => Status(c) = EmptyStatus(c)
    BY DEF Status
  <2>2. Total = 0 => ~blocked /\ ~warned /\ ~many /\ ~Exceeds(Failed, c.maxFailureRate) /\ ~strange
    BY EmptyRun
  <2> QED
    BY <2>1, <2>2
<1>4. Total # 0 => Status(c) = IF blocked THEN "FAIL" ELSE IF few THEN "FAIL" ELSE IF many THEN "FAIL"
                               ELSE IF often THEN "FAIL" ELSE IF strange THEN c.unknownStatus
                               ELSE IF warned THEN "WARN" ELSE "PASS"
  BY <1>2 DEF Status
<1> HIDE DEF blocked, warned, few, many, often, strange
<1>5. EmptyStatus(c) \in {"PASS", "WARN", "FAIL"} /\ c.unknownStatus \in {"WARN", "FAIL"}
  BY ConfigTypes
<1>6. Worse("PASS") = 0 /\ Worse("WARN") = 1 /\ Worse("FAIL") = 2
  BY DEF Worse
<1>7. CASE Total = 0
  BY <1>1, <1>3, <1>5, <1>6, <1>7, ShownRules
<1>8. CASE Total # 0
  <2>1. Status(c) \in {"PASS", "WARN", "FAIL"}
    BY <1>4, <1>5, <1>8
  <2>2. Status(c) \in Shown(c)
    BY <1>1, <1>4, <1>8, ShownRules
  <2>3. \A s \in Shown(c) : s \in {"PASS", "WARN", "FAIL"}
    BY <1>1, <1>5, <1>8, ShownRules
  <2>4. "FAIL" \in Shown(c) => Status(c) = "FAIL"
    BY <1>1, <1>4, <1>5, <1>8, ShownRules
  <2>5. "WARN" \in Shown(c) => Status(c) # "PASS"
    BY <1>1, <1>4, <1>5, <1>8, ShownRules
  <2> QED
    BY <1>6, <2>1, <2>2, <2>3, <2>4, <2>5
<1> QED
  BY <1>7, <1>8

-----------------------------------------------------------------------------
(* The category of a case.                                                  *)

Unanswerable == {"write_node", "not_select"}

\* The error of a prediction names the stage it came from and, when the statement
\* was refused or failed, what became of it.
LEMMA PredictedErrors ==
  ASSUME NEW case \in Case, NEW direct \in BOOLEAN, NEW fate \in Fates \cup {"missing"}
  PROVE  LET e == PredictedError(case, direct, fate)
         IN  \/ e = NoError
             \/ e = Error("empty", "none")
             \/ e.stage \in {"rejected", "run"} /\ e.cause \in {"dialect", "no_fixture"}
             \/ e.stage \in {"rejected", "run"} /\ e.cause = fate /\ fate # "run"
BY DEF PredictedError, Case, Fates, Refused, Error

LEMMA GoldErrors ==
  ASSUME NEW case \in Case, NEW fate \in Fates
  PROVE  LET e == GoldError(case, fate)
         IN  \/ e = NoError
             \/ e = Error("expected", "none")
             \/ e = Error("gold", "no_fixture")
             \/ e = Error("gold", fate) /\ fate # "run"
BY DEF GoldError, Case, Error

\* The error that decides is the prediction's, if it has one.
LEMMA ErrorsTold ==
  ASSUME NEW case \in Case, NEW direct \in BOOLEAN, NEW fate \in Fates \cup {"missing"}, NEW goldFate \in Fates
  PROVE  LET p == PredictedError(case, direct, fate)
             e == ErrorOf(p, GoldError(case, goldFate))
         IN  /\ e.cause \in Unanswerable => fate # "run" \/ goldFate # "run"
             /\ e.stage \in {"gold", "expected"} => p = NoError
             /\ e # NoError => e.stage \in {"empty", "rejected", "run", "gold", "expected"}
<1> DEFINE p == PredictedError(case, direct, fate)
           g == GoldError(case, goldFate)
<1>1. \/ p = NoError
      \/ p = Error("empty", "none")
      \/ p.stage \in {"rejected", "run"} /\ p.cause \in {"dialect", "no_fixture"}
      \/ p.stage \in {"rejected", "run"} /\ p.cause = fate /\ fate # "run"
  BY PredictedErrors
<1>2. \/ g = NoError
      \/ g = Error("expected", "none")
      \/ g = Error("gold", "no_fixture")
      \/ g = Error("gold", goldFate) /\ goldFate # "run"
  BY GoldErrors
<1> HIDE DEF p, g
<1>3. \A stage, cause : Error(stage, cause).stage = stage /\ Error(stage, cause).cause = cause
  BY DEF Error
<1>4. NoError.stage = "none" /\ NoError.cause = "none"
  BY <1>3 DEF NoError
<1>5. CASE p = NoError
  <2>1. ErrorOf(p, g) = g
    BY <1>5 DEF ErrorOf
  <2> QED
    BY <1>2, <1>3, <1>4, <1>5, <2>1 DEF p, g, Unanswerable
<1>6. CASE p # NoError
  <2>1. ErrorOf(p, g) = p
    BY <1>6 DEF ErrorOf
  <2> QED
    BY <1>1, <1>3, <1>6, <2>1 DEF p, g, Unanswerable
<1> QED
  BY <1>5, <1>6

\* What the phrases of an error make of it.
LEMMA ErrorCategories ==
  ASSUME NEW e, e.stage \in {"empty", "rejected", "run", "gold", "expected"}
  PROVE  \/ OfError(e) \in {"gold_sql_execution_error", "expected_result_invalid"}
            /\ e.stage \in {"gold", "expected"}
         \/ OfError(e) = "unsafe_sql_rejected" /\ e.cause \in Unanswerable
         \/ OfError(e) \in {"empty_predicted_sql", "fixture_not_found", "rejected_by_orchestrator",
                            "sql_execution_error"}
BY DEF OfError, Unanswerable

LEMMA Severities ==
  /\ \A c \in {"gold_sql_execution_error", "expected_result_invalid", "unsafe_sql_rejected",
               "empty_predicted_sql", "fixture_not_found", "rejected_by_orchestrator"} :
       Severity[c] \notin 1..2
  /\ Severity["passed"] \notin 1..2
BY DEF Severity

\* A mismatch is what it is called.
LEMMA Mismatches ==
  ASSUME NEW r
  PROVE  /\ OfMismatch(r) \in {"row_count_mismatch", "column_shape_mismatch", "order_mismatch",
                               "numeric_tolerance_mismatch", "value_mismatch"}
         /\ OfMismatch(r) = "order_mismatch" => SameBag(r.act, r.exp) /\ r.case.policy = "exact_ordered"
         /\ OfMismatch(r) \in {"value_mismatch", "numeric_tolerance_mismatch"} =>
              Len(r.act) = Len(r.exp) /\ \A i \in DOMAIN r.act : r.act[i].cols = r.exp[i].cols
<1> DEFINE length == Len(r.act) = Len(r.exp)
           shape == \E i \in DOMAIN r.act : r.act[i].cols # r.exp[i].cols
           kind == IF r.case.policy = "exact_ordered" /\ SameBag(r.act, r.exp) THEN "order_mismatch"
                   ELSE IF r.case.policy = "numeric_tolerance" THEN "numeric_tolerance_mismatch"
                   ELSE "value_mismatch"
<1>1. /\ ~length => OfMismatch(r) = "row_count_mismatch"
      /\ length /\ shape => OfMismatch(r) = "column_shape_mismatch"
      /\ length /\ ~shape => OfMismatch(r) = kind
  BY DEF OfMismatch
<1> QED
  BY <1>1

\* The category of a case that was just judged is true of it.
Told(r) ==
  LET category == CategoryOf(r)
      ran == PredictedError(r.case, r.direct, r.fate) = NoError
      answered == ran /\ GoldError(r.case, r.gold) = NoError
  IN  /\ category \in {"gold_sql_execution_error", "expected_result_invalid"} => ran
      /\ category = "unsafe_sql_rejected" => "run" # r.fate \/ "run" # r.gold
      /\ Severity[category] \in 1..2 /\ category # "sql_execution_error" => answered
      /\ category = "order_mismatch" => SameBag(r.act, r.exp) /\ r.act # r.exp
      /\ category \in {"value_mismatch", "numeric_tolerance_mismatch"} =>
           Len(r.act) = Len(r.exp) /\ \A i \in DOMAIN r.act : r.act[i].cols = r.exp[i].cols

LEMMA JudgedIsTold ==
  ASSUME NEW case \in Case, NEW direct \in BOOLEAN, NEW fate \in Fates \cup {"missing"},
         NEW goldFate \in Fates, NEW act, NEW exp
  PROVE  Told(Judged(case, direct, fate, goldFate, act, exp))
<1> DEFINE r == Judged(case, direct, fate, goldFate, act, exp)
           p == PredictedError(case, direct, fate)
           g == GoldError(case, goldFate)
           e == ErrorOf(p, g)
<1>1. /\ r.case = case /\ r.direct = direct /\ r.fate = fate /\ r.gold = goldFate /\ r.error = e
      /\ r.passed <=> e = NoError /\ Compare(act, exp, case)
      /\ p = NoError => r.act = act
      /\ g = NoError => r.exp = exp
  BY DEF Judged
<1>2. /\ e.cause \in Unanswerable => fate # "run" \/ goldFate # "run"
      /\ e.stage \in {"gold", "expected"} => p = NoError
      /\ e # NoError => e.stage \in {"empty", "rejected", "run", "gold", "expected"}
  BY ErrorsTold
<1>3. e = NoError => p = NoError /\ g = NoError
  BY DEF ErrorOf
<1>4. act = exp /\ case.policy = "exact_ordered" => Compare(act, exp, case)
  BY DEF Compare, Pairwise, Equal
<1> SUFFICES Told(r)
  OBVIOUS
<1> HIDE DEF r, e
<1>5. CASE r.passed
  <2>1. CategoryOf(r) = "passed"
    BY <1>5 DEF CategoryOf
  <2> QED
    BY <2>1, Severities DEF Told
<1>6. CASE ~r.passed /\ e # NoError
  <2>1. CategoryOf(r) = OfError(e)
    BY <1>1, <1>6 DEF CategoryOf
  <2>2. \/ OfError(e) \in {"gold_sql_execution_error", "expected_result_invalid"} /\ p = NoError
        \/ OfError(e) = "unsafe_sql_rejected" /\ (fate # "run" \/ goldFate # "run")
        \/ OfError(e) \in {"empty_predicted_sql", "fixture_not_found", "rejected_by_orchestrator",
                           "sql_execution_error"}
    BY <1>2, <1>6, ErrorCategories
  <2> QED
    BY <1>1, <2>1, <2>2, Severities DEF Told
<1>7. CASE ~r.passed /\ e = NoError
  <2>1. CategoryOf(r) = OfMismatch(r)
    BY <1>1, <1>7 DEF CategoryOf
  <2>2. p = NoError /\ g = NoError /\ r.act = act /\ r.exp = exp
    BY <1>1, <1>3, <1>7
  <2>3. case.policy = "exact_ordered" => r.act # r.exp
    BY <1>1, <1>4, <1>7, <2>2
  <2> QED
    BY <1>1, <2>1, <2>2, <2>3, Mismatches DEF Told
<1> QED
  BY <1>5, <1>6, <1>7

-----------------------------------------------------------------------------
(* The comparator.  Greedy matching, row by row.                            *)

Fitting(act, exp, tolerance, left, k) == {i \in left : i > 0 /\ Close(act[i], exp[k], tolerance)}

TakeRow(act, exp, tolerance, left, k) ==
  LET fits == Fitting(act, exp, tolerance, left, k)
  IN  IF fits = {} THEN left \cup {0} ELSE left \ {CHOOSE i \in fits : \A j \in fits : i <= j}

\* left[k] is what is left when the first k expected rows have taken theirs, with 0 if
\* one of them found none.
GreedyRun(left, act, exp, tolerance) ==
  /\ left[0] = 1..Len(act)
  /\ \A k \in 1..Len(exp) : left[k] = TakeRow(act, exp, tolerance, left[k - 1], k)
  /\ \A k \in 0..Len(exp) : left[k] \in SUBSET Nat
  /\ Greedy(act, exp, tolerance) <=> 0 \notin left[Len(exp)]

LEMMA GreedyTakes ==
  ASSUME NEW S, NEW act \in Seq(S), NEW exp \in Seq(S), NEW tolerance
  PROVE  \E left : GreedyRun(left, act, exp, tolerance)
<1> DEFINE D == DOMAIN exp
           n == Len(exp)
           V == SUBSET (0..Len(act))
           ch == [s \in SUBSET D |-> Max(s)]
           base == DOMAIN act
           G == [p \in D \X V |-> TakeRow(act, exp, tolerance, p[2], p[1])]
           Folds(it) == it = [s \in SUBSET D |-> IF s = {} THEN base
                                ELSE TakeRow(act, exp, tolerance, it[s \ {Max(s)}], Max(s))]
<1>0. D = 1..n /\ n \in Nat /\ IsFiniteSet(D) /\ base = 1..Len(act) /\ base \in V
  BY FS_Interval
<1>1. \A s \in SUBSET D : s # {} => ch[s] \in s
  BY <1>0, GreatestIsIn
<1>t. ASSUME NEW some \in V, NEW k PROVE TakeRow(act, exp, tolerance, some, k) \in V
  <2>1. 0 \in 0..Len(act)
    OBVIOUS
  <2>2. \A x : some \ {x} \in V /\ some \cup {0} \in V
    BY <2>1
  <2> HIDE DEF V
  <2> QED
    BY <2>2 DEF TakeRow
<1>2. G \in [D \X V -> V]
  <2> HIDE DEF D, V
  <2> QED
    BY <1>t
<1>3. PICK it \in [SUBSET D -> V] : Recursive(D, ch, base, G, it)
  <2> HIDE DEF ch, G, V, base
  <2> QED
    BY <1>0, <1>1, <1>2, Recursion
<1>4. Folds(it)
  <2>1. ASSUME NEW s \in SUBSET D, s # {}
        PROVE  G[<<ch[s], it[s \ {ch[s]}]>>] = TakeRow(act, exp, tolerance, it[s \ {Max(s)}], Max(s))
    <3>1. ch[s] \in D /\ it[s \ {ch[s]}] \in V /\ ch[s] = Max(s)
      BY <1>1, <2>1
    <3> HIDE DEF ch, D, V
    <3> QED
      BY <3>1
  <2> HIDE DEF ch, G, D, base
  <2>2. it = [s \in SUBSET D |-> IF s = {} THEN base ELSE G[<<ch[s], it[s \ {ch[s]}]>>]]
    BY <1>3 DEF Recursive
  <2> QED
    BY <2>1, <2>2
<1> DEFINE fold == CHOOSE f : Folds(f)
<1>5. Folds(fold)
  <2> HIDE DEF Folds
  <2> QED
    BY <1>4
<1>6. Greedy(act, exp, tolerance) <=> 0 \notin fold[D]
  BY DEF Greedy, FoldLeft, MapThenFoldSet, TakeRow, Fitting
<1> HIDE DEF fold
<1> DEFINE left == [k \in 0..n |-> fold[1..k]]
<1>7. left[0] = base
  <2>1. fold[{}] = base
    BY <1>5
  <2>2. 1..0 = {} /\ 0 \in 0..n
    BY <1>0
  <2> HIDE DEF base, D
  <2> QED
    BY <2>1, <2>2
<1>8. ASSUME NEW k \in 1..n PROVE left[k] = TakeRow(act, exp, tolerance, left[k - 1], k)
  <2>1. k \in Nat /\ k # 0 /\ 1..k \in SUBSET D /\ k \in 0..n /\ k - 1 \in 0..n
    BY <1>0
  <2>2. Max(1..k) = k /\ (1..k) \ {k} = 1..(k - 1) /\ 1..k # {}
    BY <2>1, GreatestOfPrefix
  <2>3. fold[1..k] = TakeRow(act, exp, tolerance, fold[(1..k) \ {Max(1..k)}], Max(1..k))
    <3> HIDE DEF D, base
    <3> QED
      BY <1>5, <2>1, <2>2
  <2>4. fold[1..k] = TakeRow(act, exp, tolerance, fold[1..(k - 1)], k)
    BY <2>2, <2>3
  <2> QED
    BY <2>1, <2>4
<1>9. left[n] = fold[D]
  BY <1>0
<1> HIDE DEF left
<1>10. ASSUME NEW k \in 0..n PROVE left[k] \in SUBSET Nat
  <2> DEFINE T == {i \in Nat : i <= n => left[i] \in V}
  <2>1. 0 \in T
    BY <1>0, <1>7
  <2>2. ASSUME NEW i \in Nat, i \in T PROVE i + 1 \in T
    <3> SUFFICES ASSUME i + 1 <= n PROVE left[i + 1] \in V
      OBVIOUS
    <3>1. i + 1 \in 1..n /\ (i + 1) - 1 = i /\ i <= n
      BY <1>0
    <3>2. left[i + 1] = TakeRow(act, exp, tolerance, left[i], i + 1)
      BY <1>8, <3>1
    <3>3. left[i] \in V
      BY <2>2, <3>1
    <3> HIDE DEF V
    <3> QED
      BY <1>t, <3>2, <3>3
  <2>3. k \in Nat /\ k <= n
    BY <1>0
  <2>4. k \in T
    <3> HIDE DEF T
    <3> QED
      BY <2>1, <2>2, <2>3, InductionOnNat
  <2>5. left[k] \in V
    BY <2>3, <2>4
  <2> QED
    BY <2>5
<1>11. GreedyRun(left, act, exp, tolerance)
  BY <1>0, <1>6, <1>7, <1>8, <1>9, <1>10 DEF GreedyRun
<1> QED
  BY <1>11


\* A row that finds a match takes the first, one that does not leaves a 0.
LEMMA TakeRowTakes ==
  ASSUME NEW was \in SUBSET Nat, NEW k, NEW act, NEW exp, NEW tolerance
  PROVE  LET now == TakeRow(act, exp, tolerance, was, k)
         IN  /\ now \ {0} \subseteq was
             /\ 0 \in was => 0 \in now
             /\ 0 \notin now =>
                  \E i \in was : i > 0 /\ Close(act[i], exp[k], tolerance) /\ now = was \ {i}
<1> DEFINE fits == Fitting(act, exp, tolerance, was, k)
           first == CHOOSE x \in fits : \A y \in fits : x <= y
           now == TakeRow(act, exp, tolerance, was, k)
<1>1. fits \in SUBSET Nat
  BY DEF Fitting
<1>2. fits # {} => first \in fits
  <2> HIDE DEF fits
  <2> QED
    BY <1>1, Least
<1>3. first \in fits => first \in was /\ first > 0 /\ first # 0 /\ Close(act[first], exp[k], tolerance)
  <2> HIDE DEF first
  <2> QED
    BY DEF Fitting
<1>4. now = IF fits = {} THEN was \cup {0} ELSE was \ {first}
  BY DEF TakeRow
<1> HIDE DEF now, fits, first
<1> QED
  BY <1>2, <1>3, <1>4 DEF now

\* Once a row found none, that stays; what is left only grows less.
LEMMA LeftShrinks ==
  ASSUME NEW act, NEW exp, Len(exp) \in Nat, NEW tolerance,
         NEW left, GreedyRun(left, act, exp, tolerance)
  PROVE  \A j \in 0..Len(exp) : \A i \in 0..j :
           left[j] \ {0} \subseteq left[i] /\ (0 \in left[i] => 0 \in left[j])
<1> DEFINE n == Len(exp)
           T == {d \in Nat : \A i \in 0..n : i + d <= n =>
                   left[i + d] \ {0} \subseteq left[i] /\ (0 \in left[i] => 0 \in left[i + d])}
<1>1. 0 \in T
  OBVIOUS
<1>2. ASSUME NEW d \in Nat, d \in T PROVE d + 1 \in T
  <2> SUFFICES ASSUME NEW i \in 0..n, i + (d + 1) <= n
               PROVE  left[i + (d + 1)] \ {0} \subseteq left[i] /\ (0 \in left[i] => 0 \in left[i + (d + 1)])
    OBVIOUS
  <2> DEFINE k == i + (d + 1)
             was == left[i + d]
             now == left[k]
  <2>1. k \in 1..n /\ k - 1 = i + d /\ i + d \in 0..n /\ i + d <= n
    OBVIOUS
  <2>2. now = TakeRow(act, exp, tolerance, was, k) /\ was \in SUBSET Nat
    BY <2>1 DEF GreedyRun
  <2>3. was \ {0} \subseteq left[i] /\ (0 \in left[i] => 0 \in was)
    BY <1>2, <2>1
  <2> HIDE DEF was, now, k
  <2>4. now \ {0} \subseteq was /\ (0 \in was => 0 \in now)
    BY <2>2, TakeRowTakes
  <2>5. now \ {0} \subseteq left[i] /\ (0 \in left[i] => 0 \in now)
    BY <2>3, <2>4
  <2> QED
    BY <2>5 DEF now, k
<1>3. \A d \in Nat : d \in T
  <2> HIDE DEF T
  <2> QED
    BY <1>1, <1>2, InductionOnNat
<1>4. ASSUME NEW j \in 0..n, NEW i \in 0..j
      PROVE  left[j] \ {0} \subseteq left[i] /\ (0 \in left[i] => 0 \in left[j])
  <2>1. j - i \in Nat /\ i + (j - i) = j /\ i \in 0..n /\ j <= n
    OBVIOUS
  <2>2. j - i \in T
    BY <1>3, <2>1
  <2> QED
    BY <2>1, <2>2
<1> QED
  BY <1>4

\* A one-to-one assignment of the rows of exp to those of act, by what fits[<<i, k>>] says of
\* row i of act and row k of exp.
Assigned(act, exp, fits, increasing) ==
  \E f \in [DOMAIN exp -> DOMAIN act] :
    /\ \A i, j \in DOMAIN exp : i < j => f[i] # f[j] /\ (increasing => f[i] < f[j])
    /\ \A i \in DOMAIN exp : <<f[i], i>> \in fits

CloseRows(act, exp, tolerance) ==
  {p \in (DOMAIN act) \X (DOMAIN exp) : Close(act[p[1]], exp[p[2]], tolerance)}

\* What greedy matching finds is an assignment.
LEMMA GreedyAssigns ==
  ASSUME NEW S, NEW act \in Seq(S), NEW exp \in Seq(S), NEW tolerance, Greedy(act, exp, tolerance)
  PROVE  Assigned(act, exp, CloseRows(act, exp, tolerance), FALSE)
<1> DEFINE n == Len(exp)
           m == Len(act)
<1>0. n \in Nat /\ m \in Nat /\ DOMAIN exp = 1..n /\ DOMAIN act = 1..m
  OBVIOUS
<1>1. PICK left : GreedyRun(left, act, exp, tolerance)
  BY GreedyTakes
<1>2. \A j \in 0..n : \A i \in 0..j :
        left[j] \ {0} \subseteq left[i] /\ (0 \in left[i] => 0 \in left[j])
  BY <1>0, <1>1, LeftShrinks
<1>3. left[0] = 1..m /\ 0 \notin left[n]
  BY <1>1 DEF GreedyRun
<1>4. \A k \in 0..n : 0 \notin left[k] /\ left[k] \subseteq 1..m
  BY <1>0, <1>2, <1>3
<1> DEFINE Taken(k, i) == /\ i \in left[k - 1] /\ i > 0 /\ Close(act[i], exp[k], tolerance)
                          /\ left[k] = left[k - 1] \ {i}
<1>5. \A k \in 1..n : \E i \in 1..m : Taken(k, i)
  <2> SUFFICES ASSUME NEW k \in 1..n PROVE \E i \in 1..m : Taken(k, i)
    OBVIOUS
  <2>1. left[k] = TakeRow(act, exp, tolerance, left[k - 1], k)
    BY <1>1 DEF GreedyRun
  <2>2. left[k - 1] \in SUBSET Nat /\ left[k - 1] \subseteq 1..m /\ 0 \notin left[k]
    BY <1>0, <1>4
  <2> DEFINE was == left[k - 1]
             now == TakeRow(act, exp, tolerance, was, k)
  <2>3. was \in SUBSET Nat /\ 0 \notin now
    BY <2>1, <2>2
  <2>4. PICK i \in was : i > 0 /\ Close(act[i], exp[k], tolerance) /\ now = was \ {i}
    <3> HIDE DEF was
    <3> QED
      BY <2>3, TakeRowTakes
  <2>5. i \in 1..m /\ Taken(k, i)
    BY <2>1, <2>2, <2>4
  <2> QED
    BY <2>5
<1> DEFINE f == [k \in 1..n |-> CHOOSE i \in 1..m : Taken(k, i)]
<1>6. \A k \in 1..n : f[k] \in 1..m /\ Taken(k, f[k])
  <2> HIDE DEF Taken
  <2> QED
    BY <1>5
<1>7. f \in [DOMAIN exp -> DOMAIN act]
  <2> HIDE DEF Taken
  <2> QED
    BY <1>0, <1>6
<1> HIDE DEF f
<1>8. ASSUME NEW i \in DOMAIN exp, NEW j \in DOMAIN exp, i < j PROVE f[i] # f[j]
  <2>1. i \in 1..n /\ j \in 1..n /\ j - 1 \in 0..n /\ i \in 0..(j - 1)
    BY <1>0, <1>8
  <2>0. Taken(i, f[i]) /\ Taken(j, f[j])
    <3> HIDE DEF Taken
    <3> QED
      BY <1>6, <2>1
  <2>2. f[i] \notin left[i] /\ f[j] \in left[j - 1] /\ f[j] # 0
    BY <2>0
  <2>3. left[j - 1] \ {0} \subseteq left[i]
    BY <1>2, <2>1
  <2> QED
    BY <2>2, <2>3
<1>9. ASSUME NEW i \in DOMAIN exp PROVE <<f[i], i>> \in CloseRows(act, exp, tolerance)
  BY <1>0, <1>6 DEF CloseRows
<1> QED
  BY <1>7, <1>8, <1>9 DEF Assigned

-----------------------------------------------------------------------------
(* Subsequences, row by row.                                                *)

Behind(act, exp, tolerance, at, k) == {i \in DOMAIN act : i > at /\ Close(act[i], exp[k], tolerance)}

NextRow(act, exp, tolerance, at, k) ==
  LET fits == Behind(act, exp, tolerance, at, k)
  IN  IF fits = {} THEN Len(act) + 1 ELSE CHOOSE i \in fits : \A j \in fits : i <= j

\* at[k] is the row the k-th expected row has taken, or one behind the last.
SubsequenceRun(at, act, exp, tolerance) ==
  /\ at[0] = 0
  /\ \A k \in 1..Len(exp) : at[k] = NextRow(act, exp, tolerance, at[k - 1], k)
  /\ \A k \in 0..Len(exp) : at[k] \in 0..Len(act) + 1
  /\ Subsequence(act, exp, tolerance) <=> at[Len(exp)] <= Len(act)

\* The next row is the first that matches, if one does.
LEMMA NextRowIsNext ==
  ASSUME NEW S, NEW act \in Seq(S), NEW exp, NEW tolerance, NEW was \in Int, NEW k
  PROVE  LET next == NextRow(act, exp, tolerance, was, k)
         IN  /\ next \in 1..Len(act) + 1
             /\ next <= Len(act) => next > was /\ Close(act[next], exp[k], tolerance)
             /\ \A i \in DOMAIN act : i > was /\ Close(act[i], exp[k], tolerance) => next <= i
<1> DEFINE fits == Behind(act, exp, tolerance, was, k)
           first == CHOOSE x \in fits : \A y \in fits : x <= y
           next == NextRow(act, exp, tolerance, was, k)
           m == Len(act)
<1>1. fits \in SUBSET Nat /\ DOMAIN act = 1..m /\ m \in Nat
  BY DEF Behind
<1>2. fits # {} => first \in fits /\ \A y \in fits : first <= y
  <2> HIDE DEF fits
  <2> QED
    BY <1>1, Least
<1>3. \A i : i \in fits <=> i \in 1..m /\ i > was /\ Close(act[i], exp[k], tolerance)
  BY <1>1 DEF Behind
<1>4. next = IF fits = {} THEN m + 1 ELSE first
  BY DEF NextRow
<1> HIDE DEF next, fits, first
<1>5. CASE fits = {}
  BY <1>1, <1>3, <1>4, <1>5 DEF next
<1>6. CASE fits # {}
  <2>1. next \in fits /\ \A y \in fits : next <= y
    BY <1>2, <1>4, <1>6
  <2>2. next \in 1..m + 1 /\ next > was /\ Close(act[next], exp[k], tolerance)
    BY <1>1, <1>3, <2>1
  <2>3. \A i \in 1..m : i > was /\ Close(act[i], exp[k], tolerance) => next <= i
    BY <1>3, <2>1
  <2> QED
    BY <1>1, <2>2, <2>3 DEF next
<1> QED
  BY <1>5, <1>6

LEMMA SubsequenceTakes ==
  ASSUME NEW S, NEW act \in Seq(S), NEW exp \in Seq(S), NEW tolerance
  PROVE  \E at : SubsequenceRun(at, act, exp, tolerance)
<1> DEFINE D == DOMAIN exp
           n == Len(exp)
           V == 0..Len(act) + 1
           ch == [s \in SUBSET D |-> Max(s)]
           G == [p \in D \X V |-> NextRow(act, exp, tolerance, p[2], p[1])]
           Folds(it) == it = [s \in SUBSET D |-> IF s = {} THEN 0
                                ELSE NextRow(act, exp, tolerance, it[s \ {Max(s)}], Max(s))]
<1>0. D = 1..n /\ n \in Nat /\ IsFiniteSet(D) /\ 0 \in V
  BY FS_Interval
<1>1. \A s \in SUBSET D : s # {} => ch[s] \in s
  BY <1>0, GreatestIsIn
<1>t. ASSUME NEW was \in V, NEW k PROVE NextRow(act, exp, tolerance, was, k) \in V
  <2>1. was \in Int
    OBVIOUS
  <2>2. NextRow(act, exp, tolerance, was, k) \in 1..Len(act) + 1
    BY <2>1, NextRowIsNext
  <2> QED
    BY <2>2
<1>2. G \in [D \X V -> V]
  <2> HIDE DEF D, V
  <2> QED
    BY <1>t
<1>3. PICK it \in [SUBSET D -> V] : Recursive(D, ch, 0, G, it)
  <2> HIDE DEF ch, G, V
  <2> QED
    BY <1>0, <1>1, <1>2, Recursion
<1>4. Folds(it)
  <2>1. ASSUME NEW s \in SUBSET D, s # {}
        PROVE  G[<<ch[s], it[s \ {ch[s]}]>>] = NextRow(act, exp, tolerance, it[s \ {Max(s)}], Max(s))
    <3>1. ch[s] \in D /\ it[s \ {ch[s]}] \in V /\ ch[s] = Max(s)
      BY <1>1, <2>1
    <3> HIDE DEF ch, D, V
    <3> QED
      BY <3>1
  <2> HIDE DEF ch, G, D
  <2>2. it = [s \in SUBSET D |-> IF s = {} THEN 0 ELSE G[<<ch[s], it[s \ {ch[s]}]>>]]
    BY <1>3 DEF Recursive
  <2> QED
    BY <2>1, <2>2
<1> DEFINE fold == CHOOSE f : Folds(f)
<1>5. Folds(fold)
  <2> HIDE DEF Folds
  <2> QED
    BY <1>4
<1>6. Subsequence(act, exp, tolerance) <=> fold[D] <= Len(act)
  BY DEF Subsequence, FoldLeft, MapThenFoldSet, NextRow, Behind
<1> HIDE DEF fold
<1> DEFINE at == [k \in 0..n |-> fold[1..k]]
<1>7. at[0] = 0
  <2>1. fold[{}] = 0
    BY <1>5
  <2>2. 1..0 = {} /\ 0 \in 0..n
    BY <1>0
  <2> HIDE DEF D
  <2> QED
    BY <2>1, <2>2
<1>8. ASSUME NEW k \in 1..n PROVE at[k] = NextRow(act, exp, tolerance, at[k - 1], k)
  <2>1. k \in Nat /\ k # 0 /\ 1..k \in SUBSET D /\ k \in 0..n /\ k - 1 \in 0..n
    BY <1>0
  <2>2. Max(1..k) = k /\ (1..k) \ {k} = 1..(k - 1) /\ 1..k # {}
    BY <2>1, GreatestOfPrefix
  <2>3. fold[1..k] = NextRow(act, exp, tolerance, fold[(1..k) \ {Max(1..k)}], Max(1..k))
    <3> HIDE DEF D
    <3> QED
      BY <1>5, <2>1, <2>2
  <2>4. fold[1..k] = NextRow(act, exp, tolerance, fold[1..(k - 1)], k)
    BY <2>2, <2>3
  <2> QED
    BY <2>1, <2>4
<1>9. at[n] = fold[D]
  BY <1>0
<1> HIDE DEF at
<1>10. ASSUME NEW k \in 0..n PROVE at[k] \in V
  <2> DEFINE T == {i \in Nat : i <= n => at[i] \in V}
  <2>1. 0 \in T
    BY <1>0, <1>7
  <2>2. ASSUME NEW i \in Nat, i \in T PROVE i + 1 \in T
    <3> SUFFICES ASSUME i + 1 <= n PROVE at[i + 1] \in V
      OBVIOUS
    <3>1. i + 1 \in 1..n /\ (i + 1) - 1 = i /\ i <= n
      BY <1>0
    <3>2. at[i + 1] = NextRow(act, exp, tolerance, at[i], i + 1)
      BY <1>8, <3>1
    <3>3. at[i] \in V
      BY <2>2, <3>1
    <3> HIDE DEF V
    <3> QED
      BY <1>t, <3>2, <3>3
  <2>3. k \in Nat /\ k <= n
    BY <1>0
  <2>4. k \in T
    <3> HIDE DEF T
    <3> QED
      BY <2>1, <2>2, <2>3, InductionOnNat
  <2> QED
    BY <2>3, <2>4
<1>11. SubsequenceRun(at, act, exp, tolerance)
  BY <1>6, <1>7, <1>8, <1>9, <1>10 DEF SubsequenceRun
<1> QED
  BY <1>11

\* A subsequence is found exactly if there is one: the first match is never too late.
LEMMA SubsequenceAssigns ==
  ASSUME NEW S, NEW act \in Seq(S), NEW exp \in Seq(S), NEW tolerance
  PROVE  Subsequence(act, exp, tolerance) <=> Assigned(act, exp, CloseRows(act, exp, tolerance), TRUE)
<1> DEFINE n == Len(exp)
           m == Len(act)
           Fits(i, k) == Close(act[i], exp[k], tolerance)
<1>0. n \in Nat /\ m \in Nat /\ DOMAIN exp = 1..n /\ DOMAIN act = 1..m
  OBVIOUS
<1>1. PICK at : SubsequenceRun(at, act, exp, tolerance)
  BY SubsequenceTakes
<1>2. at[0] = 0 /\ (Subsequence(act, exp, tolerance) <=> at[n] <= m) /\ \A k \in 0..n : at[k] \in 0..m + 1
  BY <1>1 DEF SubsequenceRun
<1>3. ASSUME NEW k \in 1..n
      PROVE  /\ at[k] <= m => at[k] > at[k - 1] /\ at[k] >= 1 /\ Fits(at[k], k)
             /\ \A i \in 1..m : i > at[k - 1] /\ Fits(i, k) => at[k] <= i
  <2>1. at[k] = NextRow(act, exp, tolerance, at[k - 1], k)
    BY <1>1 DEF SubsequenceRun
  <2>2. at[k - 1] \in Int
    BY <1>0, <1>2
  <2> QED
    BY <1>0, <2>1, <2>2, NextRowIsNext
<1>4. ASSUME at[n] <= m PROVE Assigned(act, exp, CloseRows(act, exp, tolerance), TRUE)
  <2> DEFINE T == {d \in Nat : \A i \in 0..n : i + d <= n /\ at[i + d] <= m => at[i] + d <= at[i + d]}
  <2>1. 0 \in T
    BY <1>2
  <2>2. ASSUME NEW d \in Nat, d \in T PROVE d + 1 \in T
    <3> SUFFICES ASSUME NEW i \in 0..n, i + (d + 1) <= n, at[i + (d + 1)] <= m
                 PROVE  at[i] + (d + 1) <= at[i + (d + 1)]
      OBVIOUS
    <3> DEFINE k == i + (d + 1)
    <3>1. k \in 1..n /\ k - 1 = i + d /\ i + d \in 0..n
      OBVIOUS
    <3>2. at[k] > at[k - 1]
      BY <1>3, <3>1
    <3>3. at[k] \in Int /\ at[i + d] \in Int /\ at[i] \in Int
      BY <1>2, <3>1
    <3>4. at[i + d] + 1 <= at[k]
      BY <3>1, <3>2, <3>3
    <3> DEFINE a == at[i]
               b == at[i + d]
               c == at[k]
    <3>5. a \in Int /\ b \in Int /\ c \in Int /\ b + 1 <= c /\ c <= m /\ at[i + (d + 1)] = c
      BY <3>3, <3>4
    <3>6. b <= m
      <4> HIDE DEF b, c
      <4> QED
        BY <1>0, <3>5
    <3>7. a + d <= b
      BY <2>2, <3>1, <3>6
    <3>8. a + (d + 1) <= c
      <4> HIDE DEF a, b, c
      <4> QED
        BY <3>5, <3>7
    <3> QED
      BY <3>5, <3>8
  <2>3. \A d \in Nat : d \in T
    <3> HIDE DEF T
    <3> QED
      BY <2>1, <2>2, InductionOnNat
  <2>4. ASSUME NEW j \in 0..n, at[j] <= m, NEW i \in 0..j PROVE at[i] + (j - i) <= at[j]
    <3>1. j - i \in Nat /\ i + (j - i) = j /\ i \in 0..n /\ j <= n
      BY <1>0
    <3>2. j - i \in T
      BY <2>3, <3>1
    <3> QED
      BY <2>4, <3>1, <3>2
  <2>5. \A k \in 0..n : at[k] <= m
    <3> SUFFICES ASSUME NEW k \in 0..n PROVE at[k] <= m
      OBVIOUS
    <3>1. n \in 0..n /\ k \in 0..n /\ at[k] \in Int /\ at[n] \in Int
      BY <1>0, <1>2
    <3>2. at[k] + (n - k) <= at[n]
      BY <1>4, <2>4, <3>1
    <3> QED
      BY <1>0, <1>4, <3>1, <3>2
  <2> DEFINE f == [k \in 1..n |-> at[k]]
  <2>6. \A k \in 1..n : at[k] \in 1..m /\ Fits(at[k], k)
    BY <1>0, <1>2, <1>3, <2>5
  <2>7. f \in [DOMAIN exp -> DOMAIN act]
    BY <1>0, <2>6
  <2>8. ASSUME NEW i \in DOMAIN exp, NEW j \in DOMAIN exp, i < j PROVE f[i] # f[j] /\ f[i] < f[j]
    <3>1. i \in 1..n /\ j \in 1..n /\ j \in 0..n /\ i \in 0..j
      BY <1>0, <2>8
    <3>2. at[i] + (j - i) <= at[j] /\ at[i] \in Int /\ at[j] \in Int
      BY <1>0, <2>4, <2>5, <2>6, <3>1
    <3> QED
      BY <2>8, <3>1, <3>2
  <2>9. ASSUME NEW i \in DOMAIN exp PROVE <<f[i], i>> \in CloseRows(act, exp, tolerance)
    BY <1>0, <2>6 DEF CloseRows
  <2> QED
    BY <2>7, <2>8, <2>9 DEF Assigned
<1>5. ASSUME Assigned(act, exp, CloseRows(act, exp, tolerance), TRUE) PROVE at[n] <= m
  <2>1. PICK f \in [DOMAIN exp -> DOMAIN act] :
          /\ \A i, j \in DOMAIN exp : i < j => f[i] < f[j]
          /\ \A i \in DOMAIN exp : <<f[i], i>> \in CloseRows(act, exp, tolerance)
    BY <1>5 DEF Assigned
  <2>2. \A i \in 1..n : f[i] \in 1..m /\ Fits(f[i], i)
    BY <1>0, <2>1 DEF CloseRows
  <2> DEFINE T == {k \in Nat : k \in 1..n => at[k] <= f[k]}
  <2>3. 0 \in T
    OBVIOUS
  <2>4. ASSUME NEW k \in Nat, k \in T PROVE k + 1 \in T
    <3> SUFFICES ASSUME k + 1 \in 1..n PROVE at[k + 1] <= f[k + 1]
      OBVIOUS
    <3>1. (k + 1) - 1 = k /\ k \in 0..n
      BY <1>0
    <3>2. f[k + 1] > at[k]
      <4>1. CASE k = 0
        BY <1>2, <2>2, <4>1
      <4>2. CASE k # 0
        <5>1. k \in 1..n
          BY <3>1, <4>2
        <5>2. at[k] <= f[k]
          BY <2>4, <5>1
        <5>3. f[k] < f[k + 1]
          BY <1>0, <2>1, <5>1
        <5> QED
          BY <1>2, <2>2, <3>1, <5>1, <5>2, <5>3
      <4> QED
        BY <4>1, <4>2
    <3>3. f[k + 1] > at[(k + 1) - 1] /\ f[k + 1] \in 1..m /\ Fits(f[k + 1], k + 1)
      BY <2>2, <3>1, <3>2
    <3> HIDE DEF Fits
    <3> QED
      BY <1>3, <3>3
  <2>5. \A k \in Nat : k \in T
    <3> HIDE DEF T
    <3> QED
      BY <2>3, <2>4, InductionOnNat
  <2>6. CASE n = 0
    BY <1>0, <1>2, <2>6
  <2>7. CASE n # 0
    <3>1. n \in 1..n
      BY <1>0, <2>7
    <3>2. at[n] <= f[n] /\ f[n] \in 1..m
      BY <1>0, <2>2, <2>5, <3>1
    <3>3. at[n] \in 0..m + 1
      BY <1>0, <1>2
    <3> QED
      BY <1>0, <3>2, <3>3
  <2> QED
    BY <2>6, <2>7
<1> QED
  BY <1>2, <1>4, <1>5

-----------------------------------------------------------------------------
(* Answers of one length.                                                   *)

LEMMA IncreasingIsIdentity ==
  ASSUME NEW n \in Nat, NEW f \in [1..n -> 1..n], \A i, j \in 1..n : i < j => f[i] < f[j]
  PROVE  \A i \in 1..n : f[i] = i
<1>0. \A i \in 1..n : f[i] \in 1..n
  OBVIOUS
<1> DEFINE T == {k \in Nat : k \in 1..n => f[k] >= k}
           U == {d \in Nat : d < n => f[n - d] <= n - d}
<1>1. \A k \in Nat : k \in T
  <2>1. 0 \in T
    OBVIOUS
  <2>2. ASSUME NEW k \in Nat, k \in T PROVE k + 1 \in T
    <3> SUFFICES ASSUME k + 1 \in 1..n PROVE f[k + 1] >= k + 1
      OBVIOUS
    <3>1. CASE k = 0
      BY <1>0, <3>1
    <3>2. CASE k # 0
      <4>0. k \in 1..n /\ k < k + 1
        BY <3>2
      <4>1. k \in 1..n /\ f[k] < f[k + 1] /\ f[k] \in Nat /\ f[k + 1] \in Nat
        BY <1>0, <4>0
      <4>2. f[k] >= k
        BY <2>2, <4>1
      <4> QED
        BY <4>1, <4>2
    <3> QED
      BY <3>1, <3>2
  <2> HIDE DEF T
  <2> QED
    BY <2>1, <2>2, InductionOnNat
<1>2. \A d \in Nat : d \in U
  <2>1. 0 \in U
    <3> SUFFICES ASSUME 0 < n PROVE f[n] <= n
      OBVIOUS
    <3>1. n \in 1..n
      OBVIOUS
    <3>2. f[n] \in 1..n
      BY <1>0, <3>1
    <3> QED
      BY <3>2
  <2>2. ASSUME NEW d \in Nat, d \in U PROVE d + 1 \in U
    <3> SUFFICES ASSUME d + 1 < n PROVE f[n - (d + 1)] <= n - (d + 1)
      OBVIOUS
    <3> DEFINE i == n - (d + 1)
               j == n - d
    <3>1. i \in 1..n /\ j \in 1..n /\ i < j /\ d < n /\ i = j - 1
      OBVIOUS
    <3>2. f[i] < f[j] /\ f[i] \in Nat /\ f[j] \in Nat
      BY <1>0, <3>1
    <3>3. f[j] <= j
      BY <2>2, <3>1
    <3> QED
      BY <3>1, <3>2, <3>3
  <2> HIDE DEF U
  <2> QED
    BY <2>1, <2>2, InductionOnNat
<1>3. ASSUME NEW i \in 1..n PROVE f[i] = i
  <2>1. i \in T /\ n - i \in U /\ n - i < n /\ n - (n - i) = i
    BY <1>1, <1>2
  <2>2. f[i] >= i /\ f[i] <= i /\ f[i] \in Nat
    BY <1>0, <2>1
  <2> QED
    BY <2>2
<1> QED
  BY <1>3

\* Row by row is the only assignment in order.
LEMMA InOrder ==
  ASSUME NEW S, NEW act \in Seq(S), NEW exp \in Seq(S), Len(act) = Len(exp), NEW fits
  PROVE  Assigned(act, exp, fits, TRUE) <=> \A i \in DOMAIN act : <<i, i>> \in fits
<1> DEFINE n == Len(exp)
<1>0. n \in Nat /\ DOMAIN act = 1..n /\ DOMAIN exp = 1..n
  OBVIOUS
<1>1. ASSUME Assigned(act, exp, fits, TRUE) PROVE \A i \in DOMAIN act : <<i, i>> \in fits
  <2>1. PICK f \in [1..n -> 1..n] :
          (\A i, j \in 1..n : i < j => f[i] < f[j]) /\ \A i \in 1..n : <<f[i], i>> \in fits
    BY <1>0, <1>1 DEF Assigned
  <2>2. \A i \in 1..n : f[i] = i
    BY <1>0, <2>1, IncreasingIsIdentity
  <2> QED
    BY <1>0, <2>1, <2>2
<1>2. ASSUME \A i \in DOMAIN act : <<i, i>> \in fits PROVE Assigned(act, exp, fits, TRUE)
  <2> DEFINE f == [i \in 1..n |-> i]
  <2>1. f \in [DOMAIN exp -> DOMAIN act]
    BY <1>0
  <2>2. \A i, j \in DOMAIN exp : i < j => f[i] # f[j] /\ f[i] < f[j]
    BY <1>0
  <2>3. \A i \in DOMAIN exp : <<f[i], i>> \in fits
    BY <1>0, <1>2
  <2> HIDE DEF f
  <2> QED
    BY <2>1, <2>2, <2>3 DEF Assigned
<1> QED
  BY <1>1, <1>2

TextRows(act, exp) == {p \in (DOMAIN act) \X (DOMAIN exp) : SameText(act[p[1]], exp[p[2]])}
EqualRows(act, exp) == {p \in (DOMAIN act) \X (DOMAIN exp) : Equal(act[p[1]], exp[p[2]])}

\* The places of a text.
Places(rows, text) == {k \in DOMAIN rows : rows[k] = text}

LEMMA PlacesFinite ==
  ASSUME NEW S, NEW rows \in Seq(S), NEW text
  PROVE  IsFiniteSet(Places(rows, text)) /\ IsFiniteSet(DOMAIN rows) /\ Cardinality(DOMAIN rows) = Len(rows)
<1>1. DOMAIN rows = 1..Len(rows) /\ Len(rows) \in Nat
  OBVIOUS
<1>2. IsFiniteSet(DOMAIN rows) /\ Cardinality(DOMAIN rows) = Len(rows)
  <2>1. ASSUME NEW n \in Nat PROVE IsFiniteSet(1..n) /\ Cardinality(1..n) = n
    BY FS_Interval
  <2> QED
    BY <1>1, <2>1
<1> QED
  BY <1>2, FS_Subset DEF Places

\* Equal sorted texts: every row has one of its own with the same text.
LEMMA SameBagAssigns ==
  ASSUME NEW S, NEW act \in Seq(S), NEW exp \in Seq(S), SameBag(act, exp)
  PROVE  Assigned(act, exp, TextRows(act, exp), FALSE)
<1> DEFINE E(v) == Places(exp, v)
           A(v) == Places(act, v)
           m == [v \in {exp[i] : i \in DOMAIN exp} |-> CHOOSE b : b \in Bijection(E(v), A(v))]
           f == [i \in DOMAIN exp |-> m[exp[i]][i]]
<1>1. \A i \in DOMAIN exp : Cardinality(E(exp[i])) = Cardinality(A(exp[i]))
  BY DEF SameBag, SameText, Places
<1>2. ASSUME NEW i \in DOMAIN exp PROVE m[exp[i]] \in Bijection(E(exp[i]), A(exp[i]))
  <2>1. ExistsBijection(E(exp[i]), A(exp[i]))
    BY <1>1, PlacesFinite, FS_SameCardinalityBij
  <2>2. \E b : b \in Bijection(E(exp[i]), A(exp[i]))
    BY <2>1 DEF ExistsBijection
  <2>3. m[exp[i]] = CHOOSE b : b \in Bijection(E(exp[i]), A(exp[i]))
    OBVIOUS
  <2> HIDE DEF m, E, A
  <2> QED
    BY <2>2, <2>3
<1>3. ASSUME NEW i \in DOMAIN exp PROVE f[i] \in DOMAIN act /\ act[f[i]] = exp[i]
  <2>1. i \in E(exp[i]) /\ m[exp[i]] \in [E(exp[i]) -> A(exp[i])]
    BY <1>2 DEF Bijection, Injection, Places
  <2>2. m[exp[i]][i] \in A(exp[i]) /\ f[i] = m[exp[i]][i]
    <3> HIDE DEF m, E, A
    <3> QED
      BY <2>1
  <2> HIDE DEF m, f
  <2> QED
    BY <2>2 DEF Places
<1>4. ASSUME NEW i \in DOMAIN exp, NEW j \in DOMAIN exp, f[i] = f[j] PROVE i = j
  <2>1. exp[i] = exp[j]
    <3> HIDE DEF f
    <3> QED
      BY <1>3, <1>4
  <2>2. i \in E(exp[i]) /\ j \in E(exp[i])
    BY <2>1 DEF Places
  <2>3. m[exp[i]][i] = m[exp[i]][j]
    <3> HIDE DEF m
    <3> QED
      BY <1>4, <2>1
  <2> HIDE DEF m, E, A
  <2> QED
    BY <1>2, <2>2, <2>3 DEF Bijection, Injection, IsInjective
<1> HIDE DEF f
<1>5. f \in [DOMAIN exp -> DOMAIN act]
  <2>1. f = [i \in DOMAIN exp |-> f[i]]
    BY DEF f
  <2> QED
    BY <1>3, <2>1
<1>6. \A i, j \in DOMAIN exp : i < j => f[i] # f[j]
  <2>1. DOMAIN exp \subseteq Nat
    OBVIOUS
  <2> QED
    BY <1>4, <2>1
<1>7. \A i \in DOMAIN exp : <<f[i], i>> \in TextRows(act, exp)
  BY <1>3 DEF TextRows, SameText
<1> QED
  BY <1>5, <1>6, <1>7 DEF Assigned

\* And the other way round, for answers of one length.
LEMMA AssignedSameBag ==
  ASSUME NEW S, NEW act \in Seq(S), NEW exp \in Seq(S), Len(act) = Len(exp),
         Assigned(act, exp, TextRows(act, exp), FALSE)
  PROVE  SameBag(act, exp)
<1>1. PICK f \in [DOMAIN exp -> DOMAIN act] :
        /\ \A i, j \in DOMAIN exp : i < j => f[i] # f[j]
        /\ \A i \in DOMAIN exp : <<f[i], i>> \in TextRows(act, exp)
  BY DEF Assigned
<1>2. \A i \in DOMAIN exp : act[f[i]] = exp[i]
  BY <1>1 DEF TextRows, SameText
<1>3. ASSUME NEW i \in DOMAIN exp, NEW j \in DOMAIN exp, f[i] = f[j] PROVE i = j
  <2>1. i \in Nat /\ j \in Nat
    OBVIOUS
  <2>2. ~(i < j) /\ ~(j < i)
    BY <1>1, <1>3
  <2> QED
    BY <2>1, <2>2
<1>4. f \in Injection(DOMAIN exp, DOMAIN act)
  BY <1>3 DEF Injection, IsInjective
<1>5. f \in Surjection(DOMAIN exp, DOMAIN act)
  BY <1>4, PlacesFinite, FS_Injection
<1>6. ASSUME NEW v PROVE Cardinality(Places(exp, v)) = Cardinality(Places(act, v))
  <2> DEFINE E == Places(exp, v)
             A == Places(act, v)
             g == [i \in E |-> f[i]]
  <2>1. \A i \in E : i \in DOMAIN exp /\ g[i] = f[i] /\ f[i] \in A
    BY <1>2 DEF Places
  <2>2. \A k \in A : \E i \in E : g[i] = k
    <3> SUFFICES ASSUME NEW k \in A PROVE \E i \in E : g[i] = k
      OBVIOUS
    <3>1. k \in DOMAIN act /\ act[k] = v
      BY DEF Places
    <3>2. PICK i \in DOMAIN exp : f[i] = k
      BY <1>5, <3>1 DEF Surjection
    <3>3. i \in E
      BY <1>2, <3>1, <3>2 DEF Places
    <3> QED
      BY <3>2, <3>3
  <2> DEFINE dom == E
  <2>3. g \in [E -> A]
    <3> HIDE DEF E, A
    <3> QED
      BY <2>1
  <2>4. \A i, j \in E : g[i] = g[j] => i = j
    BY <1>3, <2>1
  <2>5. g \in Bijection(E, A)
    <3> HIDE DEF E, A, g
    <3> QED
      BY <2>2, <2>3, <2>4 DEF Bijection, Injection, Surjection, IsInjective
  <2>6. IsFiniteSet(E) /\ ExistsBijection(E, A)
    BY <2>5, PlacesFinite DEF ExistsBijection
  <2> HIDE DEF E, A
  <2>7. Cardinality(A) = Cardinality(E)
    BY <2>6, FS_Bijection
  <2> QED
    BY <2>7 DEF E, A
<1> QED
  BY <1>6 DEF SameBag, SameText, Places

-----------------------------------------------------------------------------
(* The comparator is what its policies mean.                                *)

Matching(case, act, exp) ==
  IF case.policy \in {"numeric_tolerance", "subset_allowed"}
  THEN CloseRows(act, exp, case.tolerance) ELSE EqualRows(act, exp)

\* Agree, said of a relation between the rows.
Agreeing(case, act, exp, fits) ==
  /\ case.policy # "subset_allowed" => Len(act) = Len(exp)
  /\ Assigned(act, exp, fits, case.policy = "exact_ordered" \/ case.ordered)

\* What PassedMeansAgreement says of one verdict.
Meant(passed, case, act, exp) ==
  /\ passed => Agreeing(case, act, exp, Matching(case, act, exp))
  /\ (case.ordered \/ case.policy = "exact_ordered") /\ Agreeing(case, act, exp, Matching(case, act, exp)) => passed
  /\ ~passed /\ case.policy = "exact_unordered" => ~Agreeing(case, act, exp, TextRows(act, exp))

LEMMA PairwiseInOrder ==
  ASSUME NEW S, NEW act \in Seq(S), NEW exp \in Seq(S), NEW tolerance
  PROVE  /\ Pairwise(act, exp, Equal) <=> Len(act) = Len(exp) /\ Assigned(act, exp, EqualRows(act, exp), TRUE)
         /\ Pairwise(act, exp, LAMBDA r, s : Close(r, s, tolerance)) <=>
              Len(act) = Len(exp) /\ Assigned(act, exp, CloseRows(act, exp, tolerance), TRUE)
<1>1. ASSUME Len(act) = Len(exp)
      PROVE  /\ Assigned(act, exp, EqualRows(act, exp), TRUE) <=> \A i \in DOMAIN act : Equal(act[i], exp[i])
             /\ Assigned(act, exp, CloseRows(act, exp, tolerance), TRUE) <=>
                  \A i \in DOMAIN act : Close(act[i], exp[i], tolerance)
  <2>1. DOMAIN act = DOMAIN exp
    BY <1>1
  <2>2. \A i \in DOMAIN act : /\ <<i, i>> \in EqualRows(act, exp) <=> Equal(act[i], exp[i])
                              /\ <<i, i>> \in CloseRows(act, exp, tolerance) <=> Close(act[i], exp[i], tolerance)
    BY <2>1 DEF EqualRows, CloseRows
  <2> QED
    BY <1>1, <2>2, InOrder
<1> QED
  BY <1>1 DEF Pairwise

LEMMA CompareIsMeant ==
  ASSUME NEW S, NEW act \in Seq(S), NEW exp \in Seq(S), NEW case \in Case, Plain(case)
  PROVE  Meant(Compare(act, exp, case), case, act, exp)
<1> DEFINE passed == Compare(act, exp, case)
           t == case.tolerance
           inOrder == case.policy = "exact_ordered" \/ case.ordered
           same == Len(act) = Len(exp)
           eq == EqualRows(act, exp)
           close == CloseRows(act, exp, t)
           text == TextRows(act, exp)
<1>0. case.policy \in Policies /\ case.ordered \in BOOLEAN
  BY DEF Case
<1>1. text \subseteq eq
  BY DEF TextRows, EqualRows, SameText, Equal
<1>2. /\ Pairwise(act, exp, Equal) <=> same /\ Assigned(act, exp, eq, TRUE)
      /\ Pairwise(act, exp, LAMBDA r, s : Close(r, s, t)) <=> same /\ Assigned(act, exp, close, TRUE)
  BY PairwiseInOrder
<1>3. SameBag(act, exp) <=> same /\ Assigned(act, exp, text, FALSE)
  <2>1. SameBag(act, exp) => same
    BY DEF SameBag
  <2>2. SameBag(act, exp) => Assigned(act, exp, text, FALSE)
    BY SameBagAssigns
  <2>3. same /\ Assigned(act, exp, text, FALSE) => SameBag(act, exp)
    BY AssignedSameBag
  <2> QED
    BY <2>1, <2>2, <2>3
<1>4. Assigned(act, exp, text, FALSE) => Assigned(act, exp, eq, FALSE)
  BY <1>1 DEF Assigned
<1>5. Greedy(act, exp, t) => Assigned(act, exp, close, FALSE)
  BY GreedyAssigns
<1>6. Subsequence(act, exp, t) <=> Assigned(act, exp, close, TRUE)
  BY SubsequenceAssigns
<1>7. case.policy \in {"exact_ordered", "exact_unordered"} => ~case.ordered
  BY DEF Plain
<1>8. CASE case.policy = "exact_ordered"
  <2>1. passed <=> Pairwise(act, exp, Equal)
    BY <1>8 DEF Compare
  <2> QED
    BY <1>2, <1>8, <2>1 DEF Meant, Agreeing, Matching
<1>9. CASE case.policy = "exact_unordered"
  <2>1. passed <=> SameBag(act, exp)
    BY <1>9 DEF Compare
  <2>2. ~case.ordered /\ (case.policy = "exact_ordered" \/ case.ordered) = FALSE
    BY <1>0, <1>7, <1>9
  <2>3. Matching(case, act, exp) = eq
    BY <1>9 DEF Matching
  <2>4. Agreeing(case, act, exp, eq) <=> same /\ Assigned(act, exp, eq, FALSE)
    BY <1>9, <2>2 DEF Agreeing
  <2>5. Agreeing(case, act, exp, text) <=> same /\ Assigned(act, exp, text, FALSE)
    BY <1>9, <2>2 DEF Agreeing
  <2> HIDE DEF passed, text, eq
  <2>6. passed <=> Agreeing(case, act, exp, text)
    BY <1>3, <2>1, <2>5
  <2>7. passed => Agreeing(case, act, exp, eq)
    BY <1>4, <2>4, <2>5, <2>6
  <2> QED
    BY <1>9, <2>2, <2>3, <2>6, <2>7 DEF Meant, text, passed
<1>10. CASE case.policy = "numeric_tolerance" /\ case.ordered
  <2>1. passed <=> Pairwise(act, exp, LAMBDA r, s : Close(r, s, t))
    BY <1>10 DEF Compare
  <2> QED
    BY <1>2, <1>10, <2>1 DEF Meant, Agreeing, Matching
<1>11. CASE case.policy = "numeric_tolerance" /\ ~case.ordered
  <2>1. passed <=> same /\ Greedy(act, exp, t)
    BY <1>11 DEF Compare
  <2> QED
    BY <1>5, <1>11, <2>1 DEF Meant, Agreeing, Matching
<1>12. CASE case.policy = "subset_allowed" /\ case.ordered
  <2>1. passed <=> Subsequence(act, exp, t)
    BY <1>12 DEF Compare
  <2> QED
    BY <1>6, <1>12, <2>1 DEF Meant, Agreeing, Matching
<1>13. CASE case.policy = "subset_allowed" /\ ~case.ordered
  <2>1. passed <=> Greedy(act, exp, t)
    BY <1>13 DEF Compare
  <2> QED
    BY <1>5, <1>13, <2>1 DEF Meant, Agreeing, Matching
<1>14. CASE case.policy = "custom" /\ case.ordered
  <2>1. passed <=> Pairwise(act, exp, Equal)
    BY <1>14 DEF Compare
  <2> QED
    BY <1>2, <1>14, <2>1 DEF Meant, Agreeing, Matching
<1>15. CASE case.policy = "custom" /\ ~case.ordered
  <2>1. passed <=> SameBag(act, exp)
    BY <1>15 DEF Compare
  <2> QED
    BY <1>3, <1>4, <1>15, <2>1 DEF Meant, Agreeing, Matching
<1> QED
  BY <1>0, <1>8, <1>9, <1>10, <1>11, <1>12, <1>13, <1>14, <1>15 DEF Policies

\* A verdict without an error is the comparator's.
MeantResult(r) == r.error = NoError => Meant(r.passed, r.case, r.act, r.exp)

LEMMA JudgedIsMeant ==
  ASSUME NEW S, NEW act \in Seq(S), NEW exp \in Seq(S), NEW case \in Case, Plain(case),
         NEW direct, NEW fate, NEW goldFate
  PROVE  MeantResult(Judged(case, direct, fate, goldFate, act, exp))
<1> DEFINE r == Judged(case, direct, fate, goldFate, act, exp)
           e == ErrorOf(PredictedError(case, direct, fate), GoldError(case, goldFate))
<1> SUFFICES ASSUME r.error = NoError PROVE Meant(r.passed, r.case, r.act, r.exp)
  BY DEF MeantResult
<1>1. e = NoError
  BY DEF Judged
<1>2. PredictedError(case, direct, fate) = NoError /\ GoldError(case, goldFate) = NoError
  BY <1>1 DEF ErrorOf
<1>3. /\ r.act = act /\ r.exp = exp /\ r.case = case
      /\ r.passed = (e = NoError /\ Compare(act, exp, case))
  BY <1>2 DEF Judged
<1> HIDE DEF r
<1>4. Meant(Compare(act, exp, case), case, act, exp)
  BY CompareIsMeant
<1>5. r.passed <=> Compare(act, exp, case)
  BY <1>1, <1>3
<1>6. Meant(r.passed, case, act, exp)
  BY <1>4, <1>5 DEF Meant
<1> QED
  BY <1>3, <1>6

LEMMA MeantIsAgreement ==
  ASSUME NEW r, r.error = NoError, MeantResult(r)
  PROVE  LET Eq(a, b) == IF Tolerant(r) THEN Close(a, b, r.case.tolerance) ELSE Equal(a, b)
         IN  /\ r.passed => Agree(r, Eq)
             /\ (r.case.ordered \/ r.case.policy = "exact_ordered") /\ Agree(r, Eq) => r.passed
             /\ ~r.passed /\ r.case.policy = "exact_unordered" => ~Agree(r, SameText)
<1> DEFINE Eq(a, b) == IF Tolerant(r) THEN Close(a, b, r.case.tolerance) ELSE Equal(a, b)
           increasing == r.case.policy = "exact_ordered" \/ r.case.ordered
<1>1. Assigns(r.act, r.exp, SameText, increasing) <=> Assigned(r.act, r.exp, TextRows(r.act, r.exp), increasing)
  BY DEF Assigns, Assigned, TextRows
<1>2. Assigns(r.act, r.exp, Eq, increasing) <=>
        Assigned(r.act, r.exp, Matching(r.case, r.act, r.exp), increasing)
  <2>1. CASE Tolerant(r)
    BY <2>1 DEF Assigns, Assigned, Matching, CloseRows, Tolerant
  <2>2. CASE ~Tolerant(r)
    BY <2>2 DEF Assigns, Assigned, Matching, EqualRows, Tolerant
  <2> QED
    BY <2>1, <2>2
<1>3. Agree(r, Eq) <=> Agreeing(r.case, r.act, r.exp, Matching(r.case, r.act, r.exp))
  BY <1>2 DEF Agree, Agreeing
<1>4. Agree(r, SameText) <=> Agreeing(r.case, r.act, r.exp, TextRows(r.act, r.exp))
  BY <1>1 DEF Agree, Agreeing
<1>5. Meant(r.passed, r.case, r.act, r.exp)
  BY DEF MeantResult
<1> HIDE DEF Eq
<1> QED
  BY <1>3, <1>4, <1>5 DEF Meant, Eq

-----------------------------------------------------------------------------
(* The report.                                                              *)

ResultsInv == results \in Seq(Category)

\* The names are the categories.
LEMMA CategoriesNamed == DOMAIN CategoryNames = 1..14 /\ Category = {CategoryNames[n] : n \in 1..14}
<1>1. /\ CategoryNames[1] = "column_shape_mismatch" /\ CategoryNames[2] = "empty_predicted_sql"
      /\ CategoryNames[3] = "expected_result_invalid" /\ CategoryNames[4] = "fixture_not_found"
      /\ CategoryNames[5] = "gold_sql_execution_error" /\ CategoryNames[6] = "numeric_tolerance_mismatch"
      /\ CategoryNames[7] = "order_mismatch" /\ CategoryNames[8] = "passed"
      /\ CategoryNames[9] = "rejected_by_orchestrator" /\ CategoryNames[10] = "row_count_mismatch"
      /\ CategoryNames[11] = "sql_execution_error" /\ CategoryNames[12] = "unknown_failure"
      /\ CategoryNames[13] = "unsafe_sql_rejected" /\ CategoryNames[14] = "value_mismatch"
      /\ DOMAIN CategoryNames = 1..14
  BY DEF CategoryNames
<1>2. 1..14 = {1, 2, 3, 4, 5, 6, 7, 8, 9, 10, 11, 12, 13, 14}
  OBVIOUS
<1>3. Category = {"column_shape_mismatch", "empty_predicted_sql", "expected_result_invalid",
       "fixture_not_found", "gold_sql_execution_error", "numeric_tolerance_mismatch", "order_mismatch",
       "passed", "rejected_by_orchestrator", "row_count_mismatch", "sql_execution_error",
       "unknown_failure", "unsafe_sql_rejected", "value_mismatch"}
  BY DEF Category, Severity
<1> QED
  BY <1>1, <1>2, <1>3

LEMMA CategoryOrder ==
  \A c, d \in Category :
    /\ Severity[c] \in Nat /\ Place(c) \in Nat
    /\ Place(c) = Place(d) => c = d
<1>1. \A c \in Category : \E n \in DOMAIN CategoryNames : CategoryNames[n] = c
  BY CategoriesNamed
<1>2. \A c \in Category : Place(c) \in DOMAIN CategoryNames /\ CategoryNames[Place(c)] = c
  BY <1>1 DEF Place
<1>3. DOMAIN CategoryNames \subseteq Nat
  BY DEF CategoryNames
<1>4. \A c \in Category : Severity[c] \in Nat
  BY DEF Category, Severity
<1> QED
  BY <1>2, <1>3, <1>4

\* The order of the report is a strict total order of the cases.
LEMMA BeforeOrders ==
  ASSUME ResultsInv
  PROVE  \A i, j, k \in DOMAIN results :
           /\ ~Before(i, i)
           /\ i = j \/ Before(i, j) \/ Before(j, i)
           /\ Before(i, j) /\ Before(j, k) => Before(i, k)
           /\ Before(i, j) => Severity[results[i]] >= Severity[results[j]]
<1> SUFFICES ASSUME NEW i \in DOMAIN results, NEW j \in DOMAIN results, NEW k \in DOMAIN results
             PROVE  /\ ~Before(i, i)
                    /\ i = j \/ Before(i, j) \/ Before(j, i)
                    /\ Before(i, j) /\ Before(j, k) => Before(i, k)
                    /\ Before(i, j) => Severity[results[i]] >= Severity[results[j]]
  OBVIOUS
<1> DEFINE w(x) == Severity[results[x]]
           p(x) == Place(results[x])
<1>1. \A x \in {i, j, k} : results[x] \in Category /\ x \in Nat
  BY DEF ResultsInv
<1>2. \A x, y \in {i, j, k} : w(x) \in Nat /\ p(x) \in Nat /\ (p(x) = p(y) <=> results[x] = results[y])
  BY <1>1, CategoryOrder
<1>3. \A x, y \in {i, j, k} : results[x] = results[y] => w(x) = w(y)
  OBVIOUS
<1>4. \A x, y \in {i, j, k} :
        Before(x, y) <=> \/ w(x) > w(y)
                         \/ w(x) = w(y) /\ p(x) < p(y)
                         \/ p(x) = p(y) /\ w(x) = w(y) /\ x < y
  BY <1>2, <1>3 DEF Before
<1> HIDE DEF w, p
<1>5. ~Before(i, i) /\ (i = j \/ Before(i, j) \/ Before(j, i))
  <2>1. p(i) = p(j) => w(i) = w(j)
    BY <1>2, <1>3
  <2> QED
    BY <1>1, <1>2, <1>4, <2>1
<1>6. Before(i, j) /\ Before(j, k) => Before(i, k)
  BY <1>1, <1>2, <1>4
<1>7. Before(i, j) => w(i) >= w(j)
  BY <1>2, <1>4
<1> QED
  BY <1>5, <1>6, <1>7 DEF w

\* Some of the cases in the report's order.
InOrderOf(s, cases) ==
  /\ s \in Bijection(1 .. Cardinality(cases), cases)
  /\ \A m, n \in DOMAIN s : m < n => Before(s[m], s[n])

LEMMA CasesFinite ==
  ASSUME ResultsInv
  PROVE  /\ IsFiniteSet(DOMAIN results)
         /\ \A s \in SUBSET DOMAIN results : IsFiniteSet(s) /\ Cardinality(s) \in Nat
<1>1. IsFiniteSet(DOMAIN results)
  <2>1. DOMAIN results = 1 .. Len(results) /\ Len(results) \in Nat
    BY DEF ResultsInv
  <2> QED
    BY <2>1, FS_Interval
<1> QED
  BY <1>1, FS_Subset, FS_CardinalityType

LEMMA LastOfThem ==
  ASSUME ResultsInv
  PROVE  \A s \in SUBSET DOMAIN results : s # {} => \E x \in s : \A y \in s \ {x} : Before(y, x)
<1> DEFINE D == DOMAIN results
           T == {s \in SUBSET D : s # {} => \E x \in s : \A y \in s \ {x} : Before(y, x)}
<1>1. IsFiniteSet(D)
  BY CasesFinite
<1>2. {} \in T
  OBVIOUS
<1>3. ASSUME NEW s \in SUBSET D, s # {}, \A x \in s : s \ {x} \in T PROVE s \in T
  <2>1. PICK x \in s : TRUE
    BY <1>3
  <2>2. CASE s \ {x} = {}
    BY <2>1, <2>2
  <2>3. CASE s \ {x} # {}
    <3>1. PICK y \in s \ {x} : \A z \in (s \ {x}) \ {y} : Before(z, y)
      BY <1>3, <2>1, <2>3
    <3>2. CASE Before(x, y)
      BY <3>1, <3>2
    <3>3. CASE Before(y, x)
      <4>1. \A z \in s \ {x} : Before(z, x)
        BY <3>1, <3>3, BeforeOrders
      <4> QED
        BY <4>1
    <3> QED
      BY <3>1, <3>2, <3>3, BeforeOrders
  <2> QED
    BY <2>2, <2>3
<1>4. \A s \in SUBSET D : s \in T
  <2> HIDE DEF T, D
  <2> QED
    BY <1>1, <1>2, <1>3, InductionOnSubsets
<1> QED
  BY <1>4

\* Any cases can be put in order, one behind the other.
LEMMA OrderExists ==
  ASSUME ResultsInv
  PROVE  \A s \in SUBSET DOMAIN results : \E q : InOrderOf(q, s)
<1> DEFINE D == DOMAIN results
           T == {s \in SUBSET D : \E q : InOrderOf(q, s)}
<1>1. IsFiniteSet(D)
  BY CasesFinite
<1>2. {} \in T
  <2>1. Cardinality({}) = 0 /\ 1..0 = {}
    BY FS_EmptySet
  <2>2. InOrderOf([n \in 1 .. Cardinality({}) |-> n], {})
    BY <2>1 DEF InOrderOf, Bijection, Injection, Surjection, IsInjective
  <2> QED
    BY <2>2
<1>3. ASSUME NEW s \in SUBSET D, s # {}, \A x \in s : s \ {x} \in T PROVE s \in T
  <2>1. PICK x \in s : \A y \in s \ {x} : Before(y, x)
    BY <1>3, LastOfThem
  <2>2. PICK q : InOrderOf(q, s \ {x})
    BY <1>3
  <2> DEFINE n == Cardinality(s)
             r == [m \in 1..n |-> IF m = n THEN x ELSE q[m]]
  <2>3. n \in Nat /\ n # 0 /\ Cardinality(s \ {x}) = n - 1
    BY CasesFinite, FS_RemoveElement, FS_EmptySet
  <2> HIDE DEF n
  <2>4. /\ q \in [1 .. n - 1 -> s \ {x}]
        /\ \A a, b \in 1 .. n - 1 : q[a] = q[b] => a = b
        /\ \A t \in s \ {x} : \E a \in 1 .. n - 1 : q[a] = t
        /\ \A a, b \in 1 .. n - 1 : a < b => Before(q[a], q[b])
    <3>1. q \in Bijection(1 .. n - 1, s \ {x}) /\ \A a, b \in DOMAIN q : a < b => Before(q[a], q[b])
      BY <2>2, <2>3 DEF InOrderOf
    <3> QED
      BY <3>1 DEF Bijection, Injection, Surjection, IsInjective
  <2>5. r \in [1..n -> s]
    BY <2>3, <2>4
  <2>6. \A a, b \in 1..n : r[a] = r[b] => a = b
    BY <2>3, <2>4
  <2>7. \A t \in s : \E a \in 1..n : r[a] = t
    <3>1. r[n] = x /\ n \in 1..n
      BY <2>3
    <3>2. \A a \in 1 .. n - 1 : r[a] = q[a] /\ a \in 1..n
      BY <2>3
    <3> QED
      BY <2>4, <3>1, <3>2
  <2>8. \A a, b \in 1..n : a < b => Before(r[a], r[b])
    <3> SUFFICES ASSUME NEW a \in 1..n, NEW b \in 1..n, a < b PROVE Before(r[a], r[b])
      OBVIOUS
    <3>1. a \in 1 .. n - 1 /\ r[a] = q[a] /\ q[a] \in s \ {x}
      BY <2>3, <2>4
    <3>2. CASE b = n
      BY <2>1, <3>1, <3>2
    <3>3. CASE b # n
      <4>1. b \in 1 .. n - 1 /\ r[b] = q[b]
        BY <2>3, <3>3
      <4> QED
        BY <2>4, <3>1, <4>1
    <3> QED
      BY <3>2, <3>3
  <2>9. DOMAIN r = 1..n
    OBVIOUS
  <2> HIDE DEF r
  <2>10. InOrderOf(r, s)
    BY <2>5, <2>6, <2>7, <2>8, <2>9 DEF InOrderOf, Bijection, Injection, Surjection, IsInjective, n
  <2> QED
    BY <2>10
<1>4. \A s \in SUBSET D : s \in T
  <2> HIDE DEF T, D
  <2> QED
    BY <1>1, <1>2, <1>3, InductionOnSubsets
<1> QED
  BY <1>4

LEMMA SortedIs ==
  ASSUME ResultsInv, NEW cases \in SUBSET DOMAIN results
  PROVE  InOrderOf(Sorted(cases), cases)
<1>1. \E q : InOrderOf(q, cases)
  BY OrderExists
<1> QED
  BY <1>1 DEF Sorted, InOrderOf

\* The listed cases are as many as allowed, or all of them, and no worse one is left out.
LEMMA WorstAreListed ==
  ASSUME ResultsInv, NEW withPassed, NEW limit \in Nat
  PROVE  LET cases == Listed(withPassed, limit)
             listed == {cases[i] : i \in DOMAIN cases}
             left == {i \in DOMAIN results : results[i] # "passed"} \ listed
         IN  /\ left # {} => Len(cases) = limit
             /\ \A i \in left, j \in listed : Severity[results[j]] >= Severity[results[i]]
<1> DEFINE all == {i \in DOMAIN results : withPassed \/ results[i] # "passed"}
           n == Cardinality(all)
           s == Sorted(all)
           m == IF limit < n THEN limit ELSE n
           cases == SubSeq(s, 1, m)
<1>1. n \in Nat
  BY CasesFinite
<1>2. /\ s \in [1..n -> all]
      /\ \A t \in all : \E a \in 1..n : s[a] = t
      /\ \A a, b \in 1..n : a < b => Before(s[a], s[b])
  <2>1. InOrderOf(s, all)
    BY SortedIs
  <2>2. s \in Bijection(1..n, all) /\ \A a, b \in DOMAIN s : a < b => Before(s[a], s[b])
    BY <2>1 DEF InOrderOf
  <2> HIDE DEF s, n, all
  <2> QED
    BY <2>2 DEF Bijection, Injection, Surjection
<1>3. all \subseteq DOMAIN results /\ {i \in DOMAIN results : results[i] # "passed"} \subseteq all
  OBVIOUS
<1> HIDE DEF s, n, all
<1>4. Len(s) = n /\ s \in Seq(all)
  BY <1>1, <1>2
<1>5. Listed(withPassed, limit) = cases
  BY <1>4 DEF Listed, s, all
<1>6. m \in Nat /\ m <= n /\ m <= limit /\ (m # limit => m = n)
  BY <1>1
<1> HIDE DEF m
<1>7. Len(cases) = m /\ DOMAIN cases = 1..m /\ \A a \in 1..m : cases[a] = s[a]
  BY <1>1, <1>4, <1>6
<1> HIDE DEF cases
<1>8. ASSUME NEW i \in DOMAIN results, results[i] # "passed", i \notin {cases[a] : a \in DOMAIN cases}
      PROVE  /\ m = limit
             /\ \A j \in {cases[a] : a \in DOMAIN cases} : Severity[results[j]] >= Severity[results[i]]
  <2>1. PICK b \in 1..n : s[b] = i
    BY <1>2, <1>3, <1>8
  <2>2. b > m
    <3>1. b \notin 1..m
      BY <1>7, <1>8, <2>1
    <3> QED
      BY <1>1, <1>6, <3>1
  <2>3. ASSUME NEW a \in 1..m PROVE Severity[results[cases[a]]] >= Severity[results[i]]
    <3>1. a \in 1..n /\ a < b
      BY <1>1, <1>6, <2>2
    <3>2. Before(s[a], i) /\ s[a] \in DOMAIN results
      BY <1>2, <1>3, <2>1, <3>1
    <3> QED
      BY <1>7, <1>8, <3>2, BeforeOrders
  <2> QED
    BY <1>1, <1>6, <1>7, <2>2, <2>3
<1> QED
  BY <1>5, <1>7, <1>8

\* What the categories that were found count is what failed.
LEMMA FailedIsBrokenDown ==
  ASSUME ResultsInv
  PROVE  LET D == Found(Category \ {"passed"})
             w == [c \in D |-> Count(c)]
         IN  SumOver(w, D) = Failed
<1> DEFINE D == Found(Category \ {"passed"})
           w == [c \in D |-> Count(c)]
           U == {i \in DOMAIN results : results[i] # "passed"}
           g == [i \in U |-> results[i]]
           P == {i \in DOMAIN results : results[i] = "passed"}
<1>1. IsFiniteSet(U) /\ IsFiniteSet(P) /\ Cardinality(U) \in Nat /\ Cardinality(P) \in Nat
  BY CasesFinite
<1>2. \A c \in Category : Count(c) \in Nat
  BY CasesFinite DEF Count
<1>3. IsFiniteSet(D)
  <2>1. D \subseteq Category
    BY DEF Found
  <2>2. IsFiniteSet(Category)
    <3>1. CategoryNames \in Surjection(1..14, Category)
      <4>1. CategoryNames = [n \in 1..14 |-> CategoryNames[n]]
        BY CategoriesNamed DEF CategoryNames
      <4> HIDE DEF CategoryNames
      <4> QED
        BY <4>1, CategoriesNamed DEF Surjection
    <3>2. IsFiniteSet(1..14)
      <4>1. ASSUME NEW n \in Nat PROVE IsFiniteSet(1..n)
        BY FS_Interval
      <4> QED
        BY <4>1
    <3> QED
      BY <3>1, <3>2, FS_Surjection
  <2> QED
    BY <2>1, <2>2, FS_Subset
<1>4. g \in [U -> D]
  <2> SUFFICES ASSUME NEW i \in U PROVE results[i] \in D
    OBVIOUS
  <2>1. results[i] \in Category \ {"passed"}
    BY DEF ResultsInv
  <2>2. Count(results[i]) > 0
    <3> DEFINE same == {j \in DOMAIN results : results[j] = results[i]}
    <3>1. same # {} /\ IsFiniteSet(same) /\ Cardinality(same) \in Nat
      BY CasesFinite
    <3>2. Cardinality(same) # 0
      BY <3>1, FS_EmptySet
    <3> QED
      BY <3>1, <3>2 DEF Count
  <2> QED
    BY <2>1, <2>2 DEF Found
<1>5. w \in [D -> Nat]
  BY <1>2 DEF Found
<1>6. \A c \in D : w[c] = Cardinality({t \in U : g[t] = c})
  <2> SUFFICES ASSUME NEW c \in D PROVE w[c] = Cardinality({t \in U : g[t] = c})
    OBVIOUS
  <2>1. {t \in U : g[t] = c} = {i \in DOMAIN results : results[i] = c}
    BY DEF Found
  <2> QED
    BY <2>1 DEF Count
<1>7. SumOver(w, D) = Cardinality(U)
  <2> HIDE DEF w, D, U, g
  <2> QED
    BY <1>1, <1>3, <1>4, <1>5, <1>6, SumOfParts
<1>8. Cardinality(U) = Failed
  <2>1. DOMAIN results = U \cup P /\ U \cap P = {}
    OBVIOUS
  <2>2. Cardinality(DOMAIN results) = Len(results)
    <3>1. DOMAIN results = 1 .. Len(results) /\ Len(results) \in Nat
      BY DEF ResultsInv
    <3>2. ASSUME NEW n \in Nat PROVE Cardinality(1..n) = n
      BY FS_Interval
    <3> QED
      BY <3>1, <3>2
  <2>3. Cardinality(U \cap P) = 0
    BY <2>1, FS_EmptySet
  <2>4. Cardinality(U \cup P) = Cardinality(U) + Cardinality(P) - Cardinality(U \cap P)
    <3> HIDE DEF U, P
    <3> QED
      BY <1>1, FS_Union
  <2>5. Len(results) = Cardinality(U) + Cardinality(P)
    <3> HIDE DEF U, P
    <3> QED
      BY <1>1, <2>1, <2>2, <2>3, <2>4
  <2>6. Failed = Len(results) - Cardinality(P)
    BY DEF Failed, Total, Passed, Count
  <2> HIDE DEF U, P
  <2> QED
    BY <1>1, <2>5, <2>6
<1> QED
  BY <1>7, <1>8

\* A report, once made, is of this run.
ReportInv ==
  /\ decision = NoDecision => report = NoReport
  /\ ReportIsComplete

LEMMA ReportsStay ==
  ASSUME ReportInv, UNCHANGED <<results, decision, report>>
  PROVE  ReportInv'
<1>1. Failed' = Failed
  BY DEF Failed, Total, Passed, Count
<1>2. ReportIsComplete'
  BY <1>1 DEF ReportInv, ReportIsComplete
<1> QED
  BY <1>2 DEF ReportInv

LEMMA ReportsComplete ==
  ASSUME ResultsInv, NEW withPassed \in BOOLEAN, NEW limit \in 0..MaxCases, Dashboard(withPassed, limit)
  PROVE  ReportInv'
<1> DEFINE listed == {report'.cases[i] : i \in DOMAIN report'.cases}
           left == {i \in DOMAIN results : results[i] # "passed"} \ listed
<1>1. UNCHANGED <<results, decision>> /\ decision # NoDecision
  BY DEF Dashboard
<1>2. /\ report'.cases = Listed(withPassed, limit) /\ report'.limit = limit
      /\ report'.breakdown = [c \in Found(Category \ {"passed"}) |-> Count(c)]
  BY DEF Dashboard, Report
<1>3. /\ left # {} => Len(report'.cases) = report'.limit
      /\ \A i \in left, j \in listed : Severity[results[j]] >= Severity[results[i]]
  <2>1. limit \in Nat
    OBVIOUS
  <2> QED
    BY <1>2, <2>1, WorstAreListed
<1>4. Failed = SumOf(report'.breakdown)
  <2> DEFINE D == Found(Category \ {"passed"})
             w == [c \in D |-> Count(c)]
  <2>1. SumOver(w, D) = Failed
    BY FailedIsBrokenDown
  <2>2. report'.breakdown = w /\ DOMAIN w = D
    BY <1>2
  <2>3. SumOf(w) = SumOver(w, DOMAIN w)
    BY DEF SumOf, SumOver
  <2> HIDE DEF w, D
  <2> QED
    BY <2>1, <2>2, <2>3
<1>5. Failed = Failed'
  BY <1>1 DEF Failed, Total, Passed, Count
<1>6. ReportIsComplete'
  BY <1>1, <1>3, <1>4, <1>5 DEF ReportIsComplete
<1> QED
  BY <1>1, <1>6 DEF ReportInv

-----------------------------------------------------------------------------
(* The invariant.                                                           *)

LastInv == last = NoCase \/ (Told(last) /\ MeantResult(last))
VerdictInv ==
  decision # NoDecision =>
    LET rules == {decision.rules[r] : r \in DOMAIN decision.rules} IN
    decision.status \in rules /\ \A s \in rules : Worse(s) <= Worse(decision.status)

EvaluationIInv == ResultsInv /\ LastInv /\ VerdictInv /\ ReportInv

LEMMA EvaluationBegins == EvaluationInit => EvaluationIInv
BY DEF EvaluationInit, EvaluationIInv, ResultsInv, LastInv, VerdictInv, ReportInv, ReportIsComplete

\* Every category is one that has a severity.
LEMMA CategoryTypes ==
  ASSUME NEW case \in Case, NEW direct \in BOOLEAN, NEW fate \in Fates \cup {"missing"},
         NEW goldFate \in Fates, NEW act, NEW exp
  PROVE  CategoryOf(Judged(case, direct, fate, goldFate, act, exp)) \in Category
<1> DEFINE r == Judged(case, direct, fate, goldFate, act, exp)
           e == ErrorOf(PredictedError(case, direct, fate), GoldError(case, goldFate))
<1>1. r.error = e /\ (e # NoError => e.stage \in {"empty", "rejected", "run", "gold", "expected"})
  BY ErrorsTold DEF Judged
<1> SUFFICES CategoryOf(r) \in Category
  OBVIOUS
<1> HIDE DEF r, e
<1>2. e # NoError => OfError(e) \in {"gold_sql_execution_error", "expected_result_invalid",
                         "unsafe_sql_rejected", "empty_predicted_sql", "fixture_not_found",
                         "rejected_by_orchestrator", "sql_execution_error"}
  BY <1>1, ErrorCategories
<1>3. \/ CategoryOf(r) = "passed"
      \/ CategoryOf(r) = OfError(e) /\ e # NoError
      \/ CategoryOf(r) = OfMismatch(r)
  BY <1>1 DEF CategoryOf
<1>4. OfMismatch(r) \in {"row_count_mismatch", "column_shape_mismatch", "order_mismatch",
                        "numeric_tolerance_mismatch", "value_mismatch"}
  BY Mismatches
<1>5. {"passed", "gold_sql_execution_error", "expected_result_invalid", "unsafe_sql_rejected",
       "empty_predicted_sql", "fixture_not_found", "rejected_by_orchestrator", "sql_execution_error",
       "row_count_mismatch", "column_shape_mismatch", "order_mismatch", "numeric_tolerance_mismatch",
       "value_mismatch"} \subseteq Category
  BY DEF Category, Severity
<1> QED
  BY <1>2, <1>3, <1>4, <1>5

LEMMA RunStep ==
  ASSUME ResultsInv, RunCases
  PROVE  ResultsInv' /\ LastInv' /\ UNCHANGED decision
<1>1. CASE OtherHarness
  <2>1. "unknown_failure" \in Category
    BY DEF Category, Severity
  <2> QED
    BY <1>1, <2>1 DEF OtherHarness, ResultsInv, LastInv
<1>2. ASSUME NEW case \in Case, NEW direct \in BOOLEAN, NEW fate \in Fates \cup {"missing"},
             NEW goldFate \in Fates, NEW act \in Seq(Rows), NEW exp \in Seq(Rows), Plain(case),
             RunCase(case, direct, fate, goldFate, act, exp)
      PROVE  ResultsInv' /\ LastInv' /\ UNCHANGED decision
  <2> DEFINE r == Judged(case, direct, fate, goldFate, act, exp)
  <2>0. Told(r) /\ CategoryOf(r) \in Category
    BY JudgedIsTold, CategoryTypes
  <2>1. MeantResult(r)
    BY <1>2, JudgedIsMeant
  <2>2. last' = r /\ results' = Append(results, CategoryOf(r)) /\ UNCHANGED decision
    BY <1>2 DEF RunCase
  <2> HIDE DEF r
  <2> QED
    BY <2>0, <2>1, <2>2 DEF ResultsInv, LastInv
<1>3. CASE \E case \in {c \in Case : Plain(c) /\ c.dialect = "sqlite" /\ c.fixture /\ c.expected = "rows"},
              act, exp \in Answers :
              /\ results = <<>>
              /\ RunCase(case, FALSE, "run", "run", act, exp)
  <2>1. "run" \in Fates
    BY DEF Fates
  <2>2. Answers \subseteq Seq(Rows)
    BY DEF Answers, BoundedSeq, SeqOf
  <2> QED
    BY <1>2, <1>3, <2>1, <2>2
<1>4. CASE \E case \in {c \in Case : c.policy = "exact_unordered" /\ Plain(c)}, direct \in BOOLEAN,
              fate \in Fates \cup {"missing"}, goldFate \in Fates :
              RunCase(case, direct, fate, goldFate, <<>>, <<>>)
  <2>1. <<>> \in Seq(Rows)
    OBVIOUS
  <2> QED
    BY <1>2, <1>4, <2>1
<1> QED
  BY <1>1, <1>3, <1>4 DEF RunCases

LEMMA EvaluationGoesOn == EvaluationIInv /\ [EvaluationNext]_evaluationVars => EvaluationIInv'
<1> SUFFICES ASSUME EvaluationIInv, [EvaluationNext]_evaluationVars PROVE EvaluationIInv'
  OBVIOUS
<1>i. ResultsInv /\ LastInv /\ VerdictInv /\ ReportInv
  BY DEF EvaluationIInv
<1>1. CASE RunCases
  <2>1. ResultsInv' /\ LastInv' /\ UNCHANGED decision
    BY <1>i, <1>1, RunStep
  <2>2. VerdictInv'
    BY <1>i, <2>1 DEF VerdictInv
  <2>3. decision = NoDecision /\ UNCHANGED <<decision, report>>
    BY <1>1 DEF RunCases, RunCase, OtherHarness
  <2>4. ReportInv'
    BY <1>i, <2>3 DEF ReportInv, ReportIsComplete
  <2> QED
    BY <2>1, <2>2, <2>4 DEF EvaluationIInv
<1>2. CASE PutAside
  <2>1. UNCHANGED <<results, decision, report>>
    BY <1>2 DEF PutAside
  <2>2. ReportInv'
    BY <1>i, <2>1, ReportsStay
  <2> QED
    BY <1>i, <1>2, <2>2 DEF PutAside, EvaluationIInv, ResultsInv, LastInv, VerdictInv
<1>3. ASSUME NEW c \in Config, Aggregate(c) PROVE EvaluationIInv'
  <2>1. /\ UNCHANGED <<last, results, report>> /\ decision = NoDecision
        /\ decision' = [status |-> Status(c), rules |-> Rules(c)]
    BY <1>3 DEF Aggregate
  <2>2. Status(c) \in Shown(c) /\ \A s \in Shown(c) : Worse(s) <= Worse(Status(c))
    BY <1>i, StatusIsWorst DEF ResultsInv
  <2>3. VerdictInv'
    BY <2>1, <2>2 DEF VerdictInv, Shown
  <2>4. ReportInv'
    BY <1>i, <2>1 DEF ReportInv, ReportIsComplete
  <2> QED
    BY <1>i, <2>1, <2>3, <2>4 DEF EvaluationIInv, ResultsInv, LastInv
<1>4. ASSUME NEW withPassed \in BOOLEAN, NEW limit \in 0..MaxCases, Dashboard(withPassed, limit)
      PROVE  EvaluationIInv'
  <2>1. UNCHANGED <<last, results, decision>>
    BY <1>4 DEF Dashboard
  <2>2. ReportInv'
    BY <1>i, <1>4, ReportsComplete
  <2> QED
    BY <1>i, <2>1, <2>2 DEF EvaluationIInv, ResultsInv, LastInv, VerdictInv
<1>5. CASE UNCHANGED evaluationVars
  <2>1. UNCHANGED <<last, results, decision, report>>
    BY <1>5 DEF evaluationVars
  <2>2. ReportInv'
    BY <1>i, <2>1, ReportsStay
  <2> QED
    BY <1>i, <2>1, <2>2 DEF EvaluationIInv, ResultsInv, LastInv, VerdictInv
<1> QED
  BY <1>1, <1>2, <1>3, <1>4, <1>5 DEF EvaluationNext

LEMMA EvaluationKeeps == EvaluationSpec => []EvaluationIInv
BY EvaluationBegins, EvaluationGoesOn, PTL DEF EvaluationSpec

\* A category says what happened to its case: for any rows and answers of any length
\* (failure_analytics.py).
THEOREM Categories == EvaluationSpec => []CategoryIsTrue
<1>1. EvaluationIInv => CategoryIsTrue
  BY DEF EvaluationIInv, LastInv, Told, CategoryIsTrue, Pairwise
<1> QED
  BY <1>1, EvaluationKeeps, PTL

\* The gate's decision is the worst of the rules it shows, however many cases there are
\* (eval_gate.py).
THEOREM Verdicts == EvaluationSpec => []VerdictIsWorstRule
<1>1. EvaluationIInv => VerdictIsWorstRule
  BY DEF EvaluationIInv, VerdictInv, VerdictIsWorstRule
<1> QED
  BY <1>1, EvaluationKeeps, PTL

\* A case passes only if its rows can be assigned as its policy asks, and does if they can,
\* wherever greedy matching cannot miss it: for answers of any rows and any length.
THEOREM Agreements == EvaluationSpec => []PassedMeansAgreement
<1>1. EvaluationIInv => PassedMeansAgreement
  <2> SUFFICES ASSUME LastInv, last # NoCase, last.error = NoError PROVE PassedMeansAgreement
    BY DEF EvaluationIInv, PassedMeansAgreement
  <2>1. MeantResult(last)
    BY DEF LastInv
  <2> QED
    BY <2>1, MeantIsAgreement DEF PassedMeansAgreement
<1> QED
  BY <1>1, EvaluationKeeps, PTL

\* What is listed are the worst cases, and the breakdown counts every failure: for runs of
\* any length.
THEOREM Reports == EvaluationSpec => []ReportIsComplete
<1>1. EvaluationIInv => ReportIsComplete
  BY DEF EvaluationIInv, ReportInv
<1> QED
  BY <1>1, EvaluationKeeps, PTL
=============================================================================
