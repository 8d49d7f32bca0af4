------------------------------ MODULE Failover ------------------------------
(***************************************************************************)
(* LLM model failover with one circuit breaker per model (llm/failover.py).*)
(* The threads of one process (inline jobs run on a thread pool) share the *)
(* breakers.  Each access to a breaker is under its lock and is one step;  *)
(* the LLM call between two accesses takes as long as it takes.  The clock *)
(* is read outside the lock: a failure is recorded with a reading that may *)
(* have aged while the thread waited, and that other threads may have      *)
(* overtaken.                                                              *)
(*                                                                         *)
(* Prompts and answers are left out, and so are NVIDIAClient's own retries *)
(* and rate limiting: only how its call ends matters here.                 *)
(***************************************************************************)
EXTENDS Integers, FiniteSets, Sequences

CONSTANTS
  Callers,     \* threads that generate SQL
  NModels,     \* length of the model chain; model 1 is the primary
  Threshold,   \* NL2SQL_LLM_CIRCUIT_FAILURES
  Reset,       \* NL2SQL_LLM_CIRCUIT_RESET_SECONDS
  MaxTime,     \* bound: the clock
  MaxCalls     \* bound: calls of generate_sql

ASSUME FailoverAssumption ==
  /\ NModels \in Nat \ {0} /\ Threshold \in Nat \ {0} /\ Reset \in Nat \ {0}
  /\ MaxTime \in Nat /\ MaxCalls \in Nat

Models == 1..NModels

VARIABLES
  now,      \* time.monotonic()
  breaker,  \* breaker[m]: the CircuitBreaker of model m
  call,     \* call[c]: caller c inside generate_sql
  calls,    \* calls begun so far
  hurt      \* history: hurt[c]: the models a failure of which was recorded since
            \* caller c last looked at their circuits

failoverVars == <<now, breaker, call, calls, hurt>>

NotOpen == -1   \* opened_at is None

Breaker == [failures : Nat, openedAt : {NotOpen} \cup Nat]

-----------------------------------------------------------------------------
(* CircuitBreaker.                                                         *)

NewBreaker == [failures |-> 0, openedAt |-> NotOpen]

\* Mutant of BreakerState: a circuit half-opens one second early.
BreakerStateEarly(b, t) ==
  IF b.openedAt = NotOpen THEN "closed"
  ELSE IF t >= b.openedAt + Reset - 1 THEN "half_open" ELSE "open"

BreakerState(b, t) ==
  IF b.openedAt = NotOpen THEN "closed"
  ELSE IF t >= b.openedAt + Reset THEN "half_open" ELSE "open"

Available(b, t) == BreakerState(b, t) # "open"

RetryIn(b, t) ==
  IF BreakerState(b, t) = "open" THEN b.openedAt + Reset - t ELSE 0

\* A failed half-open trial restarts the timer, and an aged reading sets it back.
RecordFailure(b, t) ==
  [failures |-> b.failures + 1,
   openedAt |-> IF b.openedAt # NotOpen \/ b.failures + 1 >= Threshold THEN t ELSE NotOpen]

-----------------------------------------------------------------------------
(* FailoverLLMClient.generate_sql.  The breakers are consulted one by one, *)
(* all with the clock as it was when the call began.                       *)

\* at: the clock read first; next: the next model to look at; plan: the
\* candidates left to try; best: the model whose circuit reopens soonest among
\* those compared; seen: the clock read for the failure about to be recorded;
\* forced: no circuit looked available; failed: last_error is set.
NoCall == [pc |-> "idle", at |-> 0, next |-> 1, plan |-> <<>>, best |-> 1, left |-> 0,
           seen |-> 0, forced |-> FALSE, failed |-> FALSE]

Begin(c) ==
  /\ call[c].pc = "idle"
  /\ calls < MaxCalls
  /\ calls' = calls + 1
  /\ call' = [call EXCEPT ![c] = [NoCall EXCEPT !.pc = "look", !.at = now]]
  /\ UNCHANGED <<now, breaker, hurt>>

\* The circuit of the next model is looked at.
Seen(c) == hurt' = [hurt EXCEPT ![c] = @ \ {call[c].next}]

\* After the last look: try the candidates, or else look for the soonest.
AfterLook(s, plan) ==
  IF s.next < NModels THEN [s EXCEPT !.next = @ + 1, !.plan = plan]
  ELSE [s EXCEPT !.next = 1, !.plan = plan, !.pc = IF plan = <<>> THEN "soonest" ELSE "try"]

Look(c) ==
  /\ call[c].pc = "look"
  /\ LET s == call[c] IN
       call' = [call EXCEPT ![c] =
                  AfterLook(s, IF Available(breaker[s.next], s.at)
                               THEN Append(s.plan, s.next) ELSE s.plan)]
  /\ Seen(c)
  /\ UNCHANGED <<now, breaker, calls>>

\* Mutant of Soonest: wait for a circuit instead of trying one.
SoonestWaits(c) ==
  /\ call[c].pc = "soonest"
  /\ call' = [call EXCEPT ![c].pc = "look", ![c].at = now]
  /\ UNCHANGED <<now, breaker, calls, hurt>>

\* Mutant of Soonest: max instead of min.
SoonestLatest(c) ==
  /\ call[c].pc = "soonest"
  /\ LET s == call[c]
         left == RetryIn(breaker[s.next], s.at)
         nearest == IF s.next = 1 \/ left > s.left
                    THEN [s EXCEPT !.best = s.next, !.left = left] ELSE s
     IN  call' = [call EXCEPT ![c] =
                    IF s.next < NModels THEN [nearest EXCEPT !.next = @ + 1]
                    ELSE [nearest EXCEPT !.pc = "try", !.plan = <<nearest.best>>,
                                         !.forced = TRUE]]
  /\ Seen(c)
  /\ UNCHANGED <<now, breaker, calls>>

\* One comparison of min(chain, key=retry_in).
Soonest(c) ==
  /\ call[c].pc = "soonest"
  /\ LET s == call[c]
         left == RetryIn(breaker[s.next], s.at)
         nearest == IF s.next = 1 \/ left < s.left
                    THEN [s EXCEPT !.best = s.next, !.left = left] ELSE s
     IN  call' = [call EXCEPT ![c] =
                    IF s.next < NModels THEN [nearest EXCEPT !.next = @ + 1]
                    ELSE [nearest EXCEPT !.pc = "try", !.plan = <<nearest.best>>,
                                         !.forced = TRUE]]
  /\ Seen(c)
  /\ UNCHANGED <<now, breaker, calls>>

Trying(c, m) == call[c].pc = "try" /\ call[c].plan # <<>> /\ Head(call[c].plan) = m

Return(c) == call' = [call EXCEPT ![c] = NoCall]

Success(c) ==
  \E m \in Models :
    /\ Trying(c, m)
    /\ breaker' = [breaker EXCEPT ![m] = NewBreaker]
    /\ Return(c)
    /\ UNCHANGED <<now, calls, hurt>>

\* 401, 403, or any error that is not an LLMError: raised as it is.
Refused(c) ==
  /\ \E m \in Models : Trying(c, m)
  /\ Return(c)
  /\ UNCHANGED <<now, breaker, calls, hurt>>

\* A transient error or another client error: the clock is read, an argument of
\* record_failure, before its lock is asked for.
Fails(c) ==
  /\ \E m \in Models : Trying(c, m)
  /\ call' = [call EXCEPT ![c].pc = "record", ![c].seen = now]
  /\ UNCHANGED <<now, breaker, calls, hurt>>

\* last_error = exc; continue
Recorded(s) == [s EXCEPT !.pc = "try", !.plan = Tail(@), !.seen = 0, !.failed = TRUE]

\* The failure is recorded with the reading taken before, and the next candidate
\* is tried.
Failure(c) ==
  \E m \in Models :
    /\ call[c].pc = "record" /\ call[c].plan # <<>> /\ Head(call[c].plan) = m
    /\ breaker' = [breaker EXCEPT ![m] = RecordFailure(@, call[c].seen)]
    /\ hurt' = [d \in Callers |-> hurt[d] \cup {m}]
    /\ call' = [call EXCEPT ![c] = Recorded(call[c])]
    /\ UNCHANGED <<now, calls>>

\* assert last_error is not None; raise last_error
RaiseLastError(c) ==
  /\ call[c].pc = "try" /\ call[c].plan = <<>>
  /\ Return(c)
  /\ UNCHANGED <<now, breaker, calls, hurt>>

Tick ==
  /\ now < MaxTime
  /\ now' = now + 1
  /\ UNCHANGED <<breaker, call, calls, hurt>>

-----------------------------------------------------------------------------

FailoverInit ==
  /\ now = 0
  /\ breaker = [m \in Models |-> NewBreaker]
  /\ call = [c \in Callers |-> NoCall]
  /\ calls = 0
  /\ hurt = [c \in Callers |-> {}]

Proceed(c) ==
  \/ Look(c) \/ Soonest(c)
  \/ Success(c) \/ Refused(c) \/ Fails(c) \/ Failure(c) \/ RaiseLastError(c)

FailoverNext == Tick \/ \E c \in Callers : Begin(c) \/ Proceed(c)

FailoverSpec == FailoverInit /\ [][FailoverNext]_failoverVars

\* Every LLM request has a timeout, so a call under way goes on.
FailoverFairSpec == FailoverSpec /\ \A c \in Callers : WF_failoverVars(Proceed(c))

-----------------------------------------------------------------------------
(* Properties.                                                             *)

Call == [pc : {"idle", "look", "soonest", "try", "record"}, at : 0..MaxTime, next : Models,
         plan : Seq(Models), best : Models, left : Nat, seen : 0..MaxTime,
         forced : BOOLEAN, failed : BOOLEAN]

\* Types, no clock reading lies in the future, and a failure is that of a model.
FailoverTypeOK ==
  /\ now \in 0..MaxTime
  /\ breaker \in [Models -> Breaker]
  /\ \A m \in Models : breaker[m].openedAt <= now
  /\ call \in [Callers -> Call]
  /\ \A c \in Callers : call[c].at <= now /\ call[c].seen <= now
  /\ calls \in 0..MaxCalls
  /\ hurt \in [Callers -> SUBSET Models]

\* A circuit is open or half open exactly when at least Threshold failures were
\* recorded since its last success, by whichever threads.
OpenAtThreshold ==
  \A m \in Models : breaker[m].openedAt # NotOpen <=> breaker[m].failures >= Threshold

\* The assertion of generate_sql: a call that runs out of models has an error
\* to raise, so no call ends without trying a model.
ErrorToRaise ==
  \A c \in Callers : call[c].pc = "try" /\ call[c].plan = <<>> => call[c].failed

\* A call only plans to hit a circuit that had reset when the call began, unless
\* a failure of that model was recorded after the call looked at it (with a
\* reading that may be older than the call), or no circuit looked available.
OpenCircuitsSkipped ==
  \A c \in Callers : ~call[c].forced =>
    \A i \in DOMAIN call[c].plan :
      LET m == call[c].plan[i] IN
        \/ m \in hurt[c]
        \/ breaker[m].openedAt = NotOpen \/ breaker[m].openedAt + Reset <= call[c].at

\* "The model whose circuit reopens soonest is still tried": a call that found no
\* circuit available is on its way to a model that no other beats, but for one
\* that closed, or failed again, after the call compared it.
SoonestIsTried ==
  \A c \in Callers : call[c].forced =>
    \A i \in DOMAIN call[c].plan : \A m \in Models :
      LET b == call[c].plan[i] IN
        \/ RetryIn(breaker[b], call[c].at) <= RetryIn(breaker[m], call[c].at)
        \/ b \in hurt[c] \/ m \in hurt[c]
        \/ breaker[m].openedAt = NotOpen

\* "The chain never locks up": every call ends.
EveryCallEnds == \A c \in Callers : call[c].pc = "look" ~> call[c].pc = "idle"
=============================================================================
