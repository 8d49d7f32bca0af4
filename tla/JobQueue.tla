------------------------------ MODULE JobQueue ------------------------------
(***************************************************************************)
(* The job queue of the backend in worker mode: the `jobs` table of the    *)
(* app database, the worker processes that claim, run and finish jobs, the *)
(* API calls that create, cancel and requeue them, and time.               *)
(*                                                                         *)
(* Every SQL transaction is one step; a worker's Python code between two   *)
(* transactions is its program counter.  A row keeps the columns that      *)
(* decide what happens next; texts, results and traces are left out.       *)
(***************************************************************************)
EXTENDS Integers, FiniteSets

CONSTANTS
  NJobs,          \* bound: how many jobs the API ever creates
  Workers,        \* the worker processes
  NoWorker,       \* the NULL of the worker_id column
  Priority,       \* Priority[j]: the priority job j was created with
  MaxAttempts,    \* NL2SQL_JOB_MAX_ATTEMPTS
  MaxConcurrent,  \* NL2SQL_JOB_MAX_CONCURRENT, 0 for no cap
  HeartbeatLoss,  \* whether a worker that still runs a job may miss its beats
  MaxCrashes,     \* bound: worker crashes in a behaviour
  MaxRequeues     \* bound: operator requeues in a behaviour

Jobs  == 1..NJobs
NoJob == 0

ASSUME JobQueueAssumption ==
  /\ NJobs \in Nat \ {0}
  /\ NoWorker \notin Workers
  /\ Priority \in [Jobs -> Int]
  /\ MaxAttempts \in Nat \ {0}
  /\ MaxConcurrent \in Nat
  /\ HeartbeatLoss \in BOOLEAN
  /\ MaxCrashes \in Nat
  /\ MaxRequeues \in Nat

VARIABLES
  rows,        \* the jobs table: rows[j] is the row of job j
  wk,          \* wk[w]: where worker w is in run_once and what it remembers
  cancelling,  \* jobs whose cancel request has passed its status check
  crashes,     \* crashes so far
  requeues     \* requeues so far

vars == <<rows, wk, cancelling, crashes, requeues>>

Final    == {"completed", "failed", "cancelled"}
Statuses == {"absent", "pending", "processing"} \cup Final
Outcomes == {"success", "transient", "permanent", "exception"}
Busy     == {"start", "run", "write"}

\* stale is "the heartbeat, or the update time when there is none, is older
\* than the staleness threshold"; backoff is "next_attempt_at is in the future".
Row == [status : Statuses, owner : Workers \cup {NoWorker}, attempts : Nat,
        backoff : BOOLEAN, stale : BOOLEAN, dead : BOOLEAN]

WorkerState == [pc : {"down", "poll", "claim"} \cup Busy, job : Jobs \cup {NoJob},
                tries : Nat, out : Outcomes \cup {"none"}]

-----------------------------------------------------------------------------
(* The statements that write a row.                                        *)

AbsentRow == [status |-> "absent", owner |-> NoWorker, attempts |-> 0,
              backoff |-> FALSE, stale |-> FALSE, dead |-> FALSE]

NewRow == [AbsentRow EXCEPT !.status = "pending"]

\* The unconditional UPDATE by id.  It renews updated_at, which counts as the
\* row's age only where there is no heartbeat.
SetStatus(r, s) == [r EXCEPT !.status = s, !.stale = @ /\ r.owner # NoWorker]

ClaimRow(r, w) == [r EXCEPT !.status = "processing", !.owner = w, !.stale = FALSE,
                            !.attempts = @ + 1, !.backoff = FALSE]

RetryRow(r) == [r EXCEPT !.status = "pending", !.owner = NoWorker,
                         !.backoff = TRUE, !.stale = FALSE]

DeadRow(r) == [SetStatus(r, "failed") EXCEPT !.dead = TRUE, !.backoff = FALSE]

RequeueRow(r) == [r EXCEPT !.status = "pending", !.owner = NoWorker, !.attempts = 0,
                           !.backoff = FALSE, !.stale = FALSE, !.dead = FALSE]

\* What to do with a failed run that was attempt number n.
Decision(n, transient) ==
  IF ~transient THEN "fail" ELSE IF n < MaxAttempts THEN "retry" ELSE "dead_letter"

\* Mutant of Recoverable: any stale row is recovered, whatever its status.
RecoverableAnyStatus(r) == r.stale

Recoverable(r) == r.status = "processing" /\ r.stale

\* Mutant of RecoverRow: a stale row with no attempts left is passed over.
RecoverRowOnlyRetries(r) ==
  IF Decision(r.attempts, TRUE) = "retry" THEN RetryRow(r) ELSE r

RecoverRow(r) ==
  LET n == IF r.attempts = 0 THEN 1 ELSE r.attempts
  IN  IF Decision(n, TRUE) = "retry"
      THEN RetryRow(r)
      ELSE [SetStatus(r, "failed") EXCEPT !.dead = TRUE]

\* Mutant of Requeueable: any settled job may be put back.
RequeueableFinal(r) == r.status \in Final

Requeueable(r) == r.status = "failed"

-----------------------------------------------------------------------------
(* Which job the next claim takes: ORDER BY priority DESC, created_at.  Job *)
(* numbers follow the order of creation.                                    *)

Claimable(r) == r.status = "pending" /\ ~r.backoff

Precedes(j, k) == Priority[j] > Priority[k] \/ (Priority[j] = Priority[k] /\ j < k)

NextDue(j) ==
  /\ Claimable(rows[j])
  /\ \A k \in Jobs \ {j} : Claimable(rows[k]) => Precedes(j, k)

Processing == {j \in Jobs : rows[j].status = "processing"}
AtCap == MaxConcurrent > 0 /\ Cardinality(Processing) >= MaxConcurrent

\* The heartbeat thread of some worker keeps row j fresh.
Beating(j) == \E w \in Workers : wk[w].job = j /\ rows[j].owner = w

-----------------------------------------------------------------------------
(* The API process.                                                        *)

Create(j) ==
  /\ rows[j].status = "absent"
  /\ \A k \in 1..(j - 1) : rows[k].status # "absent"
  /\ rows' = [rows EXCEPT ![j] = NewRow]
  /\ UNCHANGED <<wk, cancelling, crashes, requeues>>

\* cancel_job_execution reads the status ...
CancelCheck(j) ==
  /\ rows[j].status \in {"pending", "processing"}
  /\ cancelling' = cancelling \cup {j}
  /\ UNCHANGED <<rows, wk, crashes, requeues>>

\* ... and later writes by id, whatever the row has become.
CancelWrite(j) ==
  /\ j \in cancelling
  /\ cancelling' = cancelling \ {j}
  /\ rows' = [rows EXCEPT ![j] = SetStatus(@, "cancelled")]
  /\ UNCHANGED <<wk, crashes, requeues>>

Requeue(j) ==
  /\ Requeueable(rows[j])
  /\ requeues < MaxRequeues
  /\ requeues' = requeues + 1
  /\ rows' = [rows EXCEPT ![j] = RequeueRow(@)]
  /\ UNCHANGED <<wk, cancelling, crashes>>

-----------------------------------------------------------------------------
(* A worker.                                                               *)

Idle(pc) == [pc |-> pc, job |-> NoJob, tries |-> 0, out |-> "none"]

\* recover_stale_jobs: all stale rows in one transaction.
Recover(w) ==
  /\ wk[w].pc = "poll"
  /\ rows' = [j \in Jobs |-> IF Recoverable(rows[j]) THEN RecoverRow(rows[j]) ELSE rows[j]]
  /\ wk' = [wk EXCEPT ![w] = Idle("claim")]
  /\ UNCHANGED <<cancelling, crashes, requeues>>

\* claim_next_job found a job.  The returned copy of the row is read right
\* after the commit; the attempt number in it stays with the failure hook.
Claim(w) ==
  /\ wk[w].pc = "claim"
  /\ ~AtCap
  /\ \E j \in Jobs :
       /\ NextDue(j)
       /\ rows' = [rows EXCEPT ![j] = ClaimRow(@, w)]
       /\ wk' = [wk EXCEPT ![w] = [pc |-> "start", job |-> j,
                                   tries |-> rows[j].attempts + 1, out |-> "none"]]
  /\ UNCHANGED <<cancelling, crashes, requeues>>

\* claim_next_job returned None: wait for the next poll.
NoClaim(w) ==
  /\ wk[w].pc = "claim"
  /\ AtCap \/ \A j \in Jobs : ~Claimable(rows[j])
  /\ wk' = [wk EXCEPT ![w] = Idle("poll")]
  /\ UNCHANGED <<rows, cancelling, crashes, requeues>>

\* execute_job begins: the row becomes processing whatever it is by now.
Start(w) ==
  /\ wk[w].pc = "start"
  /\ rows' = [rows EXCEPT ![wk[w].job] = SetStatus(@, "processing")]
  /\ wk' = [wk EXCEPT ![w].pc = "run"]
  /\ UNCHANGED <<cancelling, crashes, requeues>>

\* run_pipeline ended with outcome o and the executor re-reads the status: a
\* cancelled job is left alone, any other goes on to its final write.
Finish(w, o) ==
  /\ wk[w].pc = "run"
  /\ wk[w].out \in {"none", o}
  /\ wk' = [wk EXCEPT ![w] = IF rows[wk[w].job].status = "cancelled"
                             THEN Idle("poll")
                             ELSE [@ EXCEPT !.pc = "write", !.out = o]]
  /\ UNCHANGED <<rows, cancelling, crashes, requeues>>

FinalRow(r, n, o) ==
  IF o = "success" THEN SetStatus(r, "completed")
  ELSE CASE Decision(n, o = "transient") = "retry"       -> RetryRow(r)
         [] Decision(n, o = "transient") = "dead_letter" -> DeadRow(r)
         [] Decision(n, o = "transient") = "fail"        -> SetStatus(r, "failed")

\* The final write, by id only: neither the owner nor the status is tested.
Write(w) ==
  /\ wk[w].pc = "write"
  /\ rows' = [rows EXCEPT ![wk[w].job] = FinalRow(@, wk[w].tries, wk[w].out)]
  /\ wk' = [wk EXCEPT ![w] = Idle("poll")]
  /\ UNCHANGED <<cancelling, crashes, requeues>>

\* A database call raises (locked for longer than the busy timeout).  The
\* final write falls into the executor's except branch, which re-reads the
\* status and writes `failed`; any other leaves execute_job and the row as it is.
DbError(w) ==
  /\ \/ /\ wk[w].pc = "write" /\ wk[w].out # "exception"
        /\ wk' = [wk EXCEPT ![w].pc = "run", ![w].out = "exception"]
     \/ /\ \/ wk[w].pc = "start"
           \/ wk[w].pc \in {"run", "write"} /\ wk[w].out = "exception"
        /\ wk' = [wk EXCEPT ![w] = Idle("poll")]
  /\ UNCHANGED <<rows, cancelling, crashes, requeues>>

\* touch_heartbeat matches only a processing row this worker owns.
Beat(w) ==
  /\ wk[w].job # NoJob
  /\ rows[wk[w].job].owner = w /\ rows[wk[w].job].status = "processing"
  /\ rows' = [rows EXCEPT ![wk[w].job].stale = FALSE]
  /\ UNCHANGED <<wk, cancelling, crashes, requeues>>

Crash(w) ==
  /\ wk[w].pc # "down"
  /\ crashes < MaxCrashes
  /\ crashes' = crashes + 1
  /\ wk' = [wk EXCEPT ![w] = Idle("down")]
  /\ UNCHANGED <<rows, cancelling, requeues>>

\* A restarted process draws a new worker_id.  Reusing the name changes
\* nothing: ownership only matters to a worker that still holds the job.
Restart(w) ==
  /\ wk[w].pc = "down"
  /\ wk' = [wk EXCEPT ![w] = Idle("poll")]
  /\ UNCHANGED <<rows, cancelling, crashes, requeues>>

-----------------------------------------------------------------------------
(* Time.                                                                   *)

BackoffElapses(j) ==
  /\ rows[j].backoff
  /\ rows' = [rows EXCEPT ![j].backoff = FALSE]
  /\ UNCHANGED <<wk, cancelling, crashes, requeues>>

\* Mutant of GoStale: the row of a live worker can go stale.
GoStaleAnyway(j) ==
  /\ rows[j].status = "processing" /\ ~rows[j].stale
  /\ rows' = [rows EXCEPT ![j].stale = TRUE]
  /\ UNCHANGED <<wk, cancelling, crashes, requeues>>

\* A worker beats five times per staleness period, so the row of a live one
\* stays fresh unless its beat thread died (touch_heartbeat raised) or the
\* process was suspended: HeartbeatLoss.
GoStale(j) ==
  /\ rows[j].status = "processing" /\ ~rows[j].stale
  /\ HeartbeatLoss \/ ~Beating(j)
  /\ rows' = [rows EXCEPT ![j].stale = TRUE]
  /\ UNCHANGED <<wk, cancelling, crashes, requeues>>

-----------------------------------------------------------------------------

Init ==
  /\ rows = [j \in Jobs |-> AbsentRow]
  /\ wk = [w \in Workers |-> Idle("poll")]
  /\ cancelling = {}
  /\ crashes = 0
  /\ requeues = 0

Step(w) ==
  \/ Recover(w) \/ Claim(w) \/ NoClaim(w) \/ Start(w) \/ Write(w)
  \/ \E o \in Outcomes : Finish(w, o)

Api(j) == Create(j) \/ CancelCheck(j) \/ CancelWrite(j) \/ Requeue(j)

Next ==
  \/ \E w \in Workers : Step(w) \/ DbError(w) \/ Beat(w) \/ Crash(w) \/ Restart(w)
  \/ \E j \in Jobs : Api(j) \/ BackoffElapses(j) \/ GoStale(j)

Spec == Init /\ [][Next]_vars

\* Worker loops keep running (run_forever catches everything), containers are
\* restarted, the pipeline ends (every LLM call has a timeout) and time passes.
\* Nothing is assumed of clients, operators or crashes; of the database, only that
\* the statements of Step do not fail for ever.
Fairness ==
  /\ \A w \in Workers : WF_vars(Step(w)) /\ WF_vars(Restart(w))
  /\ \A j \in Jobs : WF_vars(BackoffElapses(j)) /\ WF_vars(GoStale(j))

FairSpec == Spec /\ Fairness

-----------------------------------------------------------------------------
(* The promise the queue implements: WorkQueue.  A job is leased while some *)
(* live worker is inside execute_job for it, whatever its row says then.    *)

Leased(j) == \E w \in Workers : wk[w].job = j

Resting(status) ==
  CASE status = "absent"     -> "absent"
    [] status = "pending"    -> "queued"
    [] status = "processing" -> "stranded"
    [] status \in Final      -> "settled"

Phase(j) == IF Leased(j) THEN "leased" ELSE Resting(rows[j].status)

Promise == INSTANCE WorkQueue WITH
  MaxUses <- MaxAttempts,
  phase   <- [j \in Jobs |-> Phase(j)],
  uses    <- [j \in Jobs |-> rows[j].attempts]

-----------------------------------------------------------------------------
(* Properties.                                                             *)

\* Types, and a worker has a job exactly while it is inside execute_job.
TypeOK ==
  /\ rows \in [Jobs -> Row]
  /\ wk \in [Workers -> WorkerState]
  /\ \A w \in Workers : wk[w].pc \in Busy <=> wk[w].job # NoJob
  /\ cancelling \subseteq Jobs
  /\ crashes \in 0..MaxCrashes
  /\ requeues \in 0..MaxRequeues

\* No two live workers are ever inside execute_job for the same job, through
\* claims, stale recovery, requeues, cancellations and crashes.
MutualExclusion ==
  \A v, w \in Workers : wk[v].job = wk[w].job /\ wk[v].job # NoJob => v = w

\* Between two operator requeues a job is handed out at most MaxAttempts times.
RetryBudget == \A j \in Jobs : rows[j].attempts <= MaxAttempts

\* A dead-letter mark is only ever on a job that used up its attempts and has
\* not been put back into the queue.
DeadLetterExhausted ==
  \A j \in Jobs : rows[j].dead =>
    rows[j].attempts >= MaxAttempts /\ rows[j].status \in {"failed", "cancelled"}

\* A completed job never runs again: only a cancel request that had already
\* passed its check can still touch it.
CompletedIsFinal ==
  [][\A j \in Jobs : rows[j].status = "completed" =>
       rows'[j].status = "completed" \/ (rows'[j].status = "cancelled" /\ j \in cancelling)]_vars

\* A cancelled job is revived only by a worker that had read its row before:
\* one about to start it or one about to write its result.
CancelLosesOnlyToWorker ==
  [][\A j \in Jobs : rows[j].status = "cancelled" /\ rows'[j].status # "cancelled" =>
       \E w \in Workers : wk[w].job = j /\ wk[w].pc \in {"start", "write"}]_vars

\* Every queued job is eventually settled, whatever workers crash and whatever
\* database calls fail on the way.
EveryJobSettles ==
  \A j \in Jobs : rows[j].status = "pending" ~> rows[j].status \in Final

\* The queue implements WorkQueue: seen from outside, cancel races, late
\* writes, crashes and failed database calls are leases that end properly.
ImplementsWorkQueue == Promise!Spec

\* The API answers a cancel with success; the executor's comments and tests
\* say a cancelled job is not overwritten.
CancellationSticks ==
  [][\A j \in Jobs : rows[j].status = "cancelled" => rows'[j].status = "cancelled"]_vars

=============================================================================
