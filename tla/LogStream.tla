----------------------------- MODULE LogStream ------------------------------
(***************************************************************************)
(* The log stream of one job: the executor that writes its log lines and   *)
(* status, and the listeners of GET /api/jobs/{id}/stream.                  *)
(*                                                                         *)
(* In worker mode the executor is another process and a listener polls the *)
(* job_logs table.  In inline mode executor and listeners share a process: *)
(* the executor's thread appends each line to job_logs_cache and pushes it *)
(* to the queues registered in job_queues, which the event loop changes    *)
(* while that thread iterates over them.                                   *)
(*                                                                         *)
(* Log lines are numbered in the order they are written; texts are left    *)
(* out.  Claims, backoff and heartbeats of worker mode are in JobQueue.    *)
(***************************************************************************)
EXTENDS Integers, FiniteSets, Sequences

CONSTANTS
  Listeners,     \* the open stream requests
  MaxLines,      \* bound: lines the pipeline itself logs
  MaxRuns,       \* attempts before a transient failure is final
  MaxCancels,    \* bound: cancel calls
  MaxRequeues,   \* bound: operator requeues
  MaxCrashes     \* bound: crashes of the executing process

ASSUME LogStreamAssumption ==
  /\ {MaxLines, MaxCancels, MaxRequeues, MaxCrashes} \subseteq Nat
  /\ MaxRuns \in Nat \ {0}

VARIABLES
  mode,      \* NL2SQL_JOB_EXECUTION_MODE
  status,    \* the row's status
  lines,     \* how many lines job_logs (worker) or job_logs_cache (inline) holds
  exec,      \* the executor
  queues,    \* job_queues[job_id], <<>> when the key is absent
  sub,       \* sub[l]: listener l
  counts     \* the bounded counters

vars == <<mode, status, lines, exec, queues, sub, counts>>

Final == {"completed", "failed", "cancelled"}
EOF   == 0    \* lines are numbered from 1

\* list: the queue list taken by `for q in job_queues.get(...)` is still the
\* registered one; next: the list index of that iterator, 0 before the lookup.
NoPush == [event |-> EOF, next |-> 0, list |-> FALSE]

Idle(pc) == [pc |-> pc, result |-> "none", push |-> NoPush]

NewSub(pc) == [pc |-> pc, last |-> 0, inbox |-> <<>>, out |-> <<>>]

Init ==
  /\ mode \in {"inline", "worker"}
  /\ status = "pending"
  /\ lines = 0
  /\ exec = Idle("ready")
  /\ queues = <<>>
  /\ sub = [l \in Listeners |-> NewSub("none")]
  /\ counts = [runs |-> 0, cancels |-> 0, requeues |-> 0, crashes |-> 0]

-----------------------------------------------------------------------------
(* The executor: execute_job, and process_job_pipeline around it inline.   *)

\* The executor is about to push an event.
Pushing(e, pc) == [exec EXCEPT !.pc = pc, !.push = [NoPush EXCEPT !.event = e]]

Claim ==
  /\ mode = "worker" /\ exec.pc = "ready" /\ status = "pending"
  /\ status' = "processing"
  /\ exec' = Idle("claimed")
  /\ counts' = [counts EXCEPT !.runs = @ + 1]
  /\ UNCHANGED <<mode, lines, queues, sub>>

\* The row becomes processing whatever it is, cancelled included.
Start ==
  /\ exec.pc = IF mode = "inline" THEN "ready" ELSE "claimed"
  /\ status' = "processing"
  /\ exec' = Idle("run")
  /\ UNCHANGED <<mode, lines, queues, sub, counts>>

\* log_callback: append one line, then (inline) begin to push it.
LogLine(result) ==
  /\ lines' = lines + 1
  /\ exec' = [(IF mode = "inline" THEN Pushing(lines + 1, "push") ELSE exec)
              EXCEPT !.result = result]

PipelineLog ==
  /\ exec.pc = "run" /\ exec.result = "none"
  /\ lines < MaxLines
  /\ LogLine("none")
  /\ UNCHANGED <<mode, status, queues, sub, counts>>

\* on_log and the EOF loop both start by looking the list up, which is after the
\* line was appended, or the final status written.
PushBegin(p) ==
  /\ exec.pc = p /\ exec.push.next = 0
  /\ exec' = [exec EXCEPT !.push = [exec.push EXCEPT !.next = 1, !.list = (queues # <<>>)]]
  /\ UNCHANGED <<mode, status, lines, queues, sub, counts>>

\* Give the event to the next queue of the list as the list is now.
PushNext(p) ==
  /\ exec.pc = p /\ exec.push.list /\ exec.push.next \in DOMAIN queues
  /\ sub' = [sub EXCEPT ![queues[exec.push.next]].inbox = Append(@, exec.push.event)]
  /\ exec' = [exec EXCEPT !.push.next = @ + 1]
  /\ UNCHANGED <<mode, status, lines, queues, counts>>

PushDone(p, then) ==
  /\ exec.pc = p /\ exec.push.next # 0
  /\ ~(exec.push.list /\ exec.push.next \in DOMAIN queues)
  /\ exec' = [exec EXCEPT !.pc = then, !.push = NoPush]
  /\ UNCHANGED <<mode, status, lines, queues, sub, counts>>

\* execute_job is over: EOF to all queues (inline), or back to the poll loop.
Leave == IF mode = "inline" THEN Pushing(EOF, "eof") ELSE Idle("ready")

\* run_pipeline returned: re-read the status, then the closing line ...
PipelineEnds(result) ==
  /\ exec.pc = "run" /\ exec.result = "none"
  /\ IF status = "cancelled"
     THEN exec' = Leave /\ UNCHANGED lines
     ELSE LogLine(result)
  /\ UNCHANGED <<mode, status, queues, sub, counts>>

\* Only a worker retries.
SettledStatus(result) ==
  CASE result = "success"                                -> "completed"
    [] result = "permanent"                              -> "failed"
    [] result = "transient" /\ mode = "inline"           -> "failed"
    [] result = "transient" /\ counts.runs >= MaxRuns    -> "failed"
    [] OTHER                                             -> "pending"

\* ... and the final write.
FinalWrite ==
  /\ exec.pc = "run" /\ exec.result # "none"
  /\ status' = SettledStatus(exec.result)
  /\ exec' = Leave
  /\ UNCHANGED <<mode, lines, queues, sub, counts>>

\* The next start of the API fails what it finds unfinished.
FailAbandoned(s) == IF s \in Final THEN s ELSE "failed"

\* The executing process dies.  Inline that is the API itself: listeners,
\* cache and queues go with it, and its next start fails the orphaned job.
Crash ==
  /\ counts.crashes < MaxCrashes
  /\ counts' = [counts EXCEPT !.crashes = @ + 1]
  /\ \/ /\ mode = "worker" /\ exec.pc \in {"claimed", "run"}
        /\ exec' = Idle("dead")
        /\ UNCHANGED <<status, lines, queues, sub>>
     \/ /\ mode = "inline"
        /\ status' = FailAbandoned(status)
        /\ exec' = Idle("over") /\ lines' = 0 /\ queues' = <<>>
        /\ sub' = [l \in Listeners |->
                     IF sub[l].pc = "none" THEN sub[l] ELSE [sub[l] EXCEPT !.pc = "left"]]
  /\ UNCHANGED mode

\* A later poll of some worker finds the heartbeat of the dead one stale.
Recover ==
  /\ exec.pc = "dead"
  /\ exec' = Idle("ready")
  /\ status' = IF status # "processing" THEN status
               ELSE IF counts.runs >= MaxRuns THEN "failed" ELSE "pending"
  /\ UNCHANGED <<mode, lines, queues, sub, counts>>

-----------------------------------------------------------------------------
(* Cancel and requeue, by other requests.                                  *)

\* The cancel's own status check may be stale by the time it writes.
Cancel ==
  /\ status # "cancelled"
  /\ counts.cancels < MaxCancels
  /\ counts' = [counts EXCEPT !.cancels = @ + 1]
  /\ status' = "cancelled"
  /\ UNCHANGED <<mode, lines, exec, queues, sub>>

\* Inline, a requeued job stays pending: nothing enqueues it again.
Requeue ==
  /\ status = "failed"
  /\ counts.requeues < MaxRequeues
  /\ counts' = [counts EXCEPT !.requeues = @ + 1, !.runs = 0]
  /\ status' = "pending"
  /\ UNCHANGED <<mode, lines, exec, queues, sub>>

-----------------------------------------------------------------------------
(* A listener.                                                             *)

SetSub(l, s) == sub' = [sub EXCEPT ![l] = s]

\* Mutant of Deliver: the line with id last comes again.
DeliverFromLast(s, to) ==
  [s EXCEPT !.out = @ \o [i \in 1..(to - s.last + 1) |-> s.last + i - 1], !.last = to]

Deliver(s, to) ==
  [s EXCEPT !.out = @ \o [i \in 1..(to - s.last) |-> s.last + i], !.last = to]

Open(l) ==
  /\ sub[l].pc = "none"
  /\ SetSub(l, NewSub(IF mode = "inline" THEN "replay" ELSE "read"))
  /\ UNCHANGED <<mode, status, lines, exec, queues, counts>>

\* Worker mode: list_job_logs after the last id seen ...
Read(l) ==
  /\ sub[l].pc = "read"
  /\ SetSub(l, [Deliver(sub[l], lines) EXCEPT !.pc = "status"])
  /\ UNCHANGED <<mode, status, lines, exec, queues, counts>>

\* Mutant of ReadStatus: a cancelled job does not end the stream.
ReadStatusNotCancelled(l) ==
  /\ sub[l].pc = "status"
  /\ SetSub(l, [sub[l] EXCEPT !.pc = IF status \in {"completed", "failed"}
                                     THEN "drain" ELSE "read"])
  /\ UNCHANGED <<mode, status, lines, exec, queues, counts>>

\* ... then the status; the sleep of an unfinished job is not a state ...
ReadStatus(l) ==
  /\ sub[l].pc = "status"
  /\ SetSub(l, [sub[l] EXCEPT !.pc = IF status \in Final THEN "drain" ELSE "read"])
  /\ UNCHANGED <<mode, status, lines, exec, queues, counts>>

\* Mutant of Drain: a final status ends the stream at once.
DrainNothing(l) ==
  /\ sub[l].pc = "drain"
  /\ SetSub(l, [sub[l] EXCEPT !.pc = "closed"])
  /\ UNCHANGED <<mode, status, lines, exec, queues, counts>>

\* ... and the lines written between those two reads.
Drain(l) ==
  /\ sub[l].pc = "drain"
  /\ SetSub(l, [Deliver(sub[l], lines) EXCEPT !.pc = "closed"])
  /\ UNCHANGED <<mode, status, lines, exec, queues, counts>>

\* Inline: the cache, read while it grows ...
Replay(l) ==
  /\ sub[l].pc = "replay"
  /\ SetSub(l, IF sub[l].last < lines THEN Deliver(sub[l], sub[l].last + 1)
               ELSE [sub[l] EXCEPT !.pc = "check"])
  /\ UNCHANGED <<mode, status, lines, exec, queues, counts>>

\* ... then the status, in another thread ...
Check(l) ==
  /\ sub[l].pc = "check"
  /\ SetSub(l, [sub[l] EXCEPT !.pc = IF status \in Final THEN "closed" ELSE "register"])
  /\ UNCHANGED <<mode, status, lines, exec, queues, counts>>

\* ... then a queue of its own.
Register(l) ==
  /\ sub[l].pc = "register"
  /\ SetSub(l, [sub[l] EXCEPT !.pc = "listen"])
  /\ queues' = Append(queues, l)
  /\ UNCHANGED <<mode, status, lines, exec, counts>>

\* Mutant of Take: the newest event first.
TakeLast(l) ==
  /\ sub[l].pc = "listen" /\ sub[l].inbox # <<>>
  /\ LET n == Len(sub[l].inbox)
         e == sub[l].inbox[n]
     IN  SetSub(l, [sub[l] EXCEPT !.inbox = SubSeq(@, 1, n - 1),
                                  !.pc    = IF e = EOF THEN "eof" ELSE @,
                                  !.out   = IF e = EOF THEN @ ELSE Append(@, e)])
  /\ UNCHANGED <<mode, status, lines, exec, queues, counts>>

Take(l) ==
  /\ sub[l].pc = "listen" /\ sub[l].inbox # <<>>
  /\ LET e == Head(sub[l].inbox) IN
       SetSub(l, [sub[l] EXCEPT !.inbox = Tail(@),
                                !.pc    = IF e = EOF THEN "eof" ELSE @,
                                !.out   = IF e = EOF THEN @ ELSE Append(@, e)])
  /\ UNCHANGED <<mode, status, lines, exec, queues, counts>>

Without(s, i) == [k \in 1..(Len(s) - 1) |-> s[IF k < i THEN k ELSE k + 1]]

\* The finally block: after EOF, or when the client disconnects.  An emptied
\* list leaves the dictionary, and a push in progress keeps the old one.
Unregister(l) ==
  /\ sub[l].pc \in {"listen", "eof"}
  /\ \E i \in DOMAIN queues : queues[i] = l /\ queues' = Without(queues, i)
  /\ SetSub(l, [sub[l] EXCEPT !.pc = IF @ = "eof" THEN "closed" ELSE "left", !.inbox = <<>>])
  /\ exec' = IF queues' = <<>> THEN [exec EXCEPT !.push.list = FALSE] ELSE exec
  /\ UNCHANGED <<mode, status, lines, counts>>

-----------------------------------------------------------------------------

Execute ==
  \/ Claim \/ Start \/ PipelineLog \/ FinalWrite \/ Recover
  \/ \E result \in {"success", "transient", "permanent"} : PipelineEnds(result)
  \/ PushBegin("push") \/ PushNext("push") \/ PushDone("push", "run")
  \/ PushBegin("eof") \/ PushNext("eof") \/ PushDone("eof", "over")

Listen(l) ==
  \/ Read(l) \/ ReadStatus(l) \/ Drain(l)
  \/ Replay(l) \/ Check(l) \/ Register(l) \/ Take(l)
  \/ sub[l].pc = "eof" /\ Unregister(l)

Next ==
  \/ Execute \/ Crash \/ Cancel \/ Requeue
  \/ \E l \in Listeners : Open(l) \/ Listen(l) \/ Unregister(l)

Spec == Init /\ [][Next]_vars

\* The executing process keeps running (the pipeline ends, workers restart and
\* poll) and so do the generators.  Nothing is assumed of clients or crashes.
Fairness ==
  /\ WF_vars(Execute)
  /\ \A l \in Listeners : WF_vars(Listen(l))

FairSpec == Spec /\ Fairness

-----------------------------------------------------------------------------
(* Properties.                                                             *)

\* Types, and push indices that fit the list being iterated.
TypeOK ==
  /\ mode \in {"inline", "worker"}
  /\ status \in {"pending", "processing"} \cup Final
  /\ lines \in Nat
  /\ exec.pc \in {"ready", "claimed", "run", "push", "eof", "over", "dead"}
  /\ exec.result \in {"none", "success", "transient", "permanent"}
  /\ exec.push.event \in 0..lines
  /\ queues \in Seq(Listeners)
  /\ \A l \in Listeners : sub[l].last \in 0..lines \/ sub[l].pc = "left"

Closed(l) == sub[l].pc = "closed"

\* In worker mode a listener has seen each line up to some line exactly once,
\* in order, whichever reads and writes interleave.
WorkerStreamExact ==
  mode = "worker" =>
    \A l \in Listeners : sub[l].out = [i \in 1..sub[l].last |-> i]

\* In worker mode, when nobody cancels or requeues the job, a stream that the
\* server ended has delivered every line of the job, through retries and crashes.
WorkerStreamComplete ==
  mode = "worker" /\ counts.cancels = 0 /\ counts.requeues = 0 =>
    \A l \in Listeners : Closed(l) => sub[l].last = lines

\* In inline mode lines come in order, and at most one of them twice: the one
\* that was being pushed while the listener registered.
InlineStreamOrdered ==
  mode = "inline" =>
    \A l \in Listeners : LET out == sub[l].out IN
      /\ \A i \in 1..(Len(out) - 1) : out[i] <= out[i + 1]
      /\ Cardinality({i \in 1..(Len(out) - 1) : out[i] = out[i + 1]}) <= 1

\* In worker mode every stream ends, whatever happens to the job and its workers.
WorkerStreamEnds ==
  \A l \in Listeners :
    mode = "worker" /\ sub[l].pc = "read" ~> sub[l].pc = "closed"

=============================================================================
