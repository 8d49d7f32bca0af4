--------------------------- MODULE JobQueueProofs ---------------------------
(***************************************************************************)
(* Proofs about JobQueue, for any number of jobs, workers and attempts.    *)
(* TypeOK needs no assumption.  The other theorems assume ~HeartbeatLoss:  *)
(* a row goes stale only when no live worker holds the job.                *)
(***************************************************************************)
EXTENDS JobQueue, TLAPS

(* The typing of every row-writing statement. *)

LEMMA RowTypes ==
  ASSUME NEW r \in Row
  PROVE  /\ \A s \in Statuses : SetStatus(r, s) \in Row
         /\ \A w \in Workers : ClaimRow(r, w) \in Row
         /\ RetryRow(r) \in Row
         /\ DeadRow(r) \in Row
         /\ RequeueRow(r) \in Row
         /\ RecoverRow(r) \in Row
<1>1. \A s \in Statuses : SetStatus(r, s) \in Row
  BY DEF SetStatus, Row
<1>2. ASSUME NEW w \in Workers PROVE ClaimRow(r, w) \in Row
  <2>1. r.attempts + 1 \in Nat
    BY DEF Row
  <2> QED
    BY <2>1 DEF ClaimRow, Row, Statuses
<1>3. RetryRow(r) \in Row
  BY DEF RetryRow, Row, Statuses
<1>4. SetStatus(r, "failed") \in Row
  BY <1>1 DEF Statuses, Final
<1>5. DeadRow(r) \in Row
  BY <1>4 DEF DeadRow, Row
<1>6. RequeueRow(r) \in Row
  BY DEF RequeueRow, Row, Statuses
<1>7. RecoverRow(r) \in Row
  BY <1>3, <1>4 DEF RecoverRow, Row
<1> QED
  BY <1>1, <1>2, <1>3, <1>5, <1>6, <1>7

LEMMA FinalRowCases ==
  ASSUME NEW r \in Row, NEW n \in Nat, NEW o
  PROVE  \/ FinalRow(r, n, o) = SetStatus(r, "completed")
         \/ FinalRow(r, n, o) = RetryRow(r) /\ n < MaxAttempts
         \/ FinalRow(r, n, o) = DeadRow(r) /\ n >= MaxAttempts
         \/ FinalRow(r, n, o) = SetStatus(r, "failed")
<1> MaxAttempts \in Nat
  BY JobQueueAssumption
<1>1. CASE o = "success"
  BY <1>1 DEF FinalRow
<1>2. CASE o = "transient"
  BY <1>2 DEF FinalRow, Decision
<1>3. CASE o \notin {"success", "transient"}
  BY <1>3 DEF FinalRow, Decision
<1> QED
  BY <1>1, <1>2, <1>3

LEMMA FinalRowType ==
  ASSUME NEW r \in Row, NEW n \in Nat, NEW o
  PROVE  FinalRow(r, n, o) \in Row
BY FinalRowCases, RowTypes DEF Statuses, Final

-----------------------------------------------------------------------------
(* Type correctness. *)

LEMMA InitTypes == Init => TypeOK
<1> SUFFICES ASSUME Init PROVE TypeOK
  OBVIOUS
<1>1. AbsentRow \in Row
  BY DEF AbsentRow, Row, Statuses
<1>2. rows \in [Jobs -> Row]
  BY <1>1 DEF Init
<1>3. Idle("poll") \in WorkerState
  BY DEF Idle, WorkerState
<1>4. wk \in [Workers -> WorkerState] /\ \A w \in Workers : wk[w].pc \in Busy <=> wk[w].job # NoJob
  BY <1>3 DEF Init, Idle, Busy
<1> QED
  BY <1>2, <1>4, JobQueueAssumption DEF Init, TypeOK

LEMMA NextTypes == TypeOK /\ [Next]_vars => TypeOK'
<1> SUFFICES ASSUME TypeOK, [Next]_vars PROVE TypeOK'
  OBVIOUS
<1> USE DEF TypeOK
<1>a. ASSUME NEW w \in Workers, NEW pc \in {"down", "poll", "claim"},
             wk' = [wk EXCEPT ![w] = Idle(pc)]
      PROVE  /\ wk' \in [Workers -> WorkerState]
             /\ \A v \in Workers : wk'[v].pc \in Busy <=> wk'[v].job # NoJob
  BY <1>a DEF Idle, WorkerState, Busy
<1>j. ASSUME NEW w \in Workers, wk[w].pc \in Busy
      PROVE  wk[w].job \in Jobs
  BY <1>j DEF WorkerState, Busy
<1>1. ASSUME NEW w \in Workers, Recover(w) PROVE TypeOK'
  <2>1. rows' \in [Jobs -> Row]
    BY <1>1, RowTypes DEF Recover
  <2> QED
    BY <1>1, <1>a, <2>1 DEF Recover
<1>2. ASSUME NEW w \in Workers, Claim(w) PROVE TypeOK'
  <2>1. PICK j \in Jobs :
          /\ rows' = [rows EXCEPT ![j] = ClaimRow(@, w)]
          /\ wk' = [wk EXCEPT ![w] = [pc |-> "start", job |-> j,
                                      tries |-> rows[j].attempts + 1, out |-> "none"]]
    BY <1>2 DEF Claim
  <2>2. rows' \in [Jobs -> Row]
    BY <2>1, RowTypes
  <2>3. [pc |-> "start", job |-> j, tries |-> rows[j].attempts + 1, out |-> "none"] \in WorkerState
    BY DEF WorkerState, Busy, Row
  <2>4. j # NoJob
    BY DEF Jobs, NoJob
  <2>5. /\ wk' \in [Workers -> WorkerState]
        /\ \A v \in Workers : wk'[v].pc \in Busy <=> wk'[v].job # NoJob
    BY <2>1, <2>3, <2>4 DEF Busy
  <2> QED
    BY <1>2, <2>2, <2>5 DEF Claim
<1>3. ASSUME NEW w \in Workers, NoClaim(w) PROVE TypeOK'
  BY <1>3, <1>a DEF NoClaim
<1>4. ASSUME NEW w \in Workers, Start(w) PROVE TypeOK'
  <2>1. wk[w].job \in Jobs
    BY <1>4, <1>j DEF Start, Busy
  <2>2. rows' \in [Jobs -> Row]
    BY <1>4, <2>1, RowTypes DEF Start, Statuses
  <2>3. [wk[w] EXCEPT !.pc = "run"] \in WorkerState
    BY DEF WorkerState, Busy
  <2>4. /\ wk' \in [Workers -> WorkerState]
        /\ \A v \in Workers : wk'[v].pc \in Busy <=> wk'[v].job # NoJob
    BY <1>4, <2>3 DEF Start, Busy, WorkerState
  <2> QED
    BY <1>4, <2>2, <2>4 DEF Start
<1>5. ASSUME NEW w \in Workers, Write(w) PROVE TypeOK'
  <2>1. wk[w].job \in Jobs
    BY <1>5, <1>j DEF Write, Busy
  <2>2. wk[w].tries \in Nat
    BY DEF WorkerState
  <2>3. FinalRow(rows[wk[w].job], wk[w].tries, wk[w].out) \in Row
    BY <2>1, <2>2, FinalRowType
  <2>4. rows' \in [Jobs -> Row]
    BY <1>5, <2>1, <2>3 DEF Write
  <2> QED
    BY <1>5, <1>a, <2>4 DEF Write
<1>6. ASSUME NEW w \in Workers, NEW o \in Outcomes, Finish(w, o) PROVE TypeOK'
  <2>1. CASE rows[wk[w].job].status = "cancelled"
    BY <1>6, <1>a, <2>1 DEF Finish
  <2>2. CASE rows[wk[w].job].status # "cancelled"
    <3>1. [wk[w] EXCEPT !.pc = "write", !.out = o] \in WorkerState
      BY DEF WorkerState, Busy
    <3>2. /\ wk' \in [Workers -> WorkerState]
          /\ \A v \in Workers : wk'[v].pc \in Busy <=> wk'[v].job # NoJob
      BY <1>6, <2>2, <3>1 DEF Finish, Busy, WorkerState
    <3> QED
      BY <1>6, <3>2 DEF Finish
  <2> QED
    BY <2>1, <2>2
<1>7. ASSUME NEW w \in Workers, DbError(w) PROVE TypeOK'
  <2>1. CASE wk' = [wk EXCEPT ![w] = Idle("poll")]
    BY <1>7, <1>a, <2>1 DEF DbError
  <2>2. CASE wk[w].pc = "write" /\ wk' = [wk EXCEPT ![w].pc = "run", ![w].out = "exception"]
    <3>1. [wk[w] EXCEPT !.pc = "run", !.out = "exception"] \in WorkerState
      BY DEF WorkerState, Busy, Outcomes
    <3>2. /\ wk' \in [Workers -> WorkerState]
          /\ \A v \in Workers : wk'[v].pc \in Busy <=> wk'[v].job # NoJob
      BY <2>2, <3>1 DEF Busy, WorkerState
    <3> QED
      BY <1>7, <3>2 DEF DbError
  <2> QED
    BY <1>7, <2>1, <2>2 DEF DbError
<1>8. ASSUME NEW w \in Workers, Beat(w) PROVE TypeOK'
  <2>1. wk[w].job \in Jobs
    BY <1>8 DEF Beat, WorkerState
  <2>2. rows' \in [Jobs -> Row]
    BY <1>8, <2>1 DEF Beat, Row
  <2> QED
    BY <1>8, <2>2 DEF Beat
<1>9. ASSUME NEW w \in Workers, Crash(w) PROVE TypeOK'
  <2>1. crashes' \in 0..MaxCrashes
    BY <1>9, JobQueueAssumption DEF Crash
  <2> QED
    BY <1>9, <1>a, <2>1 DEF Crash
<1>10. ASSUME NEW w \in Workers, Restart(w) PROVE TypeOK'
  BY <1>10, <1>a DEF Restart
<1>11. ASSUME NEW j \in Jobs, Create(j) PROVE TypeOK'
  <2>1. NewRow \in Row
    BY DEF NewRow, AbsentRow, Row, Statuses
  <2> QED
    BY <1>11, <2>1 DEF Create
<1>12. ASSUME NEW j \in Jobs, CancelCheck(j) PROVE TypeOK'
  BY <1>12 DEF CancelCheck
<1>13. ASSUME NEW j \in Jobs, CancelWrite(j) PROVE TypeOK'
  <2>1. rows' \in [Jobs -> Row]
    BY <1>13, RowTypes DEF CancelWrite, Statuses, Final
  <2> QED
    BY <1>13, <2>1 DEF CancelWrite
<1>14. ASSUME NEW j \in Jobs, Requeue(j) PROVE TypeOK'
  <2>1. rows' \in [Jobs -> Row]
    BY <1>14, RowTypes DEF Requeue
  <2> QED
    BY <1>14, <2>1, JobQueueAssumption DEF Requeue
<1>15. ASSUME NEW j \in Jobs, BackoffElapses(j) PROVE TypeOK'
  BY <1>15 DEF BackoffElapses, Row
<1>16. ASSUME NEW j \in Jobs, GoStale(j) PROVE TypeOK'
  BY <1>16 DEF GoStale, Row
<1>17. CASE UNCHANGED vars
  BY <1>17 DEF vars
<1> QED
  BY <1>1, <1>2, <1>3, <1>4, <1>5, <1>6, <1>7, <1>8, <1>9, <1>10, <1>11, <1>12,
     <1>13, <1>14, <1>15, <1>16, <1>17 DEF Next, Step, Api

\* Every behaviour of the queue keeps the table and the workers well typed.
THEOREM Typing == Spec => []TypeOK
BY InitTypes, NextTypes, PTL DEF Spec

-----------------------------------------------------------------------------
(***************************************************************************)
(* The inductive invariant behind exclusion and the retry budget.  A held  *)
(* row is what the worker inside execute_job left: still owned by it,      *)
(* fresh, processing or cancelled, at the attempt the worker remembers.    *)
(* So recovery, requeue and claim, whose guards need a stale, failed or    *)
(* pending row, never touch it.                                            *)
(***************************************************************************)

Held(r, w, n) ==
  /\ r.owner = w
  /\ r.status \in {"processing", "cancelled"}
  /\ ~r.stale
  /\ ~r.dead
  /\ r.attempts = n /\ n >= 1

Accounted(r) ==
  /\ r.status = "absent" => r.attempts = 0
  /\ r.attempts <= MaxAttempts
  /\ r.status = "pending" => r.attempts < MaxAttempts /\ ~r.dead
  /\ r.status = "processing" => r.attempts >= 1 /\ ~r.dead
  /\ r.dead => r.attempts >= MaxAttempts /\ r.status \in {"failed", "cancelled"}

HeldInv == \A w \in Workers : wk[w].job # NoJob => Held(rows[wk[w].job], w, wk[w].tries)

IInv ==
  /\ TypeOK
  /\ \A j \in Jobs : Accounted(rows[j])
  /\ HeldInv

LEMMA InitIInv == Init => IInv
<1> SUFFICES ASSUME Init PROVE IInv
  OBVIOUS
<1>1. \A j \in Jobs : Accounted(rows[j])
  BY JobQueueAssumption DEF Init, AbsentRow, Accounted
<1>2. HeldInv
  BY DEF Init, Idle, HeldInv
<1> QED
  BY <1>1, <1>2, InitTypes DEF IInv

\* The steps of one row, each from a row its guard allows.
LEMMA RowSteps ==
  ASSUME NEW r \in Row, Accounted(r)
  PROVE  /\ r.status = "pending" => \A w \in Workers :
              Accounted(ClaimRow(r, w)) /\ Held(ClaimRow(r, w), w, r.attempts + 1)
         /\ Recoverable(r) => Accounted(RecoverRow(r))
         /\ Requeueable(r) => Accounted(RequeueRow(r))
         /\ Accounted(SetStatus(r, "cancelled"))
         /\ Accounted([r EXCEPT !.backoff = FALSE])
         /\ \A b \in BOOLEAN : Accounted([r EXCEPT !.stale = b])
<1> USE JobQueueAssumption DEF Row
<1>1. ASSUME NEW w \in Workers, r.status = "pending"
      PROVE  Accounted(ClaimRow(r, w)) /\ Held(ClaimRow(r, w), w, r.attempts + 1)
  BY <1>1 DEF ClaimRow, Accounted, Held
<1>2. Recoverable(r) => Accounted(RecoverRow(r))
  BY DEF Recoverable, RecoverRow, Decision, RetryRow, SetStatus, Accounted
<1>3. Requeueable(r) => Accounted(RequeueRow(r))
  BY DEF RequeueRow, Accounted
<1>4. Accounted(SetStatus(r, "cancelled"))
  BY DEF SetStatus, Accounted
<1>5. Accounted([r EXCEPT !.backoff = FALSE])
  BY DEF Accounted
<1>6. \A b \in BOOLEAN : Accounted([r EXCEPT !.stale = b])
  BY DEF Accounted
<1> QED
  BY <1>1, <1>2, <1>3, <1>4, <1>5, <1>6

\* The steps of a row by the worker that holds it.
LEMMA HolderSteps ==
  ASSUME NEW r \in Row, NEW w \in Workers, NEW n \in Nat, Accounted(r), Held(r, w, n)
  PROVE  /\ Accounted(SetStatus(r, "processing"))
         /\ Held(SetStatus(r, "processing"), w, n)
         /\ Held(SetStatus(r, "cancelled"), w, n)
         /\ Held([r EXCEPT !.backoff = FALSE], w, n)
         /\ Held([r EXCEPT !.stale = FALSE], w, n)
         /\ ~Recoverable(r) /\ ~Requeueable(r) /\ r.status # "pending"
         /\ \A o : Accounted(FinalRow(r, n, o))
<1> USE JobQueueAssumption DEF Row
<1>1. /\ Accounted(SetStatus(r, "processing"))
      /\ Held(SetStatus(r, "processing"), w, n)
      /\ Held(SetStatus(r, "cancelled"), w, n)
  BY DEF SetStatus, Accounted, Held
<1>2. /\ Held([r EXCEPT !.backoff = FALSE], w, n)
      /\ Held([r EXCEPT !.stale = FALSE], w, n)
  BY DEF Held
<1>3. ~Recoverable(r) /\ ~Requeueable(r) /\ r.status # "pending"
  BY DEF Recoverable, Requeueable, Held
<1>4. ASSUME NEW o PROVE Accounted(FinalRow(r, n, o))
  <2>1. Accounted(SetStatus(r, "completed")) /\ Accounted(SetStatus(r, "failed"))
    BY DEF SetStatus, Accounted, Held
  <2>2. n < MaxAttempts => Accounted(RetryRow(r))
    BY DEF RetryRow, Accounted, Held
  <2>3. n >= MaxAttempts => Accounted(DeadRow(r))
    BY DEF DeadRow, SetStatus, Accounted, Held
  <2> QED
    BY <2>1, <2>2, <2>3, FinalRowCases
<1> QED
  BY <1>1, <1>2, <1>3, <1>4

\* Two workers that both hold their job hold different jobs.
LEMMA HeldExclusive ==
  ASSUME TypeOK, HeldInv
  PROVE  MutualExclusion
BY DEF MutualExclusion, HeldInv, Held

LEMMA NextIInv ==
  ASSUME ~HeartbeatLoss, IInv, [Next]_vars
  PROVE  IInv'
<1> USE DEF IInv
<1>0. TypeOK'
  BY NextTypes
<1>r. \A j \in Jobs : rows[j] \in Row
  BY DEF TypeOK
<1>k. ASSUME NEW w \in Workers, wk[w].job # NoJob
      PROVE  /\ wk[w].job \in Jobs /\ wk[w].tries \in Nat
             /\ Held(rows[wk[w].job], w, wk[w].tries)
  BY <1>k DEF TypeOK, WorkerState, HeldInv
\* A step that frees one worker and rewrites only the row it held.
<1>f. ASSUME NEW w \in Workers, NEW pc, wk' = [wk EXCEPT ![w] = Idle(pc)],
             \A j \in Jobs : rows'[j] = rows[j] \/ (wk[w].job = j /\ j # NoJob)
      PROVE  HeldInv'
  <2> SUFFICES ASSUME NEW v \in Workers, wk'[v].job # NoJob
               PROVE  Held(rows'[wk'[v].job], v, wk'[v].tries)
    BY DEF HeldInv
  <2>1. v # w /\ wk'[v] = wk[v]
    BY <1>f DEF Idle, TypeOK
  <2>2. wk[w].job # wk[v].job
    BY <2>1, HeldExclusive DEF MutualExclusion
  <2> QED
    BY <1>f, <1>k, <2>1, <2>2
\* A step that leaves the workers alone and keeps every held row held.
<1>h. ASSUME UNCHANGED wk,
             \A w \in Workers : wk[w].job # NoJob =>
               Held(rows'[wk[w].job], w, wk[w].tries)
      PROVE  HeldInv'
  BY <1>h DEF HeldInv
<1>1. ASSUME NEW w \in Workers, Recover(w) PROVE IInv'
  <2>1. \A j \in Jobs : Accounted(rows'[j])
    BY <1>1, <1>r, RowSteps DEF Recover
  <2>2. ASSUME NEW v \in Workers, wk'[v].job # NoJob
        PROVE  Held(rows'[wk'[v].job], v, wk'[v].tries)
    <3>1. v # w /\ wk'[v] = wk[v]
      BY <1>1, <2>2 DEF Recover, Idle, TypeOK
    <3>2. ~Recoverable(rows[wk[v].job])
      BY <1>k, <1>r, <2>2, <3>1, HolderSteps
    <3> QED
      BY <1>1, <1>k, <2>2, <3>1, <3>2 DEF Recover
  <2> QED
    BY <1>0, <2>1, <2>2 DEF HeldInv
<1>2. ASSUME NEW w \in Workers, Claim(w) PROVE IInv'
  <2>1. PICK j \in Jobs :
          /\ rows[j].status = "pending"
          /\ rows' = [rows EXCEPT ![j] = ClaimRow(@, w)]
          /\ wk' = [wk EXCEPT ![w] = [pc |-> "start", job |-> j,
                                      tries |-> rows[j].attempts + 1, out |-> "none"]]
    BY <1>2 DEF Claim, NextDue, Claimable
  <2>2. Accounted(ClaimRow(rows[j], w)) /\ Held(ClaimRow(rows[j], w), w, rows[j].attempts + 1)
    BY <1>r, <2>1, RowSteps
  <2>3. rows'[j] = ClaimRow(rows[j], w) /\ \A k \in Jobs \ {j} : rows'[k] = rows[k]
    BY <2>1 DEF TypeOK
  <2>4. \A k \in Jobs : Accounted(rows'[k])
    BY <2>2, <2>3
  <2>5. ASSUME NEW v \in Workers, wk'[v].job # NoJob
        PROVE  Held(rows'[wk'[v].job], v, wk'[v].tries)
    <3>1. CASE v = w
      <4>1. wk'[v].job = j /\ wk'[v].tries = rows[j].attempts + 1
        BY <2>1, <3>1 DEF TypeOK
      <4> QED
        BY <2>2, <2>3, <3>1, <4>1
    <3>2. CASE v # w
      <4>1. wk'[v] = wk[v]
        BY <2>1, <3>2
      <4>2. rows[wk[v].job].status # "pending"
        BY <1>k, <1>r, <2>5, <4>1, HolderSteps
      <4> QED
        BY <1>k, <2>1, <2>3, <2>5, <4>1, <4>2
    <3> QED
      BY <3>1, <3>2
  <2> QED
    BY <1>0, <2>4, <2>5 DEF HeldInv
<1>3. ASSUME NEW w \in Workers, NoClaim(w) PROVE IInv'
  BY <1>0, <1>3, <1>f DEF NoClaim
<1>4. ASSUME NEW w \in Workers, Start(w) PROVE IInv'
  <2>1. wk[w].job # NoJob
    BY <1>4 DEF Start, TypeOK, Busy
  <2> DEFINE j == wk[w].job
  <2>2. /\ Accounted(SetStatus(rows[j], "processing"))
        /\ Held(SetStatus(rows[j], "processing"), w, wk[w].tries)
    BY <1>k, <1>r, <2>1, HolderSteps
  <2>3. rows'[j] = SetStatus(rows[j], "processing") /\ \A k \in Jobs \ {j} : rows'[k] = rows[k]
    BY <1>4, <1>k, <2>1 DEF Start, TypeOK
  <2>4. \A v \in Workers : wk'[v].job = wk[v].job /\ wk'[v].tries = wk[v].tries
    BY <1>4 DEF Start, TypeOK, WorkerState
  <2>5. ASSUME NEW v \in Workers, wk[v].job # NoJob
        PROVE  Held(rows'[wk[v].job], v, wk[v].tries)
    <3>1. v # w => wk[v].job # j
      BY <2>1, <2>5, HeldExclusive DEF MutualExclusion
    <3> QED
      BY <1>k, <2>2, <2>3, <2>5, <3>1
  <2> QED
    BY <1>0, <2>2, <2>3, <2>4, <2>5 DEF HeldInv
<1>5. ASSUME NEW w \in Workers, Write(w) PROVE IInv'
  <2>1. wk[w].job # NoJob
    BY <1>5 DEF Write, TypeOK, Busy
  <2>2. Accounted(FinalRow(rows[wk[w].job], wk[w].tries, wk[w].out))
    BY <1>k, <1>r, <2>1, HolderSteps
  <2>3. \A k \in Jobs : rows'[k] = IF k = wk[w].job
                                   THEN FinalRow(rows[k], wk[w].tries, wk[w].out) ELSE rows[k]
    BY <1>5 DEF Write, TypeOK
  <2>4. HeldInv'
    BY <1>5, <1>f, <2>1, <2>3 DEF Write
  <2> QED
    BY <1>0, <2>2, <2>3, <2>4
<1>6. ASSUME NEW w \in Workers, NEW o \in Outcomes, Finish(w, o) PROVE IInv'
  <2>1. CASE wk' = [wk EXCEPT ![w] = Idle("poll")]
    BY <1>0, <1>6, <1>f, <2>1 DEF Finish
  <2>2. CASE wk' = [wk EXCEPT ![w] = [@ EXCEPT !.pc = "write", !.out = o]]
    <3>1. \A v \in Workers : wk'[v].job = wk[v].job /\ wk'[v].tries = wk[v].tries
      BY <2>2 DEF TypeOK, WorkerState
    <3> QED
      BY <1>0, <1>6, <3>1 DEF Finish, HeldInv
  <2> QED
    BY <1>6, <2>1, <2>2 DEF Finish
<1>7. ASSUME NEW w \in Workers, DbError(w) PROVE IInv'
  <2>1. CASE wk' = [wk EXCEPT ![w] = Idle("poll")]
    BY <1>0, <1>7, <1>f, <2>1 DEF DbError
  <2>2. CASE wk' = [wk EXCEPT ![w].pc = "run", ![w].out = "exception"]
    <3>1. \A v \in Workers : wk'[v].job = wk[v].job /\ wk'[v].tries = wk[v].tries
      BY <2>2 DEF TypeOK, WorkerState
    <3> QED
      BY <1>0, <1>7, <3>1 DEF DbError, HeldInv
  <2> QED
    BY <1>7, <2>1, <2>2 DEF DbError
<1>8. ASSUME NEW w \in Workers, Beat(w) PROVE IInv'
  <2> DEFINE j == wk[w].job
  <2>1. /\ j # NoJob /\ UNCHANGED wk
        /\ \A k \in Jobs : rows'[k] = IF k = j THEN [rows[k] EXCEPT !.stale = FALSE] ELSE rows[k]
    BY <1>8 DEF Beat, TypeOK
  <2>2. \A k \in Jobs : Accounted(rows'[k])
    BY <1>r, <2>1, RowSteps
  <2>3. ASSUME NEW v \in Workers, wk[v].job # NoJob
        PROVE  Held(rows'[wk[v].job], v, wk[v].tries)
    <3>1. Held([rows[wk[v].job] EXCEPT !.stale = FALSE], v, wk[v].tries)
      BY <1>k, <1>r, <2>3, HolderSteps
    <3> QED
      BY <1>k, <2>1, <2>3, <3>1
  <2> QED
    BY <1>0, <1>h, <2>1, <2>2, <2>3
<1>9. ASSUME NEW w \in Workers, Crash(w) PROVE IInv'
  BY <1>0, <1>9, <1>f DEF Crash
<1>10. ASSUME NEW w \in Workers, Restart(w) PROVE IInv'
  BY <1>0, <1>10, <1>f DEF Restart
<1>11. ASSUME NEW j \in Jobs, Create(j) PROVE IInv'
  <2>1. \A k \in Jobs : rows'[k] = IF k = j THEN NewRow ELSE rows[k]
    BY <1>11 DEF Create, TypeOK
  <2>2. Accounted(NewRow)
    BY JobQueueAssumption DEF NewRow, AbsentRow, Accounted
  <2>3. \A w \in Workers : wk[w].job # NoJob => wk[w].job # j
    BY <1>11, <1>k DEF Create, Held
  <2> QED
    BY <1>0, <1>11, <1>h, <1>k, <2>1, <2>2, <2>3 DEF Create
<1>12. ASSUME NEW j \in Jobs, CancelCheck(j) PROVE IInv'
  BY <1>0, <1>12 DEF CancelCheck, HeldInv
<1>13. ASSUME NEW j \in Jobs, CancelWrite(j) PROVE IInv'
  <2>1. UNCHANGED wk /\ \A k \in Jobs :
          rows'[k] = IF k = j THEN SetStatus(rows[k], "cancelled") ELSE rows[k]
    BY <1>13 DEF CancelWrite, TypeOK
  <2>2. \A k \in Jobs : Accounted(rows'[k])
    BY <1>r, <2>1, RowSteps
  <2>3. ASSUME NEW v \in Workers, wk[v].job # NoJob
        PROVE  Held(rows'[wk[v].job], v, wk[v].tries)
    <3>1. Held(SetStatus(rows[wk[v].job], "cancelled"), v, wk[v].tries)
      BY <1>k, <1>r, <2>3, HolderSteps
    <3> QED
      BY <1>k, <2>1, <2>3, <3>1
  <2> QED
    BY <1>0, <1>h, <2>1, <2>2, <2>3
<1>14. ASSUME NEW j \in Jobs, Requeue(j) PROVE IInv'
  <2>1. UNCHANGED wk /\ \A k \in Jobs :
          rows'[k] = IF k = j THEN RequeueRow(rows[k]) ELSE rows[k]
    BY <1>14 DEF Requeue, TypeOK
  <2>2. \A k \in Jobs : Accounted(rows'[k])
    BY <1>14, <1>r, <2>1, RowSteps DEF Requeue
  <2>3. ASSUME NEW v \in Workers, wk[v].job # NoJob
        PROVE  Held(rows'[wk[v].job], v, wk[v].tries)
    <3>1. wk[v].job # j
      BY <1>14, <1>k, <1>r, <2>3, HolderSteps DEF Requeue
    <3> QED
      BY <1>k, <2>1, <2>3, <3>1
  <2> QED
    BY <1>0, <1>h, <2>1, <2>2, <2>3
<1>15. ASSUME NEW j \in Jobs, BackoffElapses(j) PROVE IInv'
  <2>1. UNCHANGED wk /\ \A k \in Jobs :
          rows'[k] = IF k = j THEN [rows[k] EXCEPT !.backoff = FALSE] ELSE rows[k]
    BY <1>15 DEF BackoffElapses, TypeOK
  <2>2. \A k \in Jobs : Accounted(rows'[k])
    BY <1>r, <2>1, RowSteps
  <2>3. ASSUME NEW v \in Workers, wk[v].job # NoJob
        PROVE  Held(rows'[wk[v].job], v, wk[v].tries)
    <3>1. Held([rows[wk[v].job] EXCEPT !.backoff = FALSE], v, wk[v].tries)
      BY <1>k, <1>r, <2>3, HolderSteps
    <3> QED
      BY <1>k, <2>1, <2>3, <3>1
  <2> QED
    BY <1>0, <1>h, <2>1, <2>2, <2>3
<1>16. ASSUME NEW j \in Jobs, GoStale(j) PROVE IInv'
  <2>1. UNCHANGED wk /\ \A k \in Jobs :
          rows'[k] = IF k = j THEN [rows[k] EXCEPT !.stale = TRUE] ELSE rows[k]
    BY <1>16 DEF GoStale, TypeOK
  <2>2. \A k \in Jobs : Accounted(rows'[k])
    BY <1>r, <2>1, RowSteps
  <2>3. \A v \in Workers : wk[v].job # NoJob => wk[v].job # j
    BY <1>16, <1>k DEF GoStale, Beating, Held
  <2>4. ASSUME NEW v \in Workers, wk[v].job # NoJob
        PROVE  Held(rows'[wk[v].job], v, wk[v].tries)
    BY <1>k, <2>1, <2>3, <2>4
  <2> QED
    BY <1>0, <1>h, <2>1, <2>2, <2>4
<1>17. CASE UNCHANGED vars
  BY <1>0, <1>17 DEF vars, HeldInv
<1> QED
  BY <1>1, <1>2, <1>3, <1>4, <1>5, <1>6, <1>7, <1>8, <1>9, <1>10, <1>11, <1>12,
     <1>13, <1>14, <1>15, <1>16, <1>17 DEF Next, Step, Api

LEMMA Invariance ==
  ASSUME ~HeartbeatLoss
  PROVE  Spec => []IInv
<1>1. IInv /\ [Next]_vars => IInv'
  BY NextIInv
<1> QED
  BY <1>1, InitIInv, PTL DEF Spec

\* While staleness means a dead worker, no two live workers ever run one job.
THEOREM Exclusion ==
  ASSUME ~HeartbeatLoss
  PROVE  Spec => []MutualExclusion
<1>1. IInv => MutualExclusion
  BY HeldExclusive DEF IInv
<1> QED
  BY <1>1, Invariance, PTL

\* While staleness means a dead worker, a job is handed out at most
\* MaxAttempts times between two operator requeues.
THEOREM Budget ==
  ASSUME ~HeartbeatLoss
  PROVE  Spec => []RetryBudget
<1>1. IInv => RetryBudget
  BY DEF IInv, Accounted, RetryBudget
<1> QED
  BY <1>1, Invariance, PTL

\* While staleness means a dead worker, a dead-letter mark means exhausted
\* attempts and a job out of the queue.
THEOREM DeadLetters ==
  ASSUME ~HeartbeatLoss
  PROVE  Spec => []DeadLetterExhausted
<1>1. IInv => DeadLetterExhausted
  BY DEF IInv, Accounted, DeadLetterExhausted
<1> QED
  BY <1>1, Invariance, PTL

\* While staleness means a dead worker, a completed job is only ever touched
\* by a cancel request that was already under way.
THEOREM Completion ==
  ASSUME ~HeartbeatLoss
  PROVE  Spec => CompletedIsFinal
<1> DEFINE A == \A j \in Jobs : rows[j].status = "completed" =>
       rows'[j].status = "completed" \/ (rows'[j].status = "cancelled" /\ j \in cancelling)
<1>1. ASSUME IInv, [Next]_vars PROVE [A]_vars
  <2> SUFFICES ASSUME NEW j \in Jobs, rows[j].status = "completed"
               PROVE  \/ rows'[j].status = "completed"
                      \/ rows'[j].status = "cancelled" /\ j \in cancelling
    OBVIOUS
  <2> USE <1>1 DEF IInv, TypeOK
  <2>r. rows[j] \in Row /\ \A w \in Workers : wk[w].job # j
    BY DEF HeldInv, Held, Jobs, NoJob
  <2>1. ASSUME NEW w \in Workers, Recover(w) PROVE rows'[j] = rows[j]
    BY <2>1 DEF Recover, Recoverable
  <2>2. ASSUME NEW w \in Workers, Claim(w) PROVE rows'[j] = rows[j]
    BY <2>2 DEF Claim, NextDue, Claimable
  <2>3. ASSUME NEW w \in Workers, Start(w) \/ Write(w) \/ Beat(w) PROVE rows'[j] = rows[j]
    BY <2>3, <2>r DEF Start, Write, Beat
  <2>4. ASSUME NEW k \in Jobs, Create(k) \/ Requeue(k) PROVE rows'[j] = rows[j]
    BY <2>4 DEF Create, Requeue, Requeueable
  <2>5. ASSUME NEW k \in Jobs, CancelWrite(k)
        PROVE  rows'[j] = rows[j] \/ (rows'[j].status = "cancelled" /\ j \in cancelling)
    BY <2>5, <2>r DEF CancelWrite, SetStatus, Row
  <2>6. ASSUME NEW k \in Jobs, BackoffElapses(k) \/ GoStale(k)
        PROVE  rows'[j].status = rows[j].status
    BY <2>6, <2>r DEF BackoffElapses, GoStale, Row
  <2>7. ASSUME NEW w \in Workers,
               \/ NoClaim(w) \/ DbError(w) \/ Crash(w) \/ Restart(w)
               \/ \E o \in Outcomes : Finish(w, o)
        PROVE  rows' = rows
    BY <2>7 DEF NoClaim, DbError, Crash, Restart, Finish
  <2>8. ASSUME NEW k \in Jobs, CancelCheck(k) PROVE rows' = rows
    BY <2>8 DEF CancelCheck
  <2>9. CASE UNCHANGED vars
    BY <2>9 DEF vars
  <2> QED
    BY <2>1, <2>2, <2>3, <2>4, <2>5, <2>6, <2>7, <2>8, <2>9 DEF Next, Step, Api
<1> QED
  BY <1>1, Invariance, PTL DEF Spec, CompletedIsFinal

-----------------------------------------------------------------------------
(* Who may revive a cancelled job. *)

\* Every step that takes a row out of `cancelled` is the Start or the Write of
\* a worker that holds the job.
LEMMA RevivedByHolder ==
  ASSUME TypeOK, [Next]_vars, NEW j \in Jobs,
         rows[j].status = "cancelled", rows'[j].status # "cancelled"
  PROVE  \E w \in Workers : wk[w].job = j /\ wk[w].pc \in {"start", "write"}
<1>r. \A k \in Jobs : rows[k] \in Row
  BY DEF TypeOK
<1>1. ASSUME NEW w \in Workers, Recover(w) PROVE FALSE
  <2>1. rows'[j] = rows[j]
    BY <1>1 DEF Recover, Recoverable
  <2> QED
    BY <2>1
<1>2. ASSUME NEW w \in Workers, Claim(w) PROVE FALSE
  <2>1. PICK k \in Jobs : Claimable(rows[k]) /\ rows' = [rows EXCEPT ![k] = ClaimRow(@, w)]
    BY <1>2 DEF Claim, NextDue
  <2>2. k # j
    BY <2>1 DEF Claimable
  <2> QED
    BY <2>1, <2>2 DEF TypeOK
<1>3. ASSUME NEW w \in Workers, Start(w)
      PROVE  wk[w].job = j /\ wk[w].pc = "start"
  BY <1>3 DEF Start, TypeOK
<1>4. ASSUME NEW w \in Workers, Write(w)
      PROVE  wk[w].job = j /\ wk[w].pc = "write"
  BY <1>4 DEF Write, TypeOK
<1>5. ASSUME NEW w \in Workers, Beat(w) PROVE FALSE
  <2>1. rows'[j].status = rows[j].status
    BY <1>5, <1>r DEF Beat, TypeOK, Row
  <2> QED
    BY <2>1
<1>6. ASSUME NEW k \in Jobs, Create(k) PROVE FALSE
  BY <1>6 DEF Create, TypeOK
<1>7. ASSUME NEW k \in Jobs, CancelWrite(k) PROVE FALSE
  <2>1. rows'[k].status = "cancelled"
    BY <1>7, <1>r DEF CancelWrite, SetStatus, TypeOK, Row
  <2> QED
    BY <1>7, <2>1 DEF CancelWrite, TypeOK
<1>8. ASSUME NEW k \in Jobs, Requeue(k) PROVE FALSE
  BY <1>8 DEF Requeue, Requeueable, TypeOK
<1>9. ASSUME NEW k \in Jobs, BackoffElapses(k) \/ GoStale(k) PROVE FALSE
  <2>1. rows'[j].status = rows[j].status
    BY <1>9, <1>r DEF BackoffElapses, GoStale, TypeOK, Row
  <2> QED
    BY <2>1
<1>10. CASE UNCHANGED rows
  BY <1>10
<1> QED
  BY <1>1, <1>2, <1>3, <1>4, <1>5, <1>6, <1>7, <1>8, <1>9, <1>10
     DEF Next, Step, Api, NoClaim, Finish, DbError, Crash, Restart, CancelCheck, vars

\* A cancelled job is revived only by a worker that had read its row before,
\* also when heartbeats get lost (CancelLosesOnlyToWorker).
THEOREM Revival == Spec => CancelLosesOnlyToWorker
<1>1. TypeOK /\ [Next]_vars =>
        [\A j \in Jobs : rows[j].status = "cancelled" /\ rows'[j].status # "cancelled" =>
           \E w \in Workers : wk[w].job = j /\ wk[w].pc \in {"start", "write"}]_vars
  BY RevivedByHolder
<1> QED
  BY <1>1, Typing, PTL DEF Spec, CancelLosesOnlyToWorker

-----------------------------------------------------------------------------
(***************************************************************************)
(* The queue implements WorkQueue.  Known is the one more fact it needs: a *)
(* cancel request is only under way for a job that exists.                 *)
(***************************************************************************)

Known == \A j \in cancelling : rows[j].status # "absent"

LEMMA NextKnown == ASSUME TypeOK, Known, [Next]_vars PROVE Known'
<1> USE DEF TypeOK, Known
<1>r. ASSUME NEW r \in Row, r.status # "absent"
      PROVE  /\ \A w \in Workers : ClaimRow(r, w).status # "absent"
             /\ SetStatus(r, "processing").status # "absent"
             /\ RecoverRow(r).status # "absent"
             /\ \A n \in Nat : \A o : FinalRow(r, n, o).status # "absent"
  <2>1. /\ \A w \in Workers : ClaimRow(r, w).status # "absent"
        /\ SetStatus(r, "processing").status # "absent"
        /\ SetStatus(r, "completed").status # "absent"
        /\ SetStatus(r, "failed").status # "absent"
        /\ RetryRow(r).status # "absent"
        /\ DeadRow(r).status # "absent"
        /\ [SetStatus(r, "failed") EXCEPT !.dead = TRUE].status # "absent"
    BY DEF ClaimRow, RetryRow, SetStatus, DeadRow, Row
  <2>2. ASSUME NEW n \in Nat, NEW o PROVE FinalRow(r, n, o).status # "absent"
    BY <2>1, FinalRowCases
  <2> QED
    BY <2>1, <2>2 DEF RecoverRow
<1>1. ASSUME NEW w \in Workers, Step(w)
      PROVE  \A j \in Jobs : rows[j].status # "absent" => rows'[j].status # "absent"
  <2> SUFFICES ASSUME NEW j \in Jobs, rows[j].status # "absent"
               PROVE  rows'[j].status # "absent"
    OBVIOUS
  <2>1. CASE Recover(w)
    BY <1>r, <2>1 DEF Recover
  <2>2. CASE Claim(w)
    BY <1>r, <2>2 DEF Claim
  <2>3. CASE Start(w)
    BY <1>r, <2>3 DEF Start
  <2>4. CASE Write(w)
    <3>1. wk[w].tries \in Nat
      BY DEF WorkerState
    <3> QED
      BY <1>r, <2>4, <3>1 DEF Write
  <2>5. CASE NoClaim(w) \/ \E o \in Outcomes : Finish(w, o)
    BY <2>5 DEF NoClaim, Finish
  <2> QED
    BY <1>1, <2>1, <2>2, <2>3, <2>4, <2>5 DEF Step
<1>2. ASSUME NEW w \in Workers, DbError(w) \/ Beat(w) \/ Crash(w) \/ Restart(w)
      PROVE  \A j \in Jobs : rows'[j].status = rows[j].status
  BY <1>2 DEF DbError, Beat, Crash, Restart, Row
<1>3. ASSUME NEW j \in Jobs, Create(j) \/ Requeue(j) PROVE Known'
  BY <1>3 DEF Create, Requeue, NewRow, RequeueRow, AbsentRow, Row
<1>4. ASSUME NEW j \in Jobs, CancelCheck(j) PROVE Known'
  BY <1>4 DEF CancelCheck
<1>5. ASSUME NEW j \in Jobs, CancelWrite(j) PROVE Known'
  BY <1>5 DEF CancelWrite, SetStatus, Row
<1>6. ASSUME NEW j \in Jobs, BackoffElapses(j) \/ GoStale(j) PROVE Known'
  BY <1>6 DEF BackoffElapses, GoStale, Row
<1>7. ASSUME NEW w \in Workers, Step(w) \/ DbError(w) \/ Beat(w) \/ Crash(w) \/ Restart(w)
      PROVE  cancelling' = cancelling
  BY <1>7 DEF Step, Recover, Claim, NoClaim, Start, Write, Finish, DbError, Beat, Crash, Restart
<1>8. CASE UNCHANGED vars
  BY <1>8 DEF vars
<1> QED
  BY <1>1, <1>2, <1>3, <1>4, <1>5, <1>6, <1>7, <1>8 DEF Next, Api

LEMMA AlwaysKnown == Spec => []Known
<1>1. Init => Known
  BY DEF Init, Known
<1>2. TypeOK /\ Known /\ [Next]_vars => Known'
  BY NextKnown
<1> QED
  BY <1>1, <1>2, Typing, PTL DEF Spec

Uses == [j \in Jobs |-> rows[j].attempts]

\* The phase of a job, before and after a step.
LEMMA PhaseNow ==
  ASSUME NEW j \in Jobs
  PROVE  /\ Leased(j) => Phase(j) = "leased"
         /\ ~Leased(j) /\ rows[j].status = "absent" => Phase(j) = "absent"
         /\ ~Leased(j) /\ rows[j].status = "pending" => Phase(j) = "queued"
         /\ ~Leased(j) /\ rows[j].status = "processing" => Phase(j) = "stranded"
         /\ ~Leased(j) /\ rows[j].status \in Final => Phase(j) = "settled"
BY DEF Phase, Resting, Final

LEMMA PhaseThen ==
  ASSUME NEW j \in Jobs
  PROVE  /\ Leased(j)' => Phase(j)' = "leased"
         /\ ~Leased(j)' /\ rows'[j].status = "pending" => Phase(j)' = "queued"
         /\ ~Leased(j)' /\ rows'[j].status = "processing" => Phase(j)' = "stranded"
         /\ ~Leased(j)' /\ rows'[j].status \in Final => Phase(j)' = "settled"
BY DEF Phase, Resting, Final

LEMMA PhaseSame ==
  ASSUME NEW j \in Jobs, Leased(j)' <=> Leased(j),
         Leased(j) \/ rows'[j].status = rows[j].status
  PROVE  Phase(j)' = Phase(j)
<1>1. CASE Leased(j)
  BY <1>1, PhaseNow, PhaseThen
<1>2. CASE ~Leased(j)
  BY <1>2 DEF Phase
<1> QED
  BY <1>1, <1>2

\* A step that changes no job's phase and no attempt count is a stutter.
LEMMA Stutter ==
  ASSUME \A j \in Jobs : Phase(j)' = Phase(j) /\ rows'[j].attempts = rows[j].attempts
  PROVE  UNCHANGED Promise!vars
BY DEF Promise!vars

\* A step that changes only the phase of job k is a move of k.
LEMMA MoveOne ==
  ASSUME NEW k \in Jobs, NEW to,
         \A j \in Jobs \ {k} : Phase(j)' = Phase(j),
         Phase(k)' = to
  PROVE  \A from : Phase(k) \in from => Promise!Move(k, from, to)
BY DEF Promise!Move

LEMMA NextRefines ==
  ASSUME ~HeartbeatLoss, IInv, Known, [Next]_vars
  PROVE  [Promise!Next]_(Promise!vars)
<1> USE DEF IInv
<1>r. /\ \A j \in Jobs : rows[j] \in Row /\ Accounted(rows[j])
      /\ MaxAttempts \in Nat
  BY JobQueueAssumption DEF TypeOK
<1>j. \A w \in Workers : wk[w].job \in Jobs \cup {NoJob}
  BY DEF TypeOK, WorkerState
<1>n. \A j \in Jobs : j # NoJob
  BY DEF Jobs, NoJob
\* What a leased row can be.
<1>k. ASSUME NEW w \in Workers, wk[w].job # NoJob
      PROVE  /\ wk[w].job \in Jobs /\ Leased(wk[w].job)
             /\ Held(rows[wk[w].job], w, wk[w].tries)
             /\ rows[wk[w].job].status \in {"processing", "cancelled"}
             /\ rows[wk[w].job].attempts = wk[w].tries
             /\ wk[w].tries \in Nat
  BY <1>k, <1>j DEF HeldInv, Held, Leased, TypeOK, WorkerState
<1>l. ASSUME NEW j \in Jobs, Leased(j)
      PROVE  rows[j].status \in {"processing", "cancelled"} /\ ~rows[j].stale
  BY <1>l, <1>n DEF Leased, HeldInv, Held
\* How leases change with the workers.
<1>same. ASSUME \A w \in Workers : wk'[w].job = wk[w].job
         PROVE  \A j \in Jobs : (Leased(j)' <=> Leased(j))
  BY <1>same DEF Leased
<1>free. ASSUME NEW w \in Workers, NEW pc, wk' = [wk EXCEPT ![w] = Idle(pc)]
         PROVE  \A j \in Jobs : (Leased(j)' <=> Leased(j) /\ wk[w].job # j)
  <2> SUFFICES ASSUME NEW j \in Jobs PROVE Leased(j)' <=> Leased(j) /\ wk[w].job # j
    OBVIOUS
  <2>1. \A v \in Workers : wk'[v].job = IF v = w THEN NoJob ELSE wk[v].job
    BY <1>free DEF Idle, TypeOK
  <2>2. \A v \in Workers : wk[v].job = j /\ wk[w].job = j => v = w
    BY <1>n, HeldExclusive DEF MutualExclusion
  <2> QED
    BY <1>n, <2>1, <2>2 DEF Leased
\* A worker lets go of its job without touching the row.
<1>drop. ASSUME NEW w \in Workers, NEW pc, wk' = [wk EXCEPT ![w] = Idle(pc)], rows' = rows
         PROVE  [Promise!Next]_(Promise!vars)
  <2>1. CASE wk[w].job = NoJob
    BY <1>drop, <1>free, <1>n, <2>1, PhaseSame, Stutter
  <2>2. ASSUME NEW k \in Jobs, wk[w].job = k
        PROVE  [Promise!Next]_(Promise!vars)
    <3>0. /\ Leased(k) /\ ~Leased(k)' /\ \A j \in Jobs \ {k} : (Leased(j)' <=> Leased(j))
          /\ rows[k].status \in {"processing", "cancelled"}
      BY <1>drop, <1>free, <1>k, <1>n, <2>2
    <3>1. /\ \A j \in Jobs \ {k} : Phase(j)' = Phase(j)
          /\ Phase(k) = "leased" /\ UNCHANGED Uses
          /\ rows[k].status = "processing" => Phase(k)' = "stranded"
          /\ rows[k].status = "cancelled" => Phase(k)' = "settled"
      <4>1. \A j \in Jobs \ {k} : Phase(j)' = Phase(j)
        BY <1>drop, <3>0, PhaseSame
      <4>2. Phase(k) = "leased" /\ UNCHANGED Uses
        BY <1>drop, <3>0, PhaseNow DEF Uses
      <4>3. rows[k].status = "processing" => Phase(k)' = "stranded"
        BY <1>drop, <3>0, PhaseThen
      <4>4. rows[k].status = "cancelled" => Phase(k)' = "settled"
        BY <1>drop, <3>0, PhaseThen DEF Final
      <4> QED
        BY <4>1, <4>2, <4>3, <4>4
    <3>2. CASE rows[k].status = "processing"
      <4>1. Promise!Move(k, {"leased"}, "stranded")
        BY <3>1, <3>2, MoveOne
      <4>2. Promise!Strand(k)
        BY <3>1, <4>1 DEF Promise!Strand, Uses
      <4> QED
        BY <4>2 DEF Promise!Next
    <3>3. CASE rows[k].status = "cancelled"
      <4>1. Promise!Move(k, {"leased"}, "settled")
        BY <3>1, <3>3, MoveOne
      <4>2. Promise!Settle(k)
        BY <3>1, <4>1 DEF Promise!Settle, Uses
      <4> QED
        BY <4>2 DEF Promise!Next
    <3> QED
      BY <3>0, <3>2, <3>3
  <2> QED
    BY <1>j, <2>1, <2>2
\* No lease changes hands, and no row changes its status or attempts.
<1>still. ASSUME \A w \in Workers : wk'[w].job = wk[w].job,
                 \A j \in Jobs : /\ rows'[j].attempts = rows[j].attempts
                                 /\ Leased(j) \/ rows'[j].status = rows[j].status
          PROVE  [Promise!Next]_(Promise!vars)
  BY <1>still, <1>same, PhaseSame, Stutter
<1>1. ASSUME NEW w \in Workers, Recover(w) PROVE [Promise!Next]_(Promise!vars)
  <2> DEFINE S == {j \in Jobs : Recoverable(rows[j])}
  <2>1. \A j \in Jobs : (Leased(j)' <=> Leased(j))
    <3>1. wk[w].job = NoJob
      BY <1>1 DEF Recover, TypeOK, Busy
    <3> QED
      BY <1>1, <1>free, <1>n, <3>1 DEF Recover
  <2>2. ASSUME NEW j \in Jobs, j \notin S
        PROVE  rows'[j] = rows[j] /\ Phase(j)' = Phase(j)
    BY <1>1, <2>1, <2>2, PhaseSame DEF Recover
  <2>3. ASSUME NEW j \in S
        PROVE  /\ rows'[j].attempts = rows[j].attempts
               /\ Phase(j) = "stranded"
               /\ Phase(j)' = IF rows[j].attempts < MaxAttempts THEN "queued" ELSE "settled"
    <3>1. ~Leased(j) /\ rows[j].status = "processing" /\ rows[j].attempts >= 1
      BY <1>l, <1>r, <2>3 DEF Recoverable, Accounted
    <3>2. Phase(j) = "stranded" /\ ~Leased(j)'
      BY <2>1, <3>1, PhaseNow, PhaseThen, PhaseSame
    <3>3. rows'[j] = RecoverRow(rows[j])
      BY <1>1, <2>3 DEF Recover
    <3>4. /\ rows'[j].attempts = rows[j].attempts
          /\ rows'[j].status = IF rows[j].attempts < MaxAttempts THEN "pending" ELSE "failed"
      BY <1>r, <3>1, <3>3 DEF RecoverRow, Decision, RetryRow, SetStatus, Row
    <3> QED
      BY <2>3, <3>2, <3>4, PhaseNow, PhaseThen, PhaseSame DEF Final
  <2>4. Promise!Reclaim(S)
    BY <2>2, <2>3 DEF Promise!Reclaim
  <2> QED
    BY <2>4 DEF Promise!Next
<1>2. ASSUME NEW w \in Workers, Claim(w) PROVE [Promise!Next]_(Promise!vars)
  <2>1. PICK j \in Jobs :
          /\ rows[j].status = "pending"
          /\ rows' = [rows EXCEPT ![j] = ClaimRow(@, w)]
          /\ wk' = [wk EXCEPT ![w] = [pc |-> "start", job |-> j,
                                      tries |-> rows[j].attempts + 1, out |-> "none"]]
    BY <1>2 DEF Claim, NextDue, Claimable
  <2>2. wk[w].job = NoJob
    BY <1>2 DEF Claim, TypeOK, Busy
  <2>3. \A v \in Workers : wk'[v].job = IF v = w THEN j ELSE wk[v].job
    BY <2>1 DEF TypeOK
  <2>4. ~Leased(j) /\ Leased(j)' /\ \A k \in Jobs \ {j} : (Leased(k)' <=> Leased(k))
    BY <1>l, <1>n, <2>1, <2>2, <2>3 DEF Leased
  <2>5. /\ rows'[j].attempts = rows[j].attempts + 1
        /\ \A k \in Jobs \ {j} : rows'[k] = rows[k]
    BY <1>r, <2>1 DEF ClaimRow, Row, TypeOK
  <2>6. Phase(j) = "queued" /\ Phase(j)' = "leased" /\ \A k \in Jobs \ {j} : Phase(k)' = Phase(k)
    BY <2>1, <2>4, <2>5, PhaseNow, PhaseThen, PhaseSame
  <2>7. Promise!Move(j, {"queued"}, "leased")
    BY <2>6, MoveOne
  <2>8. rows[j].attempts < MaxAttempts
    BY <1>r, <2>1 DEF Accounted
  <2>9. Promise!Lease(j)
    BY <2>5, <2>7, <2>8 DEF Promise!Lease
  <2> QED
    BY <2>9 DEF Promise!Next
<1>3. ASSUME NEW w \in Workers, NoClaim(w) PROVE [Promise!Next]_(Promise!vars)
  BY <1>3, <1>drop DEF NoClaim
<1>4. ASSUME NEW w \in Workers, Start(w) PROVE [Promise!Next]_(Promise!vars)
  <2>1. wk[w].job # NoJob /\ \A v \in Workers : wk'[v].job = wk[v].job
    BY <1>4 DEF Start, TypeOK, Busy, WorkerState
  <2>2. \A j \in Jobs : j = wk[w].job \/ rows'[j] = rows[j]
    BY <1>4 DEF Start, TypeOK
  <2>3. rows'[wk[w].job].attempts = rows[wk[w].job].attempts
    BY <1>4, <1>k, <1>r, <2>1 DEF Start, SetStatus, TypeOK, Row
  <2> QED
    BY <1>k, <1>still, <2>1, <2>2, <2>3
<1>5. ASSUME NEW w \in Workers, Write(w) PROVE [Promise!Next]_(Promise!vars)
  <2>1. wk[w].job # NoJob
    BY <1>5 DEF Write, TypeOK, Busy
  <2>2. PICK k \in Jobs :
          /\ wk[w].job = k /\ rows[k] \in Row /\ Leased(k)
          /\ rows[k].attempts = wk[w].tries /\ wk[w].tries \in Nat
    BY <1>k, <1>r, <2>1
  <2>3. /\ rows'[k] = FinalRow(rows[k], wk[w].tries, wk[w].out)
        /\ \A j \in Jobs \ {k} : rows'[j] = rows[j]
    BY <1>5, <2>2 DEF Write, TypeOK
  <2>4. /\ ~Leased(k)' /\ Phase(k) = "leased"
        /\ \A j \in Jobs \ {k} : Phase(j)' = Phase(j)
    <3>1. ~Leased(k)' /\ \A j \in Jobs \ {k} : (Leased(j)' <=> Leased(j))
      BY <1>5, <1>free, <2>2 DEF Write
    <3> QED
      BY <2>2, <2>3, <3>1, PhaseNow, PhaseSame
  <2>5. /\ rows'[k].attempts = rows[k].attempts
        /\ \/ rows'[k].status \in {"completed", "failed"}
           \/ rows'[k].status = "pending" /\ rows[k].attempts < MaxAttempts
    <3>1. \A r \in Row :
            /\ SetStatus(r, "completed").attempts = r.attempts
            /\ SetStatus(r, "completed").status = "completed"
            /\ SetStatus(r, "failed").attempts = r.attempts
            /\ SetStatus(r, "failed").status = "failed"
            /\ RetryRow(r).attempts = r.attempts /\ RetryRow(r).status = "pending"
            /\ DeadRow(r).attempts = r.attempts /\ DeadRow(r).status = "failed"
      BY DEF SetStatus, RetryRow, DeadRow, Row
    <3> QED
      BY <2>2, <2>3, <3>1, FinalRowCases
  <2>6. UNCHANGED Uses
    BY <2>3, <2>5 DEF Uses
  <2>7. CASE rows'[k].status \in {"completed", "failed"}
    <3>1. Phase(k)' = "settled"
      BY <2>4, <2>7, PhaseThen DEF Final
    <3>2. Promise!Move(k, {"leased"}, "settled")
      BY <2>4, <3>1, MoveOne
    <3>3. Promise!Settle(k)
      BY <2>6, <3>2 DEF Promise!Settle, Uses
    <3> QED
      BY <3>3 DEF Promise!Next
  <2>8. CASE rows'[k].status = "pending" /\ rows[k].attempts < MaxAttempts
    <3>1. Phase(k)' = "queued"
      BY <2>4, <2>8, PhaseThen
    <3>2. Promise!Move(k, {"leased"}, "queued")
      BY <2>4, <3>1, MoveOne
    <3>3. Promise!GiveBack(k)
      BY <2>6, <2>8, <3>2 DEF Promise!GiveBack, Uses
    <3> QED
      BY <3>3 DEF Promise!Next
  <2> QED
    BY <2>5, <2>7, <2>8
<1>6. ASSUME NEW w \in Workers, NEW o \in Outcomes, Finish(w, o)
      PROVE  [Promise!Next]_(Promise!vars)
  <2>1. CASE wk' = [wk EXCEPT ![w] = Idle("poll")]
    BY <1>6, <1>drop, <2>1 DEF Finish
  <2>2. CASE wk' = [wk EXCEPT ![w] = [@ EXCEPT !.pc = "write", !.out = o]]
    <3>1. \A v \in Workers : wk'[v].job = wk[v].job
      BY <2>2 DEF TypeOK, WorkerState
    <3> QED
      BY <1>6, <1>still, <3>1 DEF Finish
  <2> QED
    BY <1>6, <2>1, <2>2 DEF Finish
<1>7. ASSUME NEW w \in Workers, DbError(w) PROVE [Promise!Next]_(Promise!vars)
  <2>1. CASE wk' = [wk EXCEPT ![w] = Idle("poll")]
    BY <1>7, <1>drop, <2>1 DEF DbError
  <2>2. CASE wk' = [wk EXCEPT ![w].pc = "run", ![w].out = "exception"]
    <3>1. \A v \in Workers : wk'[v].job = wk[v].job
      BY <2>2 DEF TypeOK, WorkerState
    <3> QED
      BY <1>7, <1>still, <3>1 DEF DbError
  <2> QED
    BY <1>7, <2>1, <2>2 DEF DbError
<1>8. ASSUME NEW w \in Workers, Beat(w) PROVE [Promise!Next]_(Promise!vars)
  <2>1. \A j \in Jobs : rows'[j].attempts = rows[j].attempts /\ rows'[j].status = rows[j].status
    BY <1>8, <1>r DEF Beat, Row, TypeOK
  <2> QED
    BY <1>8, <1>still, <2>1 DEF Beat
<1>9. ASSUME NEW w \in Workers, Crash(w) \/ Restart(w) PROVE [Promise!Next]_(Promise!vars)
  BY <1>9, <1>drop DEF Crash, Restart
<1>10. ASSUME NEW j \in Jobs, Create(j) PROVE [Promise!Next]_(Promise!vars)
  <2>1. /\ rows[j].status = "absent" /\ rows'[j].status = "pending" /\ rows'[j].attempts = 0
        /\ \A k \in Jobs \ {j} : rows'[k] = rows[k]
        /\ UNCHANGED wk
    BY <1>10 DEF Create, NewRow, AbsentRow, TypeOK
  <2>2. ~Leased(j) /\ \A k \in Jobs : (Leased(k)' <=> Leased(k))
    BY <1>l, <1>same, <2>1
  <2>3. /\ Phase(j) = "absent" /\ Phase(j)' = "queued"
        /\ \A k \in Jobs \ {j} : Phase(k)' = Phase(k)
    BY <2>1, <2>2, PhaseNow, PhaseThen, PhaseSame
  <2>4. rows[j].attempts = 0
    BY <1>r, <2>1 DEF Accounted
  <2>5. Promise!Submit(j)
    BY <2>1, <2>3, <2>4, MoveOne DEF Promise!Submit
  <2> QED
    BY <2>5 DEF Promise!Next
<1>11. ASSUME NEW j \in Jobs, CancelCheck(j) PROVE [Promise!Next]_(Promise!vars)
  BY <1>11, <1>still DEF CancelCheck
<1>12. ASSUME NEW j \in Jobs, CancelWrite(j) PROVE [Promise!Next]_(Promise!vars)
  <2>1. /\ rows'[j].status = "cancelled" /\ rows'[j].attempts = rows[j].attempts
        /\ \A k \in Jobs \ {j} : rows'[k] = rows[k]
        /\ UNCHANGED wk /\ rows[j].status # "absent"
    BY <1>12, <1>r DEF CancelWrite, SetStatus, Row, TypeOK, Known
  <2>2. UNCHANGED Uses
    BY <2>1 DEF Uses
  <2>3. \A k \in Jobs : (Leased(k)' <=> Leased(k))
    BY <1>same, <2>1
  <2>4. \A k \in Jobs \ {j} : Phase(k)' = Phase(k)
    BY <2>1, <2>3, PhaseSame
  <2>5. CASE Leased(j) \/ rows[j].status \in Final
    <3>1. Phase(j)' = Phase(j)
      BY <2>1, <2>3, <2>5, PhaseNow, PhaseThen, PhaseSame DEF Final
    <3> QED
      BY <2>1, <2>4, <3>1, Stutter
  <2>6. CASE ~Leased(j) /\ rows[j].status \in {"pending", "processing"}
    <3>1. Phase(j) \in {"queued", "stranded"} /\ Phase(j)' = "settled"
      BY <2>1, <2>3, <2>6, PhaseNow, PhaseThen, PhaseSame DEF Final
    <3>2. Promise!Withdraw(j)
      BY <2>2, <2>4, <3>1, MoveOne DEF Promise!Withdraw, Uses
    <3> QED
      BY <3>2 DEF Promise!Next
  <2> QED
    BY <1>r, <2>1, <2>5, <2>6 DEF Row, Statuses
<1>13. ASSUME NEW j \in Jobs, Requeue(j) PROVE [Promise!Next]_(Promise!vars)
  <2>1. /\ rows[j].status = "failed" /\ rows'[j].status = "pending" /\ rows'[j].attempts = 0
        /\ \A k \in Jobs \ {j} : rows'[k] = rows[k]
        /\ UNCHANGED wk
    BY <1>13, <1>r DEF Requeue, Requeueable, RequeueRow, Row, TypeOK
  <2>2. ~Leased(j) /\ \A k \in Jobs : (Leased(k)' <=> Leased(k))
    BY <1>l, <1>same, <2>1
  <2>3. /\ Phase(j) = "settled" /\ Phase(j)' = "queued"
        /\ \A k \in Jobs \ {j} : Phase(k)' = Phase(k)
    BY <2>1, <2>2, PhaseNow, PhaseThen, PhaseSame DEF Final
  <2>4. Promise!Reopen(j)
    BY <2>1, <2>3, MoveOne DEF Promise!Reopen
  <2> QED
    BY <2>4 DEF Promise!Next
<1>14. ASSUME NEW j \in Jobs, BackoffElapses(j) \/ GoStale(j) PROVE [Promise!Next]_(Promise!vars)
  <2>1. \A k \in Jobs : rows'[k].attempts = rows[k].attempts /\ rows'[k].status = rows[k].status
    BY <1>14, <1>r DEF BackoffElapses, GoStale, Row, TypeOK
  <2> QED
    BY <1>14, <1>still, <2>1 DEF BackoffElapses, GoStale
<1>15. CASE UNCHANGED vars
  BY <1>15, <1>still DEF vars
<1> QED
  BY <1>1, <1>2, <1>3, <1>4, <1>5, <1>6, <1>7, <1>8, <1>9, <1>10, <1>11, <1>12,
     <1>13, <1>14, <1>15 DEF Next, Step, Api

LEMMA InitRefines == Init => Promise!Init
<1> SUFFICES ASSUME Init PROVE Promise!Init
  OBVIOUS
<1>1. \A j \in Jobs : ~Leased(j)
  BY DEF Init, Idle, Leased, Jobs, NoJob
<1> QED
  BY <1>1, PhaseNow DEF Init, AbsentRow, Promise!Init

\* While staleness means a dead worker, the queue implements WorkQueue.
THEOREM Refinement ==
  ASSUME ~HeartbeatLoss
  PROVE  Spec => ImplementsWorkQueue
<1>1. IInv /\ Known /\ [Next]_vars => [Promise!Next]_(Promise!vars)
  BY NextRefines
<1> QED
  BY <1>1, InitRefines, Invariance, AlwaysKnown, PTL
     DEF Spec, Promise!Spec, ImplementsWorkQueue
=============================================================================
