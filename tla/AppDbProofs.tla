----------------------------- MODULE AppDbProofs -----------------------------
(***************************************************************************)
(* AppDb for any number of processes, releases, copies and failures:       *)
(* migrate fails only for a migration that raised or a lock, a process     *)
(* comes up on its own schema, and a restore can be undone.                *)
(***************************************************************************)
EXTENDS AppDb, TLAPS

Procedures == [pc : {"off", "look", "copy", "thin", "inspect", "migrate", "seed", "up"},
               copy : Nat, todo : SUBSET Nat,
               error : {"none", "ahead", "failed"}, cause : {"none", "raised", "recorded", "locked"},
               on : Nat]

Saving == {"app", "trace", "hash", "pack"}
Restoring == {"restoreapp", "restoretrace", "restoretrees"}

Undos == [app : Database, trace : Nat]

Commands == [pc : {"idle"} \cup Saving \cup Restoring, then : {"idle", "restoreapp"},
             at : Nat, trees : {{}, {"uploads"}, Trees}, app : Database \cup {NoCopy}, trace : Nat,
             hashed : Files \cup {<<>>}, from : Archive \cup {NoCopy}, undo : Undos \cup {NoCopy}]

\* The migrations of every database are recorded from the first on.
NoGap(d) == d \in Database /\ \E n \in 0..MaxVersion : d.applied = 1..n

TypeInv ==
  /\ release \in Versions /\ trace \in Nat /\ tree \in [Trees -> Nat] /\ clock \in Nat
  /\ proc \in [Procs -> Procedures]
  /\ op \in Commands
  /\ archives \subseteq Archive

DatabaseInv ==
  /\ NoGap(db)
  /\ \A a \in archives : NoGap(a.app)
  /\ op.from # NoCopy => NoGap(op.from.app)
  /\ op.pc \in {"trace", "hash", "pack"} => NoGap(op.app)
  /\ op.pc \in Saving => op.trees # {}
  /\ op.pc = "pack" => op.hashed \in Files

\* What is left to migrate starts no later than right after what is recorded.
Ready(d, s) ==
  /\ s.pc \in {"off", "look", "copy", "thin", "inspect"} => s.error = "none"
  /\ s.pc = "migrate" =>
       /\ s.error = "none"
       /\ \E lo \in 1..release + 1 : s.todo = lo..release /\ lo <= Current(d) + 1
       /\ Current(d) <= release
  /\ s.error = "failed" => s.cause \in {"raised", "locked"} /\ s.on <= Current(d) + 1
  /\ s.pc \in {"seed", "up"} /\ s.error = "none" => Current(d) = release

ProcInv == \A p \in Procs : Ready(db, proc[p])

\* A restore works on stopped processes and has an archive in hand.
RestoreInv ==
  /\ op.pc \in Restoring => op.from # NoCopy
  /\ op.pc \in Saving => (op.then = "restoreapp" <=> op.from # NoCopy)
  /\ op.from # NoCopy => AllStopped /\ op.pc # "idle"

Unchanged == db = op.undo.app /\ trace = op.undo.trace
Saved == \E a \in archives : Verifies(a) /\ a.app = op.undo.app /\ a.trace = op.undo.trace

UndoInv ==
  op.undo # NoCopy =>
    /\ AllStopped
    /\ Saved \/ (Unchanged /\ op.pc \notin Restoring)
    /\ op.pc \in Saving /\ op.then = "restoreapp" =>
         /\ Unchanged
         /\ op.pc \in {"trace", "hash", "pack"} => op.app = db
         /\ op.pc \in {"hash", "pack"} => op.trace = trace
         /\ op.pc = "pack" => op.hashed = [t \in op.trees |-> tree[t]]

IInv == TypeInv /\ DatabaseInv /\ ProcInv /\ RestoreInv /\ UndoInv
-----------------------------------------------------------------------------
(* Versions.                                                               *)

LEMMA MaxOfRange == ASSUME NEW n \in Nat PROVE Max((1..n) \cup {0}) = n
<1>1. n \in (1..n) \cup {0} /\ \A y \in (1..n) \cup {0} : n >= y
  OBVIOUS
<1>2. \A x \in (1..n) \cup {0} : (\A y \in (1..n) \cup {0} : x >= y) => x = n
  BY <1>1
<1> QED
  BY <1>1, <1>2 DEF Max

LEMMA MinOfRange == ASSUME NEW n \in Nat, NEW m \in Nat, m <= n PROVE Min(m..n) = m
BY DEF Min

LEMMA CurrentOf ==
  ASSUME NEW d, NoGap(d)
  PROVE  Current(d) \in 0..MaxVersion /\ d.applied = 1..Current(d)
<1>1. PICK n \in 0..MaxVersion : d.applied = 1..n
  BY DEF NoGap
<1>2. n \in Nat
  BY AppDbAssumption
<1> QED
  BY <1>1, <1>2, MaxOfRange DEF Current

LEMMA PendingOf ==
  ASSUME NEW d, NoGap(d), NEW latest \in Versions
  PROVE  Pending(d, latest) = Current(d) + 1..latest
<1>1. Current(d) \in Nat /\ latest \in Nat
  BY CurrentOf, AppDbAssumption DEF Versions
<1> QED
  BY <1>1 DEF Pending

\* The next migration leaves no gap.
LEMMA ApplyNext ==
  ASSUME NEW d, NoGap(d), NEW v \in Versions, v = Current(d) + 1
  PROVE  /\ NoGap([d EXCEPT !.applied = @ \cup {v}])
         /\ Current([d EXCEPT !.applied = @ \cup {v}]) = v
<1> DEFINE e == [d EXCEPT !.applied = @ \cup {v}]
<1>1. Current(d) \in 0..MaxVersion /\ d.applied = 1..Current(d) /\ v \in 0..MaxVersion
  BY CurrentOf, AppDbAssumption DEF Versions
<1>2. e \in Database /\ e.applied = d.applied \cup {v}
  BY DEF NoGap, Database
<1>3. e.applied = 1..v
  BY <1>1, <1>2
<1>4. NoGap(e)
  BY <1>1, <1>2, <1>3 DEF NoGap
<1>5. v \in Nat
  BY AppDbAssumption DEF Versions
<1> QED
  BY <1>3, <1>4, <1>5, MaxOfRange DEF Current

\* What clients and Seed change is not what the schema is known by.
LEMMA SameSchema ==
  ASSUME NEW d, NoGap(d), NEW e \in Database, e.applied = d.applied
  PROVE  NoGap(e) /\ Current(e) = Current(d)
BY DEF NoGap, Current

-----------------------------------------------------------------------------
(* Frames.                                                                 *)

\* Any process but the one that moves sees the same schema, or does not care.
LEMMA GoStep ==
  ASSUME IInv, NEW p \in Procs, ~At(p, "off"), NEW s \in Procedures, Go(p, s),
         NoGap(db'), clock' \in Nat,
         \A q \in Procs : Ready(db', IF q = p THEN s ELSE proc[q])
  PROVE  IInv'
<1>1. /\ UNCHANGED <<release, trace, tree, archives, op>>
      /\ proc' \in [Procs -> Procedures]
      /\ \A q \in Procs : proc'[q] = IF q = p THEN s ELSE proc[q]
  BY DEF Go, IInv, TypeInv
<1>2. op.from = NoCopy /\ op.undo = NoCopy
  BY DEF IInv, RestoreInv, UndoInv, AllStopped, At
<1>3. TypeInv'
  BY <1>1 DEF IInv, TypeInv
<1>4. DatabaseInv'
  BY <1>1 DEF IInv, DatabaseInv, NoGap
<1>5. ProcInv'
  BY <1>1 DEF ProcInv, Ready
<1>6. RestoreInv' /\ UndoInv'
  BY <1>1, <1>2 DEF IInv, RestoreInv, UndoInv
<1> QED
  BY <1>3, <1>4, <1>5, <1>6 DEF IInv

LEMMA GoSame ==
  ASSUME IInv, NEW p \in Procs, ~At(p, "off"), NEW s \in Procedures, Go(p, s),
         db' = db, clock' \in Nat, Ready(db, s)
  PROVE  IInv'
<1>1. NoGap(db') /\ \A q \in Procs : Ready(db', IF q = p THEN s ELSE proc[q])
  BY DEF IInv, DatabaseInv, ProcInv
<1> QED
  BY <1>1, GoStep

\* Commands leave the processes, and while any runs the databases, alone.
LEMMA CommandStep ==
  ASSUME IInv, NEW c \in Commands, Command(c), clock' \in Nat, archives' \subseteq Archive,
         trace' \in Nat, tree' \in [Trees -> Nat], NoGap(db'), db' = db \/ AllStopped,
         DatabaseInv', RestoreInv', UndoInv'
  PROVE  IInv'
<1>1. UNCHANGED <<release, proc>> /\ op' = c
  BY DEF Command
<1>2. TypeInv'
  BY <1>1 DEF IInv, TypeInv
<1>3. ASSUME NEW q \in Procs PROVE Ready(db, proc[q])'
  <2>1. CASE db' = db
    BY <1>1, <2>1 DEF IInv, ProcInv, Ready
  <2>2. CASE AllStopped
    BY <1>1, <2>2 DEF AllStopped, IInv, ProcInv, Ready
  <2> QED
    BY <2>1, <2>2
<1> QED
  BY <1>2, <1>3 DEF IInv, ProcInv

-----------------------------------------------------------------------------
(* init_db.                                                                *)

LEMMA BootStep == ASSUME IInv, NEW p \in Procs, Boot(p) PROVE IInv'
<1>1. /\ UNCHANGED <<release, files, archives, clock>>
      /\ op' = [op EXCEPT !.undo = NoCopy] /\ op.from = NoCopy
      /\ \A q \in Procs : proc'[q] = IF q = p THEN [Stopped EXCEPT !.pc = "look"] ELSE proc[q]
  BY DEF Boot, IInv, TypeInv
<1>2. op' \in Commands /\ op'.from = NoCopy /\ op'.undo = NoCopy
      /\ op'.pc = op.pc /\ op'.then = op.then /\ op'.app = op.app
      /\ op'.trees = op.trees /\ op'.hashed = op.hashed
  BY <1>1 DEF IInv, TypeInv, Commands
<1>3. [Stopped EXCEPT !.pc = "look"] \in Procedures
  BY DEF Stopped, Procedures
<1>4. TypeInv'
  BY <1>1, <1>2, <1>3 DEF IInv, TypeInv, Boot, files
<1>5. DatabaseInv'
  BY <1>1, <1>2 DEF IInv, DatabaseInv, NoGap, files
<1>6. ProcInv'
  BY <1>1 DEF IInv, ProcInv, Ready, Stopped, files
<1>7. RestoreInv' /\ UndoInv'
  BY <1>1, <1>2 DEF IInv, RestoreInv, UndoInv
<1> QED
  BY <1>4, <1>5, <1>6, <1>7 DEF IInv

LEMMA CopyingSteps ==
  ASSUME IInv, NEW p \in Procs, Look(p) \/ Copy(p) \/ Thin(p) \/ CopyFails(p)
  PROVE  IInv'
<1>t. proc[p] \in Procedures /\ clock \in Nat /\ Ready(db, proc[p])
  BY DEF IInv, TypeInv, ProcInv
<1>1. CASE Look(p)
  <2> DEFINE s == [proc[p] EXCEPT !.pc = IF NeedsCopy(db) THEN "copy" ELSE "inspect"]
  <2>1. s \in Procedures /\ Ready(db, s)
    BY <1>t, <1>1 DEF Look, At, Procedures, Ready
  <2> QED
    BY <1>t, <1>1, <2>1, GoSame DEF Look, At
<1>2. CASE Copy(p)
  <2> DEFINE s == [proc[p] EXCEPT !.pc = "thin", !.copy = clock']
  <2>1. clock' \in Nat
    BY <1>t, <1>2 DEF Copy
  <2>2. s \in Procedures /\ Ready(db, s)
    BY <1>t, <1>2, <2>1 DEF Copy, At, Procedures, Ready
  <2> QED
    BY <1>2, <2>1, <2>2, GoSame DEF Copy, At
<1>3. CASE Thin(p)
  <2> DEFINE s == [proc[p] EXCEPT !.pc = "inspect"]
  <2>1. s \in Procedures /\ Ready(db, s)
    BY <1>t, <1>3 DEF Thin, At, Procedures, Ready
  <2> QED
    BY <1>t, <1>3, <2>1, GoSame DEF Thin, At
<1>4. CASE CopyFails(p)
  <2> DEFINE s == [proc[p] EXCEPT !.pc = "inspect", !.copy = 0]
  <2>1. s \in Procedures /\ Ready(db, s)
    BY <1>t, <1>4 DEF CopyFails, Procedures, Ready
  <2> QED
    BY <1>t, <1>4, <2>1, GoSame DEF CopyFails, At
<1> QED
  BY <1>1, <1>2, <1>3, <1>4

LEMMA InspectStep == ASSUME IInv, NEW p \in Procs, Inspect(p) PROVE IInv'
<1>t. /\ proc[p] \in Procedures /\ clock \in Nat /\ Ready(db, proc[p])
      /\ NoGap(db) /\ release \in Versions /\ ~At(p, "off") /\ proc[p].error = "none"
      /\ db' = db /\ clock' = clock
  BY DEF IInv, TypeInv, ProcInv, DatabaseInv, Inspect, At, Ready
<1>1. CASE Ahead(db, release)
  <2> DEFINE s == [proc[p] EXCEPT !.pc = "seed", !.error = "ahead"]
  <2>1. s \in Procedures /\ Ready(db, s) /\ Go(p, s)
    BY <1>t, <1>1 DEF Inspect, Procedures, Ready
  <2> QED
    BY <1>t, <2>1, GoSame
<1>2. CASE ~Ahead(db, release)
  <2> DEFINE todo == Pending(db, release)
             s == [proc[p] EXCEPT !.pc = "migrate", !.todo = todo]
  <2>1. /\ todo = Current(db) + 1..release /\ Current(db) \in Nat /\ release \in Nat
        /\ Current(db) <= release
    BY <1>t, <1>2, PendingOf, CurrentOf, AppDbAssumption DEF Ahead, Versions
  <2>2. Current(db) + 1 \in 1..release + 1 /\ todo \in SUBSET Nat
    BY <2>1
  <2> HIDE DEF todo
  <2>3. s \in Procedures
    BY <1>t, <2>2 DEF Procedures
  <2>4. s.pc = "migrate" /\ s.todo = todo /\ s.error = "none" /\ s.cause = proc[p].cause
    BY <1>t DEF Procedures
  <2>5. Ready(db, s)
    BY <2>1, <2>2, <2>4 DEF Ready
  <2>6. Go(p, s)
    BY <1>2 DEF Inspect, todo
  <2> QED
    BY <1>t, <2>3, <2>5, <2>6, GoSame
<1> QED
  BY <1>1, <1>2

\* What is left starts at the next version, unless another process was there first.
LEMMA LeftToDo ==
  ASSUME IInv, NEW p \in Procs, At(p, "migrate")
  PROVE  /\ Current(db) \in Nat /\ Current(db) <= release /\ release \in Nat
         /\ proc[p].error = "none"
         /\ proc[p].todo = {} => Current(db) = release
         /\ proc[p].todo # {} =>
              /\ Min(proc[p].todo) \in Versions /\ Min(proc[p].todo) <= Current(db) + 1
              /\ proc[p].todo = Min(proc[p].todo)..release /\ Min(proc[p].todo) <= release
<1>1. Ready(db, proc[p]) /\ NoGap(db) /\ release \in 1..MaxVersion /\ MaxVersion \in Nat
  BY AppDbAssumption DEF IInv, ProcInv, DatabaseInv, TypeInv, Versions
<1>2. Current(db) \in Nat
  BY <1>1, CurrentOf
<1>3. PICK lo \in 1..release + 1 : proc[p].todo = lo..release /\ lo <= Current(db) + 1
  BY <1>1 DEF At, Ready
<1>4. proc[p].error = "none" /\ Current(db) <= release
  BY <1>1 DEF At, Ready
<1>5. CASE lo = release + 1
  BY <1>1, <1>2, <1>3, <1>4, <1>5
<1>6. CASE lo <= release
  <2>1. Min(proc[p].todo) = lo
    BY <1>1, <1>3, <1>6, MinOfRange
  <2> QED
    BY <1>1, <1>2, <1>3, <1>4, <1>6, <2>1 DEF Versions
<1> QED
  BY <1>1, <1>3, <1>5, <1>6

LEMMA ApplyStep == ASSUME IInv, NEW p \in Procs, Apply(p) PROVE IInv'
<1> DEFINE v == Min(proc[p].todo)
           s == [proc[p] EXCEPT !.todo = @ \ {v}]
<1>t. /\ proc[p] \in Procedures /\ clock' = clock /\ clock \in Nat /\ NoGap(db)
      /\ At(p, "migrate") /\ ~At(p, "off") /\ proc[p].todo # {}
  BY DEF IInv, TypeInv, DatabaseInv, Apply, At
<1>1. /\ Current(db) \in Nat /\ Current(db) <= release /\ release \in Nat
      /\ proc[p].error = "none"
      /\ v \in Versions /\ v <= Current(db) + 1 /\ proc[p].todo = v..release /\ v <= release
  BY <1>t, LeftToDo
<1>2. v \in Nat /\ v >= 1
  BY <1>1, AppDbAssumption DEF Versions
<1>n. db.applied = 1..Current(db)
  BY <1>t, CurrentOf
<1> HIDE DEF v
<1>3. /\ s \in Procedures /\ s.todo = v + 1..release
      /\ s.pc = "migrate" /\ s.error = "none" /\ s.cause = proc[p].cause
  BY <1>t, <1>1, <1>2 DEF Procedures, At
<1>4. v + 1 \in 1..release + 1
  BY <1>1, <1>2
<1>5. CASE Skips(v)
  <2>1. Go(p, s) /\ db' = db
    BY <1>5 DEF Apply, v
  <2>2. v <= Current(db)
    BY <1>5, <1>1, <1>2 DEF Skips
  <2>3. Ready(db, s)
    BY <1>1, <1>2, <1>3, <1>4, <2>2 DEF Ready
  <2> QED
    BY <1>t, <1>3, <2>1, <2>3, GoSame
<1>6. CASE ~Skips(v)
  <2>1. v = Current(db) + 1
    BY <1>6, <1>1, <1>2 DEF Skips
  <2>2. v \notin db.applied
    BY <1>n, <1>1, <2>1
  <2>3. Go(p, s) /\ db' = [db EXCEPT !.applied = @ \cup {v}]
    BY <1>6, <2>2 DEF Apply, v
  <2>4. NoGap(db') /\ Current(db') = v
    BY <1>t, <1>1, <2>1, <2>3, ApplyNext
  <2>5. Ready(db', s)
    BY <1>1, <1>2, <1>3, <1>4, <2>4 DEF Ready
  <2>6. ASSUME NEW q \in Procs PROVE Ready(db', proc[q])
    <3>1. Ready(db, proc[q])
      BY DEF IInv, ProcInv
    <3>2. ~(proc[q].pc \in {"seed", "up"} /\ proc[q].error = "none")
      BY <3>1, <1>1, <1>2, <2>1 DEF Ready
    <3>3. \A lo \in 1..release + 1 : lo <= Current(db) + 1 => lo <= v + 1
      BY <1>1, <1>2, <2>1
    <3>4. proc[q].on \in Nat
      BY DEF IInv, TypeInv, Procedures
    <3>5. proc[q].on <= Current(db) + 1 => proc[q].on <= v + 1
      BY <1>1, <1>2, <2>1, <3>4
    <3> QED
      BY <3>1, <3>2, <3>3, <3>5, <2>4, <1>1 DEF Ready
  <2> QED
    BY <1>t, <1>3, <2>3, <2>4, <2>5, <2>6, GoStep
<1> QED
  BY <1>5, <1>6

\* A failure is on the version that comes next, or on one that is recorded by now.
LEMMA FailedReady ==
  ASSUME NEW d, NoGap(d), NEW s \in Procedures, NEW v \in Nat, v <= Current(d) + 1,
         NEW cause \in {"raised", "locked"}
  PROVE  Failed(s, v, cause) \in Procedures /\ Ready(d, Failed(s, v, cause))
<1> DEFINE t == Failed(s, v, cause)
<1>1. /\ t \in Procedures /\ t.pc = "seed" /\ t.error = "failed" /\ t.cause = cause /\ t.on = v
  BY DEF Failed, Procedures
<1> HIDE DEF t
<1>2. Ready(d, t)
  BY <1>1 DEF Ready
<1> QED
  BY <1>1, <1>2 DEF t

LEMMA MigratedSteps ==
  ASSUME IInv, NEW p \in Procs, ApplyFails(p) \/ ApplyLocked(p) \/ Migrated(p)
  PROVE  IInv'
<1>t. /\ proc[p] \in Procedures /\ clock' = clock /\ clock \in Nat /\ db' = db /\ NoGap(db)
      /\ At(p, "migrate") /\ ~At(p, "off")
  BY DEF IInv, TypeInv, DatabaseInv, ApplyFails, ApplyLocked, Migrated, At
<1>1. CASE ApplyFails(p) \/ ApplyLocked(p)
  <2> DEFINE v == Min(proc[p].todo)
  <2>1. PICK cause \in {"raised", "locked"} : Go(p, Failed(proc[p], v, cause))
    BY <1>1 DEF ApplyFails, ApplyLocked
  <2>2. v \in Nat /\ v <= Current(db) + 1
    <3>1. proc[p].todo # {}
      BY <1>1 DEF ApplyFails, ApplyLocked
    <3>2. v \in Versions /\ v <= Current(db) + 1
      BY <1>t, <3>1, LeftToDo
    <3> QED
      BY <3>2, AppDbAssumption DEF Versions
  <2> HIDE DEF v
  <2>3. Failed(proc[p], v, cause) \in Procedures /\ Ready(db, Failed(proc[p], v, cause))
    BY <1>t, <2>2, FailedReady
  <2> QED
    BY <1>t, <2>1, <2>3, GoSame
<1>2. CASE Migrated(p)
  <2> DEFINE s == [proc[p] EXCEPT !.pc = "seed"]
  <2>1. Current(db) = release /\ proc[p].error = "none"
    BY <1>t, <1>2, LeftToDo DEF Migrated
  <2>2. s \in Procedures /\ Ready(db, s)
    BY <1>t, <2>1 DEF Procedures, Ready
  <2> QED
    BY <1>t, <1>2, <2>2, GoSame DEF Migrated
<1> QED
  BY <1>1, <1>2

LEMMA StoppedReady == Stopped \in Procedures /\ \A d : Ready(d, Stopped)
BY DEF Stopped, Procedures, Ready

LEMMA SeedStep == ASSUME IInv, NEW p \in Procs, Seed(p) PROVE IInv'
<1>t. /\ proc[p] \in Procedures /\ clock' = clock /\ clock \in Nat /\ NoGap(db)
      /\ ~At(p, "off") /\ \A q \in Procs : Ready(db, proc[q])
  BY DEF IInv, TypeInv, DatabaseInv, ProcInv, Seed, At
<1>1. CASE db.applied = {}
  BY <1>t, <1>1, StoppedReady, GoSame DEF Seed
<1>2. CASE db.applied # {}
  <2> DEFINE s == [proc[p] EXCEPT !.pc = "up"]
  <2>1. Go(p, s) /\ db' = [db EXCEPT !.seeded = TRUE]
    BY <1>2 DEF Seed
  <2>2. db' \in Database /\ db'.applied = db.applied
    BY <1>t, <2>1 DEF NoGap, Database
  <2>3. NoGap(db') /\ Current(db') = Current(db)
    BY <1>t, <2>2, SameSchema
  <2>4. s \in Procedures /\ Ready(db, s)
    BY <1>t DEF Procedures, Ready, Seed, At
  <2>5. \A q \in Procs : Ready(db', IF q = p THEN s ELSE proc[q])
    BY <1>t, <2>3, <2>4 DEF Ready
  <2> QED
    BY <1>t, <2>1, <2>3, <2>4, <2>5, GoStep
<1> QED
  BY <1>1, <1>2

LEMMA StopStep == ASSUME IInv, NEW p \in Procs, Stop(p) PROVE IInv'
BY StoppedReady, GoSame DEF Stop, IInv, TypeInv

LEMMA DeployStep == ASSUME IInv, NEW r \in Versions, Deploy(r) PROVE IInv'
<1>1. /\ release' = r /\ AllStopped
      /\ UNCHANGED <<db, trace, tree, archives, proc, op, clock>>
  BY DEF Deploy, files
<1>2. TypeInv' /\ DatabaseInv' /\ RestoreInv' /\ UndoInv'
  BY <1>1 DEF IInv, TypeInv, DatabaseInv, NoGap, RestoreInv, UndoInv, Unchanged, Saved, AllStopped, At
<1>3. ProcInv'
  BY <1>1 DEF IInv, ProcInv, Ready, AllStopped
<1> QED
  BY <1>2, <1>3 DEF IInv

\* Clients write while a process is up: no restore is under way, none can be undone.
LEMMA WriteStep == ASSUME IInv, Write PROVE IInv'
<1>1. UNCHANGED <<release, archives, proc, op, clock>>
  BY DEF Write
<1>2. op.from = NoCopy /\ op.undo = NoCopy
  BY DEF Write, IInv, RestoreInv, UndoInv, AllStopped
<1>3. NoGap(db) /\ db \in Database /\ trace \in Nat /\ tree \in [Trees -> Nat]
  BY DEF IInv, TypeInv, DatabaseInv, NoGap
<1>4. db' \in Database /\ db'.applied = db.applied
  BY <1>3 DEF Write, Database
<1>5. trace' \in Nat /\ tree' \in [Trees -> Nat]
  BY <1>3 DEF Write
<1>6. NoGap(db') /\ Current(db') = Current(db)
  BY <1>3, <1>4, SameSchema
<1>7. TypeInv' /\ ProcInv'
  BY <1>1, <1>5, <1>6 DEF IInv, TypeInv, ProcInv, Ready
<1>8. DatabaseInv'
  BY <1>1, <1>6 DEF IInv, DatabaseInv, NoGap
<1>9. RestoreInv' /\ UndoInv'
  BY <1>1, <1>2 DEF IInv, RestoreInv, UndoInv
<1> QED
  BY <1>7, <1>8, <1>9 DEF IInv

-----------------------------------------------------------------------------
(* python -m app.backup.                                                   *)

LEMMA CreateStep ==
  ASSUME IInv, NEW trees \in {{"uploads"}, Trees}, Create(trees)
  PROVE  IInv'
<1> DEFINE c == [op EXCEPT !.pc = "app", !.then = "idle", !.at = clock', !.trees = trees]
<1>1. /\ Command(c) /\ UNCHANGED <<db, trace, tree, archives>> /\ clock' = clock + 1
      /\ op.pc = "idle" /\ op \in Commands /\ clock \in Nat /\ op' = c /\ UNCHANGED proc
  BY DEF Create, Command, files, IInv, TypeInv
<1>c. clock' \in Nat /\ trees \in {{}, {"uploads"}, Trees}
  BY <1>1
<1>2. /\ c \in Commands /\ c.pc = "app" /\ c.then = "idle" /\ c.from = op.from
      /\ c.undo = op.undo /\ c.trees = trees
  BY <1>1, <1>c, ZenonT(40) DEF Commands, Saving
<1> HIDE DEF c
<1>3. op.from = NoCopy
  BY <1>1 DEF IInv, RestoreInv
<1>4. trees # {}
  BY DEF Trees
<1>5. DatabaseInv'
  BY <1>1, <1>2, <1>3, <1>4 DEF IInv, DatabaseInv, NoGap
<1>6. RestoreInv'
  BY <1>1, <1>2, <1>3 DEF IInv, RestoreInv, Restoring
<1>7. UndoInv'
  BY <1>1, <1>2, <1>3 DEF IInv, UndoInv, Unchanged, Saved, Restoring, AllStopped
<1> QED
  BY <1>1, <1>2, <1>5, <1>6, <1>7, CommandStep DEF IInv, TypeInv, DatabaseInv

\* The safety backup of a restore sees the files of stopped processes.
LEMMA SnapSteps == ASSUME IInv, SnapApp \/ SnapTrace \/ Hash PROVE IInv'
<1>t. /\ op \in Commands /\ UNCHANGED <<db, trace, tree, archives, clock, proc>>
      /\ NoGap(db) /\ db \in Database /\ trace \in Nat /\ tree \in [Trees -> Nat]
  BY DEF IInv, TypeInv, DatabaseInv, NoGap, SnapApp, SnapTrace, Hash, files, Command
<1>1. CASE SnapApp
  <2> DEFINE c == [op EXCEPT !.pc = "trace", !.app = db]
  <2>1. Command(c) /\ op' = c /\ op.pc = "app"
    BY <1>1 DEF SnapApp, Command
  <2>2. /\ c \in Commands /\ c.pc = "trace" /\ c.then = op.then /\ c.from = op.from
        /\ c.undo = op.undo /\ c.trees = op.trees /\ c.app = db
    BY <1>t DEF Commands, Saving
  <2> HIDE DEF c
  <2>3. DatabaseInv' /\ RestoreInv'
    BY <1>t, <2>1, <2>2 DEF IInv, DatabaseInv, RestoreInv, NoGap, Saving, Restoring, AllStopped
  <2>4. UndoInv'
    BY <1>t, <2>1, <2>2 DEF IInv, UndoInv, Unchanged, Saved, Saving, Restoring, AllStopped
  <2> QED
    BY <1>t, <2>1, <2>2, <2>3, <2>4, CommandStep DEF IInv, TypeInv
<1>2. CASE SnapTrace
  <2> DEFINE c == [op EXCEPT !.pc = "hash", !.trace = trace]
  <2>1. Command(c) /\ op' = c /\ op.pc = "trace"
    BY <1>2 DEF SnapTrace, Command
  <2>2. /\ c \in Commands /\ c.pc = "hash" /\ c.then = op.then /\ c.from = op.from
        /\ c.undo = op.undo /\ c.trees = op.trees /\ c.app = op.app /\ c.trace = trace
    BY <1>t DEF Commands, Saving
  <2> HIDE DEF c
  <2>3. DatabaseInv' /\ RestoreInv'
    BY <1>t, <2>1, <2>2 DEF IInv, DatabaseInv, RestoreInv, NoGap, Saving, Restoring, AllStopped
  <2>4. UndoInv'
    BY <1>t, <2>1, <2>2 DEF IInv, UndoInv, Unchanged, Saved, Saving, Restoring, AllStopped
  <2> QED
    BY <1>t, <2>1, <2>2, <2>3, <2>4, CommandStep DEF IInv, TypeInv
<1>3. CASE Hash
  <2> DEFINE sums == [t \in op.trees |-> tree[t]]
             c == [op EXCEPT !.pc = "pack", !.hashed = sums]
  <2>1. Command(c) /\ op' = c /\ op.pc = "hash"
    BY <1>3 DEF Hash, Command
  <2>2. op.trees \in {{"uploads"}, Trees}
    BY <1>t, <2>1 DEF Commands, IInv, DatabaseInv, Saving
  <2>3. sums \in Files
    BY <1>t, <2>2 DEF Files, Trees
  <2>4. /\ c \in Commands /\ c.pc = "pack" /\ c.then = op.then /\ c.from = op.from
        /\ c.undo = op.undo /\ c.trees = op.trees /\ c.app = op.app /\ c.trace = op.trace
        /\ c.hashed = sums
    BY <1>t, <2>3 DEF Commands, Saving
  <2> HIDE DEF c
  <2>5. DatabaseInv' /\ RestoreInv'
    BY <1>t, <2>1, <2>3, <2>4 DEF IInv, DatabaseInv, RestoreInv, NoGap, Saving, Restoring, AllStopped
  <2>6. UndoInv'
    BY <1>t, <2>1, <2>4 DEF IInv, UndoInv, Unchanged, Saved, Saving, Restoring, AllStopped
  <2> QED
    BY <1>t, <2>1, <2>4, <2>5, <2>6, CommandStep DEF IInv, TypeInv
<1> QED
  BY <1>1, <1>2, <1>3

\* What a safety backup packs verifies, and has the databases as they are.
LEMMA PackStep == ASSUME IInv, Pack PROVE IInv'
<1> DEFINE a == [at |-> op.at, app |-> op.app, trace |-> op.trace, hashed |-> op.hashed,
                 stored |-> [t \in op.trees |-> tree[t]]]
           c == [op EXCEPT !.pc = op.then, !.app = NoCopy, !.trace = 0, !.hashed = <<>>]
<1>1. /\ op \in Commands /\ UNCHANGED <<db, trace, tree, clock, proc>> /\ op.pc = "pack"
      /\ Command(c) /\ op' = c /\ archives' = archives \cup {a}
      /\ NoGap(db) /\ trace \in Nat /\ tree \in [Trees -> Nat]
  BY DEF IInv, TypeInv, DatabaseInv, Pack, files, Command
<1>2. /\ c \in Commands /\ c.pc = op.then /\ c.then = op.then /\ c.from = op.from
      /\ c.undo = op.undo /\ c.pc \in {"idle", "restoreapp"}
  BY <1>1 DEF Commands, Saving, Restoring
<1>3. op.trees \in {{"uploads"}, Trees} /\ NoGap(op.app) /\ op.hashed \in Files
  BY <1>1 DEF Commands, IInv, DatabaseInv, Saving
<1>4. [t \in op.trees |-> tree[t]] \in Files
  BY <1>1, <1>3 DEF Files, Trees
<1>5. a \in Archive /\ NoGap(a.app)
  BY <1>1, <1>3, <1>4 DEF Archive, Commands, NoGap
<1> HIDE DEF c
<1>6. archives' \subseteq Archive
  BY <1>1, <1>5 DEF IInv, TypeInv
<1>7. DatabaseInv'
  BY <1>1, <1>2, <1>5 DEF IInv, DatabaseInv, NoGap, Saving
<1>8. RestoreInv'
  BY <1>1, <1>2 DEF IInv, RestoreInv, Saving, Restoring, AllStopped
<1>9. UndoInv'
  <2>1. ASSUME op.undo # NoCopy PROVE AllStopped' /\ (Saved \/ Unchanged => Saved' \/ Unchanged')
    BY <1>1, <1>2, <2>1 DEF IInv, UndoInv, AllStopped, Saved, Unchanged, Verifies
  <2>2. ASSUME op.undo # NoCopy, op.then = "restoreapp" PROVE Saved'
    <3>1. op.app = op.undo.app /\ op.trace = op.undo.trace /\ op.hashed = [t \in op.trees |-> tree[t]]
      BY <1>1, <2>2 DEF IInv, UndoInv, Unchanged, Saving
    <3>2. Verifies(a) /\ a.app = op.undo.app /\ a.trace = op.undo.trace
      BY <3>1 DEF Verifies
    <3> HIDE DEF a
    <3> QED
      BY <1>1, <1>2, <3>2 DEF Saved
  <2>3. op'.pc \in {"idle", "restoreapp"} /\ op'.undo = op.undo
    BY <1>1, <1>2
  <2>4. ASSUME op.undo # NoCopy PROVE Saved' \/ (Unchanged' /\ op'.pc \notin Restoring)
    <3>1. CASE op.then = "restoreapp"
      BY <2>2, <2>4, <3>1
    <3>2. CASE op.then = "idle"
      BY <1>1, <1>2, <2>1, <2>4, <3>2 DEF IInv, UndoInv, Restoring
    <3> QED
      BY <1>1, <3>1, <3>2 DEF Commands
  <2> QED
    BY <2>1, <2>3, <2>4 DEF UndoInv, Saving
<1> QED
  BY <1>1, <1>2, <1>6, <1>7, <1>8, <1>9, CommandStep DEF IInv, TypeInv

LEMMA RestoreStep ==
  ASSUME IInv, NEW a \in archives, NEW trees \in {{"uploads"}, Trees}, NEW safety \in BOOLEAN,
         Restore(a, trees, safety)
  PROVE  IInv'
<1> DEFINE u == IF safety THEN [app |-> db, trace |-> trace] ELSE NoCopy
           c == [op EXCEPT !.pc = Steps(safety).first, !.then = Steps(safety).then,
                           !.at = clock', !.trees = trees, !.from = a, !.undo = u]
<1>1. /\ Command(c) /\ op' = c /\ UNCHANGED <<db, trace, tree, archives, proc>>
      /\ op \in Commands /\ AllStopped /\ clock \in Nat /\ clock' \in Nat
      /\ NoGap(db) /\ db \in Database /\ trace \in Nat /\ tree \in [Trees -> Nat]
      /\ a \in Archive /\ NoGap(a.app)
  BY DEF Restore, Command, files, IInv, TypeInv, DatabaseInv, NoGap
<1>2. u \in Undos \cup {NoCopy} /\ (u # NoCopy => u.app = db /\ u.trace = trace /\ safety)
  BY <1>1 DEF Undos
<1>3. trees \in {{}, {"uploads"}, Trees} /\ trees # {}
  BY DEF Trees
<1>4. /\ Steps(safety).then = "restoreapp"
      /\ Steps(safety).first = IF safety THEN "app" ELSE "restoreapp"
  BY DEF Steps
<1> HIDE DEF u
<1>5. /\ c \in Commands /\ c.pc = Steps(safety).first /\ c.then = "restoreapp" /\ c.from = a
      /\ c.undo = u /\ c.trees = trees /\ c.pc \in {"app", "restoreapp"}
  <2> DEFINE p == Steps(safety).first
             q == Steps(safety).then
             k == clock'
  <2>1. /\ p \in Saving \cup Restoring /\ p \in {"app", "restoreapp"}
        /\ q = "restoreapp" /\ k \in Nat
    BY <1>1, <1>4 DEF Saving, Restoring
  <2>2. c = [op EXCEPT !.pc = p, !.then = q, !.at = k, !.trees = trees, !.from = a, !.undo = u]
    OBVIOUS
  <2> HIDE DEF c, p, q, k
  <2>3. c \in Commands /\ c.pc = p /\ c.then = q /\ c.from = a /\ c.undo = u /\ c.trees = trees
    BY <1>1, <1>2, <1>3, <2>1, <2>2, ZenonT(40) DEF Commands
  <2> QED
    BY <2>1, <2>3 DEF p
<1> HIDE DEF c
<1>6. a # NoCopy
  BY <1>1, AppDbAssumption
<1>7. DatabaseInv'
  BY <1>1, <1>3, <1>5 DEF IInv, DatabaseInv, NoGap, Saving
<1>8. RestoreInv'
  BY <1>1, <1>5, <1>6 DEF RestoreInv, AllStopped
<1>9. UndoInv'
  BY <1>1, <1>2, <1>4, <1>5 DEF UndoInv, Unchanged, Saved, Saving, Restoring, AllStopped
<1> QED
  BY <1>1, <1>5, <1>7, <1>8, <1>9, CommandStep DEF IInv, TypeInv

\* The files are written only once they are saved, if they are to be saved.
LEMMA RestoringSteps ==
  ASSUME IInv, RestoreApp \/ RestoreTrace \/ RestoreTrees
  PROVE  IInv'
<1>t. /\ op \in Commands /\ UNCHANGED <<archives, clock, proc>> /\ AllStopped
      /\ NoGap(db) /\ trace \in Nat /\ tree \in [Trees -> Nat]
      /\ op.from \in Archive /\ NoGap(op.from.app)
      /\ op.undo # NoCopy => Saved
  BY DEF IInv, TypeInv, DatabaseInv, NoGap, RestoreInv, UndoInv, RestoreApp, RestoreTrace,
         RestoreTrees, Restoring, Command, Commands
<1>1. CASE RestoreApp
  <2> DEFINE c == [op EXCEPT !.pc = "restoretrace"]
  <2>1. Command(c) /\ op' = c /\ op.pc = "restoreapp" /\ UNCHANGED <<trace, tree>> /\ db' = op.from.app
    BY <1>1 DEF RestoreApp, Command
  <2>2. /\ c \in Commands /\ c.pc = "restoretrace" /\ c.from = op.from /\ c.undo = op.undo
    BY <1>t DEF Commands, Restoring
  <2> HIDE DEF c
  <2>3. DatabaseInv' /\ RestoreInv'
    BY <1>t, <2>1, <2>2 DEF IInv, DatabaseInv, RestoreInv, NoGap, Saving, Restoring, AllStopped
  <2>4. UndoInv'
    BY <1>t, <2>1, <2>2 DEF UndoInv, Saved, Saving, AllStopped
  <2> QED
    BY <1>t, <2>1, <2>2, <2>3, <2>4, CommandStep DEF IInv, TypeInv
<1>2. CASE RestoreTrace
  <2> DEFINE c == [op EXCEPT !.pc = "restoretrees"]
  <2>1. Command(c) /\ op' = c /\ op.pc = "restoretrace" /\ UNCHANGED <<db, tree>> /\ trace' = op.from.trace
    BY <1>2 DEF RestoreTrace, Command
  <2>2. /\ c \in Commands /\ c.pc = "restoretrees" /\ c.from = op.from /\ c.undo = op.undo
    BY <1>t DEF Commands, Restoring
  <2>t. trace' \in Nat
    BY <1>t, <2>1 DEF Archive
  <2> HIDE DEF c
  <2>3. DatabaseInv' /\ RestoreInv'
    BY <1>t, <2>1, <2>2 DEF IInv, DatabaseInv, RestoreInv, NoGap, Saving, Restoring, AllStopped
  <2>4. UndoInv'
    BY <1>t, <2>1, <2>2 DEF UndoInv, Saved, Saving, AllStopped
  <2> QED
    BY <1>t, <2>1, <2>2, <2>t, <2>3, <2>4, CommandStep DEF IInv, TypeInv
<1>3. CASE RestoreTrees
  <2> DEFINE c == [op EXCEPT !.pc = "idle", !.from = NoCopy]
  <2>1. Command(c) /\ op' = c /\ op.pc = "restoretrees" /\ UNCHANGED <<db, trace>>
    BY <1>3 DEF RestoreTrees, Command
  <2>2. /\ c \in Commands /\ c.pc = "idle" /\ c.from = NoCopy /\ c.undo = op.undo
    BY <1>t DEF Commands
  <2>t. tree' \in [Trees -> Nat]
    <3>1. \A t \in DOMAIN op.from.stored : op.from.stored[t] \in Nat
      BY <1>t DEF Archive, Files
    <3> QED
      BY <1>t, <1>3, <3>1 DEF RestoreTrees
  <2> HIDE DEF c
  <2>3. DatabaseInv' /\ RestoreInv'
    BY <1>t, <2>1, <2>2 DEF IInv, DatabaseInv, RestoreInv, NoGap, Saving, Restoring
  <2>4. UndoInv'
    BY <1>t, <2>1, <2>2 DEF UndoInv, Saved, Saving, AllStopped
  <2> QED
    BY <1>t, <2>1, <2>2, <2>t, <2>3, <2>4, CommandStep DEF IInv, TypeInv
<1> QED
  BY <1>1, <1>2, <1>3

LEMMA CommandFailsStep == ASSUME IInv, CommandFails PROVE IInv'
<1> DEFINE c == [NoCommand EXCEPT !.undo = op.undo]
<1>1. /\ Command(c) /\ op' = c /\ UNCHANGED <<db, trace, tree, archives, clock, proc>>
      /\ op \in Commands
  BY DEF CommandFails, Command, files, IInv, TypeInv
<1>2. c \in Commands /\ c.pc = "idle" /\ c.then = "idle" /\ c.from = NoCopy /\ c.undo = op.undo
  BY <1>1 DEF Commands, NoCommand
<1> HIDE DEF c
<1>3. DatabaseInv' /\ RestoreInv'
  BY <1>1, <1>2 DEF IInv, DatabaseInv, NoGap, RestoreInv, Saving, Restoring
<1>4. UndoInv'
  BY <1>1, <1>2 DEF IInv, UndoInv, Unchanged, Saved, Saving, Restoring, AllStopped
<1> QED
  BY <1>1, <1>2, <1>3, <1>4, CommandStep DEF IInv, TypeInv, DatabaseInv

LEMMA PruneStep == ASSUME IInv, NEW keep, Prune(keep) PROVE IInv'
<1> DEFINE c == [op EXCEPT !.undo = NoCopy]
<1>1. /\ Command(c) /\ op' = c /\ UNCHANGED <<db, trace, tree, clock, proc>>
      /\ op \in Commands /\ op.pc = "idle" /\ archives' \subseteq archives
  BY DEF Prune, Command, files, IInv, TypeInv
<1>2. c \in Commands /\ c.pc = "idle" /\ c.from = op.from /\ c.undo = NoCopy
  BY <1>1 DEF Commands
<1> HIDE DEF c
<1>3. DatabaseInv' /\ RestoreInv' /\ UndoInv'
  BY <1>1, <1>2 DEF IInv, DatabaseInv, NoGap, RestoreInv, UndoInv, Saving, Restoring, AllStopped
<1> QED
  BY <1>1, <1>2, <1>3, CommandStep DEF IInv, TypeInv, DatabaseInv

-----------------------------------------------------------------------------
(* All steps.                                                              *)

LEMMA InitInv == ASSUME Init PROVE IInv
<1>1. NoGap(db)
  <2>1. 1..0 = {} /\ 0 \in 0..MaxVersion
    BY AppDbAssumption
  <2> QED
    BY <2>1 DEF Init, NoGap, Database
<1>2. /\ NoCommand \in Commands /\ NoCommand.pc = "idle" /\ NoCommand.from = NoCopy
      /\ NoCommand.undo = NoCopy
  BY DEF NoCommand, Commands
<1>3. TypeInv
  BY <1>2, StoppedReady, AppDbAssumption DEF Init, TypeInv, Versions
<1>4. DatabaseInv /\ RestoreInv /\ UndoInv
  BY <1>1, <1>2 DEF Init, DatabaseInv, RestoreInv, UndoInv, Saving, Restoring
<1>5. ProcInv
  BY StoppedReady DEF Init, ProcInv
<1> QED
  BY <1>3, <1>4, <1>5 DEF IInv

LEMMA NextInv == ASSUME IInv, [Next]_vars PROVE IInv'
<1>1. CASE \E r \in Versions : Deploy(r)
  BY <1>1, DeployStep
<1>2. CASE Write
  BY <1>2, WriteStep
<1>3. CASE \E p \in Procs : InitDb(p)
  BY <1>3, BootStep, CopyingSteps, InspectStep, ApplyStep, MigratedSteps, SeedStep, StopStep DEF InitDb
<1>4. CASE Backup
  BY <1>4, CreateStep, RestoreStep, SnapSteps, PackStep, RestoringSteps, CommandFailsStep, PruneStep
     DEF Backup
<1>5. CASE UNCHANGED vars
  <2>1. UNCHANGED <<release, db, trace, tree, archives, proc, op, clock>>
    BY <1>5 DEF vars
  <2>2. TypeInv' /\ DatabaseInv'
    BY <2>1 DEF IInv, TypeInv, DatabaseInv, NoGap
  <2>3. ProcInv' /\ RestoreInv' /\ UndoInv'
    BY <2>1 DEF IInv, ProcInv, Ready, RestoreInv, UndoInv, Unchanged, Saved, AllStopped, At
  <2> QED
    BY <2>2, <2>3 DEF IInv
<1> QED
  BY <1>1, <1>2, <1>3, <1>4, <1>5 DEF Next

LEMMA Invariance == Spec => []IInv
BY InitInv, NextInv, PTL DEF Spec

\* Processes that migrate together fail on a migration or on a lock, never on a
\* version another one has recorded; what comes before the version is recorded.
THEOREM RealErrors == Spec => []ErrorsAreReal
<1>1. IInv => ErrorsAreReal
  <2> SUFFICES ASSUME IInv, NEW p \in Procs, proc[p].error = "failed"
               PROVE  /\ proc[p].cause \in {"raised", "locked"}
                      /\ \A v \in Versions : v < proc[p].on => v \in db.applied
    BY DEF ErrorsAreReal
  <2>1. Ready(db, proc[p]) /\ NoGap(db) /\ proc[p] \in Procedures
    BY DEF IInv, ProcInv, DatabaseInv, TypeInv
  <2>2. Current(db) \in Nat /\ db.applied = 1..Current(db) /\ proc[p].on \in Nat
    BY <2>1, CurrentOf, AppDbAssumption DEF Procedures
  <2>3. proc[p].cause \in {"raised", "locked"} /\ proc[p].on <= Current(db) + 1
    BY <2>1 DEF Ready
  <2>4. ASSUME NEW v \in Versions, v < proc[p].on PROVE v \in db.applied
    <3>1. v \in Nat /\ v >= 1
      BY AppDbAssumption DEF Versions
    <3> QED
      BY <2>2, <2>3, <2>4, <3>1
  <2> QED
    BY <2>3, <2>4
<1> QED
  BY <1>1, Invariance, PTL

\* Who comes up without an error has the schema of the release, whoever migrated it.
THEOREM OwnSchema == Spec => []StartsOnItsSchema
<1>1. IInv => StartsOnItsSchema
  BY DEF IInv, ProcInv, Ready, StartsOnItsSchema, At
<1> QED
  BY <1>1, Invariance, PTL

\* However far a restore got, the databases it replaces are in an archive that verifies.
THEOREM Undoing == Spec => []RestoreCanBeUndone
<1>1. IInv => RestoreCanBeUndone
  BY DEF IInv, UndoInv, Unchanged, Saved, RestoreCanBeUndone
<1> QED
  BY <1>1, Invariance, PTL

=============================================================================
