------------------------------- MODULE AppDb --------------------------------
(***************************************************************************)
(* The files that keep the backend's state, and what happens to them       *)
(* around a start: init_db with its copy before migrating, the migration   *)
(* runner (migrations/runner.py), which several processes may run at once, *)
(* and the operator's `python -m app.backup` (backup/core.py).             *)
(*                                                                         *)
(* A release is known by the number of its newest migration.  Tables are   *)
(* not spelled out: a database is the set of migrations recorded in it,    *)
(* written in the transaction that changes the tables, and a counter of    *)
(* what clients have written.  So is a file.                               *)
(***************************************************************************)
EXTENDS Integers, FiniteSets, FiniteSetsExt

CONSTANTS
  Procs,        \* processes that call init_db: API and workers of one host
  NoCopy,       \* no copy, no archive
  MaxVersion,   \* the newest migration of the newest release
  Keep,         \* PRE_MIGRATION_KEEP
  MaxWrites,    \* bound: client writes
  MaxStamps,    \* bound: copies and archives made
  MaxFailures   \* bound: migrations, locks and archives that fail, crashes

Versions == 1..MaxVersion
Trees == {"uploads", "qdrant"}

\* rows counts what clients have written, and so do a trace and a tree.
Database == [applied : SUBSET Versions, rows : Nat, seeded : BOOLEAN]
Files == [{"uploads"} -> Nat] \cup [Trees -> Nat]
Archive == [at : Nat, app : Database, trace : Nat, hashed : Files, stored : Files]

ASSUME AppDbAssumption ==
  /\ MaxVersion \in Nat \ {0} /\ Keep \in Nat /\ {MaxWrites, MaxStamps, MaxFailures} \subseteq Nat
  /\ NoCopy \notin Archive

VARIABLES
  release,   \* the deployed image
  db,        \* the app database
  trace,     \* the trace database
  tree,      \* tree["uploads"], tree["qdrant"]
  baks,      \* <db>.pre-v<N>-<ts>.bak
  archives,  \* sqlgen-backup-<ts>.tar.gz
  proc,      \* proc[p]: where process p is in init_db
  op,        \* the operator's command under way
  clock,     \* the last timestamp given to a copy or an archive
  failures   \* failures so far

vars == <<release, db, trace, tree, baks, archives, proc, op, clock, failures>>
files == <<db, trace, tree>>

Current(d) == Max(d.applied \cup {0})

Pending(d, latest) == {v \in 1..latest : v > Current(d)}

\* Mutant of Ahead: a newer schema is not noticed.
AheadNever(d, latest) == FALSE

Ahead(d, latest) == Current(d) > latest

\* copy: the stamp of the copy made before migrating; error: what migrate reports,
\* and of a failure the cause and the version it was on.
Stopped == [pc |-> "off", copy |-> 0, todo |-> {}, error |-> "none", cause |-> "none", on |-> 0]

\* s, its migrate ended by an exception on version v.
Failed(s, v, cause) ==
  [s EXCEPT !.pc = "seed", !.todo = {}, !.error = "failed", !.cause = cause, !.on = v]

\* from: the archive being restored; undo: the databases before the restore.
NoCommand == [pc |-> "idle", then |-> "idle", at |-> 0, trees |-> {}, app |-> NoCopy,
              trace |-> 0, hashed |-> <<>>, from |-> NoCopy, undo |-> NoCopy]

Init ==
  /\ release = 1
  /\ db = [applied |-> {}, rows |-> 0, seeded |-> FALSE] /\ trace = 0
  /\ tree = [t \in Trees |-> 0]
  /\ baks = {} /\ archives = {}
  /\ proc = [p \in Procs |-> Stopped]
  /\ op = NoCommand
  /\ clock = 0 /\ failures = 0

AllStopped == \A p \in Procs : proc[p].pc = "off"

\* Another image, once the old one is stopped; newer or, to roll back, older.
Deploy(r) ==
  /\ AllStopped /\ op.pc = "idle" /\ r # release
  /\ release' = r
  /\ UNCHANGED <<files, baks, archives, proc, op, clock, failures>>

\* What clients of a running process write.
Write ==
  /\ \E p \in Procs : proc[p].pc = "up"
  /\ db.rows + trace + tree["uploads"] + tree["qdrant"] < MaxWrites
  /\ \/ db' = [db EXCEPT !.rows = @ + 1] /\ UNCHANGED <<trace, tree>>
     \/ trace' = trace + 1 /\ UNCHANGED <<db, tree>>
     \/ /\ \E t \in DOMAIN tree : tree' = [tree EXCEPT ![t] = @ + 1]
        /\ UNCHANGED <<db, trace>>
  /\ UNCHANGED <<release, baks, archives, proc, op, clock, failures>>

-----------------------------------------------------------------------------
(* init_db.                                                                *)

At(p, pc) == proc[p].pc = pc

\* p goes to pc; the files stay as they are.
Go(p, s) == /\ proc' = [proc EXCEPT ![p] = s]
            /\ UNCHANGED <<release, trace, tree, archives, op>>

\* Not while a restore is under way; a backup may be.
Boot(p) ==
  /\ At(p, "off") /\ op.from = NoCopy
  /\ proc' = [proc EXCEPT ![p] = [Stopped EXCEPT !.pc = "look"]]
  /\ op' = [op EXCEPT !.undo = NoCopy]
  /\ UNCHANGED <<release, files, baks, archives, clock, failures>>

\* Is there anything to migrate, and anything worth a copy?
NeedsCopy(d) == Pending(d, release) # {} /\ Current(d) > 0 /\ ~Ahead(d, release)

Look(p) ==
  /\ At(p, "look")
  /\ Go(p, [proc[p] EXCEPT !.pc = IF NeedsCopy(db) THEN "copy" ELSE "inspect"])
  /\ UNCHANGED <<db, baks, clock, failures>>

\* sqlite_snapshot sees one committed state of the database.
Copy(p) ==
  /\ At(p, "copy") /\ clock < MaxStamps
  /\ clock' = clock + 1
  /\ baks' = baks \cup {[to |-> release, at |-> clock', was |-> Current(db)]}
  /\ Go(p, [proc[p] EXCEPT !.pc = "thin", !.copy = clock'])
  /\ UNCHANGED <<db, failures>>

\* The order the copies are kept in: by the version they were made for, then by time.
Before(a, b) == a.to > b.to \/ (a.to = b.to /\ a.at > b.at)
Surplus == {b \in baks : Cardinality({a \in baks : Before(a, b)}) >= Keep}

Thin(p) ==
  /\ At(p, "thin")
  /\ baks' = baks \ Surplus
  /\ Go(p, [proc[p] EXCEPT !.pc = "inspect"])
  /\ UNCHANGED <<db, clock, failures>>

\* A copy that fails is logged and the start goes on.
CopyFails(p) ==
  /\ proc[p].pc \in {"copy", "thin"} /\ failures < MaxFailures
  /\ failures' = failures + 1
  /\ Go(p, [proc[p] EXCEPT !.pc = "inspect", !.copy = 0])
  /\ UNCHANGED <<db, baks, clock>>

\* migrate: a database that is ahead is left alone.
Inspect(p) ==
  /\ At(p, "inspect")
  /\ Go(p, IF Ahead(db, release) THEN [proc[p] EXCEPT !.pc = "seed", !.error = "ahead"]
           ELSE [proc[p] EXCEPT !.pc = "migrate", !.todo = Pending(db, release)])
  /\ UNCHANGED <<db, baks, clock, failures>>

\* Mutant of Skips: the version is not read again inside the transaction.
SkipsNever(v) == FALSE

\* Another process got there first.
Skips(v) == Current(db) >= v

\* One pending migration, in one immediate transaction with its record.  A
\* version that is recorded already cannot be recorded again (PRIMARY KEY).
Apply(p) ==
  LET v == Min(proc[p].todo) IN
  /\ At(p, "migrate") /\ proc[p].todo # {}
  /\ \/ /\ Skips(v)
        /\ db' = db
        /\ Go(p, [proc[p] EXCEPT !.todo = @ \ {v}])
     \/ /\ ~Skips(v) /\ v \notin db.applied
        /\ db' = [db EXCEPT !.applied = @ \cup {v}]
        /\ Go(p, [proc[p] EXCEPT !.todo = @ \ {v}])
     \/ /\ ~Skips(v) /\ v \in db.applied
        /\ db' = db
        /\ Go(p, Failed(proc[p], v, "recorded"))
  /\ UNCHANGED <<baks, clock, failures>>

\* A migration that raises is rolled back, and the later ones are not tried.
ApplyFails(p) ==
  LET v == Min(proc[p].todo) IN
  /\ At(p, "migrate") /\ proc[p].todo # {} /\ ~Skips(v) /\ failures < MaxFailures
  /\ failures' = failures + 1
  /\ Go(p, Failed(proc[p], v, "raised"))
  /\ UNCHANGED <<db, baks, clock>>

\* BEGIN IMMEDIATE is inside the try: another process held the write lock, to
\* migrate or to write, for longer than db_busy_timeout_ms.
ApplyLocked(p) ==
  /\ At(p, "migrate") /\ proc[p].todo # {} /\ failures < MaxFailures
  /\ \E q \in Procs \ {p} : ~At(q, "off")
  /\ failures' = failures + 1
  /\ Go(p, Failed(proc[p], Min(proc[p].todo), "locked"))
  /\ UNCHANGED <<db, baks, clock>>

Migrated(p) ==
  /\ At(p, "migrate") /\ proc[p].todo = {}
  /\ Go(p, [proc[p] EXCEPT !.pc = "seed"])
  /\ UNCHANGED <<db, baks, clock, failures>>

\* Default settings and rules, where there are none; without tables the start fails.
Seed(p) ==
  /\ At(p, "seed")
  /\ IF db.applied = {}
       THEN db' = db /\ Go(p, Stopped)
       ELSE db' = [db EXCEPT !.seeded = TRUE] /\ Go(p, [proc[p] EXCEPT !.pc = "up"])
  /\ UNCHANGED <<baks, clock, failures>>

\* A process is stopped, or dies, of a lock outside migrate's try included.
Stop(p) ==
  /\ ~At(p, "off")
  /\ IF At(p, "up") THEN failures' = failures
                    ELSE failures < MaxFailures /\ failures' = failures + 1
  /\ Go(p, Stopped)
  /\ UNCHANGED <<db, baks, clock>>

InitDb(p) ==
  \/ Boot(p) \/ Look(p) \/ Copy(p) \/ Thin(p) \/ CopyFails(p)
  \/ Inspect(p) \/ Apply(p) \/ ApplyFails(p) \/ ApplyLocked(p) \/ Migrated(p) \/ Seed(p) \/ Stop(p)

-----------------------------------------------------------------------------
(* python -m app.backup.                                                   *)

Command(c) == op' = c /\ UNCHANGED <<release, baks, proc>>

\* create_backup: its name is given first, then the members are collected.
Create(trees) ==
  /\ op.pc = "idle" /\ clock < MaxStamps
  /\ clock' = clock + 1
  /\ Command([op EXCEPT !.pc = "app", !.then = "idle", !.at = clock', !.trees = trees])
  /\ UNCHANGED <<files, archives, failures>>

SnapApp ==
  /\ op.pc = "app"
  /\ Command([op EXCEPT !.pc = "trace", !.app = db])
  /\ UNCHANGED <<files, archives, clock, failures>>

SnapTrace ==
  /\ op.pc = "trace"
  /\ Command([op EXCEPT !.pc = "hash", !.trace = trace])
  /\ UNCHANGED <<files, archives, clock, failures>>

\* The manifest gets a checksum of every file as it is now ...
Hash ==
  /\ op.pc = "hash"
  /\ Command([op EXCEPT !.pc = "pack", !.hashed = [t \in op.trees |-> tree[t]]])
  /\ UNCHANGED <<files, archives, clock, failures>>

\* ... and the archive the files as they are then.
Pack ==
  /\ op.pc = "pack"
  /\ archives' = archives \cup
       {[at |-> op.at, app |-> op.app, trace |-> op.trace, hashed |-> op.hashed,
         stored |-> [t \in op.trees |-> tree[t]]]}
  /\ Command([op EXCEPT !.pc = op.then, !.app = NoCopy, !.trace = 0, !.hashed = <<>>])
  /\ UNCHANGED <<files, clock, failures>>

\* verify_backup: every member has the checksum the manifest lists.
Verifies(a) == a.stored = a.hashed

\* Mutant of Steps: the databases are written before the safety backup is made.
StepsSafetyLast(safety) ==
  [first |-> "restoreapp", then |-> IF safety THEN "restoretrace" ELSE "idle"]

\* restore_backup: where it goes first, and after the safety backup.
Steps(safety) ==
  [first |-> IF safety THEN "app" ELSE "restoreapp", then |-> "restoreapp"]

\* With the writers stopped.  Refused: what does not verify or has a newer schema.
Restore(a, trees, safety) ==
  /\ op.pc = "idle" /\ AllStopped /\ a \in archives
  /\ Verifies(a) /\ ~Ahead(a.app, release)
  /\ IF safety THEN clock < MaxStamps /\ clock' = clock + 1 ELSE clock' = clock
  /\ Command([op EXCEPT !.pc = Steps(safety).first, !.then = Steps(safety).then,
                        !.at = clock', !.trees = trees, !.from = a,
                        !.undo = IF safety THEN [app |-> db, trace |-> trace] ELSE NoCopy])
  /\ UNCHANGED <<files, archives, failures>>

RestoreApp ==
  /\ op.pc = "restoreapp"
  /\ db' = op.from.app
  /\ Command([op EXCEPT !.pc = "restoretrace"])
  /\ UNCHANGED <<trace, tree, archives, clock, failures>>

RestoreTrace ==
  /\ op.pc = "restoretrace"
  /\ trace' = op.from.trace
  /\ Command([op EXCEPT !.pc = "restoretrees"])
  /\ UNCHANGED <<db, tree, archives, clock, failures>>

\* Uploads always, the vector store if asked for.
RestoreTrees ==
  /\ op.pc = "restoretrees"
  /\ tree' = [t \in DOMAIN tree |->
                IF t \in op.trees \cap DOMAIN op.from.stored THEN op.from.stored[t] ELSE tree[t]]
  /\ Command([op EXCEPT !.pc = "idle", !.from = NoCopy])
  /\ UNCHANGED <<db, trace, archives, clock, failures>>

\* The command fails or is interrupted: what is written stays written.
CommandFails ==
  /\ op.pc # "idle" /\ failures < MaxFailures
  /\ failures' = failures + 1
  /\ Command([NoCommand EXCEPT !.undo = op.undo])
  /\ UNCHANGED <<files, archives, clock>>

Prune(keep) ==
  /\ op.pc = "idle"
  /\ \E a \in archives : Cardinality({b \in archives : b.at > a.at}) >= keep
  /\ archives' = {a \in archives : Cardinality({b \in archives : b.at > a.at}) < keep}
  /\ Command([op EXCEPT !.undo = NoCopy])
  /\ UNCHANGED <<files, clock, failures>>

Backup ==
  \/ \E trees \in {{"uploads"}, Trees} :
       \/ Create(trees)
       \/ \E a \in archives, safety \in BOOLEAN : Restore(a, trees, safety)
  \/ SnapApp \/ SnapTrace \/ Hash \/ Pack
  \/ RestoreApp \/ RestoreTrace \/ RestoreTrees
  \/ CommandFails \/ Prune(1)

Next ==
  \/ \E r \in Versions : Deploy(r)
  \/ Write
  \/ \E p \in Procs : InitDb(p)
  \/ Backup

Spec == Init /\ [][Next]_vars

-----------------------------------------------------------------------------
\* Types; the recorded versions have no gap.
TypeOK ==
  /\ release \in Versions
  /\ db \in Database /\ db.applied = 1..Current(db)
  /\ trace \in 0..MaxWrites
  /\ \A t \in DOMAIN tree : tree[t] \in 0..MaxWrites
  /\ \A p \in Procs : proc[p].todo \subseteq Versions /\ proc[p].copy \in 0..clock
  /\ op.undo = NoCopy \/ op.undo.app \in Database

\* migrate reports a failure only for a migration that raised or a write lock it
\* waited for in vain, never because another process had already recorded the
\* version, and "leaves the database at the last good version": everything before
\* the version it failed on is recorded (runner.py, migrate).
ErrorsAreReal ==
  \A p \in Procs : proc[p].error = "failed" =>
    /\ proc[p].cause \in {"raised", "locked"}
    /\ \A v \in Versions : v < proc[p].on => v \in db.applied

\* A process that came up without an error has the schema its release needs,
\* however many others were migrating beside it (database.py, init_db).
StartsOnItsSchema ==
  \A p \in Procs : At(p, "up") /\ proc[p].error = "none" => Current(db) = release

\* From the first write of a restore on, a restore that fails included, an
\* archive that verifies has the databases as they were (restore_backup).
RestoreCanBeUndone ==
  op.undo # NoCopy /\ (db # op.undo.app \/ trace # op.undo.trace)
    => \E a \in archives : Verifies(a) /\ a.app = op.undo.app /\ a.trace = op.undo.trace

=============================================================================
