---------------------------- MODULE SchemaCache -----------------------------
(***************************************************************************)
(* The schema cache file of the backend (schema_manager.py) and who writes *)
(* it: load_schema under its process-wide lock, for a job, for a reader or *)
(* to refresh, and POST /api/debug/schema/reindex, which takes no lock.    *)
(*                                                                         *)
(* A schema is known by the version of the target database it was read     *)
(* from and by the version of the settings it was filtered with: the       *)
(* hidden tables and columns (the embedding model counts as one of them),  *)
(* which are read together.  A later save may restore earlier settings.    *)
(* Vectors, the vector store, relations added after the load and failing   *)
(* drift checks (ignored by the code) are left out.                        *)
(***************************************************************************)
EXTENDS Integers, FiniteSets

CONSTANTS
  Threads,     \* request and job threads of the process
  NoThread,    \* the lock is free
  MaxAlters,   \* bound: structural changes of the target database
  MaxSaves,    \* bound: saves of the settings
  Setting      \* Setting[v]: what the settings are after the v-th save

Saves == 0..MaxSaves

ASSUME SchemaCacheAssumption ==
  /\ NoThread \notin Threads
  /\ MaxAlters \in Nat /\ MaxSaves \in Nat
  /\ DOMAIN Setting = Saves

VARIABLES
  db,         \* version of the target database
  cfg,        \* saves of the settings so far
  file,       \* the cache file
  lock,       \* _schema_lock
  loader,     \* loader[t]: thread t inside load_schema or reindex
  newest      \* the newest database version a load has put into the file

vars == <<db, cfg, file, lock, loader, newest>>

\* An extraction that raises is cut off where it raised, a filter that raises
\* leaves everything in: extract_schema_metadata prints both and goes on.
Forms == {"whole", "cut", "unfiltered"}

Schemas == [db : 0..MaxAlters, cfg : Saves, form : Forms]
None == [db |-> -1, cfg |-> -1, form |-> "whole"]

\* What compute_schema_signature distinguishes.
Signature(s) == <<s.db, Setting[s.cfg], s.form>>

\* ok: the file parses; by: who wrote it; fp: the save whose settings its
\* fingerprint was computed from.
File == [ok : BOOLEAN, by : {"load", "reindex"}, fp : Saves,
         schema : Schemas \cup {None}, embedded : BOOLEAN]

NoFile == [ok |-> FALSE, by |-> "load", fp |-> 0, schema |-> None, embedded |-> FALSE]

\* fp: the save the fingerprint in hand was computed from; since, floor: cfg and
\* newest when the lock was taken; from: who wrote the file the schema was found in.
Loader == [pc : {"idle", "read", "drift", "extract", "embed", "open", "dump"},
           task : {"load", "refresh", "reindex"}, fp : Saves, since : Saves,
           floor : 0..MaxAlters, from : {"load", "reindex"}, got : Schemas \cup {None}, embedded : BOOLEAN]

Idle == [pc |-> "idle", task |-> "load", fp |-> 0, since |-> 0, floor |-> 0,
         from |-> "load", got |-> None, embedded |-> FALSE]

Init ==
  /\ db = 0 /\ cfg = 0 /\ newest = 0
  /\ file = NoFile
  /\ lock = NoThread
  /\ loader = [t \in Threads |-> Idle]

-----------------------------------------------------------------------------
(* The world around.                                                       *)

Alter ==
  /\ db < MaxAlters
  /\ db' = db + 1
  /\ UNCHANGED <<cfg, file, lock, loader, newest>>

SaveSettings ==
  /\ cfg < MaxSaves
  /\ cfg' = cfg + 1
  /\ UNCHANGED <<db, file, lock, loader, newest>>

-----------------------------------------------------------------------------
(* load_schema.                                                            *)

At(t, pc) == loader[t].pc = pc

Goto(t, s) == loader' = [loader EXCEPT ![t] = s]

\* The thread is done and remembers what it returns; `with _schema_lock` ends.
Leave(t, got) ==
  /\ Goto(t, [loader[t] EXCEPT !.pc = "idle", !.got = got, !.embedded = FALSE])
  /\ lock' = IF lock = t THEN NoThread ELSE lock

\* Mutant of Enter: no lock.
EnterUnlocked(t, task) ==
  /\ At(t, "idle")
  /\ Goto(t, [Idle EXCEPT !.pc = "read", !.task = task, !.fp = cfg,
                          !.since = cfg, !.floor = newest])
  /\ UNCHANGED <<db, cfg, file, lock, newest>>

\* Take the lock and compute the fingerprint of the settings as they are.
Enter(t, task) ==
  /\ At(t, "idle") /\ lock = NoThread
  /\ lock' = t
  /\ Goto(t, [Idle EXCEPT !.pc = "read", !.task = task, !.fp = cfg,
                          !.since = cfg, !.floor = newest])
  /\ UNCHANGED <<db, cfg, file, newest>>

\* The file is as good as a new extraction: not a refresh, and it parses.
Fresh(t) == loader[t].task = "load" /\ file.ok /\ Setting[file.fp] = Setting[loader[t].fp]

\* A torn file counts as none.  The call fails when the settings cannot be read.
\* Of a hit both fingerprints are the same; fp goes by the older save.
ReadFile(t) ==
  /\ At(t, "read")
  /\ \/ /\ Goto(t, IF Fresh(t)
                   THEN [loader[t] EXCEPT !.pc = "drift", !.fp = file.fp, !.from = file.by,
                                          !.got = file.schema, !.embedded = file.embedded]
                   ELSE [loader[t] EXCEPT !.pc = "extract"])
        /\ UNCHANGED lock
     \/ Leave(t, None)
  /\ UNCHANGED <<db, cfg, file, newest>>

\* What reading the database and filtering by the settings of now may give.
Extracted == [db : {db}, cfg : {cfg}, form : Forms]

\* A hit: the drift check (when switched on) may discard it, missing vectors
\* are computed, otherwise it is returned.
UseHit(t) ==
  /\ At(t, "drift")
  /\ \/ /\ \E s \in Extracted : Signature(s) # Signature(loader[t].got)
        /\ Goto(t, [loader[t] EXCEPT !.pc = "extract", !.fp = loader[t].since,
                                      !.from = "load", !.got = None])
        /\ UNCHANGED lock
     \/ /\ ~loader[t].embedded
        /\ Goto(t, [loader[t] EXCEPT !.pc = "embed"])
        /\ UNCHANGED lock
     \/ /\ loader[t].embedded
        /\ Leave(t, loader[t].got)
  /\ UNCHANGED <<db, cfg, file, newest>>

\* Mutant of Extract: the fingerprint is computed with the schema in hand.
ExtractThenFingerprint(t) ==
  /\ At(t, "extract")
  /\ \E s \in Extracted :
       Goto(t, [loader[t] EXCEPT !.pc = "embed", !.got = [s EXCEPT !.cfg = loader[t].fp],
                                 !.fp = cfg])
  /\ UNCHANGED <<db, cfg, file, lock, newest>>

Extract(t) ==
  /\ At(t, "extract")
  /\ \E s \in Extracted : Goto(t, [loader[t] EXCEPT !.pc = "embed", !.got = s])
  /\ UNCHANGED <<db, cfg, file, lock, newest>>

\* Vectors for the new tables.  A load goes on without them; a reindex that
\* has them refreshes the fingerprint, and fails otherwise.
Embed(t) ==
  /\ At(t, "embed")
  /\ \E ok \in BOOLEAN :
       IF loader[t].task = "reindex" /\ ~ok THEN Leave(t, None)
       ELSE /\ Goto(t, [loader[t] EXCEPT !.pc = "open", !.embedded = ok,
                                         !.fp = IF loader[t].task = "reindex" THEN cfg ELSE @])
            /\ UNCHANGED lock
  /\ UNCHANGED <<db, cfg, file, newest>>

\* What the call hands back when it leaves with or without a written file.
Returned(t) == IF loader[t].task = "reindex" THEN None ELSE loader[t].got

\* open(CACHE_PATH, "w") truncates, or raises, which is swallowed.
Open(t) ==
  /\ At(t, "open")
  /\ \/ /\ Goto(t, [loader[t] EXCEPT !.pc = "dump"])
        /\ file' = NoFile
        /\ UNCHANGED lock
     \/ Leave(t, Returned(t)) /\ UNCHANGED file
  /\ UNCHANGED <<db, cfg, newest>>

Written(t) == [ok |-> TRUE, by |-> IF loader[t].task = "reindex" THEN "reindex" ELSE "load",
               fp |-> loader[t].fp, schema |-> loader[t].got, embedded |-> loader[t].embedded]

\* json.dump fills the file.  It may fail half way, or mix with the text of a
\* writer that has the file open as well: either does not parse.
Dump(t) ==
  /\ At(t, "dump")
  /\ \/ /\ file' = Written(t)
        /\ newest' = IF loader[t].task # "reindex" /\ loader[t].got.db > newest
                     THEN loader[t].got.db ELSE newest
     \/ file' = NoFile /\ UNCHANGED newest
  /\ Leave(t, Returned(t))
  /\ UNCHANGED <<db, cfg>>

-----------------------------------------------------------------------------
(* POST /api/debug/schema/reindex.  Without a readable file it persists     *)
(* nothing.                                                                *)

Reindex(t) ==
  /\ At(t, "idle") /\ file.ok
  /\ Goto(t, [Idle EXCEPT !.pc = "embed", !.task = "reindex", !.got = file.schema])
  /\ UNCHANGED <<db, cfg, file, lock, newest>>

-----------------------------------------------------------------------------

Next ==
  \/ Alter \/ SaveSettings
  \/ \E t \in Threads :
       \/ \E task \in {"load", "refresh"} : Enter(t, task)
       \/ ReadFile(t) \/ UseHit(t) \/ Extract(t) \/ Embed(t) \/ Open(t) \/ Dump(t)
       \/ Reindex(t)

Spec == Init /\ [][Next]_vars

-----------------------------------------------------------------------------
(* Properties.                                                             *)

\* Types; the lock is held exactly by the thread inside load_schema.
TypeOK ==
  /\ db \in 0..MaxAlters /\ cfg \in Saves /\ newest \in 0..MaxAlters
  /\ file \in File
  /\ file.ok => file.schema # None
  /\ loader \in [Threads -> Loader]
  /\ \A t \in Threads : lock = t <=> ~At(t, "idle") /\ loader[t].task # "reindex"
  /\ lock \in Threads \cup {NoThread}

Loaded(t) == At(t, "idle") /\ loader[t].got # None

\* The settings a schema was filtered with are those of some moment from the
\* start of the load on.
Current(t) ==
  \E v \in loader[t].since..cfg : Setting[loader[t].got.cfg] = Setting[v]

Filtered(t) == Loaded(t) /\ loader[t].got.form # "unfiltered"

\* The load that extracted the schema computed its fingerprint before a save and
\* filtered after it, and a later save has restored the settings of the fingerprint:
\* the file counts as fresh although it was filtered by the settings in between.
SavedAndRestored(t) ==
  /\ loader[t].fp < loader[t].got.cfg /\ loader[t].got.cfg < loader[t].since
  /\ Setting[loader[t].fp] = Setting[loader[t].since]

\* "Deterministic SHA-256 over the inputs the cached schema depends on": what is
\* hidden when a load starts is not in the schema it returns, cached or not, unless
\* the filter itself failed, a reindex gave the file a new fingerprint, or a save
\* between the two readings of the settings has been taken back since.  Other saves
\* while a schema is read, embedded or written never make a stale file look fresh,
\* and a refresh repairs whatever the file has (schema_manager.py, load_schema).
HiddenUnlessReindexed ==
  \A t \in Threads :
    Filtered(t) /\ loader[t].from # "reindex" => Current(t) \/ SavedAndRestored(t)

\* Nor does such a load return an older database version than a load before it
\* had put into the file.
NeverBackwards ==
  \A t \in Threads :
    Loaded(t) /\ loader[t].from # "reindex" => loader[t].got.db >= loader[t].floor

=============================================================================
