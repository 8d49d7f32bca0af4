-------------------------- MODULE SchemaCacheProofs --------------------------
(***************************************************************************)
(* Theorems about SchemaCache, for any number of threads, alterations of   *)
(* the target database and saves of the settings.                          *)
(*                                                                         *)
(* The inductive invariant follows a schema from the moment it is read: no *)
(* version lies in the future, and the thread with the lock holds a schema *)
(* at least as new as anything a load has put into the file, filtered by   *)
(* settings at least as new as those of its fingerprint, which equal those *)
(* in force when it took the lock.                                         *)
(***************************************************************************)
EXTENDS SchemaCache, TLAPS

\* A file at database version d, settings c, newest version n.
GoodFile(f, d, c, n) ==
  f.ok => /\ f.schema # None
          /\ f.schema.db <= d /\ f.schema.cfg <= c /\ f.fp <= c
          /\ f.by = "load" => n <= f.schema.db /\ f.fp <= f.schema.cfg
          /\ f.by = "reindex" => f.embedded

\* A thread's memory likewise.
GoodLoader(L, d, c, n) ==
  /\ L.pc \in {"drift", "embed", "open", "dump"} => L.got # None
  /\ L.got # None => L.got.db <= d /\ L.got.cfg <= c
  /\ L.since <= c /\ L.fp <= c
  /\ L.task # "reindex" => /\ Setting[L.fp] = Setting[L.since]
                           /\ L.pc \in {"read", "extract"} => L.fp = L.since
                           /\ L.pc # "idle" => L.floor <= n
  /\ L.from = "reindex" => L.pc = "idle" \/ (L.pc = "drift" /\ L.embedded)
  /\ L.task = "reindex" => /\ L.from = "load"
                           /\ L.pc \in {"idle", "embed", "open", "dump"}
                           /\ L.pc = "idle" => L.got = None
                           /\ L.pc \in {"open", "dump"} => L.embedded
  /\ L.task # "reindex" /\ L.from = "load" /\ L.got # None =>
       /\ L.fp <= L.got.cfg
       /\ L.pc = "idle" => L.floor <= L.got.db
       /\ L.pc # "idle" => n <= L.got.db

IInv ==
  /\ TypeOK
  /\ newest <= db
  /\ GoodFile(file, db, cfg, newest)
  /\ \A t \in Threads : GoodLoader(loader[t], db, cfg, newest)

LEMMA Bounds == MaxAlters \in Nat /\ MaxSaves \in Nat /\ Saves = 0..MaxSaves
BY SchemaCacheAssumption DEF Saves

LEMMA IdleLoader ==
  ASSUME NEW d \in Nat, NEW c \in Nat, NEW n \in Nat
  PROVE  Idle \in Loader /\ GoodLoader(Idle, d, c, n)
<1>1. 0 \in Saves /\ 0 \in 0..MaxAlters
  BY Bounds
<1>2. Idle \in Loader
  BY <1>1 DEF Idle, Loader
<1>3. GoodLoader(Idle, d, c, n)
  BY DEF Idle, GoodLoader
<1> QED
  BY <1>2, <1>3

LEMMA InitIInv == Init => IInv
<1> SUFFICES ASSUME Init PROVE IInv
  OBVIOUS
<1> 0 \in Saves /\ 0 \in 0..MaxAlters /\ 0 \in Nat
  BY Bounds
<1>0. file \in File /\ ~file.ok
  BY DEF Init, File, NoFile
<1>1. TypeOK
  <2>1. \A t \in Threads : loader[t] = Idle /\ lock # t
    BY SchemaCacheAssumption DEF Init
  <2>2. loader \in [Threads -> Loader]
    BY IdleLoader DEF Init
  <2>3. \A t \in Threads : lock = t <=> ~At(t, "idle") /\ loader[t].task # "reindex"
    BY <2>1 DEF At, Idle
  <2> QED
    BY <1>0, <2>2, <2>3 DEF Init, TypeOK
<1>2. GoodFile(file, db, cfg, newest) /\ newest <= db
  BY DEF Init, GoodFile, NoFile
<1>3. \A t \in Threads : GoodLoader(loader[t], db, cfg, newest)
  BY IdleLoader DEF Init
<1> QED
  BY <1>1, <1>2, <1>3 DEF IInv

-----------------------------------------------------------------------------
\* Time passes: a good memory or file stays good.  A newer file only matters to
\* the thread with the lock.
LEMMA LoaderLater ==
  ASSUME NEW L \in Loader, NEW d \in Nat, NEW c \in Nat, NEW n \in Nat,
         NEW d2 \in Nat, NEW c2 \in Nat, NEW n2 \in Nat,
         GoodLoader(L, d, c, n), d <= d2, c <= c2,
         n2 = n \/ (n <= n2 /\ (L.pc = "idle" \/ L.task = "reindex"))
  PROVE  GoodLoader(L, d2, c2, n2)
<1> L.since \in Nat /\ L.fp \in Nat /\ L.floor \in Nat /\ L.got.db \in Int /\ L.got.cfg \in Int
  BY Bounds DEF Loader, Schemas, None
<1> QED
  BY DEF GoodLoader

LEMMA FileLater ==
  ASSUME NEW f \in File, NEW d \in Nat, NEW c \in Nat, NEW n \in Nat,
         NEW d2 \in Nat, NEW c2 \in Nat, GoodFile(f, d, c, n), d <= d2, c <= c2
  PROVE  GoodFile(f, d2, c2, n)
<1> f.fp \in Nat /\ f.schema.db \in Int /\ f.schema.cfg \in Int
  BY Bounds DEF File, Schemas, None
<1> QED
  BY DEF GoodFile

\* The thread that holds the lock is the only one inside a load.
LEMMA LockExcludes ==
  ASSUME TypeOK, NEW t \in Threads, NEW u \in Threads, t # u,
         ~At(t, "idle"), loader[t].task # "reindex"
  PROVE  At(u, "idle") \/ loader[u].task = "reindex"
BY DEF TypeOK

LEMMA LockIs ==
  ASSUME IInv
  PROVE  /\ lock \in Threads \cup {NoThread}
         /\ \A u \in Threads : lock = u <=> loader[u].pc # "idle" /\ loader[u].task # "reindex"
BY DEF IInv, TypeOK, At

\* What Leave makes of thread t.
LEMMA LeaveStep ==
  ASSUME IInv, NEW t \in Threads, ~At(t, "idle"), NEW got,
         \/ got = None
         \/ got = loader[t].got /\ loader[t].task # "reindex" /\ got # None,
         Leave(t, got), NEW d \in Nat, NEW c \in Nat, NEW n \in Nat,
         d = db, c = cfg,
         got # None /\ loader[t].from = "load" => loader[t].floor <= got.db
  PROVE  /\ loader' \in [Threads -> Loader]
         /\ GoodLoader(loader'[t], d, c, n)
         /\ \A u \in Threads \ {t} : loader'[u] = loader[u]
         /\ lock' \in Threads \cup {NoThread}
         /\ \A u \in Threads :
              lock' = u <=> loader'[u].pc # "idle" /\ loader'[u].task # "reindex"
<1> DEFINE L == loader[t]
           s == [L EXCEPT !.pc = "idle", !.got = got, !.embedded = FALSE]
<1>0. TypeOK /\ L \in Loader /\ GoodLoader(L, db, cfg, newest)
  BY DEF IInv, TypeOK
<1>1. got \in Schemas \cup {None}
  BY <1>0 DEF Loader
<1>2. s \in Loader /\ s.pc = "idle"
  BY <1>0, <1>1 DEF Loader
<1>3. GoodLoader(s, d, c, n)
  BY <1>0, <1>1 DEF GoodLoader, Loader
<1>4. loader' = [loader EXCEPT ![t] = s]
  BY DEF Leave, Goto
<1>5. loader' \in [Threads -> Loader] /\ loader'[t] = s
      /\ \A u \in Threads \ {t} : loader'[u] = loader[u]
  BY <1>0, <1>2, <1>4 DEF TypeOK
<1>6. /\ lock' \in Threads \cup {NoThread}
      /\ \A u \in Threads :
           lock' = u <=> loader'[u].pc # "idle" /\ loader'[u].task # "reindex"
  <2>1. loader'[t].pc = "idle" /\ lock' # t
    BY <1>2, <1>5, SchemaCacheAssumption DEF Leave
  <2>2. lock \in Threads \cup {NoThread}
        /\ \A u \in Threads : lock = u <=> loader[u].pc # "idle" /\ loader[u].task # "reindex"
    BY LockIs
  <2>3. lock' = IF lock = t THEN NoThread ELSE lock
    BY DEF Leave
  <2>4. \A u \in Threads \ {t} : lock' = u <=> lock = u
    BY <2>3, SchemaCacheAssumption
  <2>5. lock' \in Threads \cup {NoThread}
    BY <2>2, <2>3
  <2> QED
    BY <1>5, <2>1, <2>2, <2>4, <2>5
<1> QED
  BY <1>3, <1>5, <1>6

\* What Goto makes of a thread that stays inside its call.
LEMMA GotoStep ==
  ASSUME IInv, NEW t \in Threads, NEW s \in Loader, Goto(t, s), lock' = lock,
         ~At(t, "idle"), s.pc # "idle", s.task = loader[t].task
  PROVE  /\ loader' \in [Threads -> Loader]
         /\ loader'[t] = s
         /\ \A u \in Threads \ {t} : loader'[u] = loader[u]
         /\ lock' \in Threads \cup {NoThread}
         /\ \A u \in Threads :
              lock' = u <=> loader'[u].pc # "idle" /\ loader'[u].task # "reindex"
BY DEF Goto, IInv, TypeOK, At

-----------------------------------------------------------------------------
\* The common end of every step of thread t: what it must show of its own
\* memory and of the file.
LEMMA Assemble ==
  ASSUME IInv, NEW t \in Threads,
         loader' \in [Threads -> Loader],
         \A u \in Threads \ {t} : loader'[u] = loader[u],
         lock' \in Threads \cup {NoThread},
         \A u \in Threads : lock' = u <=> loader'[u].pc # "idle" /\ loader'[u].task # "reindex",
         UNCHANGED <<db, cfg>>,
         newest' \in 0..MaxAlters, newest' <= db,
         newest' = newest \/ (newest <= newest' /\ ~At(t, "idle") /\ loader[t].task # "reindex"),
         GoodLoader(loader'[t], db, cfg, newest'),
         file' \in File, GoodFile(file', db, cfg, newest')
  PROVE  IInv'
<1>0. TypeOK /\ db \in Nat /\ cfg \in Nat /\ newest \in Nat /\ newest' \in Nat
  BY Bounds DEF IInv, TypeOK
<1>1. TypeOK'
  BY <1>0 DEF TypeOK, GoodFile, At
<1>2. ASSUME NEW u \in Threads, u # t PROVE GoodLoader(loader'[u], db, cfg, newest')
  <2>1. loader'[u] = loader[u] /\ loader[u] \in Loader /\ GoodLoader(loader[u], db, cfg, newest)
    BY <1>2, <1>0 DEF IInv, TypeOK
  <2>2. newest' = newest \/ loader[u].pc = "idle" \/ loader[u].task = "reindex"
    BY <1>0, <1>2, LockExcludes DEF At
  <2>3. newest' = newest \/ newest <= newest'
    BY <1>0
  <2> DEFINE L == loader[u]
             n2 == newest'
  <2>4. n2 \in Nat /\ L \in Loader /\ GoodLoader(L, db, cfg, newest)
    BY <1>0, <2>1
  <2>5. n2 = newest \/ (newest <= n2 /\ (L.pc = "idle" \/ L.task = "reindex"))
    BY <2>2, <2>3
  <2> HIDE DEF L, n2
  <2>6. GoodLoader(L, db, cfg, n2)
    BY <1>0, <2>4, <2>5, LoaderLater
  <2> QED
    BY <2>1, <2>6 DEF L, n2
<1> QED
  BY <1>1, <1>2 DEF IInv

LEMMA NextWorld == ASSUME IInv, Alter \/ SaveSettings PROVE IInv'
<1>0. TypeOK /\ db \in Nat /\ cfg \in Nat /\ newest \in Nat
  BY Bounds DEF IInv, TypeOK
<1>1. /\ db' \in 0..MaxAlters /\ cfg' \in Saves /\ db <= db' /\ cfg <= cfg'
      /\ UNCHANGED <<file, lock, loader, newest>>
  BY <1>0, Bounds DEF Alter, SaveSettings, TypeOK
<1>2. db' \in Nat /\ cfg' \in Nat /\ newest <= db'
  BY <1>0, <1>1, Bounds DEF IInv
<1>3. TypeOK'
  BY <1>0, <1>1 DEF TypeOK, At
<1>4. GoodFile(file, db', cfg', newest)
  BY <1>0, <1>1, <1>2, FileLater DEF IInv, TypeOK
<1>5. \A t \in Threads : GoodLoader(loader[t], db', cfg', newest)
  BY <1>0, <1>1, <1>2, LoaderLater DEF IInv, TypeOK
<1> QED
  BY <1>1, <1>2, <1>3, <1>4, <1>5 DEF IInv

\* The facts about thread t that every case below starts from.
LEMMA Here ==
  ASSUME IInv, NEW t \in Threads
  PROVE  /\ loader[t] \in Loader /\ GoodLoader(loader[t], db, cfg, newest)
         /\ file \in File /\ GoodFile(file, db, cfg, newest)
         /\ db \in 0..MaxAlters /\ cfg \in Saves /\ newest \in 0..MaxAlters
         /\ newest <= db /\ db \in Nat /\ cfg \in Nat /\ newest \in Nat
BY Bounds DEF IInv, TypeOK

LEMMA NextEnter ==
  ASSUME IInv, NEW t \in Threads, NEW task \in {"load", "refresh"}, Enter(t, task)
  PROVE  IInv'
<1> DEFINE s == [Idle EXCEPT !.pc = "read", !.task = task, !.fp = cfg,
                             !.since = cfg, !.floor = newest]
<1>0. /\ s.pc = "read" /\ s.task \in {"load", "refresh"} /\ s.fp = cfg /\ s.since = cfg
      /\ s.floor = newest /\ s.from = "load" /\ s.got = None
  BY DEF Idle
<1>1. s \in Loader /\ GoodLoader(s, db, cfg, newest)
  <2>1. Idle \in Loader
    BY Here, IdleLoader
  <2>2. s \in Loader
    BY <2>1, Here DEF Loader
  <2>3. GoodLoader(s, db, cfg, newest)
    <3> HIDE DEF s
    <3> QED
      BY <1>0, Here DEF GoodLoader
  <2> QED
    BY <2>2, <2>3
<1>2. /\ loader' \in [Threads -> Loader] /\ loader'[t] = s
      /\ \A u \in Threads \ {t} : loader'[u] = loader[u]
  BY <1>1 DEF Enter, Goto, IInv, TypeOK
<1>3. /\ lock' \in Threads \cup {NoThread}
      /\ \A u \in Threads : lock' = u <=> loader'[u].pc # "idle" /\ loader'[u].task # "reindex"
  <2>1. lock' = t /\ lock = NoThread /\ s.pc = "read" /\ s.task # "reindex"
    BY DEF Enter, Idle
  <2>2. \A u \in Threads \ {t} : loader'[u].pc = "idle" \/ loader'[u].task = "reindex"
    BY <1>2, <2>1, LockIs, SchemaCacheAssumption
  <2>3. loader'[t].pc # "idle" /\ loader'[t].task # "reindex"
    BY <1>2, <2>1
  <2> QED
    BY <2>1, <2>2, <2>3
<1> HIDE DEF s
<1> QED
  BY <1>1, <1>2, <1>3, Here, Assemble DEF Enter

LEMMA NextReindex == ASSUME IInv, NEW t \in Threads, Reindex(t) PROVE IInv'
<1> DEFINE s == [Idle EXCEPT !.pc = "embed", !.task = "reindex", !.got = file.schema]
<1>1. s \in Loader /\ GoodLoader(s, db, cfg, newest)
  BY Here, IdleLoader DEF Reindex, Loader, GoodLoader, GoodFile, File, Idle
<1>2. /\ loader' \in [Threads -> Loader] /\ loader'[t] = s
      /\ \A u \in Threads \ {t} : loader'[u] = loader[u]
  BY <1>1 DEF Reindex, Goto, IInv, TypeOK
<1>3. /\ lock' \in Threads \cup {NoThread}
      /\ \A u \in Threads : lock' = u <=> loader'[u].pc # "idle" /\ loader'[u].task # "reindex"
  <2>1. lock' = lock /\ loader[t].pc = "idle" /\ s.task = "reindex"
    BY DEF Reindex, Idle, At
  <2>2. lock # t /\ loader'[t].task = "reindex"
    BY <1>2, <2>1, LockIs
  <2> HIDE DEF s
  <2> QED
    BY <1>2, <2>1, <2>2, LockIs
<1> HIDE DEF s
<1> QED
  BY <1>1, <1>2, <1>3, Here, Assemble DEF Reindex

\* The fields of thread t's memory, and of the file, as separate facts.
LEMMA Fields ==
  ASSUME IInv, NEW t \in Threads
  PROVE  /\ loader[t].pc \in {"idle", "read", "drift", "extract", "embed", "open", "dump"}
         /\ loader[t].task \in {"load", "refresh", "reindex"}
         /\ loader[t].fp \in Saves /\ loader[t].since \in Saves /\ loader[t].floor \in 0..MaxAlters
         /\ loader[t].from \in {"load", "reindex"}
         /\ loader[t].got \in Schemas \cup {None} /\ loader[t].embedded \in BOOLEAN
         /\ loader[t].got.db \in Int /\ loader[t].got.cfg \in Int
         /\ loader[t].fp \in Nat /\ loader[t].since \in Nat /\ loader[t].floor \in Nat
         /\ file.ok \in BOOLEAN /\ file.by \in {"load", "reindex"} /\ file.fp \in Saves
         /\ file.schema \in Schemas \cup {None} /\ file.embedded \in BOOLEAN
         /\ file.schema.db \in Int /\ file.schema.cfg \in Int
<1>1. ASSUME NEW x \in Schemas \cup {None} PROVE x.db \in Int /\ x.cfg \in Int
  <2>1. CASE x \in Schemas
    BY <2>1, Bounds DEF Schemas
  <2>2. CASE x = None
    BY <2>2 DEF None
  <2> QED
    BY <2>1, <2>2
<1>2. loader[t] \in Loader /\ file \in File
  BY Here
<1>3. /\ loader[t].pc \in {"idle", "read", "drift", "extract", "embed", "open", "dump"}
      /\ loader[t].task \in {"load", "refresh", "reindex"}
      /\ loader[t].fp \in Saves /\ loader[t].since \in Saves /\ loader[t].floor \in 0..MaxAlters
      /\ loader[t].from \in {"load", "reindex"}
      /\ loader[t].got \in Schemas \cup {None} /\ loader[t].embedded \in BOOLEAN
  BY <1>2 DEF Loader
<1>4. /\ file.ok \in BOOLEAN /\ file.by \in {"load", "reindex"} /\ file.fp \in Saves
      /\ file.schema \in Schemas \cup {None} /\ file.embedded \in BOOLEAN
  BY <1>2 DEF File
<1> QED
  BY <1>1, <1>3, <1>4, Bounds

\* A step that only moves thread t on inside its call.
LEMMA GotoInv ==
  ASSUME IInv, NEW t \in Threads, NEW s \in Loader, Goto(t, s),
         ~At(t, "idle"), s.pc # "idle", s.task = loader[t].task,
         UNCHANGED <<db, cfg, lock, newest>>,
         GoodLoader(s, db, cfg, newest),
         file' \in File, GoodFile(file', db, cfg, newest)
  PROVE  IInv'
<1>1. /\ loader' \in [Threads -> Loader] /\ loader'[t] = s
      /\ \A u \in Threads \ {t} : loader'[u] = loader[u]
      /\ lock' \in Threads \cup {NoThread}
      /\ \A u \in Threads : lock' = u <=> loader'[u].pc # "idle" /\ loader'[u].task # "reindex"
  BY GotoStep
<1> QED
  BY <1>1, Here, Assemble

\* A step that ends the call of thread t.
LEMMA LeaveInv ==
  ASSUME IInv, NEW t \in Threads, ~At(t, "idle"), NEW got,
         \/ got = None
         \/ got = loader[t].got /\ loader[t].task # "reindex" /\ got # None,
         Leave(t, got), UNCHANGED <<db, cfg>>,
         newest' \in 0..MaxAlters, newest' <= db,
         newest' = newest \/ (newest <= newest' /\ loader[t].task # "reindex"),
         file' \in File, GoodFile(file', db, cfg, newest')
  PROVE  IInv'
<1>1. got # None /\ loader[t].from = "load" => loader[t].floor <= got.db
  <2>1. SUFFICES ASSUME got # None, loader[t].from = "load"
                 PROVE  loader[t].floor <= loader[t].got.db
    OBVIOUS
  <2>2. loader[t].floor <= newest /\ newest <= loader[t].got.db
    BY <2>1, Here DEF GoodLoader, At
  <2> QED
    BY <2>2, Fields, Here
<1>2. newest' \in Nat
  BY Bounds
<1> DEFINE n == newest'
<1>3. n \in Nat /\ n = newest'
  BY <1>2
<1> HIDE DEF n
<1>4. /\ loader' \in [Threads -> Loader]
      /\ GoodLoader(loader'[t], db, cfg, n)
      /\ \A u \in Threads \ {t} : loader'[u] = loader[u]
      /\ lock' \in Threads \cup {NoThread}
      /\ \A u \in Threads : lock' = u <=> loader'[u].pc # "idle" /\ loader'[u].task # "reindex"
  BY <1>1, <1>3, Here, LeaveStep
<1> QED
  BY <1>3, <1>4, Assemble

LEMMA NextReadFile == ASSUME IInv, NEW t \in Threads, ReadFile(t) PROVE IInv'
<1> DEFINE L == loader[t]
<1>0. L \in Loader /\ GoodLoader(L, db, cfg, newest) /\ L.pc = "read" /\ ~At(t, "idle")
  BY Here DEF ReadFile, At
<1>1. CASE Goto(t, [L EXCEPT !.pc = "drift", !.fp = file.fp, !.from = file.by, !.got = file.schema,
                              !.embedded = file.embedded]) /\ Fresh(t) /\ UNCHANGED lock
  <2> DEFINE s == [L EXCEPT !.pc = "drift", !.fp = file.fp, !.from = file.by, !.got = file.schema,
                            !.embedded = file.embedded]
  <2>1. /\ s.pc = "drift" /\ s.from = file.by /\ s.got = file.schema
        /\ s.embedded = file.embedded /\ s.task = L.task /\ s.fp = file.fp
        /\ s.since = L.since /\ s.floor = L.floor
    BY <1>0 DEF Loader
  <2>2. s \in Loader
    BY <1>0, Fields DEF Loader
  <2>3. Goto(t, s)
    BY <1>1
  <2> HIDE DEF s
  <2>4. L.fp = L.since /\ L.floor <= newest
    BY <1>0, <1>1 DEF GoodLoader, Fresh
  <2>5. Setting[s.fp] = Setting[s.since]
    BY <1>1, <2>1, <2>4 DEF Fresh
  <2>6. GoodLoader(s, db, cfg, newest)
    BY <1>0, <1>1, <2>1, <2>4, <2>5, Here DEF GoodLoader, GoodFile, Fresh
  <2> QED
    BY <1>0, <2>1, <2>2, <2>3, <2>6, <1>1, Here, GotoInv DEF ReadFile
<1>2. CASE Goto(t, [L EXCEPT !.pc = "extract"]) /\ UNCHANGED lock
  <2> DEFINE s == [L EXCEPT !.pc = "extract"]
  <2>1. /\ s.pc = "extract" /\ s.from = L.from /\ s.got = L.got
        /\ s.embedded = L.embedded /\ s.task = L.task /\ s.fp = L.fp
        /\ s.since = L.since /\ s.floor = L.floor
    BY <1>0 DEF Loader
  <2>2. s \in Loader
    BY <1>0, Fields DEF Loader
  <2>3. Goto(t, s)
    BY <1>2
  <2> HIDE DEF s
  <2>6. GoodLoader(s, db, cfg, newest)
    BY <1>0, <2>1, Here DEF GoodLoader
  <2> QED
    BY <1>0, <2>1, <2>2, <2>3, <2>6, <1>2, Here, GotoInv DEF ReadFile
<1>3. CASE Leave(t, None)
  BY <1>0, <1>3, Here, LeaveInv DEF ReadFile
<1> QED
  BY <1>1, <1>2, <1>3 DEF ReadFile

LEMMA NextUseHit == ASSUME IInv, NEW t \in Threads, UseHit(t) PROVE IInv'
<1> DEFINE L == loader[t]
<1>0. L \in Loader /\ GoodLoader(L, db, cfg, newest) /\ L.pc = "drift" /\ ~At(t, "idle")
  BY Here DEF UseHit, At
<1>1. ASSUME NEW s \in Loader, Goto(t, s), UNCHANGED lock, s.task = L.task, s.pc # "idle",
             GoodLoader(s, db, cfg, newest)
      PROVE  IInv'
  BY <1>0, <1>1, Here, GotoInv DEF UseHit
<1>2. CASE /\ Goto(t, [L EXCEPT !.pc = "extract", !.fp = L.since, !.from = "load", !.got = None])
           /\ UNCHANGED lock
  <2> DEFINE s == [L EXCEPT !.pc = "extract", !.fp = L.since, !.from = "load", !.got = None]
  <2>1. /\ s.pc = "extract" /\ s.from = "load" /\ s.got = None /\ s.task = L.task
        /\ s.fp = L.since /\ s.since = L.since /\ s.floor = L.floor
    BY <1>0 DEF Loader
  <2>2. s \in Loader
    BY <1>0 DEF Loader
  <2> HIDE DEF s
  <2>3. GoodLoader(s, db, cfg, newest)
    BY <1>0, <2>1 DEF GoodLoader
  <2> QED
    BY <1>1, <1>2, <2>1, <2>2, <2>3 DEF s
<1>3. CASE ~L.embedded /\ Goto(t, [L EXCEPT !.pc = "embed"]) /\ UNCHANGED lock
  <2> DEFINE s == [L EXCEPT !.pc = "embed"]
  <2>1. /\ s.pc = "embed" /\ s.from = L.from /\ s.got = L.got /\ s.task = L.task
        /\ s.fp = L.fp /\ s.since = L.since /\ s.floor = L.floor
    BY <1>0 DEF Loader
  <2>2. s \in Loader
    BY <1>0 DEF Loader
  <2> HIDE DEF s
  <2>3. GoodLoader(s, db, cfg, newest)
    BY <1>0, <1>3, <2>1 DEF GoodLoader
  <2> QED
    BY <1>1, <1>3, <2>1, <2>2, <2>3 DEF s
<1>4. CASE L.embedded /\ Leave(t, L.got)
  <2>1. L.got # None /\ L.task # "reindex"
    BY <1>0, Fields DEF GoodLoader
  <2> QED
    BY <1>0, <1>4, <2>1, Here, LeaveInv DEF UseHit
<1> QED
  BY <1>2, <1>3, <1>4 DEF UseHit

LEMMA NextExtract == ASSUME IInv, NEW t \in Threads, Extract(t) PROVE IInv'
<1> DEFINE L == loader[t]
<1>0. L \in Loader /\ GoodLoader(L, db, cfg, newest) /\ L.pc = "extract" /\ ~At(t, "idle")
  BY Here DEF Extract, At
<1>1. PICK x \in Extracted : Goto(t, [L EXCEPT !.pc = "embed", !.got = x])
  BY DEF Extract
<1>2. x \in Schemas /\ x.db = db /\ x.cfg = cfg
  BY Here DEF Extracted, Schemas
<1>3. x # None
  BY <1>2, Here DEF None
<1> DEFINE s == [L EXCEPT !.pc = "embed", !.got = x]
<1>4. /\ s.pc = "embed" /\ s.from = L.from /\ s.got = x /\ s.task = L.task
      /\ s.fp = L.fp /\ s.since = L.since /\ s.floor = L.floor
  BY <1>0 DEF Loader
<1>5. s \in Loader
  BY <1>0, <1>2 DEF Loader
<1>6. Goto(t, s)
  BY <1>1
<1> HIDE DEF s
<1>7. L.task # "reindex" /\ L.from = "load"
  BY <1>0, Fields DEF GoodLoader
<1>8. GoodLoader(s, db, cfg, newest)
  BY <1>0, <1>2, <1>3, <1>4, <1>7, Here, Fields DEF GoodLoader
<1> QED
  BY <1>0, <1>4, <1>5, <1>6, <1>8, Here, GotoInv DEF Extract

LEMMA NextEmbed == ASSUME IInv, NEW t \in Threads, Embed(t) PROVE IInv'
<1> DEFINE L == loader[t]
<1>0. L \in Loader /\ GoodLoader(L, db, cfg, newest) /\ L.pc = "embed" /\ ~At(t, "idle")
  BY Here DEF Embed, At
<1>1. ASSUME NEW ok \in BOOLEAN,
             L.task = "reindex" => ok,
             Goto(t, [L EXCEPT !.pc = "open", !.embedded = ok,
                               !.fp = IF L.task = "reindex" THEN cfg ELSE @]),
             UNCHANGED lock
      PROVE  IInv'
  <2> DEFINE s == [L EXCEPT !.pc = "open", !.embedded = ok,
                            !.fp = IF L.task = "reindex" THEN cfg ELSE @]
  <2>1. /\ s.pc = "open" /\ s.embedded = ok /\ s.from = L.from /\ s.got = L.got /\ s.task = L.task
        /\ s.since = L.since /\ s.floor = L.floor
        /\ s.fp = IF L.task = "reindex" THEN cfg ELSE L.fp
    BY <1>0 DEF Loader
  <2>2. s \in Loader
    BY <1>0, Here DEF Loader
  <2>3. Goto(t, s)
    BY <1>1
  <2> HIDE DEF s
  <2>4. GoodLoader(s, db, cfg, newest)
    BY <1>0, <1>1, <2>1, Here DEF GoodLoader
  <2> QED
    BY <1>0, <1>1, <2>1, <2>2, <2>3, <2>4, Here, GotoInv DEF Embed
<1>2. CASE Leave(t, None)
  BY <1>0, <1>2, Here, LeaveInv DEF Embed
<1> QED
  BY <1>1, <1>2 DEF Embed

\* What a call returns from "open" or "dump" on.
LEMMA ReturnedIs ==
  ASSUME IInv, NEW t \in Threads, loader[t].pc \in {"open", "dump"}
  PROVE  /\ loader[t].got # None
         /\ \/ Returned(t) = None
            \/ Returned(t) = loader[t].got /\ loader[t].task # "reindex" /\ Returned(t) # None
BY Here DEF GoodLoader, Returned

LEMMA NoGoodFile ==
  ASSUME NEW d, NEW c, NEW n
  PROVE  NoFile \in File /\ GoodFile(NoFile, d, c, n)
BY Bounds DEF NoFile, File, GoodFile

LEMMA NextOpen == ASSUME IInv, NEW t \in Threads, Open(t) PROVE IInv'
<1> DEFINE L == loader[t]
<1>0. L \in Loader /\ GoodLoader(L, db, cfg, newest) /\ L.pc = "open" /\ ~At(t, "idle")
  BY Here DEF Open, At
<1>1. CASE Goto(t, [L EXCEPT !.pc = "dump"]) /\ file' = NoFile /\ UNCHANGED lock
  <2> DEFINE s == [L EXCEPT !.pc = "dump"]
  <2>1. /\ s.pc = "dump" /\ s.embedded = L.embedded /\ s.from = L.from /\ s.got = L.got /\ s.task = L.task
        /\ s.fp = L.fp /\ s.since = L.since /\ s.floor = L.floor
    BY <1>0 DEF Loader
  <2>2. s \in Loader
    BY <1>0 DEF Loader
  <2>3. Goto(t, s)
    BY <1>1
  <2> HIDE DEF s
  <2>4. GoodLoader(s, db, cfg, newest)
    BY <1>0, <2>1 DEF GoodLoader
  <2>5. file' \in File /\ GoodFile(file', db, cfg, newest)
    BY <1>1, NoGoodFile
  <2> QED
    BY <1>0, <1>1, <2>1, <2>2, <2>3, <2>4, <2>5, GotoInv DEF Open
<1>2. CASE Leave(t, Returned(t)) /\ UNCHANGED file
  BY <1>0, <1>2, Here, ReturnedIs, LeaveInv DEF Open
<1> QED
  BY <1>1, <1>2 DEF Open

LEMMA NextDump == ASSUME IInv, NEW t \in Threads, Dump(t) PROVE IInv'
<1> DEFINE L == loader[t]
<1>0. L \in Loader /\ GoodLoader(L, db, cfg, newest) /\ L.pc = "dump" /\ ~At(t, "idle")
  BY Here DEF Dump, At
<1>1. CASE file' = NoFile /\ UNCHANGED newest
  <2>1. file' \in File /\ GoodFile(file', db, cfg, newest)
    BY <1>1, NoGoodFile
  <2> QED
    BY <1>0, <1>1, <2>1, Here, ReturnedIs, LeaveInv DEF Dump
<1>2. CASE /\ file' = Written(t)
           /\ newest' = IF L.task # "reindex" /\ L.got.db > newest THEN L.got.db ELSE newest
  <2>1. L.got # None /\ L.got \in Schemas /\ L.got.db <= db /\ L.got.cfg <= cfg /\ L.fp <= cfg
    BY <1>0, Fields DEF GoodLoader
  <2>2. L.got.db \in 0..MaxAlters
    BY <2>1 DEF Schemas
  <2>3. newest' \in 0..MaxAlters /\ newest' <= db
        /\ (newest' = newest \/ (newest <= newest' /\ L.task # "reindex"))
    BY <1>2, <2>1, <2>2, Here
  <2> DEFINE f == Written(t)
  <2>4. /\ f.ok /\ f.by = (IF L.task = "reindex" THEN "reindex" ELSE "load")
        /\ f.fp = L.fp /\ f.schema = L.got /\ f.embedded = L.embedded
    BY DEF Written
  <2>5. f \in File
    BY <2>1, Fields DEF Written, File
  <2> HIDE DEF f
  <2>6. CASE L.task = "reindex"
    <3>1. GoodFile(f, db, cfg, newest')
      BY <1>0, <2>1, <2>4, <2>6 DEF GoodFile, GoodLoader
    <3> QED
      BY <1>0, <1>2, <2>3, <2>5, <3>1, ReturnedIs, LeaveInv DEF Dump, f
  <2>7. CASE L.task # "reindex"
    <3>1. L.from = "load" /\ newest <= L.got.db /\ L.fp <= L.got.cfg
      BY <1>0, <2>1, <2>7, Fields DEF GoodLoader
    <3>2. newest' <= L.got.db
      BY <1>2, <2>2, <3>1, Here
    <3>3. GoodFile(f, db, cfg, newest')
      BY <2>1, <2>4, <2>7, <3>1, <3>2 DEF GoodFile
    <3> QED
      BY <1>0, <1>2, <2>3, <2>5, <3>3, ReturnedIs, LeaveInv DEF Dump, f
  <2> QED
    BY <2>6, <2>7
<1> QED
  BY <1>1, <1>2 DEF Dump

LEMMA NextIInv == ASSUME IInv, [Next]_vars PROVE IInv'
<1>1. CASE UNCHANGED vars
  BY <1>1 DEF vars, IInv, TypeOK, At
<1>2. CASE Next
  BY <1>2, NextWorld, NextEnter, NextReadFile, NextUseHit, NextExtract, NextEmbed,
     NextOpen, NextDump, NextReindex DEF Next
<1> QED
  BY <1>1, <1>2

LEMMA Invariance == Spec => []IInv
<1>1. Init => IInv
  BY InitIInv
<1>2. IInv /\ [Next]_vars => IInv'
  BY NextIInv
<1> QED
  BY <1>1, <1>2, PTL DEF Spec

\* At every moment the variables have their types and _schema_lock is held by
\* the one thread that is inside load_schema, by nobody when there is none: no
\* way out of load_schema, a raised exception included, keeps the lock.
THEOREM Typing == Spec => []TypeOK
<1>1. IInv => TypeOK
  BY DEF IInv
<1> QED
  BY <1>1, Invariance, PTL

\* A schema that load_schema returns, cached or extracted, is filtered by settings
\* in force at some moment since the load began, however many threads load, refresh,
\* reindex and save settings meanwhile.  Excepted are only the file a reindex wrote
\* and a file extracted while a save was made that another save has taken back.
THEOREM NeverStale == Spec => []HiddenUnlessReindexed
<1>1. IInv => HiddenUnlessReindexed
  <2> SUFFICES ASSUME IInv, NEW t \in Threads, Filtered(t), loader[t].from # "reindex",
                      ~SavedAndRestored(t)
               PROVE  Current(t)
    BY DEF HiddenUnlessReindexed
  <2> DEFINE L == loader[t]
  <2>1. L.from = "load" /\ L.got # None /\ L.pc = "idle"
    BY Fields DEF Filtered, Loaded, At
  <2>2. L.task # "reindex"
    BY <2>1, Here DEF GoodLoader
  <2>3. /\ Setting[L.fp] = Setting[L.since] /\ L.fp <= L.got.cfg
        /\ L.got.cfg <= cfg /\ L.since <= cfg
    BY <2>1, <2>2, Here DEF GoodLoader
  <2>4. L.got.cfg \in Int /\ L.since \in Nat /\ L.fp \in Nat /\ cfg \in Nat
    BY Fields, Here
  <2>5. CASE L.since <= L.got.cfg
    BY <2>3, <2>4, <2>5 DEF Current
  <2>6. CASE L.got.cfg < L.since
    <3>1. L.fp = L.got.cfg
      BY <2>3, <2>4, <2>6 DEF SavedAndRestored
    <3> QED
      BY <2>3, <2>4, <3>1 DEF Current
  <2> QED
    BY <2>4, <2>5, <2>6
<1> QED
  BY <1>1, Invariance, PTL

\* Such a load never returns a version of the target database older than one a
\* load had put into the cache file before it took the lock.
THEOREM Monotone == Spec => []NeverBackwards
<1>1. IInv => NeverBackwards
  <2> SUFFICES ASSUME IInv, NEW t \in Threads, Loaded(t), loader[t].from # "reindex"
               PROVE  loader[t].got.db >= loader[t].floor
    BY DEF NeverBackwards
  <2>1. loader[t].from = "load" /\ loader[t].got # None /\ loader[t].pc = "idle"
    BY Fields DEF Loaded, At
  <2>2. loader[t].floor <= loader[t].got.db
    BY <2>1, Here DEF GoodLoader
  <2> QED
    BY <2>2, Fields
<1> QED
  BY <1>1, Invariance, PTL
=============================================================================
