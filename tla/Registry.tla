------------------------------ MODULE Registry ------------------------------
(***************************************************************************)
(* The registry behind /api/v1: organizations, workspaces, connections,    *)
(* schema syncs, query runs, feedback and API keys, each a table of the    *)
(* app database with a repository and a router of the same shape.          *)
(*                                                                         *)
(* Handlers run in threads, and a handler is one or more transactions:     *)
(* here one action each.  No table has a FOREIGN KEY; what a row refers to *)
(* is kept alive only by the order of these transactions.                  *)
(***************************************************************************)
EXTENDS Integers, FiniteSets, FiniteSetsExt

CONSTANTS
  Clients,     \* requests under way at the same time
  Slugs,       \* slugs of organizations and workspaces, refs of connections
  Modes,       \* auth modes a client asks for
  Signatures,  \* signatures of schema structures
  MaxIds       \* bound: rows ever inserted

ASSUME RegistryAssumption ==
  Modes \subseteq {"none", "secret_ref", "iam"} /\ MaxIds \in Nat \ {0} /\ 0 \notin Signatures \cup Clients

VARIABLES
  table,    \* table[t]: the rows of table t
  used,     \* ids given so far (uuid4: never given twice)
  req,      \* req[c]: the request client c is waiting for
  credit,   \* credit[i]: DELETE requests answered 200 for id i
  synced    \* every sync ever stored: <<connection, signature, id>>

vars == <<table, used, req, credit, synced>>

Tables == {"org", "workspace", "connection", "sync", "run", "feedback", "key"}

\* The table the rows of t belong to a row of.
Parents == [workspace |-> "org", connection |-> "workspace", sync |-> "connection",
            run |-> "connection", feedback |-> "run"]
ParentOf(t) == IF t \in DOMAIN Parents THEN Parents[t] ELSE "none"

Default == 1  \* the id of the organization the migrations insert

Ids(t) == {r.id : r \in table[t]}
RowOf(t, i) == CHOOSE r \in table[t] : r.id = i
Children(t, i) == {r \in UNION {table[u] : u \in {v \in Tables : ParentOf(v) = t}} : r.up = i}

\* up: the parent's id, 0 for none; prev: the signature compared with, 0 for none;
\* revoked: the request that revoked a key, 0 for none.
Row == [id |-> 0, up |-> 0, name |-> 0, auth |-> "none", secret |-> "unset", prev |-> 0, revoked |-> 0]
Only(i) == [Row EXCEPT !.id = i]
Idle == [pc |-> "idle", on |-> "none", row |-> Row]

Init ==
  /\ table = [t \in Tables |-> IF t = "org" THEN {[Row EXCEPT !.id = Default]} ELSE {}]
  /\ used = Default
  /\ req = [c \in Clients |-> Idle]
  /\ credit = [i \in 1..MaxIds |-> 0]
  /\ synced = {}

Free(c) == req[c].pc = "idle"
At(c, pc) == req[c].pc = pc

\* The status is not kept; credit counts those a property is about.
Answer(c, status) == status \in 200..500 /\ req' = [req EXCEPT ![c] = Idle]
Continue(c, pc, t, row) == req' = [req EXCEPT ![c] = [pc |-> pc, on |-> t, row |-> row]]

Read == UNCHANGED <<table, used, credit, synced>>

-----------------------------------------------------------------------------
(* POST.                                                                   *)

\* An id left out is no reference; a workspace without an organization gets the default one.
Known(t, up) == up \in {0} \cup UNION {Ids(p) : p \in {ParentOf(t)} \cap Tables}
Home(t, up) == IF t = "workspace" /\ up = 0 THEN Default ELSE up

\* UNIQUE(slug), UNIQUE(organization_id, slug), UNIQUE(connection_ref).
Taken(t, row) ==
  \/ t \in {"org", "connection"} /\ \E r \in table[t] : r.name = row.name
  \/ t = "workspace" /\ \E r \in table[t] : r.name = row.name /\ r.up = row.up

Insert(c, t, row) ==
  /\ table' = [table EXCEPT ![t] = @ \cup {row}]
  /\ used' = row.id
  /\ Continue(c, "readback", t, Only(row.id))
  /\ UNCHANGED credit

\* SQLConnectionProfile: what a profile may be.
Valid(auth, secret) ==
  (auth = "secret_ref" => secret = "set") /\ (auth = "none" => secret = "unset")

\* The check of the parent, the UNIQUE constraint and the INSERT are one transaction.
PostAtomic(c, t, up, name, auth, secret) ==
  LET row == [Row EXCEPT !.id = used + 1, !.up = Home(t, up), !.name = name,
                         !.auth = auth, !.secret = secret] IN
  /\ Free(c) /\ used < MaxIds
  /\ \/ ~Valid(auth, secret) /\ Answer(c, 422) /\ Read
     \/ Valid(auth, secret) /\ ~Known(t, Home(t, up)) /\ Answer(c, 400) /\ Read
     \/ Valid(auth, secret) /\ Known(t, Home(t, up)) /\ Taken(t, row) /\ Answer(c, 409) /\ Read
     \/ /\ Valid(auth, secret) /\ Known(t, Home(t, up)) /\ ~Taken(t, row)
        /\ Insert(c, t, row) /\ UNCHANGED synced

\* The handler looks for the parent, the repository inserts later.
PostChecked(c, t, up, name) ==
  /\ Free(c) /\ used < MaxIds
  /\ IF up \in Ids(ParentOf(t))
       THEN Continue(c, IF t = "sync" THEN "latest" ELSE "insert", t,
                     [Row EXCEPT !.up = up, !.name = name])
       ELSE Answer(c, 400)
  /\ Read

\* Mutant of Latest: the newest sync of any connection.
LatestOfAny(i) == table["sync"]

\* get_latest_for_connection: rows by rowid, which grows over the rows there are.
Latest(i) == {r \in table["sync"] : r.up = i}

ReadLatest(c) ==
  LET rows == Latest(req[c].row.up)
      last == {r \in rows : \A q \in rows : q.id <= r.id} IN
  /\ At(c, "latest")
  /\ Continue(c, "insert", "sync",
              [req[c].row EXCEPT !.prev = IF rows = {} THEN 0 ELSE (CHOOSE r \in last : TRUE).name])
  /\ Read

PostInsert(c) ==
  LET t == req[c].on
      row == [req[c].row EXCEPT !.id = used + 1] IN
  /\ At(c, "insert") /\ used < MaxIds
  /\ Insert(c, t, row)
  /\ synced' = IF t = "sync" THEN synced \cup {<<row.up, row.name, row.id>>} ELSE synced

\* The answer is built from the row as read back; a row deleted meanwhile is a TypeError.
ReadBack(c) ==
  /\ At(c, "readback")
  /\ Answer(c, IF req[c].row.id \in Ids(req[c].on) THEN 201 ELSE 500)
  /\ Read

-----------------------------------------------------------------------------
(* PATCH /connections/{id}: auth or secret "keep" is a field left out.     *)

\* auth_mode none clears the stored secret, whatever else is sent.
Written(f) == IF f.auth = "none" THEN [f EXCEPT !.secret = "unset"] ELSE f
Merged(row, w) ==
  [row EXCEPT !.auth = IF w.auth = "keep" THEN @ ELSE w.auth,
              !.secret = IF w.secret = "keep" THEN @ ELSE w.secret]

\* update_connection reads the row and validates the merged profile ...
PatchRead(c, i, fields) ==
  /\ Free(c)
  /\ \/ i \notin Ids("connection") /\ Answer(c, 404)
     \/ /\ i \in Ids("connection")
        /\ LET new == Merged(RowOf("connection", i), Written(fields)) IN
           IF Valid(new.auth, new.secret)
             THEN Continue(c, "patch", "connection", [Written(fields) EXCEPT !.id = i])
             ELSE Answer(c, 422)
  /\ Read

\* ... and writes the given columns of the row as it is then.
PatchWrite(c) ==
  LET i == req[c].row.id IN
  /\ At(c, "patch")
  /\ table' = [table EXCEPT !["connection"] =
                 {IF r.id = i THEN Merged(r, req[c].row) ELSE r : r \in @}]
  /\ Answer(c, IF i \in Ids("connection") THEN 200 ELSE 404)
  /\ UNCHANGED <<used, credit, synced>>

-----------------------------------------------------------------------------
(* DELETE.                                                                 *)

Delete(c, t, i) ==
  /\ Free(c)
  /\ IF i \in Ids(t) THEN Continue(c, "delete", t, Only(i)) ELSE Answer(c, 404)
  /\ Read

\* Mutant of Deletable: only what the handler read counts.
DeletableUnused(t, i) == i \in Ids(t) /\ i # Default

\* One conditional DELETE; only organizations and workspaces are guarded.
Deletable(t, i) ==
  /\ i \in Ids(t)
  /\ t = "org" => i # Default
  /\ t \in {"org", "workspace"} => Children(t, i) = {}

\* Mutant of Deleted: the answer does not depend on the row count.
DeletedAnyway(t, i) == {i} \ {Default}

\* The ids the statement removed (rowcount).
Deleted(t, i) == {j \in {i} : Deletable(t, j)}

DeleteRow(c) ==
  LET t == req[c].on  i == req[c].row.id IN
  /\ At(c, "delete")
  /\ table' = [table EXCEPT ![t] = {r \in @ : r.id \notin Deleted(t, i)}]
  /\ credit' = [j \in 1..MaxIds |-> credit[j] + IF j \in Deleted(t, i) THEN 1 ELSE 0]
  /\ IF Deleted(t, i) # {} THEN Answer(c, 200)
     ELSE IF t \in {"org", "workspace"} THEN Continue(c, "why", t, req[c].row)
     ELSE Answer(c, 404)
  /\ UNCHANGED <<used, synced>>

\* Why nothing was deleted is asked afterwards.
DeleteWhy(c) ==
  /\ At(c, "why")
  /\ Answer(c, IF req[c].row.id \in Ids(req[c].on) THEN 409 ELSE 404)
  /\ Read

-----------------------------------------------------------------------------
(* POST /api-keys/{id}/revoke.                                             *)

Revoke(c, i) ==
  /\ Free(c)
  /\ IF i \in Ids("key") THEN Continue(c, "revoke", "key", Only(i)) ELSE Answer(c, 404)
  /\ Read

Revocable(r, i) == r.id = i /\ r.revoked = 0

RevokeRow(c) ==
  /\ At(c, "revoke")
  /\ table' = [table EXCEPT !["key"] =
                 {IF Revocable(r, req[c].row.id) THEN [r EXCEPT !.revoked = c] ELSE r : r \in @}]
  /\ Answer(c, 200)
  /\ UNCHANGED <<used, credit, synced>>

\* verify_key: the key rows a raw key may match.
Active == {r \in table["key"] : r.revoked = 0}

-----------------------------------------------------------------------------
Fields(a, s) == [Row EXCEPT !.auth = a, !.secret = s]

\* The ids a client may name: those of the table, and one that is often not.
Named(t) == Ids(t) \cup {used}

Post(c) ==
  \/ \E n \in Slugs : PostAtomic(c, "org", 0, n, "none", "unset")
  \/ \E n \in Slugs, up \in {0} \cup Named("org") : PostAtomic(c, "workspace", up, n, "none", "unset")
  \/ \E n \in Slugs, up \in {0} \cup Named("workspace"), a \in Modes, s \in {"set", "unset"} :
       PostAtomic(c, "connection", up, n, a, s)
  \/ PostAtomic(c, "key", 0, 0, "none", "unset")
  \/ \E n \in Signatures, up \in Named("connection") : PostChecked(c, "sync", up, n)
  \/ \E t \in {"run", "feedback"} : \E up \in Named(ParentOf(t)) : PostChecked(c, t, up, 0)
  \/ ReadLatest(c) \/ PostInsert(c) \/ ReadBack(c)

Patch(c) ==
  \/ PatchWrite(c)
  \/ \E i \in Named("connection"), a \in Modes \cup {"keep"}, s \in {"keep", "set"} :
       PatchRead(c, i, Fields(a, s))

DeleteRequest(c) ==
  \/ \E t \in Tables \ {"key"} : \E i \in Named(t) : Delete(c, t, i)
  \/ DeleteRow(c) \/ DeleteWhy(c)

RevokeRequest(c) == RevokeRow(c) \/ \E i \in Named("key") : Revoke(c, i)

Next == \E c \in Clients : Post(c) \/ Patch(c) \/ DeleteRequest(c) \/ RevokeRequest(c)

Spec == Init /\ [][Next]_vars

-----------------------------------------------------------------------------
\* Types; an id is a row of one table at most.
TypeOK ==
  /\ used \in Default..MaxIds
  /\ \A t \in Tables : Ids(t) \subseteq 1..used
  /\ Cardinality(UNION {Ids(t) : t \in Tables}) = MapThenSumSet(LAMBDA t : Cardinality(table[t]), Tables)
  /\ \A c \in Clients : req[c].on \in Tables \cup {"none"}

\* No workspace outlives its organization and no connection its workspace, and
\* the default organization stays, however creations and deletions overlap
\* (delete_organization, delete_workspace: "a connection can never be orphaned").
NothingOrphaned ==
  /\ Default \in Ids("org")
  /\ \A w \in table["workspace"] : w.up \in Ids("org")
  /\ \A k \in table["connection"] : k.up = 0 \/ k.up \in Ids("workspace")

\* Of the requests that delete one row, one is answered 200
\* (api/workspaces.py: "a concurrent delete loses with a 404 instead of a stale 200").
OneDeleteWins == \A i \in 1..MaxIds : credit[i] <= 1

\* A sync that reports its drift against a signature does so against a snapshot
\* stored earlier for the same connection, deleted since or not (create_schema_sync).
DriftIsAgainstOwnSnapshot ==
  \A s \in table["sync"] : s.prev # 0 => \E i \in 1..s.id - 1 : <<s.up, s.prev, i>> \in synced

=============================================================================
