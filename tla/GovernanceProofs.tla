--------------------------- MODULE GovernanceProofs ---------------------------
(***************************************************************************)
(* Who owns what, who approved what, what was logged, what a statement     *)
(* does: Registry and Contracts for any numbers of clients, rows,          *)
(* approvers and entries, and for statements and prompts of any length.    *)
(***************************************************************************)
EXTENDS Registry, Contracts, DataLemmas, SequenceTheorems

-----------------------------------------------------------------------------
(***************************************************************************)
(* Registry for any number of clients, names, signatures and rows: nothing *)
(* is orphaned, one delete wins, drift is against an earlier snapshot of   *)
(* the same connection.                                                    *)
(***************************************************************************)

Rows == [id : Nat, up : Nat, name : Slugs \cup Signatures \cup {0},
         auth : Modes \cup {"none", "keep"}, secret : {"set", "unset", "keep"},
         prev : Signatures \cup {0}, revoked : Clients \cup {0}]

Pcs == {"idle", "latest", "insert", "readback", "patch", "delete", "why", "revoke"}

Requests == [pc : Pcs, on : Tables \cup {"none"}, row : Rows]

\* What a request carries depends on where it is: only syncs look for the latest
\* one, only unguarded tables are inserted into after a check.
GoodReq(r) ==
  /\ r.pc = "latest" => r.on = "sync" /\ r.row.name \in Signatures /\ r.row.prev = 0
  /\ r.pc = "insert" => r.on \in {"sync", "run", "feedback"}
  /\ r.pc = "insert" /\ r.on = "sync" =>
       /\ r.row.name \in Signatures
       /\ r.row.prev # 0 => \E i \in 1..used : <<r.row.up, r.row.prev, i>> \in synced
  /\ r.pc = "delete" => r.on \in Tables
  /\ r.pc = "why" => r.on \in Tables

TypeInv ==
  /\ table \in [Tables -> SUBSET Rows]
  /\ used \in Nat /\ used <= MaxIds
  /\ credit \in [1..MaxIds -> Nat]
  /\ req \in [Clients -> Requests] /\ \A c \in Clients : GoodReq(req[c])

\* An id is given once, and a row that was deleted for a 200 does not come back.
IdsInv ==
  /\ \A t \in Tables : \A r \in table[t] :
       /\ r.id \in 1..used
       /\ credit[r.id] = 0
       /\ \A u \in Tables : r.id \in Ids(u) => u = t
  /\ \A i \in 1..MaxIds : i > used => credit[i] = 0
  /\ OneDeleteWins

\* Of the syncs of a connection, up to any id, there is a newest.
Upto(i, k) == {r \in table["sync"] : r.up = i /\ r.id <= k}

NewestInv ==
  \A i, k \in Nat : Upto(i, k) # {} => \E r \in Upto(i, k) : \A q \in Upto(i, k) : q.id <= r.id

SyncInv ==
  /\ DriftIsAgainstOwnSnapshot
  /\ \A s \in table["sync"] : <<s.up, s.name, s.id>> \in synced /\ s.name \in Signatures
  /\ NewestInv

IInv == TypeInv /\ NothingOrphaned /\ IdsInv /\ SyncInv

-----------------------------------------------------------------------------
(* The helpers.                                                            *)

LEMMA RowTypes ==
  /\ Row \in Rows /\ Row.name = 0 /\ Row.up = 0 /\ Row.prev = 0
  /\ \A i \in Nat : Only(i) \in Rows /\ Only(i).id = i
  /\ Idle \in Requests /\ GoodReq(Idle)
<1>1. Row \in Rows /\ Row.name = 0 /\ Row.up = 0 /\ Row.prev = 0
  BY DEF Row, Rows
<1>2. ASSUME NEW i \in Nat PROVE Only(i) \in Rows /\ Only(i).id = i
  BY <1>1 DEF Only, Rows
<1>3. Idle \in Requests /\ GoodReq(Idle)
  BY <1>1 DEF Idle, Requests, Pcs, GoodReq
<1> QED
  BY <1>1, <1>2, <1>3

LEMMA MergedType ==
  ASSUME NEW r \in Rows, NEW w \in Rows
  PROVE  /\ Merged(r, w) \in Rows
         /\ Merged(r, w).id = r.id /\ Merged(r, w).up = r.up
<1> DEFINE a == IF w.auth = "keep" THEN r.auth ELSE w.auth
           k == IF w.secret = "keep" THEN r.secret ELSE w.secret
<1>1. a \in Modes \cup {"none", "keep"} /\ k \in {"set", "unset", "keep"}
  BY DEF Rows
<1>2. Merged(r, w) = [r EXCEPT !.auth = a, !.secret = k]
  BY DEF Merged
<1> HIDE DEF a, k
<1> QED
  BY <1>1, <1>2 DEF Rows

LEMMA WrittenType ==
  ASSUME NEW a \in Modes \cup {"keep"}, NEW k \in {"keep", "set"}, NEW i \in Nat
  PROVE  [Written(Fields(a, k)) EXCEPT !.id = i] \in Rows
<1>1. Fields(a, k) \in Rows
  BY RowTypes DEF Fields, Rows
<1>2. Written(Fields(a, k)) \in Rows
  BY <1>1 DEF Written, Rows
<1> QED
  BY <1>2 DEF Rows

LEMMA ParentTable ==
  /\ ParentOf("org") = "none" /\ ParentOf("workspace") = "org"
  /\ ParentOf("connection") = "workspace" /\ ParentOf("sync") = "connection"
  /\ ParentOf("run") = "connection" /\ ParentOf("feedback") = "run" /\ ParentOf("key") = "none"
BY DEF ParentOf, Parents

\* A request moves on, and nothing it knew of is forgotten.
LEMMA ReqStep ==
  ASSUME TypeInv, NEW c \in Clients, NEW x \in Requests, req' = [req EXCEPT ![c] = x],
         used' \in Nat, used <= used', synced \subseteq synced', GoodReq(x)'
  PROVE  req' \in [Clients -> Requests] /\ \A d \in Clients : GoodReq(req[d])'
<1>1. ASSUME NEW r, GoodReq(r) PROVE GoodReq(r)'
  BY <1>1 DEF GoodReq, TypeInv
<1>2. req' \in [Clients -> Requests] /\ \A d \in Clients : req'[d] = IF d = c THEN x ELSE req[d]
  BY DEF TypeInv
<1> QED
  BY <1>1, <1>2 DEF TypeInv, GoodReq

LEMMA ReadStep ==
  ASSUME IInv, NEW c \in Clients, NEW x \in Requests, req' = [req EXCEPT ![c] = x],
         GoodReq(x), Read
  PROVE  IInv'
<1>1. /\ used' \in Nat /\ used <= used' /\ synced \subseteq synced'
      /\ UNCHANGED <<table, used, credit, synced>>
  BY DEF Read, IInv, TypeInv
<1>2. GoodReq(x)'
  BY <1>1 DEF GoodReq
<1>3. TypeInv'
  BY <1>1, <1>2, ReqStep DEF IInv, TypeInv
<1>4. NothingOrphaned' /\ IdsInv' /\ SyncInv'
  BY <1>1 DEF IInv, NothingOrphaned, IdsInv, OneDeleteWins, SyncInv, DriftIsAgainstOwnSnapshot,
              NewestInv, Upto, Ids
<1> QED
  BY <1>3, <1>4 DEF IInv

LEMMA AnswerStep ==
  ASSUME IInv, NEW c \in Clients, NEW status, Answer(c, status), Read
  PROVE  IInv'
BY RowTypes, ReadStep DEF Answer

LEMMA ContinueStep ==
  ASSUME IInv, NEW c \in Clients, NEW pc \in Pcs, NEW t \in Tables, NEW row \in Rows,
         Continue(c, pc, t, row), Read,
         pc \notin {"latest", "insert"} \/ GoodReq([pc |-> pc, on |-> t, row |-> row])
  PROVE  IInv'
<1> DEFINE x == [pc |-> pc, on |-> t, row |-> row]
<1>1. x \in Requests /\ GoodReq(x)
  BY DEF Requests, GoodReq
<1> HIDE DEF x
<1>2. req' = [req EXCEPT ![c] = x]
  BY DEF Continue, x
<1> QED
  BY <1>1, <1>2, ReadStep

\* Ids a client can name are numbers.
LEMMA IdsAreNumbers ==
  ASSUME IInv, NEW t \in Tables
  PROVE  /\ Ids(t) \subseteq Nat /\ Named(t) \subseteq Nat
         /\ \A i \in Ids(t) : i \in 1..used /\ i \in 1..MaxIds /\ credit[i] = 0
         /\ \A i \in Ids(t), u \in Tables : i \in Ids(u) => u = t
<1>1. \A r \in table[t] : r.id \in 1..used /\ credit[r.id] = 0 /\ r.id \in Nat
  BY DEF IInv, IdsInv, TypeInv, Rows
<1>2. used \in Nat /\ used <= MaxIds
  BY DEF IInv, TypeInv
<1>3. \A r \in table[t], u \in Tables : r.id \in Ids(u) => u = t
  BY DEF IInv, IdsInv
<1>4. MaxIds \in Nat
  BY RegistryAssumption
<1> QED
  BY <1>1, <1>2, <1>3, <1>4 DEF Ids, Named

-----------------------------------------------------------------------------
(* A row is inserted.                                                      *)

\* What the new row of table t must be.
NewRow(t, row) ==
  /\ row \in Rows /\ row.id = used + 1
  /\ t = "workspace" => row.up \in Ids("org")
  /\ t = "connection" => row.up = 0 \/ row.up \in Ids("workspace")
  /\ t = "sync" => /\ row.name \in Signatures
                   /\ row.prev # 0 => \E i \in 1..used : <<row.up, row.prev, i>> \in synced

LEMMA InsertStep ==
  ASSUME IInv, NEW c \in Clients, NEW t \in Tables, NEW row, NewRow(t, row), used < MaxIds,
         Insert(c, t, row),
         synced' = IF t = "sync" THEN synced \cup {<<row.up, row.name, row.id>>} ELSE synced
  PROVE  IInv'
<1>t. /\ used \in Nat /\ MaxIds \in Nat /\ used + 1 \in Nat /\ row \in Rows /\ row.id = used + 1
      /\ table \in [Tables -> SUBSET Rows] /\ credit \in [1..MaxIds -> Nat]
  BY RegistryAssumption DEF IInv, TypeInv, NewRow
<1>1. /\ table' = [table EXCEPT ![t] = @ \cup {row}] /\ used' = used + 1 /\ credit' = credit
  BY <1>t DEF Insert
<1>2. \A u \in Tables : table'[u] = IF u = t THEN table[t] \cup {row} ELSE table[u]
  BY <1>t, <1>1
<1>3. TypeInv'
  <2> DEFINE x == [pc |-> "readback", on |-> t, row |-> Only(row.id)]
  <2>1. x \in Requests /\ GoodReq(x)'
    BY <1>t, RowTypes DEF Requests, Pcs, GoodReq
  <2>2. req' = [req EXCEPT ![c] = x]
    BY DEF Insert, Continue
  <2> HIDE DEF x
  <2>3. used <= used' /\ used' \in Nat /\ synced \subseteq synced' /\ used' <= MaxIds
    BY <1>t, <1>1
  <2>4. TypeInv
    BY DEF IInv
  <2>5. req' \in [Clients -> Requests] /\ \A d \in Clients : GoodReq(req[d])'
    BY <2>1, <2>2, <2>3, <2>4, ReqStep
  <2>6. table' \in [Tables -> SUBSET Rows]
    BY <1>t, <1>1, <1>2
  <2> QED
    BY <1>t, <1>1, <2>3, <2>5, <2>6 DEF TypeInv
<1>i. \A u \in Tables : /\ Ids(u)' = IF u = t THEN Ids(u) \cup {used + 1} ELSE Ids(u)
                        /\ used + 1 \notin Ids(u)
  <2>1. \A u \in Tables : \A i \in Ids(u) : i \in 1..used
    BY IdsAreNumbers
  <2>2. used + 1 \notin 1..used
    BY <1>t
  <2>3. \A u \in Tables : used + 1 \notin Ids(u)
    BY <2>1, <2>2
  <2>4. ASSUME NEW u \in Tables
        PROVE  {r.id : r \in table'[u]} = IF u = t THEN Ids(u) \cup {used + 1} ELSE Ids(u)
    BY <1>t, <1>2 DEF Ids
  <2>5. \A u \in Tables : Ids(u)' = {r.id : r \in table'[u]}
    BY DEF Ids
  <2> QED
    BY <2>3, <2>4, <2>5
<1>4. NothingOrphaned'
  <2>1. "org" \in Tables /\ "workspace" \in Tables /\ "connection" \in Tables
    BY DEF Tables
  <2>2. Ids("org") \subseteq Ids("org")' /\ Ids("workspace") \subseteq Ids("workspace")'
    BY <1>i, <2>1
  <2>3. \A w \in table'["workspace"] : w.up \in Ids("org")
    BY <1>2, <2>1 DEF IInv, NothingOrphaned, NewRow
  <2>4. \A k \in table'["connection"] : k.up = 0 \/ k.up \in Ids("workspace")
    BY <1>2, <2>1 DEF IInv, NothingOrphaned, NewRow
  <2> QED
    BY <2>2, <2>3, <2>4 DEF IInv, NothingOrphaned
<1>5. IdsInv'
  <2>1. ASSUME NEW u \in Tables, NEW r \in table'[u]
        PROVE  /\ r.id \in 1..used' /\ credit'[r.id] = 0
               /\ \A v \in Tables : r.id \in Ids(v)' => v = u
    <3>1. CASE r \in table[u]
      <4>1. /\ r.id \in 1..used /\ credit[r.id] = 0
            /\ \A v \in Tables : r.id \in Ids(v) => v = u
        BY <3>1 DEF IInv, IdsInv
      <4> QED
        BY <1>t, <1>1, <1>i, <4>1
    <3>2. CASE u = t /\ r = row
      <4>1. credit[used + 1] = 0
        BY <1>t DEF IInv, IdsInv
      <4> QED
        BY <1>t, <1>1, <1>i, <3>2, <4>1
    <3> QED
      BY <1>2, <2>1, <3>1, <3>2
  <2>2. \A i \in 1..MaxIds : i > used' => credit'[i] = 0
    BY <1>t, <1>1 DEF IInv, IdsInv
  <2> QED
    BY <1>1, <2>1, <2>2 DEF IInv, IdsInv, OneDeleteWins
<1>6. CASE t # "sync"
  <2>1. table'["sync"] = table["sync"] /\ synced' = synced
    BY <1>2, <1>6 DEF Tables
  <2>2. SyncInv'
    BY <2>1 DEF IInv, SyncInv, DriftIsAgainstOwnSnapshot, NewestInv, Upto
  <2> QED
    BY <1>3, <1>4, <1>5, <2>2 DEF IInv
<1>7. CASE t = "sync"
  <2>1. /\ table'["sync"] = table["sync"] \cup {row}
        /\ synced' = synced \cup {<<row.up, row.name, row.id>>}
    BY <1>2, <1>7
  <2>2. DriftIsAgainstOwnSnapshot'
    <3>1. 1..row.id - 1 = 1..used
      BY <1>t
    <3>2. row.prev # 0 => \E i \in 1..row.id - 1 : <<row.up, row.prev, i>> \in synced
      BY <1>7, <3>1 DEF NewRow
    <3> QED
      BY <2>1, <3>2 DEF IInv, SyncInv, DriftIsAgainstOwnSnapshot
  <2>3. \A x \in table'["sync"] : <<x.up, x.name, x.id>> \in synced' /\ x.name \in Signatures
    BY <1>7, <2>1 DEF IInv, SyncInv, NewRow
  <2>4. NewestInv'
    <3>1. \A r \in table["sync"] : r.id \in Nat /\ r.id <= used
      <4>1. \A r \in table["sync"] : r.id \in 1..used
        BY DEF IInv, IdsInv, Tables
      <4> QED
        BY <1>t, <4>1
    <3>2. ASSUME NEW i \in Nat, NEW k \in Nat, Upto(i, k)' # {}
          PROVE  \E r \in Upto(i, k)' : \A q \in Upto(i, k)' : q.id <= r.id
      <4>1. CASE row.up = i /\ row.id <= k
        <5>1. row \in Upto(i, k)' /\ \A q \in Upto(i, k)' : q.id <= row.id
          BY <1>t, <2>1, <3>1, <4>1 DEF Upto
        <5> QED
          BY <5>1
      <4>2. CASE ~(row.up = i /\ row.id <= k)
        <5>1. Upto(i, k)' = Upto(i, k)
          BY <2>1, <4>2 DEF Upto
        <5> QED
          BY <3>2, <5>1 DEF IInv, SyncInv, NewestInv
      <4> QED
        BY <4>1, <4>2
    <3> QED
      BY <3>2 DEF NewestInv
  <2>5. SyncInv'
    BY <2>2, <2>3, <2>4 DEF SyncInv
  <2> QED
    BY <1>3, <1>4, <1>5, <2>5 DEF IInv
<1> QED
  BY <1>6, <1>7

-----------------------------------------------------------------------------
(* Rows of a table that nothing refers to by more than their ids change.   *)

LEMMA ModifyStep ==
  ASSUME IInv, NEW c \in Clients, NEW status, Answer(c, status),
         NEW t \in {"connection", "key"}, NEW S, S \subseteq Rows,
         table' = [table EXCEPT ![t] = S], UNCHANGED <<used, credit, synced>>,
         \A q \in S : \E r \in table[t] : q.id = r.id /\ q.up = r.up
  PROVE  IInv'
<1>t. table \in [Tables -> SUBSET Rows] /\ t \in Tables
  BY DEF IInv, TypeInv, Tables
<1>2. \A u \in Tables : table'[u] = IF u = t THEN S ELSE table[u]
  BY <1>t
<1>3. TypeInv'
  <2>1. Idle \in Requests /\ GoodReq(Idle)' /\ req' = [req EXCEPT ![c] = Idle]
    BY RowTypes DEF Answer, GoodReq, Idle
  <2>2. TypeInv /\ used' \in Nat /\ used <= used' /\ synced \subseteq synced'
    BY DEF IInv, TypeInv
  <2>3. req' \in [Clients -> Requests] /\ \A d \in Clients : GoodReq(req[d])'
    BY <2>1, <2>2, ReqStep
  <2> QED
    BY <1>t, <1>2, <2>2, <2>3 DEF TypeInv
<1>i. \A u \in Tables : Ids(u)' \subseteq Ids(u) /\ (u # t => Ids(u)' = Ids(u))
  BY <1>2 DEF Ids
<1>4. NothingOrphaned'
  <2>1. "org" \in Tables /\ "workspace" \in Tables /\ "connection" \in Tables
    BY DEF Tables
  <2>2. Ids("org")' = Ids("org") /\ Ids("workspace")' = Ids("workspace")
    BY <1>i, <2>1
  <2>3. table'["workspace"] = table["workspace"]
    BY <1>2, <2>1
  <2>4. \A k \in table'["connection"] : k.up = 0 \/ k.up \in Ids("workspace")
    BY <1>2, <2>1 DEF IInv, NothingOrphaned
  <2> QED
    BY <2>2, <2>3, <2>4 DEF IInv, NothingOrphaned
<1>5. IdsInv'
  <2>1. ASSUME NEW u \in Tables, NEW r \in table'[u]
        PROVE  /\ r.id \in 1..used /\ credit[r.id] = 0
               /\ \A v \in Tables : r.id \in Ids(v)' => v = u
    <3>1. PICK q \in table[u] : q.id = r.id
      BY <1>2, <2>1
    <3>2. /\ q.id \in 1..used /\ credit[q.id] = 0
          /\ \A v \in Tables : q.id \in Ids(v) => v = u
      BY <3>1 DEF IInv, IdsInv
    <3> QED
      BY <1>i, <3>1, <3>2
  <2> QED
    BY <2>1 DEF IInv, IdsInv, OneDeleteWins
<1>6. SyncInv'
  <2>1. table'["sync"] = table["sync"]
    BY <1>2 DEF Tables
  <2> QED
    BY <2>1 DEF IInv, SyncInv, DriftIsAgainstOwnSnapshot, NewestInv, Upto
<1> QED
  BY <1>3, <1>4, <1>5, <1>6 DEF IInv

-----------------------------------------------------------------------------
(* A row is deleted.                                                       *)

LEMMA DeleteStep ==
  ASSUME IInv, NEW c \in Clients, DeleteRow(c)
  PROVE  IInv'
<1> DEFINE t == req[c].on
           i == req[c].row.id
           D == Deleted(t, i)
<1>1. At(c, "delete") /\ UNCHANGED <<used, synced>>
  BY DEF DeleteRow
<1>t. /\ t \in Tables /\ i \in Nat /\ req[c].row \in Rows /\ MaxIds \in Nat
      /\ table \in [Tables -> SUBSET Rows] /\ credit \in [1..MaxIds -> Nat]
      /\ used \in Nat /\ used <= MaxIds
  <2>1. req[c] \in Requests /\ GoodReq(req[c]) /\ req[c].pc = "delete"
    BY <1>1 DEF IInv, TypeInv, At
  <2> QED
    BY <2>1, RegistryAssumption DEF IInv, TypeInv, GoodReq, Requests, Rows
<1>d. D \subseteq {i} /\ \A j \in D : Deletable(t, j)
  BY DEF Deleted
<1>2. \A u \in Tables : table'[u] = IF u = t THEN {r \in table[t] : r.id \notin D} ELSE table[u]
  BY <1>t DEF DeleteRow
<1>3. credit' = [j \in 1..MaxIds |-> credit[j] + IF j \in D THEN 1 ELSE 0]
  BY DEF DeleteRow
<1>4. TypeInv'
  <2>1. \E x \in Requests : req' = [req EXCEPT ![c] = x] /\ GoodReq(x)'
    <3>1. CASE \E status : Answer(c, status)
      <4>1. Idle \in Requests /\ GoodReq(Idle)'
        BY RowTypes DEF GoodReq, Idle
      <4> QED
        BY <3>1, <4>1 DEF Answer
    <3>2. ASSUME NEW u \in Tables, NEW w \in Rows, Continue(c, "why", u, w)
          PROVE  \E x \in Requests : req' = [req EXCEPT ![c] = x] /\ GoodReq(x)'
      <4> DEFINE x == [pc |-> "why", on |-> u, row |-> w]
      <4>1. x \in Requests /\ GoodReq(x)'
        BY DEF Requests, Pcs, GoodReq
      <4> QED
        BY <3>2, <4>1 DEF Continue
    <3> QED
      BY <1>t, <3>1, <3>2 DEF DeleteRow
  <2>2. PICK x \in Requests : req' = [req EXCEPT ![c] = x] /\ GoodReq(x)'
    BY <2>1
  <2>3. TypeInv /\ used' \in Nat /\ used <= used' /\ synced \subseteq synced'
    BY <1>1, <1>t DEF IInv
  <2>4. req' \in [Clients -> Requests] /\ \A d \in Clients : GoodReq(req[d])'
    BY <2>2, <2>3, ReqStep
  <2>5. table' \in [Tables -> SUBSET Rows]
    BY <1>t, <1>2 DEF DeleteRow
  <2>6. credit' \in [1..MaxIds -> Nat]
    BY <1>t, <1>3
  <2> QED
    BY <1>1, <1>t, <2>4, <2>5, <2>6 DEF TypeInv
<1> HIDE DEF D
<1>i. \A u \in Tables : Ids(u)' = IF u = t THEN Ids(u) \ D ELSE Ids(u)
  <2>1. \A u \in Tables : Ids(u)' = {r.id : r \in table'[u]}
    BY DEF Ids
  <2>2. ASSUME NEW u \in Tables
        PROVE  {r.id : r \in table'[u]} = IF u = t THEN Ids(u) \ D ELSE Ids(u)
    <3>1. CASE u = t
      <4>1. table'[u] = {r \in table[u] : r.id \notin D}
        BY <1>2, <3>1
      <4>2. \A j : j \in {r.id : r \in table'[u]} <=> j \in Ids(u) /\ j \notin D
        BY <4>1 DEF Ids
      <4> QED
        BY <3>1, <4>2
    <3>2. CASE u # t
      BY <1>2, <3>2 DEF Ids
    <3> QED
      BY <3>1, <3>2
  <2> QED
    BY <2>1, <2>2
<1>5. NothingOrphaned'
  <2>0. "org" \in Tables /\ "workspace" \in Tables /\ "connection" \in Tables
    BY DEF Tables
  <2>n. /\ Default \in Ids("org")
        /\ \A w \in table["workspace"] : w.up \in Ids("org")
        /\ \A k \in table["connection"] : k.up = 0 \/ k.up \in Ids("workspace")
    BY DEF IInv, NothingOrphaned
  <2>1. CASE t = "org"
    <3>1. \A j \in D : j # Default /\ \A w \in table["workspace"] : w.up # j
      BY <1>d, <2>0, <2>1, ParentTable DEF Deletable, Children
    <3> QED
      BY <1>2, <1>i, <2>0, <2>1, <2>n, <3>1 DEF NothingOrphaned
  <2>2. CASE t = "workspace"
    <3>1. \A j \in D : \A k \in table["connection"] : k.up # j
      BY <1>d, <2>0, <2>2, ParentTable DEF Deletable, Children
    <3> QED
      BY <1>2, <1>i, <2>0, <2>2, <2>n, <3>1 DEF NothingOrphaned
  <2>3. CASE t \notin {"org", "workspace"}
    BY <1>2, <1>i, <2>0, <2>3, <2>n DEF NothingOrphaned
  <2> QED
    BY <2>1, <2>2, <2>3
<1>6. IdsInv'
  <2>1. ASSUME NEW j \in D PROVE j \in 1..used /\ j \in 1..MaxIds /\ credit[j] = 0 /\ j \in Ids(t)
    <3>1. j \in Ids(t)
      BY <1>d, <2>1 DEF Deletable
    <3> QED
      BY <1>t, <3>1, IdsAreNumbers
  <2>2. ASSUME NEW u \in Tables, NEW r \in table'[u]
        PROVE  /\ r.id \in 1..used /\ credit'[r.id] = 0
               /\ \A v \in Tables : r.id \in Ids(v)' => v = u
    <3>1. r \in table[u] /\ (u = t => r.id \notin D)
      BY <1>2, <2>2
    <3>2. /\ r.id \in 1..used /\ credit[r.id] = 0
          /\ \A v \in Tables : r.id \in Ids(v) => v = u
      BY <3>1 DEF IInv, IdsInv
    <3>3. r.id \notin D
      BY <1>t, <2>1, <3>1, <3>2
    <3>4. credit'[r.id] = 0
      BY <1>3, <1>t, <3>2, <3>3
    <3> QED
      BY <1>i, <3>2, <3>4
  <2>3. \A j \in 1..MaxIds : j > used => credit'[j] = 0
    <3>1. \A j \in 1..MaxIds : j > used => credit[j] = 0 /\ j \notin D
      BY <1>t, <2>1 DEF IInv, IdsInv
    <3> QED
      BY <1>3, <1>t, <3>1
  <2>4. OneDeleteWins'
    <3>1. \A j \in 1..MaxIds : credit[j] <= 1 /\ (j \in D => credit[j] = 0)
      BY <2>1 DEF IInv, IdsInv, OneDeleteWins
    <3> QED
      BY <1>3, <1>t, <3>1 DEF OneDeleteWins
  <2> QED
    BY <1>1, <2>2, <2>3, <2>4 DEF IdsInv
<1>7. SyncInv'
  <2>0. "sync" \in Tables
    BY DEF Tables
  <2>1. table'["sync"] = {r \in table["sync"] : t = "sync" => r.id \notin D}
    BY <1>2, <2>0
  <2>2. NewestInv'
    <3>1. ASSUME NEW k \in Nat, NEW n \in Nat, Upto(k, n)' # {}
          PROVE  \E r \in Upto(k, n)' : \A q \in Upto(k, n)' : q.id <= r.id
      <4>1. Upto(k, n)' = {r \in Upto(k, n) : t = "sync" => r.id \notin D}
        BY <2>1 DEF Upto
      <4>2. PICK r \in Upto(k, n) : \A q \in Upto(k, n) : q.id <= r.id
        BY <3>1, <4>1 DEF IInv, SyncInv, NewestInv
      <4>3. CASE r \in Upto(k, n)'
        BY <4>1, <4>2, <4>3
      <4>4. CASE r \notin Upto(k, n)'
        <5>1. t = "sync" /\ r.id \in D /\ r.id = i
          BY <1>d, <4>1, <4>2, <4>4
        <5>2. i \in 1..used
          BY <1>d, <1>t, <5>1, IdsAreNumbers DEF Deletable
        <5>3. i - 1 \in Nat /\ D = {i}
          BY <1>d, <1>t, <5>1, <5>2
        <5>4. Upto(k, n)' = Upto(k, i - 1)
          <6>1. \A q \in table["sync"] : q.id \in Nat
            BY <1>t, <2>0 DEF Rows
          <6>2. \A q \in Upto(k, n) : q.id <= i
            BY <4>2, <5>1
          <6>3. i <= n
            BY <4>2, <5>1 DEF Upto
          <6>4. \A q \in table["sync"] :
                  (q.up = k /\ q.id <= n /\ q.id # i) <=> (q.up = k /\ q.id <= i - 1)
            BY <1>t, <6>1, <6>2, <6>3 DEF Upto
          <6> QED
            BY <4>1, <5>1, <5>3, <6>4 DEF Upto
        <5> QED
          BY <3>1, <5>3, <5>4 DEF IInv, SyncInv, NewestInv
      <4> QED
        BY <4>3, <4>4
    <3> QED
      BY <3>1 DEF NewestInv
  <2> QED
    BY <1>1, <2>1, <2>2 DEF IInv, SyncInv, DriftIsAgainstOwnSnapshot
<1> QED
  BY <1>4, <1>5, <1>6, <1>7 DEF IInv

-----------------------------------------------------------------------------
(* The requests.                                                           *)

LEMMA PostAtomicStep ==
  ASSUME IInv, NEW c \in Clients, NEW t \in {"org", "workspace", "connection", "key"},
         NEW up \in Nat, NEW name \in Slugs \cup {0},
         NEW auth \in Modes \cup {"none"}, NEW secret \in {"set", "unset"},
         PostAtomic(c, t, up, name, auth, secret)
  PROVE  IInv'
<1> DEFINE home == Home(t, up)
           row == [Row EXCEPT !.id = used + 1, !.up = home, !.name = name,
                              !.auth = auth, !.secret = secret]
<1>1. CASE \E status : Answer(c, status) /\ Read
  BY <1>1, AnswerStep
<1>2. CASE Known(t, home) /\ used < MaxIds /\ Insert(c, t, row) /\ UNCHANGED synced
  <2>1. used + 1 \in Nat /\ home \in Nat
    BY DEF IInv, TypeInv, Home, Default
  <2>2. (t = "workspace" => home # 0) /\ home \in {0} \cup UNION {Ids(p) : p \in {ParentOf(t)} \cap Tables}
    BY <1>2 DEF Home, Default, Known
  <2>3. (t = "workspace" => home \in Ids("org")) /\ (t = "connection" => home = 0 \/ home \in Ids("workspace"))
    BY <2>2, ParentTable
  <2> HIDE DEF home
  <2>4. row \in Rows /\ row.id = used + 1 /\ row.up = home
    BY <2>1, RowTypes DEF Rows
  <2>5. t \in Tables /\ t # "sync"
    BY DEF Tables
  <2> HIDE DEF row
  <2>6. NewRow(t, row)
    BY <2>3, <2>4, <2>5 DEF NewRow
  <2> QED
    BY <1>2, <2>5, <2>6, InsertStep
<1> QED
  BY <1>1, <1>2 DEF PostAtomic

LEMMA PostStep == ASSUME IInv, NEW c \in Clients, Post(c) PROVE IInv'
<1>n. \A t \in Tables : Named(t) \subseteq Nat
  BY IdsAreNumbers
<1>r. req[c] \in Requests /\ GoodReq(req[c]) /\ req[c].row \in Rows /\ req[c].on \in Tables \cup {"none"}
  BY DEF IInv, TypeInv, Requests
<1>1. CASE \E n \in Slugs : PostAtomic(c, "org", 0, n, "none", "unset")
  BY <1>1, PostAtomicStep
<1>2. CASE \E n \in Slugs, up \in {0} \cup Named("org") :
             PostAtomic(c, "workspace", up, n, "none", "unset")
  BY <1>2, <1>n, PostAtomicStep DEF Tables
<1>3. CASE \E n \in Slugs, up \in {0} \cup Named("workspace"), a \in Modes, s \in {"set", "unset"} :
             PostAtomic(c, "connection", up, n, a, s)
  BY <1>3, <1>n, PostAtomicStep DEF Tables
<1>4. CASE PostAtomic(c, "key", 0, 0, "none", "unset")
  BY <1>4, PostAtomicStep
<1>5. ASSUME NEW t \in {"sync", "run", "feedback"}, NEW n \in Signatures \cup {0}, NEW up \in Nat,
             t = "sync" => n \in Signatures, PostChecked(c, t, up, n)
      PROVE  IInv'
  <2> DEFINE row == [Row EXCEPT !.up = up, !.name = n]
             pc == IF t = "sync" THEN "latest" ELSE "insert"
  <2>1. row \in Rows /\ row.name = n /\ row.prev = 0
    BY RowTypes DEF Rows
  <2>2. pc \in Pcs /\ t \in Tables
    BY DEF Pcs, Tables
  <2>3. GoodReq([pc |-> pc, on |-> t, row |-> row])
    <3> HIDE DEF row
    <3> QED
      BY <1>5, <2>1 DEF GoodReq
  <2> HIDE DEF row
  <2>4. CASE Continue(c, pc, t, row)
    BY <1>5, <2>1, <2>2, <2>3, <2>4, ContinueStep DEF PostChecked
  <2>5. CASE Answer(c, 400)
    BY <1>5, <2>5, AnswerStep DEF PostChecked
  <2> QED
    BY <1>5, <2>4, <2>5 DEF PostChecked, row
<1>6. CASE ReadLatest(c)
  <2> DEFINE rows == Latest(req[c].row.up)
             last == {r \in rows : \A q \in rows : q.id <= r.id}
             prev == IF rows = {} THEN 0 ELSE (CHOOSE r \in last : TRUE).name
             row == [req[c].row EXCEPT !.prev = prev]
  <2>1. Continue(c, "insert", "sync", row) /\ Read /\ req[c].pc = "latest"
    BY <1>6 DEF ReadLatest, At
  <2>2. req[c].row.name \in Signatures /\ req[c].row.up \in Nat
    BY <1>r, <2>1 DEF GoodReq, Rows
  <2>3. prev # 0 => \E r \in rows : prev = r.name
    <3>1. CASE rows # {}
      <4>1. /\ used \in Nat
            /\ \A r \in table["sync"] : r.id <= used
        BY DEF IInv, IdsInv, TypeInv, Tables
      <4>2. rows = Upto(req[c].row.up, used)
        BY <4>1 DEF Latest, Upto
      <4>3. last # {}
        BY <2>2, <3>1, <4>1, <4>2 DEF IInv, SyncInv, NewestInv
      <4> QED
        BY <3>1, <4>3
    <3> QED
      BY <3>1
  <2>4. prev # 0 => \E i \in 1..used : <<req[c].row.up, prev, i>> \in synced /\ prev \in Signatures
    BY <2>3 DEF Latest, IInv, SyncInv, IdsInv, Tables
  <2>5. prev \in Signatures \cup {0}
    BY <2>4
  <2> HIDE DEF prev
  <2>6. row \in Rows /\ row.name \in Signatures /\ row.prev = prev /\ row.up = req[c].row.up
    BY <1>r, <2>2, <2>5 DEF Rows
  <2> HIDE DEF row
  <2>7. GoodReq([pc |-> "insert", on |-> "sync", row |-> row])
    BY <2>4, <2>6 DEF GoodReq
  <2> QED
    BY <2>1, <2>6, <2>7, ContinueStep DEF Pcs, Tables
<1>7. CASE PostInsert(c)
  <2> DEFINE t == req[c].on
             row == [req[c].row EXCEPT !.id = used + 1]
  <2>1. /\ req[c].pc = "insert" /\ used < MaxIds /\ Insert(c, t, row)
        /\ synced' = IF t = "sync" THEN synced \cup {<<row.up, row.name, row.id>>} ELSE synced
    BY <1>7 DEF PostInsert, At
  <2>2. used + 1 \in Nat /\ t \in {"sync", "run", "feedback"}
    BY <1>r, <2>1 DEF IInv, TypeInv, GoodReq
  <2>3. /\ row \in Rows /\ row.id = used + 1 /\ row.up = req[c].row.up
        /\ row.name = req[c].row.name /\ row.prev = req[c].row.prev
    BY <1>r, <2>2 DEF Rows
  <2> HIDE DEF row
  <2>4. NewRow(t, row)
    BY <1>r, <2>1, <2>2, <2>3 DEF NewRow, GoodReq
  <2> QED
    BY <2>1, <2>2, <2>4, InsertStep DEF Tables
<1>8. CASE ReadBack(c)
  BY <1>8, AnswerStep DEF ReadBack
<1>9. CASE \E n \in Signatures, up \in Named("connection") : PostChecked(c, "sync", up, n)
  BY <1>5, <1>9, <1>n DEF Tables
<1>10. CASE \E t \in {"run", "feedback"} : \E up \in Named(ParentOf(t)) : PostChecked(c, t, up, 0)
  BY <1>5, <1>10, <1>n, ParentTable DEF Tables
<1> QED
  BY <1>1, <1>2, <1>3, <1>4, <1>6, <1>7, <1>8, <1>9, <1>10 DEF Post

LEMMA PatchStep == ASSUME IInv, NEW c \in Clients, Patch(c) PROVE IInv'
<1>1. CASE PatchWrite(c)
  <2> DEFINE w == req[c].row
             i == req[c].row.id
             S == {IF r.id = i THEN Merged(r, w) ELSE r : r \in table["connection"]}
  <2>1. w \in Rows /\ table["connection"] \subseteq Rows
    BY DEF IInv, TypeInv, Requests, Tables
  <2>2. /\ table' = [table EXCEPT !["connection"] = S] /\ UNCHANGED <<used, credit, synced>>
        /\ \E status : Answer(c, status)
    BY <1>1 DEF PatchWrite
  <2>3. \A r \in table["connection"] :
          LET q == IF r.id = i THEN Merged(r, w) ELSE r IN
          q \in Rows /\ q.id = r.id /\ q.up = r.up
    BY <2>1, MergedType
  <2>4. S \subseteq Rows /\ \A q \in S : \E r \in table["connection"] : q.id = r.id /\ q.up = r.up
    BY <2>3
  <2> HIDE DEF S
  <2> QED
    BY <2>2, <2>4, ModifyStep
<1>2. ASSUME NEW i \in Named("connection"), NEW a \in Modes \cup {"keep"}, NEW k \in {"keep", "set"},
             PatchRead(c, i, Fields(a, k))
      PROVE  IInv'
  <2>1. i \in Nat
    BY IdsAreNumbers DEF Tables
  <2>2. [Written(Fields(a, k)) EXCEPT !.id = i] \in Rows
    BY <2>1, WrittenType
  <2>3. CASE Continue(c, "patch", "connection", [Written(Fields(a, k)) EXCEPT !.id = i])
    BY <1>2, <2>2, <2>3, ContinueStep DEF PatchRead, Pcs, Tables
  <2>4. CASE \E status : Answer(c, status)
    BY <1>2, <2>4, AnswerStep DEF PatchRead
  <2> QED
    BY <1>2, <2>3, <2>4 DEF PatchRead
<1> QED
  BY <1>1, <1>2 DEF Patch

LEMMA OnlyStep ==
  ASSUME IInv, NEW c \in Clients, NEW pc \in {"delete", "revoke"}, NEW t \in Tables, NEW i \in Nat,
         Continue(c, pc, t, Only(i)) \/ (\E status : Answer(c, status)), Read
  PROVE  IInv'
BY RowTypes, ContinueStep, AnswerStep DEF Pcs

LEMMA OtherStep == ASSUME IInv, NEW c \in Clients, DeleteRequest(c) \/ RevokeRequest(c) PROVE IInv'
<1>n. \A t \in Tables : Named(t) \subseteq Nat
  BY IdsAreNumbers
<1>1. ASSUME NEW t \in Tables, NEW i \in Named(t), Delete(c, t, i) PROVE IInv'
  BY <1>1, <1>n, OnlyStep DEF Delete
<1>2. CASE DeleteWhy(c)
  BY <1>2, AnswerStep DEF DeleteWhy
<1>3. ASSUME NEW i \in Named("key"), Revoke(c, i) PROVE IInv'
  BY <1>3, <1>n, OnlyStep DEF Revoke, Tables
<1>4. CASE RevokeRow(c)
  <2> DEFINE i == req[c].row.id
             S == {IF Revocable(r, i) THEN [r EXCEPT !.revoked = c] ELSE r : r \in table["key"]}
  <2>1. table["key"] \subseteq Rows
    BY DEF IInv, TypeInv, Tables
  <2>2. /\ table' = [table EXCEPT !["key"] = S] /\ UNCHANGED <<used, credit, synced>>
        /\ Answer(c, 200)
    BY <1>4 DEF RevokeRow
  <2>3. \A r \in Rows : /\ [r EXCEPT !.revoked = c] \in Rows
                        /\ [r EXCEPT !.revoked = c].id = r.id /\ [r EXCEPT !.revoked = c].up = r.up
    BY DEF Rows
  <2>4. S \subseteq Rows /\ \A q \in S : \E r \in table["key"] : q.id = r.id /\ q.up = r.up
    BY <2>1, <2>3
  <2> HIDE DEF S
  <2> QED
    BY <2>2, <2>4, ModifyStep
<1> QED
  BY <1>1, <1>2, <1>3, <1>4, DeleteStep DEF DeleteRequest, RevokeRequest

-----------------------------------------------------------------------------
LEMMA InitInv == Init => IInv
<1> SUFFICES ASSUME Init PROVE IInv
  OBVIOUS
<1> DEFINE first == [Row EXCEPT !.id = Default]
<1>1. first \in Rows /\ first.id = Default
  BY RowTypes DEF Rows, Default
<1>2. \A t \in Tables : table[t] = IF t = "org" THEN {first} ELSE {}
  BY DEF Init
<1> HIDE DEF first
<1>3. MaxIds \in Nat /\ 1 <= MaxIds /\ used = 1 /\ Default = 1
  BY RegistryAssumption DEF Init, Default
<1>4. TypeInv
  <2>1. table \in [Tables -> SUBSET Rows]
    <3>1. table = [t \in Tables |-> IF t = "org" THEN {[Row EXCEPT !.id = Default]} ELSE {}]
      BY DEF Init
    <3> QED
      BY <1>1, <1>2, <3>1
  <2>2. credit \in [1..MaxIds -> Nat]
    BY DEF Init
  <2>3. req \in [Clients -> Requests] /\ \A c \in Clients : GoodReq(req[c])
    BY RowTypes DEF Init
  <2> QED
    BY <1>3, <2>1, <2>2, <2>3 DEF TypeInv
<1>5. NothingOrphaned
  BY <1>1, <1>2 DEF NothingOrphaned, Ids, Tables
<1>6. IdsInv
  <2>1. \A i \in 1..MaxIds : credit[i] = 0
    BY DEF Init
  <2>2. OneDeleteWins
    BY <2>1 DEF OneDeleteWins
  <2>3. \A t \in Tables : \A r \in table[t] : t = "org" /\ r.id = 1
    BY <1>1, <1>2, <1>3
  <2>4. \A t \in Tables : \A r \in table[t] : \A u \in Tables : r.id \in Ids(u) => u = t
    BY <2>3 DEF Ids
  <2>5. 1 \in 1..MaxIds /\ 1 \in 1..used
    BY <1>3
  <2> QED
    BY <2>1, <2>2, <2>3, <2>4, <2>5 DEF IdsInv
<1>7. SyncInv
  BY <1>2 DEF SyncInv, DriftIsAgainstOwnSnapshot, NewestInv, Upto, Tables
<1> QED
  BY <1>4, <1>5, <1>6, <1>7 DEF IInv

LEMMA Inv == Spec => []IInv
<1>1. IInv /\ [Next]_vars => IInv'
  <2>1. CASE UNCHANGED vars
    BY <2>1 DEF vars, IInv, TypeInv, GoodReq, NothingOrphaned, IdsInv, OneDeleteWins, SyncInv,
               DriftIsAgainstOwnSnapshot, NewestInv, Upto, Ids
  <2> QED
    BY <2>1, PostStep, PatchStep, OtherStep DEF Next
<1> QED
  BY <1>1, InitInv, PTL DEF Spec

\* The types, and an id is a row of one table.
THEOREM Typing == Spec => [](TypeInv /\ IdsInv)
<1>1. IInv => TypeInv /\ IdsInv
  BY DEF IInv
<1> QED
  BY <1>1, Inv, PTL

\* No workspace and no connection loses its parent, whatever requests overlap.
THEOREM Parenthood == Spec => []NothingOrphaned
<1>1. IInv => NothingOrphaned
  BY DEF IInv
<1> QED
  BY <1>1, Inv, PTL

\* No row is deleted twice, as far as its deleters are told.
THEOREM Deletion == Spec => []OneDeleteWins
<1>1. IInv => OneDeleteWins
  BY DEF IInv, IdsInv
<1> QED
  BY <1>1, Inv, PTL

\* A drift is reported against an earlier snapshot of the same connection, however
\* snapshots are taken and deleted meanwhile.
THEOREM Drift == Spec => []DriftIsAgainstOwnSnapshot
<1>1. IInv => DriftIsAgainstOwnSnapshot
  BY DEF IInv, SyncInv
<1> QED
  BY <1>1, Inv, PTL

-----------------------------------------------------------------------------
(***************************************************************************)
(* Contracts: an approval has its quorum, a broken chain is found.         *)
(***************************************************************************)

-----------------------------------------------------------------------------
(* Approval.                                                                *)

Votes == [approver : Approvers, decision : {"approve", "reject"}]

Request(r) ==
  r = [requester |-> Requester, category |-> r.category, required |-> r.required, state |-> r.state,
       decisions |-> r.decisions, reason |-> r.reason, expires |-> r.expires]

\* A request is counted as it is voted on: a rejection ends it.
ApprovalInv ==
  request # None =>
    /\ Request(request)
    /\ request.decisions \in Seq(Votes)
    /\ \A i \in DOMAIN request.decisions :
         /\ request.decisions[i].approver # Requester
         /\ request.decisions[i].decision = "reject" => request.state = "rejected"
    /\ request.state = "approved" => CountApprovals(request.decisions) >= request.required

-----------------------------------------------------------------------------
(* The chain.                                                               *)

Elements(s) == {s[i] : i \in DOMAIN s}

Entry(e) == e = [body |-> e.body, prev |-> e.prev, hash |-> e.hash]

\* An entry is linked to the one before, and no two have one hash.
LogInv ==
  /\ log \in Seq(Elements(log))
  /\ \A i \in DOMAIN log :
       /\ Entry(log[i])
       /\ log[i].hash = ComputeEntryHash(log[i].body, log[i].prev)
       /\ log[i].prev = IF i = 1 THEN NoHash ELSE log[i - 1].hash
  /\ \A i, j \in DOMAIN log : log[i].hash = log[j].hash => i = j

\* Whatever the store does, the hashes of an entry are those of one that was logged.
Kept(e) == Entry(e) /\ \E j \in DOMAIN log : e.prev = log[j].prev /\ e.hash = log[j].hash

StoredInv ==
  stored # None =>
    /\ stored \in Seq(Elements(stored))
    /\ \A i \in DOMAIN stored : Kept(stored[i])

ContractsIInv == ApprovalInv /\ LogInv /\ StoredInv

LEMMA SeqElements ==
  ASSUME NEW S, NEW s \in Seq(S)
  PROVE  s \in Seq(Elements(s)) /\ DOMAIN s = 1..Len(s) /\ Len(s) \in Nat /\ Elements(s) \subseteq S
BY DEF Elements

-----------------------------------------------------------------------------
LEMMA ContractsBegin == ContractsInit => ContractsIInv
<1> SUFFICES ASSUME ContractsInit PROVE ContractsIInv
  OBVIOUS
<1>1. <<>> \in Seq({}) /\ DOMAIN <<>> = {}
  OBVIOUS
<1>2. LogInv
  BY <1>1, SeqElements DEF ContractsInit, LogInv
<1> QED
  BY <1>2 DEF ContractsInit, ContractsIInv, ApprovalInv, StoredInv

\* A change of one field, and of several as one after the other.
WithDecisions(r, ds) == [r EXCEPT !.decisions = ds]
WithState(r, state) == [r EXCEPT !.state = state]
WithReason(r, reason) == [r EXCEPT !.reason = reason]

LEMMA ChangedField ==
  ASSUME NEW r, Request(r), NEW v
  PROVE  /\ Request(WithDecisions(r, v)) /\ Request(WithState(r, v)) /\ Request(WithReason(r, v))
         /\ WithDecisions(r, v).decisions = v /\ WithState(r, v).state = v
         /\ \A q \in {WithState(r, v), WithReason(r, v)} : q.decisions = r.decisions
         /\ \A q \in {WithDecisions(r, v), WithReason(r, v)} : q.state = r.state
         /\ \A q \in {WithDecisions(r, v), WithState(r, v), WithReason(r, v)} : q.required = r.required
<1>1. PICK c, n, s, d, e, x :
        r = [requester |-> Requester, category |-> c, required |-> n, state |-> s,
             decisions |-> d, reason |-> e, expires |-> x]
  BY DEF Request
<1>2. r.required = n /\ r.state = s /\ r.decisions = d
  BY <1>1
<1>3. WithDecisions(r, v) =
        [requester |-> Requester, category |-> c, required |-> n, state |-> s,
         decisions |-> v, reason |-> e, expires |-> x]
  BY <1>1 DEF WithDecisions
<1>4. WithState(r, v) =
        [requester |-> Requester, category |-> c, required |-> n, state |-> v,
         decisions |-> d, reason |-> e, expires |-> x]
  BY <1>1 DEF WithState
<1>5. WithReason(r, v) =
        [requester |-> Requester, category |-> c, required |-> n, state |-> s,
         decisions |-> d, reason |-> v, expires |-> x]
  BY <1>1 DEF WithReason
<1> QED
  BY <1>2, <1>3, <1>4, <1>5 DEF Request

LEMMA ChangedRequest ==
  ASSUME NEW r, Request(r), NEW ds, NEW state, NEW reason
  PROVE  LET q == WithReason(WithState(WithDecisions(r, ds), state), reason)
         IN  Request(q) /\ q.decisions = ds /\ q.state = state /\ q.required = r.required
BY ChangedField

\* A vote on a request that may still be voted on.
LEMMA VoteStep ==
  ASSUME request # None, ApprovalInv, NEW a \in Approvers, GuardVote(request, a),
         NEW vote \in {"approve", "reject"}
  PROVE  /\ Voted(request, a, vote) \in Seq(Votes)
         /\ \A i \in DOMAIN Voted(request, a, vote) :
              /\ Voted(request, a, vote)[i].approver # Requester
              /\ Voted(request, a, vote)[i].decision = "reject" => vote = "reject"
<1> DEFINE v == [approver |-> a, decision |-> vote]
           old == request.decisions
<1>1. v \in Votes /\ v.approver = a /\ v.decision = vote
  BY DEF Votes
<1>2. /\ old \in Seq(Votes) /\ a # Requester /\ request.state # "rejected"
      /\ \A i \in DOMAIN old : old[i].approver # Requester /\ old[i].decision # "reject"
  <2>1. Request(request) => request.requester = Requester
    BY DEF Request
  <2>2. request.state \notin TerminalStates
    BY DEF GuardVote, IsTerminal
  <2> QED
    BY <2>1, <2>2 DEF ApprovalInv, GuardVote, TerminalStates
<1>3. Voted(request, a, vote) = Append(old, v)
  BY DEF Voted
<1> HIDE DEF v, old
<1>4. /\ Append(old, v) \in Seq(Votes)
      /\ \A i \in DOMAIN Append(old, v) :
           \/ i \in DOMAIN old /\ Append(old, v)[i] = old[i]
           \/ Append(old, v)[i] = v
  BY <1>1, <1>2
<1> QED
  BY <1>1, <1>2, <1>3, <1>4

LEMMA ApproveStep ==
  ASSUME ApprovalInv, NEW a \in Approvers, Approve(a)
  PROVE  ApprovalInv'
<1> DEFINE ds == Voted(request, a, "approve")
           met == CountApprovals(ds) >= request.required
           state == IF met THEN "approved" ELSE "pending"
           reason == IF met THEN "quorum_met" ELSE "approval_recorded"
<1>1. request # None /\ GuardVote(request, a) /\ request' = Approved(request, a)
  BY DEF Approve, Transition
<1>2. ds \in Seq(Votes) /\ \A i \in DOMAIN ds : ds[i].approver # Requester /\ ds[i].decision # "reject"
  BY <1>1, VoteStep
<1>3. request' = WithReason(WithState(WithDecisions(request, ds), state), reason)
  BY <1>1 DEF Approved, WithReason, WithState, WithDecisions
<1>4. state = "approved" => CountApprovals(ds) >= request.required
  OBVIOUS
<1> HIDE DEF ds, met, state, reason
<1>5. /\ request'.decisions = ds /\ request'.state = state /\ request'.required = request.required
      /\ Request(request')
  <2>1. Request(request)
    BY <1>1 DEF ApprovalInv
  <2> QED
    BY <1>3, <2>1, ChangedRequest
<1>6. CountApprovals(ds) = CountApprovals(request'.decisions)
  BY <1>5
<1> QED
  BY <1>2, <1>4, <1>5, <1>6 DEF ApprovalInv, CountApprovals

LEMMA RejectStep ==
  ASSUME ApprovalInv, NEW a \in Approvers, Reject(a)
  PROVE  ApprovalInv'
<1> DEFINE ds == Voted(request, a, "reject")
<1>1. request # None /\ GuardVote(request, a) /\ request' = Rejected(request, a)
  BY DEF Reject, Transition
<1>2. ds \in Seq(Votes) /\ \A i \in DOMAIN ds : ds[i].approver # Requester
  BY <1>1, VoteStep
<1>3. request' = WithReason(WithState(WithDecisions(request, ds), "rejected"), "rejected_veto")
  BY <1>1 DEF Rejected, WithReason, WithState, WithDecisions
<1> HIDE DEF ds
<1>4. /\ request'.decisions = ds /\ request'.state = "rejected"
      /\ Request(request')
  <2>1. Request(request)
    BY <1>1 DEF ApprovalInv
  <2> QED
    BY <1>3, <2>1, ChangedRequest
<1> QED
  BY <1>2, <1>4 DEF ApprovalInv

LEMMA ClosedRequest ==
  ASSUME NEW r, Request(r), NEW state
  PROVE  LET q == WithReason(WithState(r, state), state)
         IN  Request(q) /\ q.decisions = r.decisions /\ q.state = state
BY ChangedField

LEMMA CloseStep ==
  ASSUME ApprovalInv, request # None, ~IsTerminal(request), NEW state \in {"cancelled", "expired"},
         request' = Closed(request, state)
  PROVE  ApprovalInv'
<1>1. /\ request'.decisions = request.decisions /\ request'.state = state
      /\ Request(request')
  <2>1. Request(request)
    BY DEF ApprovalInv
  <2>2. request' = WithReason(WithState(request, state), state)
    BY DEF Closed, WithReason, WithState
  <2> QED
    BY <2>1, <2>2, ClosedRequest
<1>2. request.state # "rejected" /\ state # "approved"
  BY DEF IsTerminal, TerminalStates
<1> QED
  BY <1>1, <1>2 DEF ApprovalInv

LEMMA OpenStep ==
  ASSUME Open
  PROVE  ApprovalInv'
<1>1. PICK category, required, expires : request' = Opened(category, required, expires)
  BY DEF Open
<1>2. <<>> \in Seq(Votes) /\ DOMAIN <<>> = {}
  OBVIOUS
<1> QED
  BY <1>1, <1>2 DEF Opened, ApprovalInv, Request

-----------------------------------------------------------------------------
\* A hash is never what stands before the first entry.
LEMMA HashIsSome == \A a, b : <<a, b>> # NoHash
BY DEF NoHash

LEMMA RecordStep ==
  ASSUME LogInv, Record
  PROVE  LogInv'
<1>1. PICK body : log' = Append(log, Link(log, body))
  BY DEF Record
<1> DEFINE n == Len(log)
           e == Link(log, body)
           S == Elements(log) \cup {e}
<1>2. log \in Seq(S) /\ n \in Nat /\ DOMAIN log = 1..n /\ e \in S
  BY SeqElements DEF LogInv
<1>3. /\ log' \in Seq(S) /\ Len(log') = n + 1 /\ DOMAIN log' = 1..(n + 1)
      /\ \A i \in 1..n : log'[i] = log[i]
      /\ log'[n + 1] = e
  <2> HIDE DEF n, e, S
  <2>1. Len(log) = n
    BY DEF n
  <2> QED
    BY <1>1, <1>2, <2>1, AppendProperties DEF e
<1>4. /\ Entry(e) /\ e.hash = ComputeEntryHash(e.body, e.prev)
      /\ e.prev = IF n = 0 THEN NoHash ELSE log[n].hash
  BY <1>2 DEF Link, Last, Entry, LogInv
<1>5. \A i \in 1..n : e.hash # log[i].hash
  <2> SUFFICES ASSUME NEW i \in 1..n, e.hash = log[i].hash PROVE FALSE
    OBVIOUS
  <2>1. log[i].hash = <<log[i].body, log[i].prev>> /\ e.hash = <<e.body, e.prev>>
    BY <1>2, <1>4 DEF LogInv, ComputeEntryHash
  <2>2. e.prev = log[n].hash /\ n >= 1 /\ n \in 1..n
    BY <1>2, <1>4
  <2>3. log[i].prev = log[n].hash
    BY <2>1, <2>2
  <2>4. CASE i = 1
    <3>1. log[n].hash = NoHash
      BY <1>2, <2>3, <2>4 DEF LogInv
    <3>2. log[n].hash = <<log[n].body, log[n].prev>>
      BY <1>2, <2>2 DEF LogInv, ComputeEntryHash
    <3> QED
      BY <3>1, <3>2, HashIsSome
  <2>5. CASE i # 1
    <3>1. i - 1 \in 1..n /\ i - 1 # n
      BY <1>2, <2>5
    <3>2. log[i].prev = log[i - 1].hash
      BY <1>2, <2>5 DEF LogInv
    <3> QED
      BY <1>2, <2>2, <2>3, <3>1, <3>2 DEF LogInv
  <2> QED
    BY <2>4, <2>5
<1> HIDE DEF e, S
<1>6. log' \in Seq(Elements(log'))
  BY <1>3, SeqElements
<1>7. ASSUME NEW i \in DOMAIN log'
      PROVE  /\ Entry(log'[i])
             /\ log'[i].hash = ComputeEntryHash(log'[i].body, log'[i].prev)
             /\ log'[i].prev = IF i = 1 THEN NoHash ELSE log'[i - 1].hash
  <2>1. CASE i \in 1..n
    <3>1. i # 1 => i - 1 \in 1..n
      BY <1>2, <2>1
    <3> QED
      BY <1>2, <1>3, <2>1, <3>1 DEF LogInv
  <2>2. CASE i = n + 1
    <3>1. log'[i] = e /\ (i = 1 <=> n = 0) /\ (n # 0 => i - 1 = n /\ n \in 1..n)
      BY <1>2, <1>3, <2>2
    <3> QED
      BY <1>3, <1>4, <3>1
  <2> QED
    BY <1>2, <1>3, <2>1, <2>2
<1>8. ASSUME NEW i \in DOMAIN log', NEW j \in DOMAIN log', log'[i].hash = log'[j].hash PROVE i = j
  <2>1. (i \in 1..n \/ i = n + 1) /\ (j \in 1..n \/ j = n + 1)
    BY <1>2, <1>3
  <2>2. CASE i \in 1..n /\ j \in 1..n
    BY <1>2, <1>3, <1>8, <2>2 DEF LogInv
  <2> QED
    BY <1>3, <1>5, <1>8, <2>1, <2>2
<1> QED
  BY <1>6, <1>7, <1>8 DEF LogInv, ComputeEntryHash

\* The faults of the store.
LEMMA KeptStep ==
  ASSUME NEW S, stored' \in Seq(S), \A e \in S : Kept(e), UNCHANGED log
  PROVE  StoredInv'
<1>1. stored' \in Seq(Elements(stored')) /\ \A i \in DOMAIN stored' : stored'[i] \in S
  BY SeqElements
<1> QED
  BY <1>1 DEF StoredInv, Kept

LEMMA FaultStep ==
  ASSUME StoredInv, Lose \/ Double \/ Exchange \/ Alter
  PROVE  StoredInv'
<1> DEFINE S == Elements(stored)
<1>1. /\ stored \in Seq(S) /\ DOMAIN stored = 1..Len(stored) /\ Len(stored) \in Nat
      /\ \A e \in S : Kept(e)
      /\ \A i \in DOMAIN stored : stored[i] \in S
      /\ UNCHANGED log
  BY SeqElements DEF StoredInv, Lose, Double, Exchange, Alter, Fault, Elements
<1> HIDE DEF S
<1>2. ASSUME NEW m \in Nat, NEW n \in Nat, m >= 1, n <= Len(stored) PROVE SubSeq(stored, m, n) \in Seq(S)
  <2>1. \A i \in m..n : stored[i] \in S
    BY <1>1, <1>2
  <2> QED
    BY <2>1, SubSeqProperties
<1>3. CASE Lose
  <2>1. PICK i \in DOMAIN stored : stored' = RemoveAt(stored, i)
    BY <1>3 DEF Lose, Fault
  <2>2. SubSeq(stored, 1, i - 1) \in Seq(S) /\ SubSeq(stored, i + 1, Len(stored)) \in Seq(S)
    BY <1>1, <1>2
  <2>3. stored' \in Seq(S)
    BY <2>1, <2>2, ConcatProperties DEF RemoveAt
  <2> QED
    BY <1>1, <2>3, KeptStep
<1>4. CASE Double
  <2>1. PICK i \in DOMAIN stored : stored' = InsertAt(stored, i, stored[i])
    BY <1>4 DEF Double, Fault
  <2>2. SubSeq(stored, 1, i - 1) \in Seq(S) /\ SubSeq(stored, i, Len(stored)) \in Seq(S)
        /\ <<stored[i]>> \in Seq(S)
    BY <1>1, <1>2
  <2>3. stored' \in Seq(S)
    BY <2>1, <2>2, ConcatProperties DEF InsertAt
  <2> QED
    BY <1>1, <2>3, KeptStep
<1>5. CASE Exchange
  <2>1. PICK i, j \in DOMAIN stored : stored' = [stored EXCEPT ![i] = stored[j], ![j] = stored[i]]
    BY <1>5 DEF Exchange, Fault
  <2>2. stored' \in Seq(S)
    BY <1>1, <2>1
  <2> QED
    BY <1>1, <2>2, KeptStep
<1>6. CASE Alter
  <2>1. PICK i \in DOMAIN stored : stored' = [stored EXCEPT ![i].body.reason = "altered"]
    BY <1>6 DEF Alter, Fault
  <2> DEFINE b == [stored[i].body EXCEPT !.reason = "altered"]
             e == [stored[i] EXCEPT !.body = b]
  <2>2. stored' = [stored EXCEPT ![i] = e]
    BY <2>1
  <2>3. Kept(e)
    <3>1. Kept(stored[i]) /\ Entry(stored[i])
      BY <1>1 DEF Kept
    <3>2. Entry(e) /\ e.prev = stored[i].prev /\ e.hash = stored[i].hash
      <4> HIDE DEF b
      <4> QED
        BY <3>1 DEF Entry
    <3> HIDE DEF e
    <3> QED
      BY <3>1, <3>2 DEF Kept
  <2> HIDE DEF e
  <2>4. stored' \in Seq(S \cup {e})
    BY <1>1, <2>2
  <2> QED
    BY <1>1, <2>3, <2>4, KeptStep
<1> QED
  BY <1>3, <1>4, <1>5, <1>6

LEMMA ReadChainBackStep ==
  ASSUME LogInv, ReadChainBack
  PROVE  StoredInv'
<1>1. log \in Seq(Elements(log)) /\ stored' = log /\ UNCHANGED log
  BY DEF LogInv, ReadChainBack
<1>2. \A e \in Elements(log) : Kept(e)
  BY DEF LogInv, Kept, Elements
<1> QED
  BY <1>1, <1>2, KeptStep

-----------------------------------------------------------------------------
\* Writing and judging leaves requests and chains alone.
LEMMA JudgeSteps ==
  ASSUME \/ \E p \in Phrases : Type(p)
         \/ \E s \in Segments : AddSegment(s)
         \/ JudgeStatement \/ JudgeReferences \/ JudgePrompt \/ JudgeResult \/ JudgeAccess
  PROVE  UNCHANGED <<request, log, stored>>
<1>1. CASE JudgeStatement
  BY <1>1 DEF JudgeStatement, Judge
<1>2. CASE JudgeReferences
  BY <1>2 DEF JudgeReferences, Judge
<1>3. CASE JudgePrompt
  BY <1>3 DEF JudgePrompt, Judge
<1>4. CASE JudgeResult
  BY <1>4 DEF JudgeResult, Judge
<1>5. CASE JudgeAccess
  BY <1>5 DEF JudgeAccess, Judge
<1> QED
  BY <1>1, <1>2, <1>3, <1>4, <1>5 DEF Type, AddSegment

LEMMA Unmoved ==
  ASSUME ContractsIInv
  PROVE  /\ UNCHANGED request => ApprovalInv'
         /\ UNCHANGED log => LogInv'
         /\ UNCHANGED <<log, stored>> => StoredInv'
<1>1. ASSUME UNCHANGED request PROVE ApprovalInv'
  BY <1>1 DEF ContractsIInv, ApprovalInv
<1>2. ASSUME UNCHANGED log PROVE LogInv'
  BY <1>2 DEF ContractsIInv, LogInv
<1>3. ASSUME UNCHANGED <<log, stored>> PROVE StoredInv'
  BY <1>3 DEF ContractsIInv, StoredInv, Kept
<1> QED
  BY <1>1, <1>2, <1>3

LEMMA ContractsGoOn == ContractsIInv /\ [ContractsNext]_contractsVars => ContractsIInv'
<1> SUFFICES ASSUME ContractsIInv, [ContractsNext]_contractsVars PROVE ContractsIInv'
  OBVIOUS
<1>i. ApprovalInv /\ LogInv /\ StoredInv
  BY DEF ContractsIInv
<1>1. CASE UNCHANGED <<request, log, stored>>
  BY <1>1, Unmoved DEF ContractsIInv
<1>2. CASE Open
  <2>1. UNCHANGED <<log, stored>>
    BY <1>2 DEF Open
  <2> QED
    BY <1>2, <2>1, OpenStep, Unmoved DEF ContractsIInv
<1>3. ASSUME NEW a \in Approvers, Approve(a) \/ Reject(a) PROVE ContractsIInv'
  <2>1. UNCHANGED <<log, stored>>
    BY <1>3 DEF Approve, Reject, Transition
  <2>2. ApprovalInv'
    BY <1>i, <1>3, ApproveStep, RejectStep
  <2> QED
    BY <2>1, <2>2, Unmoved DEF ContractsIInv
<1>4. CASE Cancel \/ Expire
  <2>1. UNCHANGED <<log, stored>>
    BY <1>4 DEF Cancel, Expire, Transition
  <2>2. ApprovalInv'
    BY <1>i, <1>4, CloseStep DEF Cancel, Expire, Transition
  <2> QED
    BY <2>1, <2>2, Unmoved DEF ContractsIInv
<1>5. CASE Record
  <2>1. UNCHANGED <<request, stored>> /\ stored = None
    BY <1>5 DEF Record
  <2>2. StoredInv'
    BY <2>1 DEF StoredInv
  <2> QED
    BY <1>i, <1>5, <2>1, <2>2, RecordStep, Unmoved DEF ContractsIInv
<1>6. CASE ReadChainBack
  <2>1. UNCHANGED log /\ request' = None
    BY <1>6 DEF ReadChainBack
  <2>2. ApprovalInv'
    BY <2>1 DEF ApprovalInv
  <2> QED
    BY <1>i, <1>6, <2>1, <2>2, ReadChainBackStep, Unmoved DEF ContractsIInv
<1>7. CASE Lose \/ Double \/ Exchange \/ Alter
  <2>1. UNCHANGED <<request, log>>
    BY <1>7 DEF Lose, Double, Exchange, Alter, Fault
  <2> QED
    BY <1>i, <1>7, <2>1, FaultStep, Unmoved DEF ContractsIInv
<1>8. CASE UNCHANGED contractsVars
  BY <1>1, <1>8 DEF contractsVars
<1> QED
  BY <1>1, <1>2, <1>3, <1>4, <1>5, <1>6, <1>7, <1>8, JudgeSteps DEF ContractsNext

LEMMA ContractsKeep == ContractsSpec => []ContractsIInv
BY ContractsBegin, ContractsGoOn, PTL DEF ContractsSpec

-----------------------------------------------------------------------------
\* A request is approved only by its quorum of approvers, none of them the
\* requester, and none of the votes a rejection: approve, reject and the guards
\* of approval_workflow.py.
THEOREM Approval == ContractsSpec => []ApprovedByQuorum
<1>1. ContractsIInv => ApprovedByQuorum
  <2> SUFFICES ASSUME ContractsIInv, request # None, request.state = "approved" PROVE ApprovedByQuorum
    BY DEF ApprovedByQuorum
  <2> DEFINE ds == request.decisions
  <2>r. Request(request) => request.requester = Requester
    BY DEF Request
  <2>1. /\ request.requester = Requester /\ ds \in Seq(Votes)
        /\ \A i \in DOMAIN ds : ds[i].approver # Requester /\ ds[i].decision # "reject"
        /\ CountApprovals(ds) >= request.required
    BY <2>r DEF ContractsIInv, ApprovalInv
  <2>2. \A i \in DOMAIN ds : ds[i].decision = "approve"
    <3>1. \A i \in DOMAIN ds : ds[i] \in Votes
      BY <2>1
    <3> QED
      BY <2>1, <3>1 DEF Votes
  <2> DEFINE voters == {ds[i].approver : i \in DOMAIN ds}
  <2>3. voters = {d.approver : d \in {e \in ToSet(ds) : e.decision = "approve"}}
    BY <2>2 DEF ToSet
  <2>4. Cardinality(voters) >= request.required
    BY <2>1, <2>3 DEF CountApprovals
  <2> QED
    BY <2>1, <2>2, <2>4 DEF ApprovedByQuorum
<1> QED
  BY <1>1, ContractsKeep, PTL

\* The entries before i are those that were logged: i is broken exactly if it is not.
LEMMA FirstBreak ==
  ASSUME LogInv, StoredInv, stored # None, NEW i \in DOMAIN stored,
         \A k \in DOMAIN stored : k < i => k \in DOMAIN log /\ stored[k] = log[k]
  PROVE  Broken(stored, i) <=> (i > Len(log) \/ stored[i] # log[i])
<1> DEFINE e == stored[i]
           n == Len(log)
           before == IF i = 1 THEN NoHash ELSE stored[i - 1].hash
<1>1. /\ n \in Nat /\ DOMAIN log = 1..n
      /\ Len(stored) \in Nat /\ DOMAIN stored = 1..Len(stored) /\ i \in Nat /\ i >= 1
  BY SeqElements DEF LogInv, StoredInv
<1>2. PICK j \in DOMAIN log : e.prev = log[j].prev /\ e.hash = log[j].hash
  BY DEF StoredInv, Kept
<1>3. /\ log[j].hash = <<log[j].body, log[j].prev>>
      /\ log[j].prev = IF j = 1 THEN NoHash ELSE log[j - 1].hash
      /\ j \in Nat /\ j >= 1 /\ j <= n
      /\ Entry(e) /\ Entry(log[j])
  BY <1>1 DEF LogInv, ComputeEntryHash, StoredInv, Kept
<1>4. Broken(stored, i) <=> (e.prev # before \/ <<e.body, e.prev>> # e.hash)
  BY DEF Broken, ComputeEntryHash
<1>5. <<e.body, e.prev>> = e.hash <=> e.body = log[j].body
  BY <1>2, <1>3
<1>6. e.body = log[j].body <=> e = log[j]
  BY <1>2, <1>3 DEF Entry
<1>7. i # 1 => /\ i - 1 \in DOMAIN log /\ before = log[i - 1].hash
               /\ before = <<log[i - 1].body, log[i - 1].prev>>
  BY <1>1 DEF LogInv, ComputeEntryHash
<1>8. e.prev = before <=> j = i
  <2>1. ASSUME j = i PROVE e.prev = before
    BY <1>2, <1>3, <1>7, <2>1
  <2>2. ASSUME e.prev = before PROVE j = i
    <3>1. CASE j = 1
      BY <1>2, <1>3, <1>7, <2>2, <3>1, HashIsSome
    <3>2. CASE j # 1
      <4>1. j - 1 \in DOMAIN log /\ log[j - 1].hash = <<log[j - 1].body, log[j - 1].prev>>
        BY <1>1, <1>3, <3>2 DEF LogInv, ComputeEntryHash
      <4>2. i # 1
        BY <1>2, <1>3, <2>2, <3>2, <4>1, HashIsSome
      <4>3. j - 1 = i - 1
        BY <1>2, <1>3, <1>7, <2>2, <3>2, <4>1, <4>2 DEF LogInv
      <4> QED
        BY <1>1, <1>3, <4>3
    <3> QED
      BY <3>1, <3>2
  <2> QED
    BY <2>1, <2>2
<1>9. j # i => (i > n \/ e # log[i])
  <2> SUFFICES ASSUME j # i, i <= n PROVE e # log[i]
    BY <1>1
  <2>1. i \in DOMAIN log
    BY <1>1
  <2> QED
    BY <1>2, <2>1 DEF LogInv
<1> QED
  BY <1>1, <1>3, <1>4, <1>5, <1>6, <1>8, <1>9

\* verify_chain (audit_event.py) names the first entry at which the chain that the
\* store gives back is not the one that was linked, after any number of faults.
THEOREM Chaining == ContractsSpec => []BreakIsFound
<1>1. ContractsIInv => BreakIsFound
  <2> SUFFICES ASSUME ContractsIInv, stored # None PROVE BreakIsFound
    BY DEF BreakIsFound
  <2> DEFINE D == {i \in DOMAIN stored : i > Len(log) \/ stored[i] # log[i]}
             B == {i \in DOMAIN stored : Broken(stored, i)}
  <2>1. /\ LogInv /\ StoredInv /\ DOMAIN stored \subseteq Nat
        /\ Len(log) \in Nat /\ DOMAIN log = 1..Len(log) /\ \A i \in DOMAIN stored : i >= 1
    BY SeqElements DEF ContractsIInv, LogInv, StoredInv
  <2>2. ASSUME NEW i \in DOMAIN stored, \A k \in D : k >= i PROVE i \in B <=> i \in D
    <3>1. \A k \in DOMAIN stored : k < i => k \in DOMAIN log /\ stored[k] = log[k]
      BY <2>1, <2>2
    <3> QED
      BY <2>1, <3>1, FirstBreak
  <2>3. D \in SUBSET Nat /\ B \in SUBSET Nat
    BY <2>1
  <2>4. VerifyChain(stored) = IF B = {} THEN None ELSE Min(B)
    BY DEF VerifyChain
  <2>5. CASE D = {}
    <3>1. B = {}
      BY <2>2, <2>5
    <3> QED
      BY <2>4, <2>5, <3>1 DEF BreakIsFound
  <2>6. CASE D # {}
    <3> DEFINE m == Min(D)
    <3>1. m \in D /\ m \in Nat /\ \A y \in D : m <= y
      BY <2>3, <2>6, MinIsLeast
    <3>d. D \subseteq Nat /\ B \subseteq Nat
      BY <2>3
    <3> HIDE DEF D, B, m
    <3>2. m \in B
      BY <2>2, <3>1 DEF D
    <3>3. \A i \in B : m <= i
      <4> SUFFICES ASSUME NEW i \in B, i < m PROVE FALSE
        BY <3>1, <3>d
      <4>1. i \in Nat /\ \A k \in D : k >= i
        BY <3>1, <3>d
      <4>2. i \in D
        BY <2>2, <4>1 DEF B
      <4> QED
        BY <3>1, <4>1, <4>2
    <3>4. Min(B) \in B /\ \A i \in B : Min(B) <= i
      BY <2>3, <3>2, MinIsLeast
    <3>5. Min(B) = m
      <4> DEFINE b == Min(B)
      <4>1. b \in Nat /\ m \in Nat /\ b <= m /\ m <= b
        BY <3>1, <3>2, <3>3, <3>4, <3>d
      <4> HIDE DEF b
      <4>2. b = m
        BY <4>1
      <4> QED
        BY <4>2 DEF b
    <3> QED
      BY <2>4, <2>6, <3>2, <3>5 DEF BreakIsFound, D, B, m
  <2> QED
    BY <2>5, <2>6
<1> QED
  BY <1>1, ContractsKeep, PTL

-----------------------------------------------------------------------------
(***************************************************************************)
(* Contracts: what sanitize finds is what a reader finds; what is allowed  *)
(* reads; nothing that is referred to is missed or judged milder for more. *)
(***************************************************************************)

-----------------------------------------------------------------------------
(* Normalize.                                                               *)

Unbroken(rest, p) == IF Does(p, "newline") THEN rest ELSE Append(rest, p)

NormalizeRun(run, S, t) ==
  /\ \A k \in 0 .. Len(t) : run[k] \in Seq(S)
  /\ run[0] = <<>>
  /\ \A k \in 1 .. Len(t) : run[k] = Unbroken(run[k - 1], t[k])
  /\ Normalize(t) = run[Len(t)]

LEMMA NormalizeRuns ==
  ASSUME NEW S, NEW t \in Seq(S)
  PROVE  \E run : NormalizeRun(run, S, t)
<1> DEFINE n == Len(t)
           D == 1 .. n
           V == Seq(S)
           G == [x \in D \X V |-> Unbroken(x[2], t[x[1]])]
           Folds(it) == it = [s \in SUBSET D |-> IF s = {} THEN <<>> ELSE Unbroken(it[s \ {Max(s)}], t[Max(s)])]
<1>0. n \in Nat /\ DOMAIN t = D /\ <<>> \in V
  OBVIOUS
<1>t. ASSUME NEW some \in V, NEW k \in D PROVE Unbroken(some, t[k]) \in V
  BY DEF Unbroken
<1>1. G \in [D \X V -> V]
  <2> HIDE DEF D, V
  <2> QED
    BY <1>t
<1>2. /\ \E it \in [SUBSET D -> V] : FoldOf(n, <<>>, G, it)
      /\ \A s \in SUBSET D : s # {} => Max(s) \in s
  <2> HIDE DEF G, V
  <2> QED
    BY <1>0, <1>1, FoldExists
<1>3. PICK it \in [SUBSET D -> V] : FoldOf(n, <<>>, G, it)
  BY <1>2
<1>4. Folds(it)
  <2>1. ASSUME NEW s \in SUBSET D, s # {}
        PROVE  G[<<Max(s), it[s \ {Max(s)}]>>] = Unbroken(it[s \ {Max(s)}], t[Max(s)])
    <3>1. Max(s) \in D /\ it[s \ {Max(s)}] \in V
      BY <1>2, <2>1
    <3> HIDE DEF D, V
    <3> QED
      BY <3>1
  <2> HIDE DEF G
  <2>2. it = [s \in SUBSET D |-> IF s = {} THEN <<>> ELSE G[<<Max(s), it[s \ {Max(s)}]>>]]
    BY <1>3 DEF Recursive, FoldOf
  <2> HIDE DEF D
  <2> QED
    BY <2>1, <2>2
<1> DEFINE fold == CHOOSE f : Folds(f)
<1>5. Folds(fold)
  <2> HIDE DEF Folds
  <2> QED
    BY <1>4
<1>6. Normalize(t) = fold[D]
  BY <1>0 DEF Normalize, FoldLeft, MapThenFoldSet, Unbroken
<1> HIDE DEF fold
<1> DEFINE run == [k \in 0 .. n |-> fold[1 .. k]]
<1>7. run[0] = <<>>
  <2>1. 1 .. 0 = {} /\ 0 \in 0 .. n /\ {} \in SUBSET D
    BY <1>0
  <2> HIDE DEF D
  <2> QED
    BY <1>5, <2>1
<1>8. ASSUME NEW k \in 1 .. n PROVE run[k] = Unbroken(run[k - 1], t[k])
  <2>1. k \in Nat /\ k # 0 /\ 1 .. k \in SUBSET D /\ k \in 0 .. n /\ k - 1 \in 0 .. n
    BY <1>0
  <2>2. Max(1 .. k) = k /\ (1 .. k) \ {k} = 1 .. (k - 1) /\ 1 .. k # {}
    BY <2>1, GreatestOfPrefix
  <2>3. fold[1 .. k] = Unbroken(fold[(1 .. k) \ {Max(1 .. k)}], t[Max(1 .. k)])
    <3> HIDE DEF D
    <3> QED
      BY <1>5, <2>1, <2>2
  <2> QED
    BY <2>1, <2>2, <2>3
<1>9. run[n] = fold[D]
  BY <1>0
<1> HIDE DEF run
<1>10. \A k \in 0 .. n : run[k] \in V
  <2>1. \A k \in 1 .. n : run[k - 1] \in V => run[k] \in V
    BY <1>8, <1>t
  <2> HIDE DEF V
  <2> QED
    BY <1>0, <1>7, <2>1, RunType
<1>11. NormalizeRun(run, S, t)
  BY <1>6, <1>7, <1>8, <1>9, <1>10 DEF NormalizeRun
<1> QED
  BY <1>11

Associates(x, y, z) == (x \o y) \o z = x \o (y \o z)

LEMMA ConcatAssociates ==
  ASSUME NEW Q, NEW x \in Seq(Q), NEW y \in Seq(Q), NEW z \in Seq(Q)
  PROVE  Associates(x, y, z)
BY ConcatAssociative DEF Associates

AppendsLast(x, y, e) == Append(x \o y, e) = x \o Append(y, e)

LEMMA AppendConcat ==
  ASSUME NEW Q, NEW x \in Seq(Q), NEW y \in Seq(Q), NEW e \in Q
  PROVE  AppendsLast(x, y, e)
<1> DEFINE z == <<e>>
<1>1. z \in Seq(Q)
  OBVIOUS
<1>2. Append(x \o y, e) = (x \o y) \o z /\ Append(y, e) = y \o z
  BY AppendIsConcat, ConcatProperties
<1> HIDE DEF z
<1>3. (x \o y) \o z = x \o (y \o z)
  BY <1>1, ConcatAssociative
<1> QED
  BY <1>2, <1>3 DEF AppendsLast

\* Parts are normalised one by one.
LEMMA NormalizeConcat ==
  ASSUME NEW S, NEW s \in Seq(S), NEW t \in Seq(S)
  PROVE  /\ Normalize(s \o t) = Normalize(s) \o Normalize(t)
         /\ Normalize(s) \in Seq(S)
<1>1. PICK a : NormalizeRun(a, S, s)
  BY NormalizeRuns
<1>2. PICK b : NormalizeRun(b, S, t)
  BY NormalizeRuns
<1>3. s \o t \in Seq(S)
  OBVIOUS
<1>4. PICK r : NormalizeRun(r, S, s \o t)
  BY <1>3, NormalizeRuns
<1> DEFINE m == Len(s)
           n == Len(t)
<1>5. m \in Nat /\ n \in Nat /\ Len(s \o t) = m + n
  OBVIOUS
<1>6. \A k \in 0 .. m : r[k] = a[k]
  <2>1. \A k \in 1 .. m : k \in 1 .. m + n /\ (s \o t)[k] = s[k]
    OBVIOUS
  <2>2. \A k \in 1 .. m : r[k - 1] = a[k - 1] => r[k] = a[k]
    BY <1>1, <1>4, <1>5, <2>1 DEF NormalizeRun
  <2>3. r[0] = a[0]
    BY <1>1, <1>4 DEF NormalizeRun
  <2>4. Alike(m, r, a)
    BY <1>5, <2>2, <2>3 DEF Alike
  <2> QED
    BY <2>4, SameRun
<1> DEFINE c == [k \in 0 .. n |-> r[m + k]]
           d == [k \in 0 .. n |-> a[m] \o b[k]]
<1>7. \A k \in 0 .. n : c[k] = d[k]
  <2>1. a[m] \in Seq(S) /\ b[0] = <<>> /\ r[m] = a[m]
    BY <1>1, <1>2, <1>5, <1>6 DEF NormalizeRun
  <2>2. c[0] = d[0]
    <3>1. 0 \in 0 .. n /\ m + 0 = m /\ a[m] \o <<>> = a[m]
      BY <1>5, <2>1, ConcatEmptySeq
    <3>2. c[0] = r[m] /\ d[0] = a[m]
      BY <2>1, <3>1
    <3> QED
      BY <2>1, <3>2
  <2>3. ASSUME NEW k \in 1 .. n, c[k - 1] = d[k - 1] PROVE c[k] = d[k]
    <3>1. /\ k \in 0 .. n /\ k - 1 \in 0 .. n /\ m + k \in 1 .. m + n /\ (m + k) - 1 = m + (k - 1)
          /\ (s \o t)[m + k] = t[k]
      BY <1>5
    <3>2. r[m + k] = Unbroken(r[m + (k - 1)], t[k]) /\ b[k] = Unbroken(b[k - 1], t[k]) /\ b[k - 1] \in Seq(S)
      BY <1>2, <1>4, <1>5, <3>1 DEF NormalizeRun
    <3>3. r[m + (k - 1)] = a[m] \o b[k - 1]
      BY <2>3, <3>1
    <3>4. t[k] \in S
      BY <1>5
    <3>5. \A x \in Seq(S), y \in Seq(S) : Unbroken(x \o y, t[k]) = x \o Unbroken(y, t[k])
      <4>1. ASSUME NEW u \in Seq(S), NEW v \in Seq(S) PROVE Append(u \o v, t[k]) = u \o Append(v, t[k])
        <5>1. AppendsLast(u, v, t[k])
          BY <3>4, AppendConcat
        <5> QED
          BY <5>1 DEF AppendsLast
      <4> QED
        BY <4>1 DEF Unbroken
    <3>6. r[m + k] = a[m] \o b[k]
      BY <2>1, <3>2, <3>3, <3>5
    <3> QED
      BY <3>1, <3>6
  <2>4. Alike(n, c, d)
    <3> HIDE DEF c, d
    <3> QED
      BY <1>5, <2>2, <2>3 DEF Alike
  <2> HIDE DEF c, d
  <2> QED
    BY <2>4, SameRun
<1>8. r[m + n] = a[m] \o b[n]
  <2>1. n \in 0 .. n
    BY <1>5
  <2>2. c[n] = r[m + n] /\ d[n] = a[m] \o b[n]
    BY <2>1
  <2> QED
    BY <1>7, <2>1, <2>2
<1>9. Normalize(s \o t) = r[m + n] /\ Normalize(s) = a[m] /\ Normalize(t) = b[n] /\ a[m] \in Seq(S)
  BY <1>1, <1>2, <1>4, <1>5 DEF NormalizeRun
<1> QED
  BY <1>8, <1>9

LEMMA NormalizeOne ==
  ASSUME NEW S, NEW p \in S
  PROVE  Normalize(<<p>>) = Unbroken(<<>>, p) /\ Normalize(<<>>) = <<>>
<1>1. <<p>> \in Seq(S) /\ <<>> \in Seq(S) /\ Len(<<p>>) = 1 /\ Len(<<>>) = 0 /\ <<p>>[1] = p
  OBVIOUS
<1>2. PICK a : NormalizeRun(a, S, <<p>>)
  BY <1>1, NormalizeRuns
<1>3. PICK b : NormalizeRun(b, S, <<>>)
  BY <1>1, NormalizeRuns
<1>4. Normalize(<<>>) = <<>>
  BY <1>1, <1>3 DEF NormalizeRun
<1>5. a[0] = <<>> /\ a[1] = Unbroken(a[1 - 1], <<p>>[1]) /\ Normalize(<<p>>) = a[1]
  BY <1>1, <1>2 DEF NormalizeRun
<1> QED
  BY <1>1, <1>4, <1>5

-----------------------------------------------------------------------------
(* Where a literal, a line and a block end.                                 *)

Opens(p) == p.does \cap {"quote", "dashes", "open"} # {}

\* end[j] is where a literal of `mark` ends that is open at j.
EndsOf(end, sql, i) ==
  LET n == Len(sql)
  IN  /\ EndOfLiteral(sql, i) = end[i + 1]
      /\ \A j \in i + 1 .. n + 1 : end[j] \in i + 1 .. n + 1
      /\ end[n + 1] = n + 1
      /\ \A j \in i + 1 .. n :
           end[j] = IF sql[j] # sql[i] THEN end[j + 1]
                    ELSE IF j < n /\ sql[j + 1] = sql[i] THEN end[j + 2] ELSE j + 1

LEMMA LiteralEnds ==
  ASSUME NEW S, NEW sql \in Seq(S), NEW i \in 1 .. Len(sql)
  PROVE  \E end : EndsOf(end, sql, i)
<1> DEFINE n == Len(sql)
           m == i + 1
           V == m .. n + 1
           doubled(j) == j < n /\ sql[j + 1] = sql[i]
           next == [j \in m .. n |-> IF sql[j] = sql[i] /\ doubled(j) THEN j + 2 ELSE j + 1]
           H == [x \in (m .. n) \X V |-> IF sql[x[1]] = sql[i] /\ ~doubled(x[1]) THEN x[1] + 1 ELSE x[2]]
           Ends(f) == f = [j \in m .. n + 1 |-> IF j > n THEN j
                             ELSE IF sql[j] # sql[i] THEN f[j + 1]
                             ELSE IF j < n /\ sql[j + 1] = sql[i] THEN f[j + 2]
                             ELSE j + 1]
<1>0. n \in Nat /\ m \in 1 .. n + 1 /\ n + 1 \in V /\ i \in Nat
  OBVIOUS
<1>1. \A j \in m .. n : next[j] \in j + 1 .. n + 1 /\ next[j] \in V /\ j + 1 \in V
  BY <1>0
<1>2. H \in [(m .. n) \X V -> V]
  <2> HIDE DEF next
  <2> QED
    BY <1>0, <1>1
<1>3. PICK f \in [m .. n + 1 -> V] : RightRecursive(m, n, next, n + 1, H, f)
  <2> HIDE DEF n, m, V, next, H
  <2> QED
    BY <1>0, <1>1, <1>2, RightRecursion
<1>4. \A j \in m .. n : f[j] = H[<<j, f[next[j]]>>] /\ f[next[j]] \in V
  <2>1. f = [j \in m .. n + 1 |-> IF j = n + 1 THEN n + 1 ELSE H[<<j, f[next[j]]>>]]
    BY <1>3 DEF RightRecursive
  <2> HIDE DEF H, next
  <2> QED
    BY <1>0, <1>1, <2>1
<1>5. \A j \in m .. n : f[j] = IF sql[j] # sql[i] THEN f[j + 1]
                               ELSE IF j < n /\ sql[j + 1] = sql[i] THEN f[j + 2] ELSE j + 1
  <2> SUFFICES ASSUME NEW j \in m .. n
               PROVE  f[j] = IF sql[j] # sql[i] THEN f[j + 1]
                             ELSE IF j < n /\ sql[j + 1] = sql[i] THEN f[j + 2] ELSE j + 1
    OBVIOUS
  <2>1. f[j] = IF sql[j] = sql[i] /\ ~doubled(j) THEN j + 1 ELSE f[next[j]]
    <3> HIDE DEF m, V, next, doubled
    <3> QED
      BY <1>4
  <2>2. next[j] = IF sql[j] = sql[i] /\ doubled(j) THEN j + 2 ELSE j + 1
    OBVIOUS
  <2> HIDE DEF m, V, next, H
  <2> QED
    BY <2>1, <2>2
<1>6. Ends(f)
  <2>1. f = [j \in m .. n + 1 |-> f[j]] /\ f[n + 1] = n + 1
    BY <1>0, <1>3 DEF RightRecursive
  <2>2. \A j \in m .. n + 1 : IF j > n THEN j = n + 1 ELSE j \in m .. n
    BY <1>0
  <2> HIDE DEF m, V, next, H
  <2> QED
    BY <1>5, <2>1, <2>2
<1> DEFINE end == CHOOSE e : Ends(e)
<1>7. Ends(end)
  <2> HIDE DEF Ends
  <2> QED
    BY <1>6
<1>8. EndOfLiteral(sql, i) = end[m]
  BY DEF EndOfLiteral
<1> HIDE DEF end
<1>9. end[n + 1] = n + 1
  BY <1>0, <1>7
<1>10. \A j \in m .. n : end[j] = IF sql[j] # sql[i] THEN end[j + 1]
                                  ELSE IF j < n /\ sql[j + 1] = sql[i] THEN end[j + 2] ELSE j + 1
  BY <1>0, <1>7
<1>11. \A j \in m .. n + 1 : end[j] \in V
  <2> DEFINE T == {j \in m .. n + 1 : end[j] \in V}
  <2>1. n + 1 \in T
    BY <1>0, <1>9
  <2>2. ASSUME NEW j \in m .. n, \A l \in j + 1 .. n + 1 : l \in T PROVE j \in T
    <3>1. j + 1 \in j + 1 .. n + 1 /\ (j < n => j + 2 \in j + 1 .. n + 1) /\ j \in m .. n + 1 /\ j + 1 \in V
      BY <1>0
    <3>2. end[j + 1] \in V /\ (j < n => end[j + 2] \in V)
      BY <2>2, <3>1
    <3> HIDE DEF V
    <3> QED
      BY <1>10, <3>1, <3>2
  <2>3. m \in Nat /\ n \in Nat
    BY <1>0
  <2>4. \A j \in m .. n + 1 : j \in T
    <3> HIDE DEF T, m, n
    <3> QED
      BY <2>1, <2>2, <2>3, InductionFromRight
  <2> QED
    BY <2>4
<1>12. EndsOf(end, sql, i)
  BY <1>8, <1>9, <1>10, <1>11 DEF EndsOf
<1> QED
  BY <1>12

\* The next place that does `what`, or the end.
LEMMA FirstFound ==
  ASSUME NEW S, NEW sql \in Seq(S), NEW i \in 1 .. Len(sql) + 1, NEW what
  PROVE  /\ FirstAt(sql, i, what) \in i .. Len(sql) + 1
         /\ \A j \in i .. FirstAt(sql, i, what) - 1 : ~Does(sql[j], what)
         /\ FirstAt(sql, i, what) <= Len(sql) => Does(sql[FirstAt(sql, i, what)], what)
<1> DEFINE n == Len(sql)
           found == {j \in i .. n : Does(sql[j], what)} \cup {n + 1}
<1>1. found \in SUBSET Nat /\ found # {} /\ n \in Nat /\ i \in Nat
  OBVIOUS
<1>2. FirstAt(sql, i, what) = Min(found)
  BY DEF FirstAt
<1>3. Min(found) \in found /\ \A y \in found : Min(found) <= y
  <2> HIDE DEF found
  <2> QED
    BY <1>1, MinIsLeast
<1> DEFINE first == Min(found)
<1> HIDE DEF first
<1>4. first \in i .. n + 1 /\ (first <= n => Does(sql[first], what))
  BY <1>1, <1>3 DEF first
<1>5. \A j \in i .. n : j < first => ~Does(sql[j], what)
  BY <1>1, <1>3 DEF first
<1>6. \A j \in i .. first - 1 : j \in i .. n /\ j < first
  BY <1>1, <1>4
<1>7. FirstAt(sql, i, what) = first
  BY <1>2 DEF first
<1> QED
  BY <1>4, <1>5, <1>6, <1>7

LEMMA LineAndBlockEnd ==
  ASSUME NEW S, NEW sql \in Seq(S), NEW i \in 1 .. Len(sql)
  PROVE  /\ Does(sql[i], "dashes") /\ ~Does(sql[i], "newline") => EndOfLine(sql, i) \in i + 1 .. Len(sql) + 1
         /\ EndOfBlock(sql, i) \in i + 1 .. Len(sql) + 1
<1>1. Len(sql) \in Nat /\ i \in 1 .. Len(sql) + 1 /\ i + 1 \in 1 .. Len(sql) + 1
  OBVIOUS
<1>2. EndOfLine(sql, i) \in i .. Len(sql) + 1 /\ (EndOfLine(sql, i) = i => Does(sql[i], "newline"))
  <2>1. /\ FirstAt(sql, i, "newline") \in i .. Len(sql) + 1
        /\ FirstAt(sql, i, "newline") <= Len(sql) => Does(sql[FirstAt(sql, i, "newline")], "newline")
    BY <1>1, FirstFound
  <2> QED
    BY <2>1 DEF EndOfLine
<1> DEFINE first == FirstAt(sql, i + 1, "close")
<1>3. first \in i + 1 .. Len(sql) + 1
  BY <1>1, FirstFound
<1> HIDE DEF first
<1>4. Min({first, Len(sql)}) \in i .. Len(sql)
  <2>1. {first, Len(sql)} \in SUBSET Nat /\ {first, Len(sql)} # {}
    BY <1>1, <1>3
  <2>2. Min({first, Len(sql)}) \in {first, Len(sql)} /\ \A y \in {first, Len(sql)} : Min({first, Len(sql)}) <= y
    BY <2>1, MinIsLeast
  <2> QED
    BY <1>1, <1>3, <2>2
<1>5. EndOfBlock(sql, i) = Min({first, Len(sql)}) + 1
  BY DEF EndOfBlock, first
<1> QED
  BY <1>1, <1>2, <1>4, <1>5

-----------------------------------------------------------------------------
(* sanitize, with its jumps.                                                *)

\* code[i] is what there is of code from i on.
CodeOf(code, sql) ==
  LET n == Len(sql)
  IN  /\ Sanitize(sql) = code[1]
      /\ \A i \in 1 .. n + 1 : code[i] \in Seq(Phrases)
      /\ code[n + 1] = <<>>
      /\ \A i \in 1 .. n :
           code[i] = IF Does(sql[i], "quote") THEN code[EndOfLiteral(sql, i)]
                     ELSE IF Does(sql[i], "dashes") THEN code[EndOfLine(sql, i)]
                     ELSE IF Does(sql[i], "open") THEN code[EndOfBlock(sql, i)]
                     ELSE <<sql[i]>> \o code[i + 1]

LEMMA JumpsAhead ==
  ASSUME NEW sql \in Seq(Phrases), NEW i \in 1 .. Len(sql)
  PROVE  /\ EndOfLiteral(sql, i) \in i + 1 .. Len(sql) + 1
         /\ Does(sql[i], "dashes") => EndOfLine(sql, i) \in i + 1 .. Len(sql) + 1
         /\ EndOfBlock(sql, i) \in i + 1 .. Len(sql) + 1
<1>1. PICK end : EndsOf(end, sql, i)
  BY LiteralEnds
<1>2. EndOfLiteral(sql, i) \in i + 1 .. Len(sql) + 1
  <2>1. i + 1 \in i + 1 .. Len(sql) + 1
    OBVIOUS
  <2> QED
    BY <1>1, <2>1 DEF EndsOf
<1>3. sql[i] \in Phrases
  OBVIOUS
<1>4. Does(sql[i], "dashes") => ~Does(sql[i], "newline")
  BY <1>3, PhrasesAssumption DEF Does
<1> QED
  BY <1>2, <1>4, LineAndBlockEnd

LEMMA Sanitized ==
  ASSUME NEW sql \in Seq(Phrases)
  PROVE  \E code : CodeOf(code, sql)
<1> DEFINE n == Len(sql)
           V == Seq(Phrases)
           quoted(i) == Does(sql[i], "quote")
           dashed(i) == Does(sql[i], "dashes")
           opened(i) == Does(sql[i], "open")
           next == [i \in 1 .. n |-> IF quoted(i) THEN EndOfLiteral(sql, i)
                                     ELSE IF dashed(i) THEN EndOfLine(sql, i)
                                     ELSE IF opened(i) THEN EndOfBlock(sql, i) ELSE i + 1]
           H == [x \in (1 .. n) \X V |->
                   IF quoted(x[1]) \/ dashed(x[1]) \/ opened(x[1]) THEN x[2] ELSE <<sql[x[1]]>> \o x[2]]
           Codes(f) == f = [i \in 1 .. n + 1 |->
                              IF i > n THEN <<>>
                              ELSE IF Does(sql[i], "quote") THEN f[EndOfLiteral(sql, i)]
                              ELSE IF Does(sql[i], "dashes") THEN f[EndOfLine(sql, i)]
                              ELSE IF Does(sql[i], "open") THEN f[EndOfBlock(sql, i)]
                              ELSE <<sql[i]>> \o f[i + 1]]
<1>0. n \in Nat /\ 1 \in 1 .. n + 1 /\ <<>> \in V
  OBVIOUS
<1>1. \A i \in 1 .. n : next[i] \in i + 1 .. n + 1
  BY <1>0, JumpsAhead
<1>2. H \in [(1 .. n) \X V -> V]
  <2>1. ASSUME NEW i \in 1 .. n, NEW some \in V PROVE <<sql[i]>> \o some \in V
    OBVIOUS
  <2> HIDE DEF V, quoted, dashed, opened
  <2> QED
    BY <2>1
<1>3. PICK f \in [1 .. n + 1 -> V] : RightRecursive(1, n, next, <<>>, H, f)
  <2> HIDE DEF n, V, next, H
  <2> QED
    BY <1>0, <1>1, <1>2, RightRecursion
<1>4. \A i \in 1 .. n : f[i] = H[<<i, f[next[i]]>>] /\ f[next[i]] \in V
  <2>1. f = [i \in 1 .. n + 1 |-> IF i = n + 1 THEN <<>> ELSE H[<<i, f[next[i]]>>]]
    BY <1>3 DEF RightRecursive
  <2> HIDE DEF H, next, V
  <2> QED
    BY <1>0, <1>1, <2>1
<1>5. \A i \in 1 .. n : f[i] = IF quoted(i) THEN f[EndOfLiteral(sql, i)]
                               ELSE IF dashed(i) THEN f[EndOfLine(sql, i)]
                               ELSE IF opened(i) THEN f[EndOfBlock(sql, i)]
                               ELSE <<sql[i]>> \o f[i + 1]
  <2> SUFFICES ASSUME NEW i \in 1 .. n
               PROVE  f[i] = IF quoted(i) THEN f[EndOfLiteral(sql, i)]
                             ELSE IF dashed(i) THEN f[EndOfLine(sql, i)]
                             ELSE IF opened(i) THEN f[EndOfBlock(sql, i)]
                             ELSE <<sql[i]>> \o f[i + 1]
    OBVIOUS
  <2>1. f[i] = IF quoted(i) \/ dashed(i) \/ opened(i) THEN f[next[i]] ELSE <<sql[i]>> \o f[next[i]]
    <3> HIDE DEF V, next, quoted, dashed, opened
    <3> QED
      BY <1>4
  <2>2. next[i] = IF quoted(i) THEN EndOfLiteral(sql, i)
                  ELSE IF dashed(i) THEN EndOfLine(sql, i)
                  ELSE IF opened(i) THEN EndOfBlock(sql, i) ELSE i + 1
    OBVIOUS
  <2> HIDE DEF V, next, H, quoted, dashed, opened
  <2> QED
    BY <2>1, <2>2
<1>6. Codes(f)
  <2>0. n + 1 \in 1 .. n + 1
    BY <1>0
  <2>1. f = [i \in 1 .. n + 1 |-> f[i]] /\ f[n + 1] = <<>>
    <3> HIDE DEF H, next, V, n
    <3> QED
      BY <2>0, <1>3 DEF RightRecursive
  <2>2. \A i \in 1 .. n + 1 : IF i > n THEN i = n + 1 ELSE i \in 1 .. n
    BY <1>0
  <2> HIDE DEF V, next, H
  <2> QED
    BY <1>5, <2>1, <2>2
<1> DEFINE code == CHOOSE e : Codes(e)
<1>7. Codes(code)
  <2> HIDE DEF Codes
  <2> QED
    BY <1>6
<1>8. Sanitize(sql) = code[1]
  BY DEF Sanitize
<1> HIDE DEF code
<1>p. n + 1 \in 1 .. n + 1 /\ n + 1 > n /\ \A i \in 1 .. n : i \in 1 .. n + 1 /\ ~(i > n)
  BY <1>0
<1>9. code[n + 1] = <<>>
  BY <1>p, <1>7
<1>10. \A i \in 1 .. n : code[i] = IF quoted(i) THEN code[EndOfLiteral(sql, i)]
                                   ELSE IF dashed(i) THEN code[EndOfLine(sql, i)]
                                   ELSE IF opened(i) THEN code[EndOfBlock(sql, i)]
                                   ELSE <<sql[i]>> \o code[i + 1]
  <2> HIDE DEF n, H, V, next
  <2> QED
    BY <1>p, <1>7
<1>11. \A i \in 1 .. n + 1 : code[i] \in V
  <2> DEFINE T == {i \in 1 .. n + 1 : code[i] \in V}
  <2>1. n + 1 \in T
    <3> HIDE DEF n, V
    <3> QED
      BY <1>0, <1>9, <1>p
  <2>2. ASSUME NEW i \in 1 .. n, \A l \in i + 1 .. n + 1 : l \in T PROVE i \in T
    <3>1. i + 1 \in i + 1 .. n + 1 /\ i \in 1 .. n + 1 /\ sql[i] \in Phrases
      BY <1>0
    <3>2. /\ EndOfLiteral(sql, i) \in i + 1 .. n + 1
          /\ dashed(i) => EndOfLine(sql, i) \in i + 1 .. n + 1
          /\ EndOfBlock(sql, i) \in i + 1 .. n + 1
      BY JumpsAhead
    <3>3. \A l \in i + 1 .. n + 1 : code[l] \in V
      BY <2>2
    <3>4. <<sql[i]>> \o code[i + 1] \in V
      BY <3>1, <3>3
    <3> HIDE DEF V, quoted, dashed, opened
    <3> QED
      BY <1>10, <3>1, <3>2, <3>3, <3>4
  <2>4. \A i \in 1 .. n + 1 : i \in T
    <3> HIDE DEF T, n
    <3> QED
      BY <1>0, <2>1, <2>2, InductionFromRight
  <2> QED
    BY <2>4
<1>12. CodeOf(code, sql)
  BY <1>8, <1>9, <1>10, <1>11 DEF CodeOf
<1> QED
  BY <1>12

-----------------------------------------------------------------------------
(* The reader.                                                              *)

Reading == [within : Phrases \cup {None}, code : Seq(Phrases)]

Ends(open, p) ==
  \/ Does(open, "quote") /\ p = open
  \/ Does(open, "dashes") /\ Does(p, "newline")
  \/ Does(open, "open") /\ Does(p, "close")

Reads(s, p) ==
  IF s.within = None
  THEN IF p.does \cap {"quote", "dashes", "open"} # {} THEN [s EXCEPT !.within = p] ELSE [s EXCEPT !.code = Append(@, p)]
  ELSE IF Ends(s.within, p) THEN [s EXCEPT !.within = None] ELSE s

Nothing == [within |-> None, code |-> <<>>]

LexRun(run, sql) ==
  /\ \A k \in 0 .. Len(sql) : run[k] \in Reading
  /\ run[0] = Nothing
  /\ \A k \in 1 .. Len(sql) : run[k] = Reads(run[k - 1], sql[k])
  /\ Lexed(sql) = Normalize(run[Len(sql)].code)

LEMMA ReadsType ==
  ASSUME NEW s \in Reading, NEW p \in Phrases
  PROVE  Reads(s, p) \in Reading
<1>1. /\ [s EXCEPT !.within = p] \in Reading /\ [s EXCEPT !.within = None] \in Reading
      /\ [s EXCEPT !.code = Append(@, p)] \in Reading
  <2>1. Append(s.code, p) \in Seq(Phrases)
    BY DEF Reading
  <2> QED
    BY <2>1 DEF Reading
<1> QED
  BY <1>1 DEF Reads

LEMMA LexRuns ==
  ASSUME NEW sql \in Seq(Phrases)
  PROVE  \E run : LexRun(run, sql)
<1> DEFINE n == Len(sql)
           D == 1 .. n
           G == [x \in D \X Reading |-> Reads(x[2], sql[x[1]])]
           Folds(it) == it = [s \in SUBSET D |-> IF s = {} THEN Nothing ELSE Reads(it[s \ {Max(s)}], sql[Max(s)])]
<1>0. n \in Nat /\ DOMAIN sql = D /\ Nothing \in Reading
  BY DEF Nothing, Reading
<1>t. ASSUME NEW some \in Reading, NEW k \in D PROVE Reads(some, sql[k]) \in Reading
  <2>1. sql[k] \in Phrases
    OBVIOUS
  <2> QED
    BY <2>1, ReadsType
<1>1. G \in [D \X Reading -> Reading]
  <2> HIDE DEF D
  <2> QED
    BY <1>t
<1>2. /\ \E it \in [SUBSET D -> Reading] : FoldOf(n, Nothing, G, it)
      /\ \A s \in SUBSET D : s # {} => Max(s) \in s
  <2> HIDE DEF G
  <2> QED
    BY <1>0, <1>1, FoldExists
<1>3. PICK it \in [SUBSET D -> Reading] : FoldOf(n, Nothing, G, it)
  BY <1>2
<1>4. Folds(it)
  <2>1. ASSUME NEW s \in SUBSET D, s # {}
        PROVE  G[<<Max(s), it[s \ {Max(s)}]>>] = Reads(it[s \ {Max(s)}], sql[Max(s)])
    <3>1. Max(s) \in D /\ it[s \ {Max(s)}] \in Reading
      BY <1>2, <2>1
    <3> HIDE DEF D
    <3> QED
      BY <3>1
  <2> HIDE DEF G
  <2>2. it = [s \in SUBSET D |-> IF s = {} THEN Nothing ELSE G[<<Max(s), it[s \ {Max(s)}]>>]]
    BY <1>3 DEF Recursive, FoldOf
  <2> HIDE DEF D
  <2> QED
    BY <2>1, <2>2
<1> DEFINE fold == CHOOSE f : Folds(f)
<1>5. Folds(fold)
  <2> HIDE DEF Folds
  <2> QED
    BY <1>4
<1>6. Lexed(sql) = Normalize(fold[D].code)
  BY <1>0 DEF Lexed, FoldLeft, MapThenFoldSet, Reads, Nothing, Ends
<1> HIDE DEF fold
<1> DEFINE run == [k \in 0 .. n |-> fold[1 .. k]]
<1>7. run[0] = Nothing
  <2>1. 1 .. 0 = {} /\ 0 \in 0 .. n /\ {} \in SUBSET D
    BY <1>0
  <2> HIDE DEF D
  <2> QED
    BY <1>5, <2>1
<1>8. ASSUME NEW k \in 1 .. n PROVE run[k] = Reads(run[k - 1], sql[k])
  <2>1. k \in Nat /\ k # 0 /\ 1 .. k \in SUBSET D /\ k \in 0 .. n /\ k - 1 \in 0 .. n
    BY <1>0
  <2>2. Max(1 .. k) = k /\ (1 .. k) \ {k} = 1 .. (k - 1) /\ 1 .. k # {}
    BY <2>1, GreatestOfPrefix
  <2>3. fold[1 .. k] = Reads(fold[(1 .. k) \ {Max(1 .. k)}], sql[Max(1 .. k)])
    <3> HIDE DEF D
    <3> QED
      BY <1>5, <2>1, <2>2
  <2> QED
    BY <2>1, <2>2, <2>3
<1>9. run[n] = fold[D]
  BY <1>0
<1> HIDE DEF run
<1>10. \A k \in 0 .. n : run[k] \in Reading
  <2>1. \A k \in 1 .. n : run[k - 1] \in Reading => run[k] \in Reading
    BY <1>8, <1>t
  <2> QED
    BY <1>0, <1>7, <2>1, RunType
<1>11. LexRun(run, sql)
  BY <1>6, <1>7, <1>8, <1>9, <1>10 DEF LexRun
<1> QED
  BY <1>11

-----------------------------------------------------------------------------
(* The jumps land where the reader's literal or comment ends.               *)

LEMMA OpensOne ==
  ASSUME NEW p \in Phrases
  PROVE  /\ Opens(p) <=> Does(p, "quote") \/ Does(p, "dashes") \/ Does(p, "open")
         /\ Does(p, "quote") => ~Does(p, "dashes") /\ ~Does(p, "open")
         /\ Does(p, "dashes") => ~Does(p, "open")
         /\ Does(p, "newline") => ~Opens(p)
         /\ p # None
BY PhrasesAssumption DEF Opens, Does

\* One step of the reader.
LEMMA LexStep ==
  ASSUME NEW sql \in Seq(Phrases), NEW g, LexRun(g, sql), NEW k \in 1 .. Len(sql)
  PROVE  /\ g[k - 1] \in Reading /\ g[k] \in Reading
         /\ g[k - 1].within = None /\ Opens(sql[k]) => g[k].within = sql[k] /\ g[k].code = g[k - 1].code
         /\ g[k - 1].within = None /\ ~Opens(sql[k]) =>
              g[k].within = None /\ g[k].code = Append(g[k - 1].code, sql[k])
         /\ g[k - 1].within # None /\ Ends(g[k - 1].within, sql[k]) =>
              g[k].within = None /\ g[k].code = g[k - 1].code
         /\ g[k - 1].within # None /\ ~Ends(g[k - 1].within, sql[k]) => g[k] = g[k - 1]
<1>1. k \in 0 .. Len(sql) /\ k - 1 \in 0 .. Len(sql)
  OBVIOUS
<1>2. g[k - 1] \in Reading /\ g[k] \in Reading /\ g[k] = Reads(g[k - 1], sql[k])
  BY <1>1 DEF LexRun
<1> QED
  BY <1>2 DEF Reads, Opens, Reading

\* What nothing ends stays open, and adds no code.
LEMMA StaysOpen ==
  ASSUME NEW sql \in Seq(Phrases), NEW g, LexRun(g, sql), NEW i \in 1 .. Len(sql),
         g[i - 1].within = None, Opens(sql[i]), NEW e \in i .. Len(sql),
         \A k \in i + 1 .. e : ~Ends(sql[i], sql[k])
  PROVE  g[e].within = sql[i] /\ g[e].code = g[i - 1].code
<1> DEFINE T == {k \in i .. e : g[k].within = sql[i] /\ g[k].code = g[i - 1].code}
<1>1. i \in T
  <2>1. i \in i .. e
    OBVIOUS
  <2>2. g[i].within = sql[i] /\ g[i].code = g[i - 1].code
    BY LexStep
  <2> QED
    BY <2>1, <2>2
<1>2. ASSUME NEW k \in i .. e - 1, k \in T PROVE k + 1 \in T
  <2>1. k + 1 \in i + 1 .. e /\ k + 1 \in i .. e /\ k + 1 \in 1 .. Len(sql) /\ (k + 1) - 1 = k
    OBVIOUS
  <2>2. sql[i] # None /\ ~Ends(sql[i], sql[k + 1])
    <3>1. sql[i] \in Phrases
      OBVIOUS
    <3> QED
      BY <2>1, <3>1, OpensOne
  <2>3. g[k].within # None /\ ~Ends(g[k].within, sql[k + 1]) => g[k + 1] = g[k]
    BY <2>1, LexStep
  <2> QED
    BY <1>2, <2>1, <2>2, <2>3
<1>3. i \in Nat /\ e \in Nat /\ e \in i .. e
  OBVIOUS
<1>4. e \in T
  <2> HIDE DEF T
  <2> QED
    BY <1>1, <1>2, <1>3, InductionUpTo
<1> QED
  BY <1>4

LandsAt(g, n, i, e) == g[e - 1].code = g[i - 1].code /\ (e = n + 1 \/ g[e - 1].within = None)

LEMMA LiteralLands ==
  ASSUME NEW sql \in Seq(Phrases), NEW g, LexRun(g, sql), NEW i \in 1 .. Len(sql),
         g[i - 1].within = None, Does(sql[i], "quote")
  PROVE  LandsAt(g, Len(sql), i, EndOfLiteral(sql, i))
<1> DEFINE n == Len(sql)
<1>0. n \in Nat /\ i \in Nat /\ sql[i] \in Phrases
  OBVIOUS
<1>1. PICK end : EndsOf(end, sql, i)
  BY LiteralEnds
<1> DEFINE T == {j \in i + 1 .. n + 1 : g[j - 1].within = sql[i] => LandsAt(g, n, j, end[j])}
<1>2. n + 1 \in T
  <2>1. n + 1 \in i + 1 .. n + 1 /\ end[n + 1] = n + 1
    BY <1>0, <1>1 DEF EndsOf
  <2> QED
    BY <2>1 DEF LandsAt
<1>3. ASSUME NEW j \in i + 1 .. n, \A l \in j + 1 .. n + 1 : l \in T PROVE j \in T
  <2> SUFFICES ASSUME g[j - 1].within = sql[i] PROVE LandsAt(g, n, j, end[j])
    BY <1>0
  <2>1. j \in 1 .. n /\ j + 1 \in j + 1 .. n + 1 /\ sql[j] \in Phrases /\ (j + 1) - 1 = j
    BY <1>0
  <2>2. sql[i] # None /\ (Ends(sql[i], sql[j]) <=> sql[j] = sql[i])
    BY <1>0, <2>1, OpensOne DEF Ends
  <2>3. end[j] = IF sql[j] # sql[i] THEN end[j + 1]
                 ELSE IF j < n /\ sql[j + 1] = sql[i] THEN end[j + 2] ELSE j + 1
    BY <1>1 DEF EndsOf
  <2>4. CASE sql[j] # sql[i]
    <3>1. g[j] = g[j - 1]
      BY <2>1, <2>2, <2>4, LexStep
    <3>2. LandsAt(g, n, j + 1, end[j + 1])
      BY <1>3, <2>1, <3>1
    <3> QED
      BY <2>1, <2>3, <2>4, <3>1, <3>2 DEF LandsAt
  <2>5. CASE sql[j] = sql[i]
    <3>1. g[j].within = None /\ g[j].code = g[j - 1].code
      BY <2>1, <2>2, <2>5, LexStep
    <3>2. CASE j < n /\ sql[j + 1] = sql[i]
      <4>1. j + 1 \in 1 .. n /\ j + 2 \in j + 1 .. n + 1 /\ (j + 2) - 1 = j + 1
        <5>1. j < n
          BY <3>2
        <5> HIDE DEF n
        <5> QED
          BY <1>0, <5>1
      <4>2. Opens(sql[j + 1])
        BY <1>0, <3>2, OpensOne
      <4>3. g[j + 1].within = sql[i] /\ g[j + 1].code = g[j].code
        <5>1. g[(j + 1) - 1].within = None /\ Opens(sql[j + 1]) =>
                 g[j + 1].within = sql[j + 1] /\ g[j + 1].code = g[(j + 1) - 1].code
          BY <4>1, LexStep
        <5> QED
          BY <2>1, <3>1, <3>2, <4>2, <5>1
      <4>4. LandsAt(g, n, j + 2, end[j + 2])
        BY <1>3, <4>1, <4>3
      <4> QED
        BY <2>3, <2>5, <3>1, <3>2, <4>1, <4>3, <4>4 DEF LandsAt
    <3>3. CASE ~(j < n /\ sql[j + 1] = sql[i])
      BY <2>1, <2>3, <2>5, <3>1, <3>3 DEF LandsAt
    <3> QED
      BY <3>2, <3>3
  <2> QED
    BY <2>4, <2>5
<1>4. \A j \in i + 1 .. n + 1 : j \in T
  <2>1. i + 1 \in Nat
    BY <1>0
  <2> HIDE DEF T, n
  <2> QED
    BY <1>0, <1>2, <1>3, <2>1, InductionFromRight
<1>5. g[i].within = sql[i] /\ g[i].code = g[i - 1].code
  BY <1>0, OpensOne, LexStep
<1>6. i + 1 \in i + 1 .. n + 1 /\ (i + 1) - 1 = i
  BY <1>0
<1>7. LandsAt(g, n, i + 1, end[i + 1])
  BY <1>4, <1>5, <1>6
<1>8. EndOfLiteral(sql, i) = end[i + 1]
  BY <1>1 DEF EndsOf
<1> QED
  BY <1>5, <1>6, <1>7, <1>8 DEF LandsAt

LEMMA LineLands ==
  ASSUME NEW sql \in Seq(Phrases), NEW g, LexRun(g, sql), NEW i \in 1 .. Len(sql),
         g[i - 1].within = None, Does(sql[i], "dashes")
  PROVE  LET e == EndOfLine(sql, i)
         IN  /\ g[e - 1].code = g[i - 1].code
             /\ e \in i + 1 .. Len(sql) + 1
             /\ e <= Len(sql) => /\ g[e].within = None /\ g[e].code = g[i - 1].code
                                 /\ Does(sql[e], "newline") /\ ~Opens(sql[e])
<1> DEFINE n == Len(sql)
           e == EndOfLine(sql, i)
<1>0. n \in Nat /\ i \in Nat /\ sql[i] \in Phrases
  OBVIOUS
<1>1. e \in i + 1 .. n + 1
  BY JumpsAhead
<1>2. (\A j \in i .. e - 1 : ~Does(sql[j], "newline")) /\ (e <= n => Does(sql[e], "newline"))
  <2>1. i \in 1 .. n + 1
    BY <1>0
  <2> QED
    BY <2>1, FirstFound DEF EndOfLine
<1> HIDE DEF e
<1>3. Opens(sql[i]) /\ sql[i] # None /\ \A p : Ends(sql[i], p) <=> Does(p, "newline")
  BY <1>0, OpensOne DEF Ends
<1>4. g[e - 1].within = sql[i] /\ g[e - 1].code = g[i - 1].code
  <2>1. e - 1 \in i .. n /\ \A k \in i + 1 .. e - 1 : k \in i .. e - 1
    BY <1>0, <1>1
  <2>2. \A k \in i + 1 .. e - 1 : ~Ends(sql[i], sql[k])
    BY <1>2, <1>3, <2>1
  <2> QED
    BY <1>3, <2>1, <2>2, StaysOpen
<1>5. ASSUME e <= n
      PROVE  g[e].within = None /\ g[e].code = g[i - 1].code /\ Does(sql[e], "newline") /\ ~Opens(sql[e])
  <2>1. e \in 1 .. n
    BY <1>0, <1>1, <1>5
  <2>2. Does(sql[e], "newline") /\ ~Opens(sql[e])
    <3>1. sql[e] \in Phrases
      BY <2>1
    <3> QED
      BY <1>2, <1>5, <3>1, OpensOne
  <2>3. g[e - 1].within # None /\ Ends(g[e - 1].within, sql[e]) => g[e].within = None /\ g[e].code = g[e - 1].code
    BY <2>1, LexStep
  <2> QED
    BY <1>3, <1>4, <2>2, <2>3
<1> QED
  BY <1>1, <1>4, <1>5 DEF e

LEMMA BlockLands ==
  ASSUME NEW sql \in Seq(Phrases), NEW g, LexRun(g, sql), NEW i \in 1 .. Len(sql),
         g[i - 1].within = None, Does(sql[i], "open")
  PROVE  LandsAt(g, Len(sql), i, EndOfBlock(sql, i))
<1> DEFINE n == Len(sql)
           first == FirstAt(sql, i + 1, "close")
           e == EndOfBlock(sql, i)
<1>0. n \in Nat /\ i \in 1 .. n /\ sql[i] \in Phrases /\ i + 1 \in 1 .. n + 1
  OBVIOUS
<1>1. /\ first \in i + 1 .. n + 1
      /\ \A j \in i + 1 .. first - 1 : ~Does(sql[j], "close")
      /\ first <= n => Does(sql[first], "close")
  BY <1>0, FirstFound
<1>2. e = (IF first <= n THEN first ELSE n) + 1
  <2>1. EndOfBlock(sql, i) = Min({first, n}) + 1
    BY DEF EndOfBlock
  <2> HIDE DEF n, first
  <2>2. {first, n} \in SUBSET Nat /\ {first, n} # {}
    BY <1>0, <1>1
  <2>3. Min({first, n}) \in {first, n} /\ \A y \in {first, n} : Min({first, n}) <= y
    BY <2>2, MinIsLeast
  <2> QED
    BY <1>0, <1>1, <2>1, <2>3
<1> HIDE DEF first, e
<1>3. Opens(sql[i]) /\ sql[i] # None /\ \A p : Ends(sql[i], p) <=> Does(p, "close")
  BY <1>0, OpensOne DEF Ends
<1>4. g[first - 1].within = sql[i] /\ g[first - 1].code = g[i - 1].code
  <2>1. first - 1 \in i .. n
    BY <1>0, <1>1
  <2>2. \A k \in i + 1 .. first - 1 : ~Ends(sql[i], sql[k])
    BY <1>1, <1>3
  <2> QED
    BY <1>3, <2>1, <2>2, StaysOpen
<1>5. CASE first <= n
  <2>1. first \in 1 .. n /\ e = first + 1 /\ e - 1 = first
    BY <1>0, <1>1, <1>2, <1>5
  <2>2. g[first - 1].within # None /\ Ends(g[first - 1].within, sql[first]) =>
          g[first].within = None /\ g[first].code = g[first - 1].code
    BY <2>1, LexStep
  <2> QED
    BY <1>1, <1>3, <1>4, <1>5, <2>1, <2>2 DEF LandsAt, e
<1>6. CASE ~(first <= n)
  <2>1. first = n + 1 /\ e = n + 1
    BY <1>0, <1>1, <1>2, <1>6
  <2> QED
    BY <1>4, <2>1 DEF LandsAt, e
<1> QED
  BY <1>5, <1>6

\* From wherever the reader is outside of literals and comments, sanitize finds the rest.
LEMMA ScanFinds ==
  ASSUME NEW sql \in Seq(Phrases), NEW g, LexRun(g, sql), NEW code, CodeOf(code, sql)
  PROVE  \A i \in 1 .. Len(sql) + 1 :
           g[i - 1].within = None =>
             Normalize(g[Len(sql)].code) = Normalize(g[i - 1].code) \o Normalize(code[i])
<1> DEFINE n == Len(sql)
           whole == Normalize(g[n].code)
           Found(i) == whole = Normalize(g[i - 1].code) \o Normalize(code[i])
           T == {i \in 1 .. n + 1 : g[i - 1].within = None => Found(i)}
<1>0. n \in Nat /\ 1 \in Nat
  OBVIOUS
<1>e. \A k \in 0 .. n : g[k].code \in Seq(Phrases) /\ Normalize(g[k].code) \o <<>> = Normalize(g[k].code)
  <2>1. ASSUME NEW k \in 0 .. n PROVE g[k].code \in Seq(Phrases)
    BY DEF LexRun, Reading
  <2>2. ASSUME NEW k \in 0 .. n PROVE Normalize(g[k].code) \in Seq(Phrases)
    BY <2>1, NormalizeConcat
  <2> QED
    BY <2>1, <2>2, ConcatEmptySeq
<1>n. Normalize(code[n + 1]) = <<>>
  <2>1. <<>> \in Seq({None}) /\ None \in {None} /\ code[n + 1] = <<>>
    BY DEF CodeOf
  <2> QED
    BY <2>1, NormalizeOne
<1>1. n + 1 \in T
  <2>1. (n + 1) - 1 = n /\ n \in 0 .. n /\ n + 1 \in 1 .. n + 1
    BY <1>0
  <2> QED
    BY <1>e, <1>n, <2>1
<1>2. ASSUME NEW i \in 1 .. n, \A l \in i + 1 .. n + 1 : l \in T PROVE i \in T
  <2> SUFFICES ASSUME g[i - 1].within = None PROVE Found(i)
    BY <1>0
  <2>0. sql[i] \in Phrases /\ i - 1 \in 0 .. n
    BY <1>0
  <2>l. ASSUME NEW e \in i + 1 .. n + 1, LandsAt(g, n, i, e), code[i] = code[e] PROVE Found(i)
    <3>1. CASE e = n + 1
      <4>1. g[n].code = g[i - 1].code
        BY <1>0, <2>l, <3>1 DEF LandsAt
      <4> QED
        BY <1>e, <1>n, <2>0, <2>l, <3>1, <4>1
    <3>2. CASE e # n + 1
      <4>1. Found(e) /\ g[e - 1].code = g[i - 1].code
        BY <1>2, <2>l, <3>2 DEF LandsAt
      <4> QED
        BY <2>l, <4>1
    <3> QED
      BY <3>1, <3>2
  <2>1. CASE Does(sql[i], "quote")
    <3>1. code[i] = code[EndOfLiteral(sql, i)] /\ EndOfLiteral(sql, i) \in i + 1 .. n + 1
      BY <2>1, JumpsAhead DEF CodeOf
    <3>2. LandsAt(g, n, i, EndOfLiteral(sql, i))
      BY <2>1, LiteralLands
    <3> HIDE DEF Found, n
    <3> QED
      BY <2>l, <3>1, <3>2
  <2>2. CASE ~Does(sql[i], "quote") /\ Does(sql[i], "dashes")
    <3> DEFINE e == EndOfLine(sql, i)
    <3>1. code[i] = code[e]
      BY <2>2 DEF CodeOf
    <3>2. /\ g[e - 1].code = g[i - 1].code /\ e \in i + 1 .. n + 1
          /\ e <= n => /\ g[e].within = None /\ g[e].code = g[i - 1].code
                       /\ Does(sql[e], "newline") /\ ~Opens(sql[e])
      BY <2>2, LineLands
    <3> HIDE DEF e
    <3>3. CASE e = n + 1
      <4>1. LandsAt(g, n, i, e)
        BY <3>2, <3>3 DEF LandsAt
      <4> HIDE DEF Found, n
      <4> QED
        BY <2>l, <3>1, <3>2, <4>1
    <3>4. CASE e # n + 1
      <4>1. e \in 1 .. n /\ e + 1 \in i + 1 .. n + 1 /\ (e + 1) - 1 = e /\ e <= n
        BY <1>0, <3>2, <3>4
      <4>2. sql[e] \in Phrases /\ code[e + 1] \in Seq(Phrases)
        BY <4>1 DEF CodeOf
      <4>3. code[e] = <<sql[e]>> \o code[e + 1]
        BY <3>2, <4>1, <4>2, OpensOne DEF CodeOf
      <4>4. Normalize(code[e]) = Normalize(code[e + 1])
        <5>1. <<sql[e]>> \in Seq(Phrases) /\ Normalize(<<sql[e]>>) = <<>>
          BY <3>2, <4>1, <4>2, NormalizeOne DEF Unbroken
        <5>2. Normalize(code[e]) = <<>> \o Normalize(code[e + 1])
          <6> DEFINE x == <<sql[e]>>
                     y == code[e + 1]
          <6>1. x \in Seq(Phrases) /\ y \in Seq(Phrases) /\ code[e] = x \o y /\ Normalize(x) = <<>>
            BY <4>2, <4>3, <5>1
          <6> HIDE DEF x, y
          <6>2. Normalize(x \o y) = Normalize(x) \o Normalize(y)
            BY <6>1, NormalizeConcat
          <6>3. Normalize(code[e]) = <<>> \o Normalize(y)
            BY <6>1, <6>2
          <6> QED
            BY <6>3 DEF y
        <5>3. Normalize(code[e + 1]) \in Seq(Phrases)
          BY <4>2, NormalizeConcat
        <5> QED
          BY <5>2, <5>3, ConcatEmptySeq
      <4>5. Found(e + 1)
        BY <1>2, <3>2, <4>1
      <4> QED
        BY <3>1, <3>2, <4>1, <4>4, <4>5
    <3> QED
      BY <3>3, <3>4
  <2>3. CASE ~Does(sql[i], "quote") /\ ~Does(sql[i], "dashes") /\ Does(sql[i], "open")
    <3>1. code[i] = code[EndOfBlock(sql, i)] /\ EndOfBlock(sql, i) \in i + 1 .. n + 1
      BY <2>3, JumpsAhead DEF CodeOf
    <3>2. LandsAt(g, n, i, EndOfBlock(sql, i))
      BY <2>3, BlockLands
    <3> HIDE DEF Found, n
    <3> QED
      BY <2>l, <3>1, <3>2
  <2>4. CASE ~Does(sql[i], "quote") /\ ~Does(sql[i], "dashes") /\ ~Does(sql[i], "open")
    <3>1. ~Opens(sql[i]) /\ code[i] = <<sql[i]>> \o code[i + 1]
      BY <2>0, <2>4, OpensOne DEF CodeOf
    <3>2. g[i].within = None /\ g[i].code = Append(g[i - 1].code, sql[i])
      BY <3>1, LexStep
    <3>3. i + 1 \in i + 1 .. n + 1 /\ i + 1 \in 1 .. n + 1 /\ (i + 1) - 1 = i
      BY <1>0
    <3>4. Found(i + 1)
      BY <1>2, <3>2, <3>3
    <3> DEFINE a == g[i - 1].code
               b == <<sql[i]>>
               c == code[i + 1]
    <3>5. a \in Seq(Phrases) /\ b \in Seq(Phrases) /\ c \in Seq(Phrases)
      BY <1>e, <2>0, <3>3 DEF CodeOf
    <3>6. g[i].code = a \o b /\ code[i] = b \o c
      BY <2>0, <3>1, <3>2, <3>5, AppendIsConcat
    <3> HIDE DEF a, b, c
    <3>7. /\ Normalize(a \o b) = Normalize(a) \o Normalize(b) /\ Normalize(b \o c) = Normalize(b) \o Normalize(c)
          /\ Normalize(a) \in Seq(Phrases) /\ Normalize(b) \in Seq(Phrases) /\ Normalize(c) \in Seq(Phrases)
      BY <3>5, NormalizeConcat
    <3>8. (Normalize(a) \o Normalize(b)) \o Normalize(c) = Normalize(a) \o (Normalize(b) \o Normalize(c))
      <4>1. Associates(Normalize(a), Normalize(b), Normalize(c))
        BY <3>7, ConcatAssociates
      <4> QED
        BY <4>1 DEF Associates
    <3>9. whole = Normalize(g[i].code) \o Normalize(c)
      BY <3>3, <3>4 DEF c
    <3> HIDE DEF whole
    <3> QED
      BY <3>6, <3>7, <3>8, <3>9 DEF a
  <2> QED
    BY <2>1, <2>2, <2>3, <2>4
<1>3. \A i \in 1 .. n + 1 : i \in T
  <2> HIDE DEF T, n
  <2> QED
    BY <1>0, <1>1, <1>2, InductionFromRight
<1> QED
  BY <1>3

LEMMA ScanIsReading ==
  ASSUME NEW sql \in Seq(Phrases)
  PROVE  Normalize(Sanitize(sql)) = Lexed(sql)
<1>1. PICK g : LexRun(g, sql)
  BY LexRuns
<1>2. PICK code : CodeOf(code, sql)
  BY Sanitized
<1>3. 1 \in 1 .. Len(sql) + 1 /\ 1 - 1 = 0
  OBVIOUS
<1>4. g[0].within = None /\ g[0].code = <<>>
  BY <1>1 DEF LexRun, Nothing
<1>5. Normalize(g[Len(sql)].code) = Normalize(<<>>) \o Normalize(code[1])
  <2>1. g[1 - 1].within = None => Normalize(g[Len(sql)].code) = Normalize(g[1 - 1].code) \o Normalize(code[1])
    BY <1>1, <1>2, <1>3, ScanFinds
  <2> QED
    BY <1>3, <1>4, <2>1
<1>6. Normalize(<<>>) = <<>>
  <2>1. None \in {None}
    OBVIOUS
  <2> QED
    BY <2>1, NormalizeOne
<1>7. Normalize(code[1]) \in Seq(Phrases)
  <2>1. code[1] \in Seq(Phrases) /\ <<>> \in Seq(Phrases)
    BY <1>2, <1>3 DEF CodeOf
  <2> QED
    BY <2>1, NormalizeConcat
<1>8. <<>> \o Normalize(code[1]) = Normalize(code[1])
  BY <1>7, ConcatEmptySeq
<1> QED
  BY <1>1, <1>2, <1>5, <1>6, <1>8 DEF LexRun, CodeOf

-----------------------------------------------------------------------------
(* What is allowed reads.                                                   *)

LEMMA FirstOfThem ==
  ASSUME NEW rules, NEW n \in Nat, DOMAIN rules = 1 .. n, NEW k \in 1 .. n, rules[k].when,
         \A j \in 1 .. k - 1 : ~rules[j].when
  PROVE  FirstOf(rules) = rules[k].so
<1> DEFINE X == {i \in DOMAIN rules : rules[i].when}
<1>1. X \in SUBSET Nat /\ k \in X
  OBVIOUS
<1>2. \A j \in X : k <= j
  OBVIOUS
<1>3. Min(X) = k
  <2> HIDE DEF X
  <2> QED
    BY <1>1, <1>2, MinIs
<1> QED
  BY <1>3 DEF FirstOf

SixRules(c1, c2, c3, c4, c5, a1, a2, a3, a4, a5, a6) ==
  FirstOf(<<When(c1, a1), When(c2, a2), When(c3, a3), When(c4, a4), When(c5, a5), When(TRUE, a6)>>)
    = IF c1 THEN a1 ELSE IF c2 THEN a2 ELSE IF c3 THEN a3 ELSE IF c4 THEN a4 ELSE IF c5 THEN a5 ELSE a6

LEMMA FirstOfSix ==
  ASSUME NEW c1 \in BOOLEAN, NEW c2 \in BOOLEAN, NEW c3 \in BOOLEAN, NEW c4 \in BOOLEAN, NEW c5 \in BOOLEAN,
         NEW a1, NEW a2, NEW a3, NEW a4, NEW a5, NEW a6
  PROVE  SixRules(c1, c2, c3, c4, c5, a1, a2, a3, a4, a5, a6)
<1> DEFINE rules == <<When(c1, a1), When(c2, a2), When(c3, a3), When(c4, a4), When(c5, a5), When(TRUE, a6)>>
<1>1. /\ DOMAIN rules = 1 .. 6
      /\ rules[1] = When(c1, a1) /\ rules[2] = When(c2, a2) /\ rules[3] = When(c3, a3)
      /\ rules[4] = When(c4, a4) /\ rules[5] = When(c5, a5) /\ rules[6] = When(TRUE, a6)
  OBVIOUS
<1> HIDE DEF rules, SixRules
<1>2. /\ rules[1].when <=> c1
      /\ rules[2].when <=> c2
      /\ rules[3].when <=> c3
      /\ rules[4].when <=> c4
      /\ rules[5].when <=> c5
      /\ rules[6].when
      /\ rules[1].so = a1 /\ rules[2].so = a2 /\ rules[3].so = a3 /\ rules[4].so = a4 /\ rules[5].so = a5
      /\ rules[6].so = a6
  BY <1>1 DEF When
<1>f. \A k \in 1 .. 6 : rules[k].when /\ (\A j \in 1 .. k - 1 : ~rules[j].when) => FirstOf(rules) = rules[k].so
  BY <1>1, FirstOfThem
<1>3. CASE c1
  <2>1. 1 \in 1 .. 6 /\ rules[1].when /\ \A j \in 1 .. 1 - 1 : ~rules[j].when
    BY <1>2, <1>3
  <2>2. FirstOf(rules) = rules[1].so
    BY <1>f, <2>1
  <2> QED
    <3>1. FirstOf(rules) = a1
      BY <1>2, <2>2
    <3> QED
      BY <1>3, <3>1 DEF rules, SixRules
<1>4. CASE ~c1 /\ c2
  <2>1. 2 \in 1 .. 6 /\ rules[2].when /\ \A j \in 1 .. 2 - 1 : ~rules[j].when
    <3>1. \A j \in 1 .. 2 - 1 : j \in {1}
      OBVIOUS
    <3> QED
      BY <1>2, <1>4, <3>1
  <2>2. FirstOf(rules) = rules[2].so
    BY <1>f, <2>1
  <2> QED
    BY <1>2, <1>4, <2>2 DEF rules, SixRules
<1>5. CASE ~c1 /\ ~c2 /\ c3
  <2>1. 3 \in 1 .. 6 /\ rules[3].when /\ \A j \in 1 .. 3 - 1 : ~rules[j].when
    <3>1. \A j \in 1 .. 3 - 1 : j \in {1, 2}
      OBVIOUS
    <3> QED
      BY <1>2, <1>5, <3>1
  <2>2. FirstOf(rules) = rules[3].so
    BY <1>f, <2>1
  <2> QED
    BY <1>2, <1>5, <2>2 DEF rules, SixRules
<1>6. CASE ~c1 /\ ~c2 /\ ~c3 /\ c4
  <2>1. 4 \in 1 .. 6 /\ rules[4].when /\ \A j \in 1 .. 4 - 1 : ~rules[j].when
    <3>1. \A j \in 1 .. 4 - 1 : j \in {1, 2, 3}
      OBVIOUS
    <3> QED
      BY <1>2, <1>6, <3>1
  <2>2. FirstOf(rules) = rules[4].so
    BY <1>f, <2>1
  <2> QED
    BY <1>2, <1>6, <2>2 DEF rules, SixRules
<1>7. CASE ~c1 /\ ~c2 /\ ~c3 /\ ~c4 /\ c5
  <2>1. 5 \in 1 .. 6 /\ rules[5].when /\ \A j \in 1 .. 5 - 1 : ~rules[j].when
    <3>1. \A j \in 1 .. 5 - 1 : j \in {1, 2, 3, 4}
      OBVIOUS
    <3> QED
      BY <1>2, <1>7, <3>1
  <2>2. FirstOf(rules) = rules[5].so
    BY <1>f, <2>1
  <2> QED
    BY <1>2, <1>7, <2>2 DEF rules, SixRules
<1>8. CASE ~c1 /\ ~c2 /\ ~c3 /\ ~c4 /\ ~c5
  <2>1. 6 \in 1 .. 6 /\ rules[6].when /\ \A j \in 1 .. 6 - 1 : ~rules[j].when
    <3>1. \A j \in 1 .. 6 - 1 : j \in {1, 2, 3, 4, 5}
      OBVIOUS
    <3> QED
      BY <1>2, <1>8, <3>1
  <2>2. FirstOf(rules) = rules[6].so
    BY <1>f, <2>1
  <2> QED
    BY <1>2, <1>8, <2>2 DEF rules, SixRules
<1> QED
  BY <1>3, <1>4, <1>5, <1>6, <1>7, <1>8 DEF rules, SixRules

\* The core is the code without the semicolon it ends with.
LEMMA CoreIsCode ==
  ASSUME NEW sql \in Seq(Phrases)
  PROVE  LET code == Lexed(sql)
             core == ExecutableCore(sql)
         IN  /\ code \in Seq(Phrases) /\ core \in Seq(Phrases) /\ Len(core) <= Len(code)
             /\ \A i \in 1 .. Len(core) : code[i] = core[i]
             /\ \A i \in 1 .. Len(code) :
                  i \in 1 .. Len(core) \/ (i = Len(code) /\ Does(code[i], "semicolon"))
<1> DEFINE code == Lexed(sql)
           core == ExecutableCore(sql)
<1>1. code = Normalize(Sanitize(sql))
  BY ScanIsReading
<1>2. core = IF code # <<>> /\ Does(Last(code), "semicolon") THEN Front(code) ELSE code
  BY <1>1 DEF ExecutableCore
<1>3. code \in Seq(Phrases)
  <2>1. PICK c : CodeOf(c, sql)
    BY Sanitized
  <2>2. 1 \in 1 .. Len(sql) + 1
    OBVIOUS
  <2>3. Sanitize(sql) \in Seq(Phrases) /\ <<>> \in Seq(Phrases)
    BY <2>1, <2>2 DEF CodeOf
  <2> QED
    BY <1>1, <2>3, NormalizeConcat
<1> HIDE DEF code, core
<1>4. CASE code # <<>> /\ Does(Last(code), "semicolon")
  <2>1. core = SubSeq(code, 1, Len(code) - 1) /\ Len(code) \in Nat \ {0} /\ Does(code[Len(code)], "semicolon")
    BY <1>2, <1>3, <1>4 DEF Front, Last
  <2>2. core \in Seq(Phrases) /\ Len(core) = Len(code) - 1 /\ \A i \in 1 .. Len(core) : code[i] = core[i]
    <3> DEFINE k == Len(code) - 1
    <3>1. k \in Nat /\ k \in 1 - 1 .. Len(code) /\ 1 \in 1 .. Len(code) + 1
      BY <2>1
    <3> HIDE DEF k
    <3>2. /\ SubSeq(code, 1, k) \in Seq(Phrases) /\ Len(SubSeq(code, 1, k)) = k
          /\ \A i \in 1 .. k : SubSeq(code, 1, k)[i] = code[i]
      BY <1>3, <3>1
    <3> QED
      BY <2>1, <3>2 DEF k
  <2>3. \A i \in 1 .. Len(code) : i \in 1 .. Len(core) \/ i = Len(code)
    BY <2>1, <2>2
  <2> QED
    BY <1>3, <2>1, <2>2, <2>3 DEF code, core
<1>5. CASE ~(code # <<>> /\ Does(Last(code), "semicolon"))
  <2>1. core = code
    BY <1>2, <1>5
  <2>2. Len(core) <= Len(code)
    <3>1. Len(code) \in Nat
      BY <1>3
    <3> QED
      BY <2>1, <3>1
  <2> QED
    BY <1>3, <2>1, <2>2 DEF code, core
<1> QED
  BY <1>4, <1>5

Writers == {"INSERT", "UPDATE", "DELETE", "INTO"}

LEMMA WritersAreKeywords ==
  /\ \A word \in Writers : KeywordCategory(word) # "read_only_select" /\ KeywordCategory(word) # None
  /\ \A word : KeywordCategory(word) # None => KeywordCategory(word) # "read_only_select"
BY PhrasesAssumption DEF Writers, KeywordCategory, ReadOnlyReasons

LEMMA IsNoPlaceholder == \A sql \in Seq(Phrases) : sql # NotAString
BY PhrasesAssumption

\* What it takes to be allowed.
LEMMA AllowedIs ==
  ASSUME NEW sql \in Seq(Phrases)
  PROVE  LET core == ExecutableCore(sql)
         IN  /\ Enforce(sql).decision \in {"allow", "deny"}
             /\ Enforce(sql).decision = "allow" =>
                  /\ LeadingKeyword(core) \in ReadStart /\ core # <<>>
                  /\ \A i \in DOMAIN core : ~Does(core[i], "semicolon") /\ core[i].word \notin Writers
<1> DEFINE core == ExecutableCore(sql)
           lead == KeywordCategory(LeadingKeyword(core))
           hits == WritesAnywhere(core)
           hit == IF hits = {} THEN None ELSE KeywordCategory(core[Min(hits)].word)
           c1 == Blank(sql)
           c2 == "semicolon" \in Anywhere(core)
           c3 == lead # None
           c4 == hits # {}
           c5 == LeadingKeyword(core) \notin ReadStart
<1>1. c1 \in BOOLEAN /\ c2 \in BOOLEAN /\ c3 \in BOOLEAN /\ c4 \in BOOLEAN /\ c5 \in BOOLEAN
  BY DEF Blank
<1>2. Reason(sql) = FirstOf(<<When(c1, "empty_sql"), When(c2, "multi_statement"), When(c3, lead), When(c4, hit),
                              When(c5, "non_select_statement"), When(TRUE, "read_only_select")>>)
  BY DEF Reason
<1>3. Reason(sql) = IF c1 THEN "empty_sql" ELSE IF c2 THEN "multi_statement" ELSE IF c3 THEN lead
                    ELSE IF c4 THEN hit ELSE IF c5 THEN "non_select_statement" ELSE "read_only_select"
  <2> HIDE DEF c1, c2, c3, c4, c5, lead, hit
  <2> QED
    <3>1. SixRules(c1, c2, c3, c4, c5, "empty_sql", "multi_statement", lead, hit, "non_select_statement", "read_only_select")
      BY <1>1, FirstOfSix
    <3> QED
      BY <1>2, <3>1 DEF SixRules
<1>4. c4 => hit # "read_only_select"
  <2> SUFFICES ASSUME c4 PROVE hit # "read_only_select"
    OBVIOUS
  <2>1. core \in Seq(Phrases)
    BY CoreIsCode
  <2>2. hits \in SUBSET Nat /\ hits # {} /\ \A i \in hits : core[i].word \in Writers
    <3> HIDE DEF core
    <3> QED
      BY <2>1 DEF WritesAnywhere, Writers
  <2> HIDE DEF hits
  <2>3. Min(hits) \in hits
    BY <2>2, MinIsLeast
  <2> QED
    BY <2>2, <2>3, WritersAreKeywords
<1>5. c3 => lead # "read_only_select"
  BY WritersAreKeywords
<1>6. Enforce(sql).decision = IF Reason(sql) = "read_only_select" THEN "allow" ELSE "deny"
  BY IsNoPlaceholder DEF Enforce
<1>7. ASSUME Reason(sql) = "read_only_select" PROVE ~c2 /\ ~c4 /\ ~c5
  <2> HIDE DEF c1, c2, c3, c4, c5, lead, hit
  <2> QED
    BY <1>1, <1>3, <1>4, <1>5, <1>7
<1>8. ASSUME ~c2, ~c4, ~c5
      PROVE  /\ LeadingKeyword(core) \in ReadStart /\ core # <<>>
             /\ \A i \in DOMAIN core : ~Does(core[i], "semicolon") /\ core[i].word \notin Writers
  <2>1. LeadingKeyword(core) \in ReadStart
    BY <1>8
  <2> HIDE DEF core
  <2>2. core # <<>>
    BY <2>1, PhrasesAssumption DEF LeadingKeyword
  <2>3. \A i \in DOMAIN core : ~Does(core[i], "semicolon")
    BY <1>8 DEF Anywhere, ToSet, Does
  <2>4. \A i \in DOMAIN core : core[i].word \notin Writers
    BY <1>8 DEF WritesAnywhere, Writers
  <2> QED
    BY <2>1, <2>2, <2>3, <2>4
<1> QED
  BY <1>6, <1>7, <1>8

LEMMA SeverityOfUnparseable == Max({1} \cup {SignalSeverity[s] : s \in {"invalid_or_unparseable"}}) = 4
<1>1. {1} \cup {SignalSeverity[s] : s \in {"invalid_or_unparseable"}} = {1, 4}
  BY DEF SignalSeverity
<1>2. \A m \in {1, 4} : (\A y \in {1, 4} : m >= y) => m = 4
  OBVIOUS
<1>3. Max({1, 4}) = 4
  BY <1>2 DEF Max
<1> QED
  BY <1>1, <1>3

LEMMA ReadsInv == ASSUME text \in Seq(Phrases) PROVE ReadsAreReads
<1> DEFINE code == Lexed(text)
           core == ExecutableCore(text)
           allowed == Enforce(text).decision = "allow"
           on == Triggered(core)
<1>1. /\ Enforce(text).decision \in {"allow", "deny"}
      /\ allowed => /\ LeadingKeyword(core) \in ReadStart /\ core # <<>>
                    /\ \A i \in DOMAIN core : ~Does(core[i], "semicolon") /\ core[i].word \notin Writers
  BY AllowedIs
<1>2. /\ code \in Seq(Phrases) /\ core \in Seq(Phrases) /\ Len(core) <= Len(code)
      /\ \A i \in 1 .. Len(core) : code[i] = core[i]
      /\ \A i \in 1 .. Len(code) : i \in 1 .. Len(core) \/ (i = Len(code) /\ Does(code[i], "semicolon"))
  BY CoreIsCode
<1>3. ASSUME allowed
      PROVE  /\ code[1].word \in ReadStart
             /\ \A i \in DOMAIN code :
                  /\ code[i].word \notin Writers
                  /\ Does(code[i], "semicolon") => i = Len(code)
  <2> HIDE DEF core, code
  <2>1. code[1].word \in ReadStart
    <3>1. core[1].word \in ReadStart /\ 1 \in 1 .. Len(core)
      BY <1>1, <1>2, <1>3 DEF LeadingKeyword
    <3> QED
      BY <1>2, <3>1
  <2>2. ASSUME NEW i \in DOMAIN code
        PROVE  code[i].word \notin Writers /\ (Does(code[i], "semicolon") => i = Len(code))
    <3>1. CASE i \in 1 .. Len(core)
      <4>1. i \in DOMAIN core /\ code[i] = core[i]
        BY <1>2, <3>1
      <4> QED
        BY <1>1, <1>3, <4>1
    <3>2. CASE i = Len(code) /\ Does(code[i], "semicolon")
      <4>1. code[i] \in Phrases
        BY <1>2
      <4>2. KeywordCategory(code[i].word) = None
        BY <3>2, <4>1, PhrasesAssumption
      <4> QED
        BY <3>2, <4>2, WritersAreKeywords
    <3>3. i \in 1 .. Len(code)
      BY <1>2
    <3> QED
      BY <1>2, <3>1, <3>2, <3>3
  <2> QED
    BY <2>1, <2>2
<1>4. Signals(text) = IF LeadingKeyword(core) \notin ReadStart \/ Enforce(text).decision = "deny"
                      THEN {"invalid_or_unparseable"} ELSE {s \in DOMAIN on : on[s]}
  BY IsNoPlaceholder DEF Signals
<1>5. "invalid_or_unparseable" \notin DOMAIN on
  BY DEF Triggered
<1>6. allowed <=> "invalid_or_unparseable" \notin Signals(text)
  <2> HIDE DEF core, on
  <2> QED
    BY <1>1, <1>4, <1>5
<1>7. ASSUME ~allowed PROVE Classify(text).level = "critical"
  <2>1. Signals(text) = {"invalid_or_unparseable"}
    <3> HIDE DEF core, on
    <3> QED
      BY <1>1, <1>4, <1>7
  <2>2. MaxSeverity(Signals(text)) = 4
    BY <2>1, SeverityOfUnparseable DEF MaxSeverity
  <2> QED
    BY <2>2 DEF Classify, RiskLevels
<1> QED
  BY <1>3, <1>6, <1>7 DEF ReadsAreReads, Writers

-----------------------------------------------------------------------------
(* The most restrictive of more is not milder.                              *)

Order(order) ==
  /\ \E n \in Nat : n # 0 /\ DOMAIN order = 1 .. n
  /\ \A i, j \in DOMAIN order : order[i] = order[j] => i = j

LEMMA Orders == Order(Restrictiveness) /\ Order(SensitivityLevels)
<1>1. DOMAIN Restrictiveness = 1 .. 3 /\ DOMAIN SensitivityLevels = 1 .. 4
  BY DEF Restrictiveness, SensitivityLevels
<1>2. \A i, j \in 1 .. 3 : Restrictiveness[i] = Restrictiveness[j] => i = j
  BY DEF Restrictiveness
<1>3. \A i, j \in 1 .. 4 : SensitivityLevels[i] = SensitivityLevels[j] => i = j
  BY DEF SensitivityLevels
<1> QED
  BY <1>1, <1>2, <1>3 DEF Order

LEMMA RankIs ==
  ASSUME NEW order, Order(order)
  PROVE  /\ \A i \in DOMAIN order : Rank(order, order[i]) = i
         /\ \A v \in ToSet(order) : /\ Rank(order, v) \in DOMAIN order /\ order[Rank(order, v)] = v
                                    /\ Rank(order, v) \in Nat /\ Rank(order, v) >= 1
<1>1. ASSUME NEW i \in DOMAIN order PROVE Rank(order, order[i]) = i
  <2>1. \A j \in DOMAIN order : order[j] = order[i] => j = i
    BY DEF Order
  <2> QED
    BY <2>1 DEF Rank
<1>2. \A v \in ToSet(order) : \E i \in DOMAIN order : v = order[i]
  BY DEF ToSet
<1>3. \A i \in DOMAIN order : i \in Nat /\ i >= 1
  BY DEF Order
<1> QED
  BY <1>1, <1>2, <1>3

LEMMA HighestIs ==
  ASSUME NEW order, Order(order), NEW values \in SUBSET ToSet(order), values # {}
  PROVE  /\ Highest(order, values) \in values
         /\ \A v \in values : Rank(order, v) <= Rank(order, Highest(order, values))
<1>0. PICK n \in Nat : DOMAIN order = 1 .. n
  BY DEF Order
<1> DEFINE ranks == {Rank(order, v) : v \in values}
<1>1. ranks \in SUBSET (1 .. n) /\ ranks # {}
  <2>1. \A v \in values : Rank(order, v) \in 1 .. n
    BY <1>0, RankIs
  <2> QED
    BY <2>1
<1>2. Max(ranks) \in ranks /\ \A r \in ranks : Max(ranks) >= r
  <2> HIDE DEF ranks
  <2> QED
    BY <1>1, GreatestIsIn
<1>4. PICK v \in values : Max(ranks) = Rank(order, v)
  BY <1>2
<1>5. Highest(order, values) = v
  BY <1>4, RankIs DEF Highest
<1>6. \A r \in ranks : r \in Nat
  <2>1. 1 .. n \subseteq Nat
    OBVIOUS
  <2> HIDE DEF ranks
  <2> QED
    BY <1>1, <2>1
<1>7. ASSUME NEW u \in values PROVE Rank(order, u) <= Rank(order, v)
  <2>1. Rank(order, u) \in ranks
    OBVIOUS
  <2> DEFINE m == Max(ranks)
             k == Rank(order, u)
  <2>2. m \in ranks /\ k \in ranks /\ m >= k
    BY <1>2, <2>1
  <2>3. m \in Nat /\ k \in Nat
    BY <1>6, <2>2
  <2> HIDE DEF m, k
  <2>4. k <= m
    BY <2>2, <2>3
  <2> QED
    BY <1>4, <2>4 DEF m, k
<1> QED
  BY <1>5, <1>7

LEMMA HighestGrows ==
  ASSUME NEW order, Order(order), NEW more \in SUBSET ToSet(order), NEW less \in SUBSET more, less # {}
  PROVE  Rank(order, Highest(order, more)) >= Rank(order, Highest(order, less))
<1>1. /\ Highest(order, less) \in less /\ Highest(order, more) \in more
      /\ Rank(order, Highest(order, less)) <= Rank(order, Highest(order, more))
  BY HighestIs
<1>2. Rank(order, Highest(order, less)) \in Nat /\ Rank(order, Highest(order, more)) \in Nat
  BY <1>1, RankIs
<1> QED
  BY <1>1, <1>2

LEMMA Mildest ==
  /\ Rank(Restrictiveness, "allow") = 1 /\ Rank(SensitivityLevels, "public") = 1
  /\ "allow" \in ToSet(Restrictiveness) /\ "public" \in ToSet(SensitivityLevels)
<1>1. Restrictiveness[1] = "allow" /\ 1 \in DOMAIN Restrictiveness
  BY DEF Restrictiveness
<1>2. SensitivityLevels[1] = "public" /\ 1 \in DOMAIN SensitivityLevels
  BY DEF SensitivityLevels
<1> QED
  BY <1>1, <1>2, Orders, RankIs DEF ToSet

LEMMA AggregateGrows ==
  ASSUME NEW more \in SUBSET Rules, NEW less \in SUBSET more
  PROVE  /\ Stricter(Aggregate(more), Aggregate(less))
         /\ \A r \in more : Rank(Restrictiveness, Aggregate(more).decision) >= Rank(Restrictiveness, r.action)
<1> DEFINE acts(m) == {r.action : r \in m}
           levels(m) == {r.level : r \in m}
<1>1. /\ acts(more) \in SUBSET ToSet(Restrictiveness) /\ levels(more) \in SUBSET ToSet(SensitivityLevels)
      /\ acts(less) \in SUBSET acts(more) /\ levels(less) \in SUBSET levels(more)
      /\ less # {} => acts(less) # {} /\ levels(less) # {}
      /\ more # {} => acts(more) # {} /\ levels(more) # {}
  BY RulesAssumption
<1>2. ASSUME NEW m \in SUBSET Rules
      PROVE  /\ m # {} => /\ Aggregate(m).decision = Highest(Restrictiveness, acts(m))
                          /\ Aggregate(m).level = Highest(SensitivityLevels, levels(m))
             /\ m = {} => Aggregate(m).decision = "allow" /\ Aggregate(m).level = "public"
  BY DEF Aggregate
<1>3. \A r \in more : Rank(Restrictiveness, Aggregate(more).decision) >= Rank(Restrictiveness, r.action)
  <2> SUFFICES ASSUME NEW r \in more
               PROVE  Rank(Restrictiveness, Aggregate(more).decision) >= Rank(Restrictiveness, r.action)
    OBVIOUS
  <2>1. r.action \in acts(more) /\ more # {}
    OBVIOUS
  <2> HIDE DEF acts, levels
  <2>2. /\ Highest(Restrictiveness, acts(more)) \in acts(more)
        /\ Rank(Restrictiveness, r.action) <= Rank(Restrictiveness, Highest(Restrictiveness, acts(more)))
    BY <1>1, <2>1, Orders, HighestIs
  <2>3. Rank(Restrictiveness, r.action) \in Nat /\ Rank(Restrictiveness, Highest(Restrictiveness, acts(more))) \in Nat
    BY <1>1, <2>1, <2>2, Orders, RankIs
  <2> QED
    BY <1>2, <2>1, <2>2, <2>3
<1>4. CASE less # {}
  <2> HIDE DEF acts, levels
  <2>1. /\ Rank(Restrictiveness, Highest(Restrictiveness, acts(more))) >= Rank(Restrictiveness, Highest(Restrictiveness, acts(less)))
        /\ Rank(SensitivityLevels, Highest(SensitivityLevels, levels(more))) >= Rank(SensitivityLevels, Highest(SensitivityLevels, levels(less)))
    BY <1>1, <1>4, Orders, HighestGrows
  <2>2. less \in SUBSET Rules /\ more # {}
    BY <1>4
  <2> QED
    BY <1>2, <1>3, <1>4, <2>1, <2>2 DEF Stricter
<1>5. CASE less = {}
  <2>1. less \in SUBSET Rules
    OBVIOUS
  <2> HIDE DEF acts, levels
  <2>2. Aggregate(more).decision \in ToSet(Restrictiveness) /\ Aggregate(more).level \in ToSet(SensitivityLevels)
    <3>1. CASE more = {}
      BY <1>2, <3>1, Mildest
    <3>2. CASE more # {}
      <4>1. Highest(Restrictiveness, acts(more)) \in acts(more) /\ Highest(SensitivityLevels, levels(more)) \in levels(more)
        BY <1>1, <3>2, Orders, HighestIs
      <4> QED
        BY <1>1, <1>2, <3>2, <4>1
    <3> QED
      BY <3>1, <3>2
  <2>3. /\ Rank(Restrictiveness, Aggregate(more).decision) \in Nat /\ Rank(Restrictiveness, Aggregate(more).decision) >= 1
        /\ Rank(SensitivityLevels, Aggregate(more).level) \in Nat /\ Rank(SensitivityLevels, Aggregate(more).level) >= 1
    BY <2>2, Orders, RankIs
  <2>4. Aggregate(less).decision = "allow" /\ Aggregate(less).level = "public"
    BY <1>2, <1>5, <2>1
  <2> QED
    BY <1>3, <2>3, <2>4, Mildest DEF Stricter
<1> QED
  BY <1>4, <1>5

-----------------------------------------------------------------------------
(* More text, more references.                                              *)

LEMMA MatchGrows ==
  ASSUME NEW less, NEW more, ToSet(less) \subseteq ToSet(more), NEW rules
  PROVE  Match(rules, Extracted(less)) \subseteq Match(rules, Extracted(more))
<1>1. ExtractTables(less) \subseteq ExtractTables(more)
  BY DEF ExtractTables
<1>2. ExtractColumns(less) \subseteq ExtractColumns(more)
  BY DEF ExtractColumns
<1>3. StarQualifiers(less) \subseteq StarQualifiers(more)
  BY DEF StarQualifiers
<1>4. HasUnqualifiedStar(less) => HasUnqualifiedStar(more)
  BY DEF HasUnqualifiedStar, Anywhere
<1>5. /\ Extracted(less).tables \subseteq Extracted(more).tables
      /\ Extracted(less).columns \subseteq Extracted(more).columns
      /\ Extracted(less).whole \subseteq Extracted(more).whole
  BY <1>1, <1>2, <1>3, <1>4 DEF Extracted
<1> QED
  BY <1>5 DEF Match

LEMMA RefsOf ==
  ASSUME NEW sql \in Seq(Phrases)
  PROVE  LET core == ExecutableCore(sql)
         IN  ResolveRefs(sql) = (IF core = <<>> THEN None ELSE Extracted(core)) /\ Extracted(core) # None
<1> DEFINE core == ExecutableCore(sql)
<1>1. ResolveRefs(sql) = IF core = <<>> THEN None ELSE Extracted(core)
  BY IsNoPlaceholder DEF ResolveRefs
<1>2. core \in Seq(Phrases)
  BY CoreIsCode
<1>3. ToSet(core) \in SUBSET Phrases
  <2> HIDE DEF core
  <2> QED
    BY <1>2 DEF ToSet
<1>4. Extracted(core) \in [tables : SUBSET {p.table : p \in Phrases}, columns : SUBSET {<<p.table, p.column>> : p \in Phrases},
                           whole : SUBSET {p.table : p \in Phrases}]
  <2> HIDE DEF core
  <2>1. /\ ExtractTables(core) \in SUBSET {p.table : p \in Phrases}
        /\ ExtractColumns(core) \in SUBSET {<<p.table, p.column>> : p \in Phrases}
        /\ StarQualifiers(core) \in SUBSET {p.table : p \in Phrases}
    BY <1>3 DEF ExtractTables, ExtractColumns, StarQualifiers
  <2> QED
    BY <2>1 DEF Extracted
<1> QED
  BY <1>1, <1>4, PhrasesAssumption

LEMMA CodeSet ==
  ASSUME NEW sql \in Seq(Phrases)
  PROVE  /\ ToSet(ExecutableCore(sql)) \subseteq ToSet(Lexed(sql))
         /\ \A p \in ToSet(Lexed(sql)) :
              p \in ToSet(ExecutableCore(sql)) \/ (p.does = {"semicolon"} /\ p.column = None)
<1> DEFINE code == Lexed(sql)
           core == ExecutableCore(sql)
<1>1. /\ code \in Seq(Phrases) /\ core \in Seq(Phrases) /\ Len(core) <= Len(code)
      /\ \A i \in 1 .. Len(core) : code[i] = core[i]
      /\ \A i \in 1 .. Len(code) : i \in 1 .. Len(core) \/ (i = Len(code) /\ Does(code[i], "semicolon"))
  BY CoreIsCode
<1> HIDE DEF code, core
<1>2. DOMAIN code = 1 .. Len(code) /\ DOMAIN core = 1 .. Len(core) /\ 1 .. Len(core) \subseteq 1 .. Len(code)
  BY <1>1
<1>3. ToSet(core) \subseteq ToSet(code)
  BY <1>1, <1>2 DEF ToSet
<1>4. ASSUME NEW i \in 1 .. Len(code)
      PROVE  code[i] \in ToSet(core) \/ (code[i].does = {"semicolon"} /\ code[i].column = None)
  <2>1. CASE i \in 1 .. Len(core)
    BY <1>1, <1>2, <2>1 DEF ToSet
  <2>2. CASE i \notin 1 .. Len(core)
    <3>1. code[i] \in Phrases /\ Does(code[i], "semicolon")
      BY <1>1, <2>2
    <3> QED
      BY <3>1, PhrasesAssumption
  <2> QED
    BY <2>1, <2>2
<1>5. \A p \in ToSet(code) : p \in ToSet(core) \/ (p.does = {"semicolon"} /\ p.column = None)
  BY <1>2, <1>4 DEF ToSet
<1> QED
  BY <1>3, <1>5 DEF code, core

TablesNamed(code) == {p.table : p \in {q \in code : q.does \cap {"from", "join"} # {}}}

Starred(code, t) ==
  \E p \in code : (Does(p, "star") /\ t \in TablesNamed(code)) \/ (Does(p, "table_star") /\ p.table = t)

ColumnsNamed(code) ==
  {<<p.table, p.column>> : p \in {q \in code : q.column # None /\ q.table # None}}
  \cup {<<r.table, r.column>> : r \in {s \in Rules : Starred(code, s.table)}}

\* Where every table has its own name, nothing needs resolving.
LEMMA OwnNamesMean ==
  ASSUME NEW sql \in Seq(Phrases), OwnNames(sql)
  PROVE  /\ SpelledOut(sql).tables = TablesNamed(ToSet(Lexed(sql))) /\ SpelledOut(sql).whole = {}
         /\ SpelledOut(sql).columns \subseteq ColumnsNamed(ToSet(Lexed(sql)))
<1> DEFINE code == ToSet(Lexed(sql))
           tables == TablesNamed(code)
           meant == {Meant(code, p.table) : p \in {q \in code : q.does \cap {"from", "join", "comma"} # {}}}
           columns(p) == (IF p.table = None THEN meant ELSE {Meant(code, p.table)}) \X {p.column}
           means(t) == \E p \in code : (Does(p, "star") /\ t \in meant) \/ (Does(p, "table_star") /\ Meant(code, p.table) = t)
           starred == {<<r.table, r.column>> : r \in {s \in Rules : means(s.table)}}
<1>1. /\ SpelledOut(sql).tables = meant /\ SpelledOut(sql).whole = {}
      /\ SpelledOut(sql).columns = (UNION {columns(p) : p \in {q \in code : q.column # None}}) \cup starred
  BY DEF SpelledOut, Explicit
<1>2. ASSUME NEW p \in code
      PROVE  /\ ~Does(p, "comma") /\ (p.column # None => p.table # None)
             /\ p.table # None => Meant(code, p.table) = p.table
             /\ p.does \cap {"from", "join", "table_star"} # {} => p.table # None
  <2>1. Lexed(sql) \in Seq(Phrases)
    BY CoreIsCode
  <2>2. p \in Phrases
    BY <2>1 DEF ToSet
  <2>3. p.does \cap {"from", "join", "table_star"} # {} => p.does \cap {"from", "join", "comma", "table_star"} # {}
    OBVIOUS
  <2>4. p.does \cap {"from", "join", "table_star"} # {} => p.table # None
    BY <2>2, <2>3, PhrasesAssumption
  <2> QED
    BY <2>4 DEF OwnNames
<1> HIDE DEF code
<1>3. meant = tables
  <2>1. \A p \in code : p.does \cap {"from", "join", "comma"} # {} <=> p.does \cap {"from", "join"} # {}
    BY <1>2 DEF Does
  <2>2. \A p \in code : p.does \cap {"from", "join"} # {} => Meant(code, p.table) = p.table
    BY <1>2
  <2> QED
    BY <2>1, <2>2 DEF TablesNamed
<1>4. ASSUME NEW p \in code, p.column # None
      PROVE  columns(p) = {<<p.table, p.column>>} /\ p.table # None
  <2>1. p.table # None /\ Meant(code, p.table) = p.table
    BY <1>2, <1>4
  <2> HIDE DEF meant
  <2> QED
    BY <2>1
<1>5. ASSUME NEW t, means(t) PROVE Starred(code, t)
  <2>1. \A p \in code : Does(p, "table_star") => Meant(code, p.table) = p.table
    BY <1>2 DEF Does
  <2>2. PICK p \in code : (Does(p, "star") /\ t \in meant) \/ (Does(p, "table_star") /\ Meant(code, p.table) = t)
    BY <1>5
  <2> HIDE DEF meant
  <2> QED
    BY <1>3, <2>1, <2>2 DEF Starred
<1>6. starred \subseteq {<<r.table, r.column>> : r \in {s \in Rules : Starred(code, s.table)}}
  <2> HIDE DEF means
  <2> QED
    BY <1>5
<1>7. UNION {columns(p) : p \in {q \in code : q.column # None}}
        \subseteq {<<p.table, p.column>> : p \in {q \in code : q.column # None /\ q.table # None}}
  <2> HIDE DEF columns
  <2> QED
    BY <1>4
<1> HIDE DEF meant, starred, columns, means
<1>8. SpelledOut(sql).columns \subseteq ColumnsNamed(code)
  BY <1>1, <1>6, <1>7 DEF ColumnsNamed
<1>9. SpelledOut(sql).tables = TablesNamed(code) /\ SpelledOut(sql).whole = {}
  <2>1. SpelledOut(sql).tables = meant /\ SpelledOut(sql).whole = {}
    BY <1>1
  <2> QED
    BY <1>3, <2>1
<1> QED
  BY <1>8, <1>9 DEF code

LEMMA SpelledOutIsExtracted ==
  ASSUME NEW sql \in Seq(Phrases), OwnNames(sql)
  PROVE  Match(Rules, SpelledOut(sql)) \subseteq Match(Rules, Extracted(ExecutableCore(sql)))
<1> DEFINE code == ToSet(Lexed(sql))
           core == ToSet(ExecutableCore(sql))
           tables == TablesNamed(code)
           star(t) == Starred(code, t)
           spelled == {<<p.table, p.column>> : p \in {q \in code : q.column # None /\ q.table # None}}
           starred == {<<r.table, r.column>> : r \in {s \in Rules : star(s.table)}}
           E == Extracted(ExecutableCore(sql))
<1>1. core \subseteq code /\ \A p \in code : p \in core \/ (p.does = {"semicolon"} /\ p.column = None)
  BY CodeSet
<1>2. /\ SpelledOut(sql).tables = tables /\ SpelledOut(sql).columns \subseteq spelled \cup starred
      /\ SpelledOut(sql).whole = {}
  BY OwnNamesMean DEF ColumnsNamed
<1>3. tables \subseteq E.tables /\ E.tables = ExtractTables(ExecutableCore(sql))
  <2>1. E.tables = {p.table : p \in {q \in core : q.does \cap {"from", "join"} # {}}}
    BY DEF Extracted, ExtractTables
  <2>2. E.tables = ExtractTables(ExecutableCore(sql))
    BY DEF Extracted
  <2> HIDE DEF code, core, E
  <2> QED
    BY <1>1, <2>1, <2>2 DEF TablesNamed
<1>4. spelled \subseteq E.columns
  <2>1. E.columns = {<<p.table, p.column>> : p \in {q \in core : q.column # None /\ q.table # None}}
    BY DEF Extracted, ExtractColumns
  <2> HIDE DEF code, core, E
  <2> QED
    BY <1>1, <2>1
<1>5. ASSUME NEW t, star(t) PROVE t \in E.whole
  <2>1. E.whole = StarQualifiers(ExecutableCore(sql))
                    \cup IF HasUnqualifiedStar(ExecutableCore(sql)) THEN ExtractTables(ExecutableCore(sql)) ELSE {}
    BY DEF Extracted
  <2>2. HasUnqualifiedStar(ExecutableCore(sql)) <=> \E p \in core : Does(p, "star")
    BY DEF HasUnqualifiedStar, Anywhere, Does
  <2>3. StarQualifiers(ExecutableCore(sql)) = {p.table : p \in {q \in core : Does(q, "table_star")}}
    BY DEF StarQualifiers
  <2>4. PICK p \in code : (Does(p, "star") /\ t \in tables) \/ (Does(p, "table_star") /\ p.table = t)
    BY <1>5 DEF Starred
  <2>5. p \in core
    BY <1>1, <2>4 DEF Does
  <2> HIDE DEF code, core, E, tables
  <2> QED
    BY <1>3, <2>1, <2>2, <2>3, <2>4, <2>5
<1>6. ASSUME NEW r \in Match(Rules, SpelledOut(sql)) PROVE r \in Match(Rules, E)
  <2>1. r \in Rules /\ IF r.column = None THEN r.table \in tables ELSE <<r.table, r.column>> \in spelled \cup starred
    <3> HIDE DEF tables, spelled, starred
    <3> QED
      BY <1>2, <1>6 DEF Match
  <2>2. <<r.table, r.column>> \in starred => r.table \in E.whole
    <3>1. <<r.table, r.column>> \in starred => star(r.table)
      <4> HIDE DEF star
      <4> QED
        OBVIOUS
    <3> HIDE DEF star
    <3> QED
      BY <1>5, <3>1
  <2> HIDE DEF tables, spelled, starred, E
  <2> QED
    BY <1>3, <1>4, <2>1, <2>2 DEF Match
<1> QED
  BY <1>6

LEMMA StarInv == ASSUME text \in Seq(Phrases) PROVE StarIsCovered
<1> DEFINE extracted == ResolveRefs(text)
           refs == Match(Rules, SpelledOut(text))
<1> SUFFICES ASSUME OwnNames(text), extracted # None, NEW rules \in SUBSET Rules
             PROVE  LET result == Sensitive(rules, extracted)
                    IN  /\ Stricter(result, Aggregate(refs \cap rules))
                        /\ \A r \in refs \cap rules : Rank(Restrictiveness, result.decision) >= Rank(Restrictiveness, r.action)
  BY DEF StarIsCovered
<1> DEFINE all == Match(rules, Extracted(ExecutableCore(text)))
<1>1. extracted = Extracted(ExecutableCore(text))
  BY RefsOf
<1>2. Sensitive(rules, extracted) = Aggregate(all)
  BY <1>1 DEF Sensitive
<1>3. all \in SUBSET Rules /\ refs \cap rules \in SUBSET all
  BY SpelledOutIsExtracted DEF Match
<1> HIDE DEF extracted, refs, all
<1>4. /\ Stricter(Aggregate(all), Aggregate(refs \cap rules))
      /\ \A r \in all : Rank(Restrictiveness, Aggregate(all).decision) >= Rank(Restrictiveness, r.action)
  BY <1>3, AggregateGrows
<1> QED
  BY <1>2, <1>3, <1>4

-----------------------------------------------------------------------------
(* A phrase or a segment more.                                              *)

\* Another phrase joins the code or does not; the code that was stays.
LEMMA LexedGrows ==
  ASSUME NEW sql \in Seq(Phrases), NEW p \in Phrases
  PROVE  /\ Append(sql, p) \in Seq(Phrases)
         /\ Lexed(Append(sql, p)) = Lexed(sql) \/ Lexed(Append(sql, p)) = Append(Lexed(sql), p)
<1> DEFINE n == Len(sql)
           longer == Append(sql, p)
<1>1. n \in Nat /\ longer \in Seq(Phrases) /\ Len(longer) = n + 1 /\ longer[n + 1] = p
  OBVIOUS
<1>2. \A k \in 1 .. n : k \in 1 .. n + 1 /\ longer[k] = sql[k]
  OBVIOUS
<1> HIDE DEF longer, n
<1>3. PICK g : LexRun(g, longer)
  BY <1>1, LexRuns
<1>4. PICK h : LexRun(h, sql)
  BY LexRuns
<1>5. \A k \in 0 .. n : g[k] = h[k]
  <2>1. \A k \in 1 .. n : g[k] = Reads(g[k - 1], sql[k]) /\ h[k] = Reads(h[k - 1], sql[k])
    BY <1>1, <1>2, <1>3, <1>4 DEF LexRun, n
  <2>2. g[0] = h[0]
    BY <1>3, <1>4 DEF LexRun
  <2>3. Alike(n, g, h)
    BY <1>1, <2>1, <2>2 DEF Alike
  <2> QED
    BY <2>3, SameRun
<1>6. h[n] \in Reading /\ g[n] = h[n] /\ n + 1 \in 1 .. n + 1 /\ (n + 1) - 1 = n
  <2>1. n \in 0 .. n /\ n + 1 \in 1 .. n + 1 /\ (n + 1) - 1 = n
    BY <1>1
  <2> QED
    BY <1>4, <1>5, <2>1 DEF LexRun, n
<1>7. g[n + 1] = Reads(h[n], p)
  <2>1. g[n + 1] = Reads(g[(n + 1) - 1], longer[n + 1])
    BY <1>1, <1>3, <1>6 DEF LexRun
  <2> QED
    BY <1>1, <1>6, <2>1
<1>8. g[n + 1].code = h[n].code \/ g[n + 1].code = Append(h[n].code, p)
  BY <1>6, <1>7 DEF Reads, Reading
<1>9. Lexed(longer) = Normalize(g[n + 1].code) /\ Lexed(sql) = Normalize(h[n].code)
  BY <1>1, <1>3, <1>4 DEF LexRun, n
<1>10. h[n].code \in Seq(Phrases)
  BY <1>6 DEF Reading
<1>11. Normalize(Append(h[n].code, p)) = Normalize(h[n].code) \/ Normalize(Append(h[n].code, p)) = Append(Normalize(h[n].code), p)
  <2> DEFINE a == h[n].code
             b == <<p>>
  <2>0. a \in Seq(Phrases)
    BY <1>10
  <2>1. a \in Seq(Phrases) /\ b \in Seq(Phrases) /\ Append(a, p) = a \o b
    <3> HIDE DEF a
    <3> QED
      BY <2>0, AppendIsConcat
  <2>2. Normalize(b) = Unbroken(<<>>, p)
    BY NormalizeOne
  <2> HIDE DEF a, b
  <2>3. Normalize(a \o b) = Normalize(a) \o Normalize(b) /\ Normalize(a) \in Seq(Phrases)
    BY <2>1, NormalizeConcat
  <2>4. Normalize(b) = <<>> \/ Normalize(b) = <<p>>
    BY <2>2 DEF Unbroken
  <2>5. Normalize(a) \o <<>> = Normalize(a) /\ Normalize(a) \o <<p>> = Append(Normalize(a), p)
    BY <2>3, ConcatEmptySeq, AppendIsConcat
  <2> QED
    BY <2>1, <2>3, <2>4, <2>5 DEF a
<1>12. longer \in Seq(Phrases) /\ (Lexed(longer) = Lexed(sql) \/ Lexed(longer) = Append(Lexed(sql), p))
  BY <1>1, <1>8, <1>9, <1>11
<1> QED
  BY <1>12 DEF longer

LEMMA CoreGrows ==
  ASSUME NEW sql \in Seq(Phrases), NEW p \in Phrases
  PROVE  LET old == ExecutableCore(sql)
             new == ExecutableCore(Append(sql, p))
         IN  ToSet(old) \subseteq ToSet(new) /\ (old # <<>> => new # <<>>)
<1> DEFINE longer == Append(sql, p)
           old == ExecutableCore(sql)
           new == ExecutableCore(longer)
           was == Lexed(sql)
           is == Lexed(longer)
<1>1. longer \in Seq(Phrases) /\ (is = was \/ is = Append(was, p))
  BY LexedGrows
<1>2. /\ was \in Seq(Phrases) /\ old \in Seq(Phrases) /\ Len(old) <= Len(was)
      /\ \A i \in 1 .. Len(old) : was[i] = old[i]
  BY CoreIsCode
<1> HIDE DEF longer
<1>3. /\ is \in Seq(Phrases) /\ new \in Seq(Phrases)
      /\ \A i \in 1 .. Len(new) : is[i] = new[i]
      /\ \A i \in 1 .. Len(is) : i \in 1 .. Len(new) \/ (i = Len(is) /\ Does(is[i], "semicolon"))
  BY <1>1, CoreIsCode
<1>o. (is = was => new = old)
  BY <1>1, ScanIsReading DEF ExecutableCore
<1> HIDE DEF old, new, was, is
<1>4. CASE is = Append(was, p)
  <2>1. Len(is) = Len(was) + 1 /\ (\A i \in 1 .. Len(was) : is[i] = was[i]) /\ Len(was) \in Nat /\ Len(old) \in Nat
    BY <1>2, <1>4
  <2>2. \A i \in 1 .. Len(old) : i \in 1 .. Len(was) /\ i \in 1 .. Len(is) /\ i # Len(is)
    BY <1>2, <2>1
  <2>3. \A i \in 1 .. Len(old) : i \in 1 .. Len(new) /\ new[i] = old[i]
    BY <1>2, <1>3, <2>1, <2>2
  <2>4. DOMAIN old = 1 .. Len(old) /\ DOMAIN new = 1 .. Len(new)
    BY <1>2, <1>3
  <2>5. ToSet(old) \subseteq ToSet(new)
    BY <2>3, <2>4 DEF ToSet
  <2>6. old # <<>> => new # <<>>
    <3> SUFFICES ASSUME old # <<>> PROVE new # <<>>
      OBVIOUS
    <3>1. 1 \in 1 .. Len(old)
      BY <1>2
    <3>2. 1 \in 1 .. Len(new)
      BY <2>3, <3>1
    <3> QED
      BY <3>2
  <2> QED
    BY <2>5, <2>6 DEF old, new, longer
<1>5. CASE is = was
  BY <1>o, <1>5 DEF old, new, longer
<1> QED
  BY <1>1, <1>4, <1>5

\* No phrase that follows takes a reference back.
LEMMA ReferencesGrow ==
  ASSUME NEW sql \in Seq(Phrases), NEW p \in Phrases, ResolveRefs(sql) # None, NEW rules \in SUBSET Rules
  PROVE  Stricter(Sensitive(rules, ResolveRefs(Append(sql, p))), Sensitive(rules, ResolveRefs(sql)))
<1> DEFINE longer == Append(sql, p)
           old == ExecutableCore(sql)
           new == ExecutableCore(longer)
<1>1. longer \in Seq(Phrases)
  BY LexedGrows
<1>2. ToSet(old) \subseteq ToSet(new) /\ (old # <<>> => new # <<>>)
  BY CoreGrows
<1>3. ResolveRefs(sql) = Extracted(old) /\ old # <<>>
  BY RefsOf
<1> HIDE DEF longer
<1>4. ResolveRefs(longer) = Extracted(new) /\ Extracted(new) # None
  BY <1>1, <1>2, <1>3, RefsOf
<1>5. /\ Sensitive(rules, ResolveRefs(longer)) = Aggregate(Match(rules, Extracted(new)))
      /\ Sensitive(rules, ResolveRefs(sql)) = Aggregate(Match(rules, Extracted(old)))
  BY <1>3, <1>4 DEF Sensitive
<1> HIDE DEF old, new
<1>6. Match(rules, Extracted(old)) \in SUBSET Match(rules, Extracted(new)) /\ Match(rules, Extracted(new)) \in SUBSET Rules
  <2>1. Match(rules, Extracted(old)) \subseteq Match(rules, Extracted(new))
    BY <1>2, MatchGrows
  <2>2. Match(rules, Extracted(new)) \subseteq rules
    BY DEF Match
  <2> QED
    BY <2>1, <2>2
<1>7. Stricter(Aggregate(Match(rules, Extracted(new))), Aggregate(Match(rules, Extracted(old))))
  BY <1>6, AggregateGrows
<1> QED
  BY <1>5, <1>7 DEF longer

\* A number behind is the same number; a card number is found unless digits follow it.
CardState == [card : BOOLEAN, run : Seq(Phrases)]

NoCard == [card |-> FALSE, run |-> <<>>]

CardRun(run, sql) ==
  /\ \A k \in 0 .. Len(sql) : run[k] \in CardState
  /\ run[0] = NoCard
  /\ \A k \in 1 .. Len(sql) : run[k] = CardStep(run[k - 1], sql[k])
  /\ Cards(sql) = run[Len(sql)]

LEMMA FittingType ==
  ASSUME NEW run \in Seq(Phrases)
  PROVE  Fitting(run) \in Seq(Phrases)
<1> DEFINE D == {i \in DOMAIN run : Luhn(SubSeq(run, i, Len(run))).digits <= 19} \cup {Len(run) + 1}
<1>1. D \in SUBSET Nat /\ D # {} /\ D \subseteq 1 .. Len(run) + 1
  OBVIOUS
<1> HIDE DEF D
<1>2. Min(D) \in 1 .. Len(run) + 1
  BY <1>1, MinIsLeast
<1>3. ASSUME NEW i \in 1 .. Len(run) + 1 PROVE SubSeq(run, i, Len(run)) \in Seq(Phrases)
  OBVIOUS
<1>4. SubSeq(run, Min(D), Len(run)) \in Seq(Phrases)
  BY <1>2, <1>3
<1> QED
  BY <1>4 DEF Fitting, D

LEMMA CardStepType ==
  ASSUME NEW s \in CardState, NEW p \in Phrases
  PROVE  CardStep(s, p) \in CardState
<1>1. Append(s.run, p) \in Seq(Phrases) /\ <<p>> \in Seq(Phrases) /\ <<>> \in Seq(Phrases) /\ s.card \in BOOLEAN
  BY DEF CardState
<1>2. Fitting(Append(s.run, p)) \in Seq(Phrases) /\ Fitting(<<p>>) \in Seq(Phrases)
  BY <1>1, FittingType
<1> DEFINE longer == Append(s.run, p)
           ended == ~IsDigits(p) \/ (Luhn(longer).digits > 19 /\ Luhn(s.run).digits >= 13)
<1>3. CardStep(s, p) = [card |-> s.card \/ (ended /\ IsCard(s.run)),
                        run |-> IF ~IsDigits(p) THEN <<>> ELSE Fitting(IF ended THEN <<p>> ELSE longer)]
  BY DEF CardStep
<1>4. Fitting(IF ended THEN <<p>> ELSE longer) \in Seq(Phrases)
  <2> HIDE DEF ended
  <2>1. CASE ended
    BY <1>2, <2>1
  <2>2. CASE ~ended
    BY <1>2, <2>2
  <2> QED
    BY <2>1, <2>2
<1> HIDE DEF ended, longer
<1> QED
  BY <1>1, <1>3, <1>4 DEF CardState

LEMMA CardRuns ==
  ASSUME NEW sql \in Seq(Phrases)
  PROVE  \E run : CardRun(run, sql)
<1> DEFINE n == Len(sql)
           D == 1 .. n
           G == [x \in D \X CardState |-> CardStep(x[2], sql[x[1]])]
           Folds(it) == it = [s \in SUBSET D |-> IF s = {} THEN NoCard ELSE CardStep(it[s \ {Max(s)}], sql[Max(s)])]
<1>0. n \in Nat /\ DOMAIN sql = D /\ NoCard \in CardState
  BY DEF NoCard, CardState
<1>t. ASSUME NEW some \in CardState, NEW k \in D PROVE CardStep(some, sql[k]) \in CardState
  <2>1. sql[k] \in Phrases
    OBVIOUS
  <2> QED
    BY <2>1, CardStepType
<1>1. G \in [D \X CardState -> CardState]
  <2> HIDE DEF D
  <2> QED
    BY <1>t
<1>2. /\ \E it \in [SUBSET D -> CardState] : FoldOf(n, NoCard, G, it)
      /\ \A s \in SUBSET D : s # {} => Max(s) \in s
  <2> HIDE DEF G
  <2> QED
    BY <1>0, <1>1, FoldExists
<1>3. PICK it \in [SUBSET D -> CardState] : FoldOf(n, NoCard, G, it)
  BY <1>2
<1>4. Folds(it)
  <2>1. ASSUME NEW s \in SUBSET D, s # {}
        PROVE  G[<<Max(s), it[s \ {Max(s)}]>>] = CardStep(it[s \ {Max(s)}], sql[Max(s)])
    <3>1. Max(s) \in D /\ it[s \ {Max(s)}] \in CardState
      BY <1>2, <2>1
    <3> HIDE DEF D
    <3> QED
      BY <3>1
  <2> HIDE DEF G
  <2>2. it = [s \in SUBSET D |-> IF s = {} THEN NoCard ELSE G[<<Max(s), it[s \ {Max(s)}]>>]]
    BY <1>3 DEF Recursive, FoldOf
  <2> HIDE DEF D
  <2> QED
    BY <2>1, <2>2
<1> DEFINE fold == CHOOSE f : Folds(f)
<1>5. Folds(fold)
  <2> HIDE DEF Folds
  <2> QED
    BY <1>4
<1>6. Cards(sql) = fold[D]
  BY <1>0 DEF Cards, FoldLeft, MapThenFoldSet, NoCard
<1> HIDE DEF fold
<1> DEFINE run == [k \in 0 .. n |-> fold[1 .. k]]
<1>7. run[0] = NoCard
  <2>1. 1 .. 0 = {} /\ 0 \in 0 .. n /\ {} \in SUBSET D
    BY <1>0
  <2> HIDE DEF D
  <2> QED
    BY <1>5, <2>1
<1>8. ASSUME NEW k \in 1 .. n PROVE run[k] = CardStep(run[k - 1], sql[k])
  <2>1. k \in Nat /\ k # 0 /\ 1 .. k \in SUBSET D /\ k \in 0 .. n /\ k - 1 \in 0 .. n
    BY <1>0
  <2>2. Max(1 .. k) = k /\ (1 .. k) \ {k} = 1 .. (k - 1) /\ 1 .. k # {}
    BY <2>1, GreatestOfPrefix
  <2>3. fold[1 .. k] = CardStep(fold[(1 .. k) \ {Max(1 .. k)}], sql[Max(1 .. k)])
    <3> HIDE DEF D
    <3> QED
      BY <1>5, <2>1, <2>2
  <2> QED
    BY <2>1, <2>2, <2>3
<1>9. run[n] = fold[D]
  BY <1>0
<1> HIDE DEF run
<1>10. \A k \in 0 .. n : run[k] \in CardState
  <2>1. \A k \in 1 .. n : run[k - 1] \in CardState => run[k] \in CardState
    BY <1>8, <1>t
  <2> QED
    BY <1>0, <1>7, <2>1, RunType
<1>11. CardRun(run, sql)
  BY <1>6, <1>7, <1>8, <1>9, <1>10 DEF CardRun
<1> QED
  BY <1>11

LEMMA CardsGrow ==
  ASSUME NEW sql \in Seq(Phrases), NEW p \in Phrases
  PROVE  Cards(sql) \in CardState /\ Cards(Append(sql, p)) = CardStep(Cards(sql), p)
<1> DEFINE n == Len(sql)
           longer == Append(sql, p)
<1>1. n \in Nat /\ longer \in Seq(Phrases) /\ Len(longer) = n + 1 /\ longer[n + 1] = p
  OBVIOUS
<1>2. \A k \in 1 .. n : k \in 1 .. n + 1 /\ longer[k] = sql[k]
  OBVIOUS
<1> HIDE DEF longer, n
<1>3. PICK g : CardRun(g, longer)
  BY <1>1, CardRuns
<1>4. PICK h : CardRun(h, sql)
  BY CardRuns
<1>5. \A k \in 0 .. n : g[k] = h[k]
  <2>1. \A k \in 1 .. n : g[k] = CardStep(g[k - 1], sql[k]) /\ h[k] = CardStep(h[k - 1], sql[k])
    BY <1>1, <1>2, <1>3, <1>4 DEF CardRun, n
  <2>2. g[0] = h[0]
    BY <1>3, <1>4 DEF CardRun
  <2>3. Alike(n, g, h)
    BY <1>1, <2>1, <2>2 DEF Alike
  <2> QED
    BY <2>3, SameRun
<1>6. n \in 0 .. n /\ n + 1 \in 1 .. n + 1 /\ (n + 1) - 1 = n
  BY <1>1
<1>7. Cards(sql) = h[n] /\ h[n] \in CardState
  BY <1>4, <1>6 DEF CardRun, n
<1>8. Cards(longer) = CardStep(g[n], p)
  <2>1. Cards(longer) = g[n + 1] /\ g[n + 1] = CardStep(g[(n + 1) - 1], longer[n + 1])
    BY <1>1, <1>3, <1>6 DEF CardRun
  <2> QED
    BY <1>1, <1>6, <2>1
<1>9. g[n] = h[n]
  BY <1>5, <1>6
<1> QED
  BY <1>7, <1>8, <1>9 DEF longer

\* Behind anything but digits, no number has begun.
LEMMA NoRun ==
  ASSUME NEW sql \in Seq(Phrases), Len(sql) = 0 \/ ~IsDigits(sql[Len(sql)])
  PROVE  Cards(sql).run = <<>>
<1>1. PICK h : CardRun(h, sql)
  BY CardRuns
<1>2. CASE Len(sql) = 0
  BY <1>1, <1>2 DEF CardRun, NoCard
<1>3. CASE Len(sql) # 0
  <2>1. Len(sql) \in 1 .. Len(sql) /\ ~IsDigits(sql[Len(sql)])
    BY <1>3
  <2>2. Cards(sql) = CardStep(h[Len(sql) - 1], sql[Len(sql)])
    BY <1>1, <2>1 DEF CardRun
  <2> QED
    BY <2>1, <2>2 DEF CardStep
<1> QED
  BY <1>2, <1>3

LEMMA NothingIsNoCard == ~IsCard(<<>>)
<1> DEFINE none == [digits |-> 0, sum |-> 0]
           Folds(it) == it = [s \in SUBSET DOMAIN <<>> |->
                                IF s = {} THEN none
                                ELSE [digits |-> it[s \ {Min(s)}].digits + <<>>[Min(s)].digits,
                                      sum |-> it[s \ {Min(s)}].sum
                                                + (<<>>[Min(s)].sums)[1 + (it[s \ {Min(s)}].digits % 2)]]]
           fold == CHOOSE it : Folds(it)
<1>1. DOMAIN <<>> = {} /\ \A s \in SUBSET {} : s = {}
  OBVIOUS
<1>2. Folds([s \in SUBSET DOMAIN <<>> |-> none])
  BY <1>1
<1>3. Folds(fold)
  <2> HIDE DEF Folds
  <2> QED
    BY <1>2
<1>4. fold[DOMAIN <<>>] = none
  BY <1>1, <1>3
<1>5. Luhn(<<>>) = fold[DOMAIN <<>>]
  BY DEF Luhn, FoldRight, MapThenFoldSet
<1> HIDE DEF fold
<1>6. Luhn(<<>>).digits = 0
  BY <1>4, <1>5
<1> QED
  BY <1>6 DEF IsCard

LEMMA CardStays ==
  ASSUME NEW sql \in Seq(Phrases), NEW p \in Phrases, HasCard(sql), ~Continued(Append(sql, p))
  PROVE  HasCard(Append(sql, p))
<1> DEFINE old == Cards(sql)
           new == Cards(Append(sql, p))
<1>1. old \in CardState /\ new = CardStep(old, p)
  BY CardsGrow
<1>2. old.card \/ IsCard(old.run)
  BY DEF HasCard
<1> HIDE DEF old
<1>3. /\ old.card => new.card
      /\ ~IsDigits(p) => (IsCard(old.run) => new.card)
  <2> DEFINE ended == ~IsDigits(p) \/ (Luhn(Append(old.run, p)).digits > 19 /\ Luhn(old.run).digits >= 13)
  <2>1. new.card = (old.card \/ (ended /\ IsCard(old.run)))
    BY <1>1 DEF CardStep
  <2>2. ~IsDigits(p) => ended
    OBVIOUS
  <2> HIDE DEF new, ended
  <2> QED
    BY <2>1, <2>2
<1>4. CASE ~IsDigits(p)
  BY <1>2, <1>3, <1>4 DEF HasCard
<1>5. CASE IsDigits(p)
  <2>1. Len(sql) = 0 \/ ~IsDigits(sql[Len(sql)])
    <3> DEFINE longer == Append(sql, p)
    <3>1. Len(longer) = Len(sql) + 1 /\ longer[Len(longer)] = p /\ Len(sql) \in Nat
      OBVIOUS
    <3>2. Len(sql) # 0 => longer[Len(longer) - 1] = sql[Len(sql)]
      OBVIOUS
    <3>3. ~(Len(longer) > 1 /\ IsDigits(longer[Len(longer) - 1]) /\ IsDigits(longer[Len(longer)]))
      BY DEF Continued
    <3> HIDE DEF longer
    <3> QED
      BY <1>5, <3>1, <3>2, <3>3
  <2>2. old.run = <<>>
    BY <2>1, NoRun DEF old
  <2>3. ~IsCard(old.run)
    BY <2>2, NothingIsNoCard
  <2> QED
    BY <1>2, <1>3, <2>3 DEF HasCard
<1> QED
  BY <1>4, <1>5

LEMMA PhoneStays ==
  ASSUME NEW sql \in Seq(Phrases), NEW p \in Phrases, HasPhone(sql)
  PROVE  HasPhone(Append(sql, p))
<1> DEFINE longer == Append(sql, p)
<1>1. PICK i \in DOMAIN sql : \E j \in i .. Len(sql) :
        (\A k \in i .. j : IsDigits(sql[k])) /\ Luhn(SubSeq(sql, i, j)).digits + (j - i) >= 9
  BY DEF HasPhone
<1>2. PICK j \in i .. Len(sql) :
        (\A k \in i .. j : IsDigits(sql[k])) /\ Luhn(SubSeq(sql, i, j)).digits + (j - i) >= 9
  BY <1>1
<1>3. i \in DOMAIN longer /\ j \in i .. Len(longer) /\ \A k \in i .. j : longer[k] = sql[k]
  OBVIOUS
<1>4. SubSeq(longer, i, j) = SubSeq(sql, i, j)
  OBVIOUS
<1> HIDE DEF longer
<1>5. HasPhone(longer)
  BY <1>2, <1>3, <1>4 DEF HasPhone
<1> QED
  BY <1>5 DEF longer

\* What a number that more digits continue may take back.
Undone(sql) == IF Continued(sql) THEN {"credit_card"} ELSE {}

\* Nor a personal value, but a card number that digits continue.
LEMMA DetectionsGrow ==
  ASSUME NEW sql \in Seq(Phrases), NEW p \in Phrases, NEW declared
  PROVE  Detect(declared, sql).summary.categories \ Detect(declared, Append(sql, p)).summary.categories
           \subseteq Undone(Append(sql, p))
<1> DEFINE longer == Append(sql, p)
           of(t) == {m.category : m \in Detected(declared, t)}
<1>1. longer \in Seq(Phrases)
  BY LexedGrows
<1>2. ASSUME NEW t \in Seq(Phrases)
      PROVE  Detect(declared, t).summary.categories = IF Blank(t) THEN {} ELSE of(t)
  <2>1. CASE Blank(t)
    BY <2>1 DEF Detect, Summary
  <2>2. CASE ~Blank(t)
    BY <2>2, <1>2, IsNoPlaceholder DEF Detect, Summary
  <2> QED
    BY <2>1, <2>2
<1>3. Blank(longer) => Blank(sql)
  <2> DEFINE b == <<p>>
  <2>1. b \in Seq(Phrases) /\ longer = sql \o b
    BY AppendIsConcat
  <2> HIDE DEF b, longer
  <2>2. Normalize(sql \o b) = Normalize(sql) \o Normalize(b) /\ Normalize(sql) \in Seq(Phrases) /\ Normalize(b) \in Seq(Phrases)
    BY <2>1, NormalizeConcat
  <2>3. \A x, y \in Seq(Phrases) : x \o y = <<>> => x = <<>>
    OBVIOUS
  <2> QED
    BY <2>1, <2>2, <2>3 DEF Blank
<1>4. ToSet(ExecutableCore(sql)) \subseteq ToSet(ExecutableCore(longer))
  BY CoreGrows
<1>5. ToSet(sql) \subseteq ToSet(longer)
  BY DEF ToSet
<1> HIDE DEF longer
<1>6. ASSUME NEW m \in Detected(declared, sql), m \notin Detected(declared, longer)
      PROVE  m.category \in Undone(longer)
  <2>1. {[category |-> d.category, confidence |-> "high"] :
            d \in {e \in declared : \E q \in ToSet(ExecutableCore(sql)) : <<q.table, q.column>> = e.id}}
        \subseteq {[category |-> d.category, confidence |-> "high"] :
            d \in {e \in declared : \E q \in ToSet(ExecutableCore(longer)) : <<q.table, q.column>> = e.id}}
    BY <1>4
  <2>2. {[category |-> c, confidence |-> "medium"] : c \in UNION {q.names : q \in ToSet(ExecutableCore(sql))}}
        \subseteq {[category |-> c, confidence |-> "medium"] : c \in UNION {q.names : q \in ToSet(ExecutableCore(longer))}}
    BY <1>4
  <2>3. m \in ScanValues(sql) /\ m \notin ScanValues(longer)
    BY <1>6, <2>1, <2>2 DEF Detected
  <2>4. (UNION {ScanValue(q) : q \in ToSet(sql)}) \subseteq (UNION {ScanValue(q) : q \in ToSet(longer)})
    BY <1>5
  <2>5. \/ HasCard(sql) /\ ~HasCard(longer) /\ m = Detection("credit_card")
        \/ HasPhone(sql) /\ ~HasPhone(longer) /\ m = Detection("phone")
    BY <2>3, <2>4 DEF ScanValues
  <2>6. HasPhone(sql) => HasPhone(longer)
    BY PhoneStays DEF longer
  <2>7. HasCard(sql) /\ ~HasCard(longer) => Continued(longer)
    BY CardStays DEF longer
  <2> QED
    BY <2>5, <2>6, <2>7 DEF Undone, Detection
<1>7. of(sql) \ of(longer) \subseteq Undone(longer)
  BY <1>6
<1> HIDE DEF of
<1> QED
  BY <1>1, <1>2, <1>3, <1>7 DEF longer

\* Nor does a segment hide another.
Dispositions == <<"allow", "review", "block">>

LEMMA DispositionRanks ==
  /\ Rank(Dispositions, "allow") = 1 /\ Rank(Dispositions, "review") = 2 /\ Rank(Dispositions, "block") = 3
<1>1. DOMAIN Dispositions = 1 .. 3 /\ Dispositions[1] = "allow" /\ Dispositions[2] = "review" /\ Dispositions[3] = "block"
  BY DEF Dispositions
<1>2. \A i \in 1 .. 3 : i = 1 \/ i = 2 \/ i = 3
  OBVIOUS
<1>3. Order(Dispositions)
  BY <1>1, <1>2 DEF Order
<1> QED
  BY <1>1, <1>3, RankIs

LEMMA DefenceGrows ==
  ASSUME NEW less \in Seq(Segments), NEW s \in Segments
  PROVE  Rank(Dispositions, Defend(Append(less, s)).disposition) >= Rank(Dispositions, Defend(less).disposition)
<1> DEFINE more == Append(less, s)
           found(t) == UNION {DetectSegment(x) : x \in ToSet(t)}
           blank(t) == \A x \in ToSet(t) : x.blank
<1>1. ToSet(less) \subseteq ToSet(more)
  BY DEF ToSet
<1> HIDE DEF more
<1>2. found(less) \subseteq found(more) /\ (blank(more) => blank(less))
  BY <1>1
<1>3. ASSUME NEW t
      PROVE  Defend(t).disposition = IF blank(t) \/ found(t) = {} THEN "allow" ELSE Disposition(found(t))
  BY DEF Defend
<1>4. \A t : Disposition(found(t)) \in {"review", "block"}
  BY DEF Disposition
<1>5. Disposition(found(less)) = "block" => Disposition(found(more)) = "block"
  BY <1>2 DEF Disposition
<1>6. \/ Defend(less).disposition = "allow" /\ Defend(more).disposition \in {"allow", "review", "block"}
      \/ Defend(less).disposition = "review" /\ Defend(more).disposition \in {"review", "block"}
      \/ Defend(less).disposition = "block" /\ Defend(more).disposition = "block"
  <2>1. ~blank(less) /\ found(less) # {} => ~blank(more) /\ found(more) # {}
    BY <1>2
  <2> HIDE DEF found, blank
  <2> QED
    BY <1>3, <1>4, <1>5, <2>1
<1>7. /\ Rank(Dispositions, Defend(less).disposition) <= Rank(Dispositions, Defend(more).disposition)
      /\ Rank(Dispositions, Defend(more).disposition) \in Nat /\ Rank(Dispositions, Defend(less).disposition) \in Nat
  BY <1>6, DispositionRanks
<1>8. Rank(Dispositions, Defend(more).disposition) >= Rank(Dispositions, Defend(less).disposition)
  BY <1>7
<1> QED
  BY <1>8 DEF more

-----------------------------------------------------------------------------
TextInv == text \in Seq(Phrases) /\ prompt \in Seq(Segments)

LEMMA TextBegins == ContractsInit => TextInv
BY DEF ContractsInit, TextInv

LEMMA TextGoesOn == TextInv /\ [ContractsNext]_contractsVars => TextInv'
<1> SUFFICES ASSUME TextInv, [ContractsNext]_contractsVars PROVE TextInv'
  OBVIOUS
<1>0. text \in Seq(Phrases) /\ prompt \in Seq(Segments)
  BY DEF TextInv
<1>1. ASSUME NEW p \in Phrases, Type(p) PROVE TextInv'
  BY <1>0, <1>1 DEF Type, TextInv
<1>2. ASSUME NEW s \in Segments, AddSegment(s) PROVE TextInv'
  BY <1>0, <1>2 DEF AddSegment, TextInv
<1>3. ASSUME text' = <<>>, prompt' = <<>> PROVE TextInv'
  BY <1>3 DEF TextInv
<1>4. ASSUME NEW gate, NEW input, NEW result, Judge(gate, input, result) PROVE TextInv'
  BY <1>3, <1>4 DEF Judge
<1>5. CASE JudgeStatement
  BY <1>4, <1>5 DEF JudgeStatement
<1>6. CASE JudgeReferences
  BY <1>4, <1>6 DEF JudgeReferences
<1>7. CASE JudgePrompt
  BY <1>4, <1>7 DEF JudgePrompt
<1>8. CASE JudgeResult
  BY <1>4, <1>8 DEF JudgeResult
<1>9. CASE JudgeAccess
  BY <1>4, <1>9 DEF JudgeAccess
<1>10. ASSUME UNCHANGED <<text, prompt>> PROVE TextInv'
  BY <1>0, <1>10 DEF TextInv
<1>11. CASE UNCHANGED contractsVars
  BY <1>10, <1>11 DEF contractsVars
<1>12. ASSUME NEW a \in Approvers, Approve(a) \/ Reject(a) PROVE UNCHANGED <<text, prompt>>
  BY <1>12 DEF Approve, Reject, Transition
<1>13. Open \/ Cancel \/ Expire \/ Record \/ ReadChainBack => UNCHANGED <<text, prompt>>
  BY DEF Open, Cancel, Expire, Transition, Record, ReadChainBack
<1>14. Lose \/ Double \/ Exchange \/ Alter => UNCHANGED <<text, prompt>>
  BY DEF Lose, Double, Exchange, Alter, Fault
<1> QED
  BY <1>1, <1>2, <1>5, <1>6, <1>7, <1>8, <1>9, <1>10, <1>11, <1>12, <1>13, <1>14 DEF ContractsNext

LEMMA TextKeeps == ContractsSpec => []TextInv
<1>1. ContractsInit => TextInv
  BY TextBegins
<1>2. TextInv /\ [ContractsNext]_contractsVars => TextInv'
  BY TextGoesOn
<1> QED
  BY <1>1, <1>2, PTL DEF ContractsSpec

\* sanitize (_sql_text.py), which jumps over literals and comments, finds the code that
\* a reader finds phrase by phrase, in statements of any length.
THEOREM Scanning == ContractsSpec => []ScansLikeSQL
<1>1. TextInv => ScansLikeSQL
  BY ScanIsReading DEF ScansLikeSQL, TextInv
<1> QED
  BY <1>1, TextKeeps, PTL

\* What the read-only contract (sql_read_only_enforcement.py) allows is one statement that
\* reads, and the risk classifier agrees.
THEOREM ReadOnly == ContractsSpec => []ReadsAreReads
<1>1. TextInv => ReadsAreReads
  BY ReadsInv DEF TextInv
<1> QED
  BY <1>1, TextKeeps, PTL

\* Of a statement that calls every table by its own name, however long, extraction
\* (sql_sensitive_data_policy.py) never misses a reference, stars included, and the most
\* restrictive rule decides, for any set of rules.
THEOREM Covering == ContractsSpec => []StarIsCovered
<1>1. TextInv => StarIsCovered
  BY StarInv DEF TextInv
<1> QED
  BY <1>1, TextKeeps, PTL

\* Only what is written changes the text or the prompt without emptying both.
LEMMA WritingSteps ==
  ASSUME TextInv, ContractsNext, ~(UNCHANGED <<text, prompt>>)
  PROVE  \/ text' = <<>> /\ prompt' = <<>>
         \/ \E p \in Phrases : text' = Append(text, p) /\ prompt' = <<>>
         \/ \E s \in Segments : text' = <<>> /\ prompt' = Append(prompt, s)
<1>1. ASSUME NEW gate, NEW input, NEW result, Judge(gate, input, result) PROVE text' = <<>> /\ prompt' = <<>>
  BY <1>1 DEF Judge
<1>2. JudgeStatement \/ JudgeReferences \/ JudgePrompt \/ JudgeResult \/ JudgeAccess => text' = <<>> /\ prompt' = <<>>
  BY <1>1 DEF JudgeStatement, JudgeReferences, JudgePrompt, JudgeResult, JudgeAccess
<1>3. ASSUME NEW a \in Approvers, Approve(a) \/ Reject(a) PROVE UNCHANGED <<text, prompt>>
  BY <1>3 DEF Approve, Reject, Transition
<1>4. Open \/ Cancel \/ Expire \/ Record \/ ReadChainBack => UNCHANGED <<text, prompt>>
  BY DEF Open, Cancel, Expire, Transition, Record, ReadChainBack
<1>5. Lose \/ Double \/ Exchange \/ Alter => UNCHANGED <<text, prompt>>
  BY DEF Lose, Double, Exchange, Alter, Fault
<1>6. ASSUME NEW p \in Phrases, Type(p) PROVE text' = Append(text, p) /\ prompt' = <<>>
  BY <1>6 DEF Type
<1>7. ASSUME NEW s \in Segments, AddSegment(s) PROVE text' = <<>> /\ prompt' = Append(prompt, s)
  BY <1>7 DEF AddSegment
<1> QED
  BY <1>2, <1>3, <1>4, <1>5, <1>6, <1>7 DEF ContractsNext

\* More text or another segment never makes a judgement milder (sql_sensitive_data_policy.py,
\* sql_pii_phi_detection.py, prompt_injection_defense.py), except that a card number is no
\* longer seen when digits follow its digits (_pii_value_scan.py:76).
THEOREM Monotony == ContractsSpec => NeverMilder
<1> DEFINE Grows ==
      /\ text' # <<>> =>
           LET old == ResolveRefs(text)
               new == ResolveRefs(text')
               lost == Detect(Declared, text).summary.categories \ Detect(Declared, text').summary.categories
           IN  /\ old # None => \A rules \in SUBSET Rules : Stricter(Sensitive(rules, new), Sensitive(rules, old))
               /\ lost \subseteq (IF Continued(text') THEN {"credit_card"} ELSE {})
      /\ prompt' # <<>> =>
           LET order == <<"allow", "review", "block">>
           IN  Rank(order, Defend(prompt').disposition) >= Rank(order, Defend(prompt).disposition)
<1>1. ASSUME TextInv, ContractsNext PROVE Grows \/ UNCHANGED <<text, prompt>>
  <2> SUFFICES ASSUME ~(UNCHANGED <<text, prompt>>) PROVE Grows
    OBVIOUS
  <2>0. text \in Seq(Phrases) /\ prompt \in Seq(Segments)
    BY <1>1 DEF TextInv
  <2>1. CASE text' = <<>> /\ prompt' = <<>>
    BY <2>1
  <2>2. CASE \E p \in Phrases : text' = Append(text, p) /\ prompt' = <<>>
    <3>1. PICK p \in Phrases : text' = Append(text, p) /\ prompt' = <<>>
      BY <2>2
    <3>2. ResolveRefs(text) # None =>
            \A rules \in SUBSET Rules : Stricter(Sensitive(rules, ResolveRefs(text')), Sensitive(rules, ResolveRefs(text)))
      BY <2>0, <3>1, ReferencesGrow
    <3>3. Detect(Declared, text).summary.categories \ Detect(Declared, text').summary.categories
            \subseteq (IF Continued(text') THEN {"credit_card"} ELSE {})
      BY <2>0, <3>1, DetectionsGrow DEF Undone
    <3> QED
      BY <3>1, <3>2, <3>3
  <2>3. CASE \E s \in Segments : text' = <<>> /\ prompt' = Append(prompt, s)
    <3>1. PICK s \in Segments : text' = <<>> /\ prompt' = Append(prompt, s)
      BY <2>3
    <3>2. Rank(Dispositions, Defend(prompt').disposition) >= Rank(Dispositions, Defend(prompt).disposition)
      BY <2>0, <3>1, DefenceGrows
    <3> QED
      BY <3>1, <3>2 DEF Dispositions
  <2> QED
    BY <1>1, <2>1, <2>2, <2>3, WritingSteps
<1>2. TextInv /\ [ContractsNext]_contractsVars => [Grows]_<<text, prompt>>
  <2> SUFFICES ASSUME TextInv, [ContractsNext]_contractsVars PROVE Grows \/ UNCHANGED <<text, prompt>>
    OBVIOUS
  <2> HIDE DEF Grows
  <2>1. CASE ContractsNext
    BY <1>1, <2>1
  <2>2. CASE UNCHANGED contractsVars
    BY <2>2 DEF contractsVars
  <2> QED
    BY <2>1, <2>2
<1>3. NeverMilder <=> [][Grows]_<<text, prompt>>
  BY DEF NeverMilder
<1> HIDE DEF Grows
<1> QED
  BY <1>2, <1>3, TextKeeps, PTL DEF ContractsSpec
=============================================================================
