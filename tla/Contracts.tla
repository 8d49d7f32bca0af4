----------------------------- MODULE Contracts -----------------------------
(* The security contracts of app/security: pure gates and detectors that     *)
(* judge a statement, a prompt, a result set, a permission, a boundary or a  *)
(* credential; the approval a gate may call for; and the chain of audit      *)
(* events, as it is written and as its store gives it back.                  *)
EXTENDS SqlText, FiniteSets

CONSTANTS Phrases, MaxText,          \* phrases of a statement, how many
          Catalog,                   \* the table an identifier stands for
          Rules, Declared,           \* sensitivity rules, declared columns
          Segments, MaxSegments,     \* pieces of a prompt
          ResultRows, MaxRows, Columns, Policies, \* result sets and limits
          PermissionRules, PermissionRequests,
          BoundaryRequests, CredentialRequests, CredentialPolicies,
          Approvers, Requester,      \* those who vote, one of them asks
          MaxLog, MaxFaults          \* events of a chain, faults of its store

\* What begins a literal or a comment begins one of them, and no newline does;
\* a semicolon is nothing else, what brings in a table names one; the placeholders
\* are no phrases, texts or references.
ASSUME PhrasesAssumption ==
    /\ \A p \in Phrases :
         /\ \A a, b \in p.does \cap {"quote", "dashes", "open"} : a = b
         /\ p.does \cap {"from", "join", "comma", "table_star"} # {} => p.table # None
         /\ Does(p, "newline") => p.does \cap {"quote", "dashes", "open"} = {}
         /\ Does(p, "semicolon") => p.does = {"semicolon"} /\ p.column = None /\ KeywordCategory(p.word) = None
    /\ None \notin Phrases /\ None \notin ReadStart \cup ReadOnlyReasons
    /\ None \notin [tables : SUBSET {p.table : p \in Phrases}, columns : SUBSET {<<p.table, p.column>> : p \in Phrases},
                   whole : SUBSET {p.table : p \in Phrases}]
    /\ NotAString \notin Seq(Phrases)

\* A rule is one that the policy's class admits.
ASSUME RulesAssumption ==
    \A r \in Rules : r.action \in ToSet(Restrictiveness) /\ r.level \in ToSet(SensitivityLevels)

VARIABLES text,    \* the statement being written
          prompt,  \* the segments of the prompt being assembled
          verdict, \* what the last contract said: [gate, input, result]
          request, \* the approval request, as last returned
          log,     \* the audit events, as linked
          stored,  \* the events as the store gives them back
          faults

contractsVars == <<text, prompt, verdict, request, log, stored, faults>>

-----------------------------------------------------------------------------
(* sql_permission_policy.py                                                *)

PermissionActions == {"generate_sql", "validate_sql", "explain_sql", "execute_sql", "read_schema", "read_results"}
ResourceTypes == {"schema", "table", "column", "query", "connection", "result_set"}
PermissionResults ==
    [decision : {"allow", "deny", "requires_approval"},
     reason : {"explicit_allow", "explicit_deny", "default_deny", "unknown_action", "unknown_resource",
               "missing_subject", "missing_resource", "requires_approval", "policy_not_configured"}]

\* What the rules that match a request say.
Said(q, rules) ==
    {r.decision : r \in {s \in rules : s.action = q.action /\ s.type = q.type /\ s.id = q.id}}

\* evaluate: a blank value of a request is None.
Permission(q, rules) ==
    LET deny(reason) == [decision |-> "deny", reason |-> reason]
    IN  FirstOf(<<When(q.subject = None, deny("missing_subject")),
                  When(q.action \notin PermissionActions, deny("unknown_action")),
                  When(q.type \notin ResourceTypes, deny("unknown_resource")),
                  When(q.id = None, deny("missing_resource")),
                  When(rules = {}, deny("policy_not_configured")),
                  When("deny" \in Said(q, rules), deny("explicit_deny")),
                  When("requires_approval" \in Said(q, rules),
                       [decision |-> "requires_approval", reason |-> "requires_approval"]),
                  When("allow" \in Said(q, rules), [decision |-> "allow", reason |-> "explicit_allow"]),
                  When(TRUE, deny("default_deny"))>>)

-----------------------------------------------------------------------------
(* tenant_workspace_boundary.py                                            *)

BoundaryResults ==
    [decision : {"allow", "deny"},
     reason : {"boundary_match", "missing_tenant", "missing_workspace", "tenant_mismatch", "workspace_mismatch"}]

\* validate: subject and resource are pairs of a tenant and a workspace.
Boundary(subject, resource) ==
    LET deny(reason) == [decision |-> "deny", reason |-> reason]
    IN  FirstOf(<<When(None \in {subject[1], resource[1]}, deny("missing_tenant")),
                  When(None \in {subject[2], resource[2]}, deny("missing_workspace")),
                  When(subject[1] # resource[1], deny("tenant_mismatch")),
                  When(subject[2] # resource[2], deny("workspace_mismatch")),
                  When(TRUE, [decision |-> "allow", reason |-> "boundary_match"])>>)

-----------------------------------------------------------------------------
(* connection_credential_vault.py                                          *)

CredentialResults ==
    [decision : {"allow", "deny"}, leak : BOOLEAN,
     reason : {"allowed", "secret_leak_suspected", "auth_mode_inconsistent", "provider_not_allowed",
               "environment_mismatch", "tenant_mismatch", "purpose_not_permitted"}]

\* evaluate: `leaks` holds the reference fields with a raw secret's pattern.
Credential(q, policy) ==
    LET deny(reason) == [decision |-> "deny", leak |-> reason = "secret_leak_suspected", reason |-> reason]
    IN  FirstOf(<<When(q.leaks # {}, deny("secret_leak_suspected")),
                  When(q.mode # "secret_ref", deny("auth_mode_inconsistent")),
                  When(q.provider \notin policy.providers, deny("provider_not_allowed")),
                  When(q.environment \notin policy.environments \/ q.environment # q.profile, deny("environment_mismatch")),
                  When(q.tenant # policy.owner, deny("tenant_mismatch")),
                  When(q.purpose # "execution", deny("purpose_not_permitted")),
                  When(TRUE, [decision |-> "allow", leak |-> FALSE, reason |-> "allowed"])>>)

-----------------------------------------------------------------------------
(* prompt_injection_defense.py.  A segment is a record [source, blank, hits, *)
(* hidden]: the patterns it matches and what hides in it.                    *)

InjectionResults ==
    [disposition : {"allow", "review", "block"},
     reason : {"no_injection_detected", "injection_suspected", "injection_detected", "no_input"},
     highest : {None, "low", "medium", "high"}]

\* Only the first sign of obfuscation counts.
Obfuscation(hidden) ==
    LET first == SelectSeq(<<"zero_width", "base64", "homoglyph", "hex">>, LAMBDA h : h \in hidden)
    IN  IF first = <<>> THEN {}
        ELSE {CASE first[1] = "zero_width" -> "high" [] first[1] = "hex" -> "low" [] OTHER -> "medium"}

Elevate(confidence) == Confidences[Min({Rank(Confidences, confidence) + 1, 3})]

DetectSegment(s) ==
    LET found == s.hits \cup Obfuscation(s.hidden)
    IN  {[source |-> s.source, confidence |-> IF s.source = "indirect" THEN Elevate(c) ELSE c] : c \in found}

\* MUTANT (Disposition): the last match decides, as if it were the gravest.
DispositionOfMildest(matches) ==
    LET mild == CHOOSE m \in matches :
                    \A n \in matches : Rank(Confidences, m.confidence) <= Rank(Confidences, n.confidence)
    IN  IF mild.confidence = "high" \/ (mild.source = "indirect" /\ mild.confidence # "low")
        THEN "block" ELSE "review"

Disposition(matches) ==
    IF \E m \in matches : m.confidence = "high" \/ (m.source = "indirect" /\ m.confidence # "low")
    THEN "block" ELSE "review"

Defend(segments) ==
    LET matches == UNION {DetectSegment(s) : s \in ToSet(segments)}
    IN  IF \A s \in ToSet(segments) : s.blank
        THEN [disposition |-> "allow", reason |-> "no_input", highest |-> None]
        ELSE IF matches = {}
        THEN [disposition |-> "allow", reason |-> "no_injection_detected", highest |-> None]
        ELSE [disposition |-> Disposition(matches),
              reason |-> IF Disposition(matches) = "block" THEN "injection_detected" ELSE "injection_suspected",
              highest |-> Highest(Confidences, {m.confidence : m \in matches})]

-----------------------------------------------------------------------------
(* result_set_privacy_limits.py.  A row is a sequence of cells, a cell a     *)
(* record [bytes, null, values]; an absent cap is None.                      *)

ResultSetResults ==
    [disposition : {"allow", "truncate", "deny"}, kept : 0 .. MaxRows,
     reason : {"within_limits", "empty_result", "row_cap_truncated", "byte_cap_truncated",
               "row_cap_denied", "byte_cap_denied", "column_cap_denied"},
     summary : [categories : SUBSET {"email", "ssn", "iban", "credit_card", "phone"}, phi : BOOLEAN,
                highest : {None} \cup ToSet(Confidences)]]

RowBytes(row) == FoldLeft(LAMBDA n, cell : n + cell.bytes, 0, row)

\* MUTANT (BytePrefix): a row that does not fit is skipped, not the end.
BytePrefixSkips(rows, cap) ==
    IF cap = None THEN Len(rows)
    ELSE FoldLeft(LAMBDA got, row : IF got[1] + RowBytes(row) > cap THEN got
                                    ELSE <<got[1] + RowBytes(row), got[2] + 1>>,
                  <<0, 0>>, rows)[2]

\* How many rows from the first fit the byte cap; <<bytes, rows, open>>.
BytePrefix(rows, cap) ==
    IF cap = None THEN Len(rows)
    ELSE FoldLeft(LAMBDA got, row : IF ~got[3] \/ got[1] + RowBytes(row) > cap THEN <<got[1], got[2], FALSE>>
                                    ELSE <<got[1] + RowBytes(row), got[2] + 1, TRUE>>,
                  <<0, 0, TRUE>>, rows)[2]

Limits(columns, rows, p) ==
    LET total == Len(rows)
        rowPrefix == IF p.rows = None THEN total ELSE Min({total, p.rows})
        bytePrefix == BytePrefix(rows, p.bytes)
        kept == Min({rowPrefix, bytePrefix})
        cap == IF p.bytes # None /\ bytePrefix <= rowPrefix THEN "byte" ELSE "row"
        said(disposition, reason, k) == [disposition |-> disposition, reason |-> reason, kept |-> k]
    IN  FirstOf(<<When(p.columns # None /\ columns > p.columns, said("deny", "column_cap_denied", 0)),
                  When(total = 0, said("allow", "empty_result", 0)),
                  When(kept >= total, said("allow", "within_limits", total)),
                  When(p.truncate /\ kept > 0,
                       said("truncate", IF cap = "byte" THEN "byte_cap_truncated" ELSE "row_cap_truncated", kept)),
                  When(TRUE, said("deny", IF cap = "byte" THEN "byte_cap_denied" ELSE "row_cap_denied", 0))>>)

\* Every row is scanned, those that are not returned included; a cell beyond
\* the columns, or null, is not.
ScanPrivacy(columns, rows) ==
    UNION {UNION {ScanValue(row[i]) : i \in {j \in DOMAIN row : j <= columns /\ ~row[j].null}} : row \in ToSet(rows)}

ResultSet(columns, rows, policy) ==
    Limits(columns, rows, policy) @@ [summary |-> Summary(ScanPrivacy(columns, rows))]

-----------------------------------------------------------------------------
(* approval_workflow.py                                                    *)

TerminalStates == {"approved", "rejected", "expired", "cancelled"}

ApprovalRequests ==
    [requester : Approvers, category : {"permission", "sensitive_data"}, required : {1, 2},
     state : {"pending"} \cup TerminalStates, decisions : Seq([approver : Approvers, decision : {"approve", "reject"}]),
     reason : {"opened", "approval_recorded", "quorum_met", "rejected_veto", "cancelled", "expired"},
     expires : BOOLEAN]

\* `expires` tells whether the request has an expiry time at all.
Opened(category, required, expires) ==
    [requester |-> Requester, category |-> category, required |-> required, state |-> "pending",
     decisions |-> <<>>, reason |-> "opened", expires |-> expires]

\* The quorum of a sensitivity level; the lower levels have none.
Quorum(level) ==
    CASE level = "confidential" -> 1
      [] level = "restricted" -> 2
      [] OTHER -> None

IsTerminal(r) == r.state \in TerminalStates

\* What approve and reject check before they count a vote.
GuardVote(r, a) ==
    /\ ~IsTerminal(r)
    /\ a # r.requester
    /\ \A i \in DOMAIN r.decisions : r.decisions[i].approver # a

Voted(r, a, vote) == Append(r.decisions, [approver |-> a, decision |-> vote])

CountApprovals(decisions) ==
    Cardinality({d.approver : d \in {e \in ToSet(decisions) : e.decision = "approve"}})

\* MUTANT (Approved): every vote counts towards the quorum.
ApprovedByVotes(r, a) ==
    LET decisions == Voted(r, a, "approve")
        met == Len(decisions) + 1 >= r.required
    IN  [r EXCEPT !.decisions = decisions, !.state = IF met THEN "approved" ELSE "pending",
                  !.reason = IF met THEN "quorum_met" ELSE "approval_recorded"]

Approved(r, a) ==
    LET decisions == Voted(r, a, "approve")
        met == CountApprovals(decisions) >= r.required
    IN  [r EXCEPT !.decisions = decisions, !.state = IF met THEN "approved" ELSE "pending",
                  !.reason = IF met THEN "quorum_met" ELSE "approval_recorded"]

Rejected(r, a) ==
    [r EXCEPT !.decisions = Voted(r, a, "reject"), !.state = "rejected", !.reason = "rejected_veto"]

Closed(r, state) == [r EXCEPT !.state = state, !.reason = state]

-----------------------------------------------------------------------------
(* audit_event.py.  A hash is the pair of what is hashed: a function without *)
(* collisions.  Before the first entry there is the empty pair.              *)

Severities == <<"info", "low", "medium", "high", "critical">>
AuditCategories == {"authz_permission", "tenant_boundary", "read_only", "query_risk", "sensitive_data", "pii_phi",
                    "approval", "prompt_injection", "result_set_privacy", "connection_credential"}
AuditEvents ==
    [category : AuditCategories, outcome : {"allowed", "denied", "requires_approval", "flagged"},
     severity : ToSet(Severities), reason : STRING]

Event(category, outcome, severity, reason) ==
    [category |-> category, outcome |-> outcome, severity |-> severity, reason |-> reason]

DecisionOutcome == [allow |-> "allowed", deny |-> "denied", requires_approval |-> "requires_approval"]
DecisionSeverity == [allow |-> "info", deny |-> "high", requires_approval |-> "medium"]
RiskSeverity == [low |-> "low", medium |-> "medium", high |-> "high", critical |-> "critical"]
SensitivitySeverity == [public |-> "info", internal |-> "low", confidential |-> "medium", restricted |-> "high"]

FromDecision(category, r) == Event(category, DecisionOutcome[r.decision], DecisionSeverity[r.decision], r.reason)
FromPermission(r) == FromDecision("authz_permission", r)
FromTenant(r) == FromDecision("tenant_boundary", r)
FromReadOnly(r) == FromDecision("read_only", r)
FromRisk(r) == Event("query_risk", "flagged", RiskSeverity[r.level], r.level)
FromSensitive(r) ==
    Event("sensitive_data", DecisionOutcome[r.decision], SensitivitySeverity[r.level], r.reason)

\* How grave personal data is, for a statement as for a result.
PrivacySeverity(s) ==
    IF s.categories = {} THEN "info"
    ELSE IF s.phi THEN IF s.highest = "high" THEN "critical" ELSE "high"
    ELSE IF s.highest = "high" THEN "medium" ELSE "low"

FromPiiPhi(r) == Event("pii_phi", "flagged", PrivacySeverity(r.summary), r.reason)

ApprovalOutcome ==
    [approved |-> "allowed", rejected |-> "denied", pending |-> "requires_approval", expired |-> "denied", cancelled |-> "denied"]
ApprovalSeverity ==
    [approved |-> "info", rejected |-> "high", pending |-> "medium", expired |-> "medium", cancelled |-> "low"]

FromApproval(r) == Event("approval", ApprovalOutcome[r.state], ApprovalSeverity[r.state], r.reason)

FromPromptInjection(r) ==
    LET outcome == [allow |-> "allowed", review |-> "flagged", block |-> "denied"]
    IN  Event("prompt_injection", outcome[r.disposition],
              FirstOf(<<When(r.disposition = "block" /\ r.highest = "high", "critical"),
                        When(r.disposition = "block", "high"), When(r.disposition = "review", "medium"),
                        When(TRUE, "info")>>), r.reason)

FromResultSet(r) ==
    LET limit == [deny |-> "medium", truncate |-> "low", allow |-> "info"]
    IN  Event("result_set_privacy",
              FirstOf(<<When(r.disposition = "deny", "denied"),
                        When(r.disposition = "truncate" \/ r.summary.categories # {}, "flagged"),
                        When(TRUE, "allowed")>>),
              Highest(Severities, {limit[r.disposition], PrivacySeverity(r.summary)}), r.reason)

FromCredentialVault(r) ==
    Event("connection_credential", DecisionOutcome[r.decision],
          IF r.decision = "allow" THEN "info" ELSE IF r.leak THEN "high" ELSE "medium", r.reason)

FromVerdict(v) ==
    CASE v.gate = "permission" -> FromPermission(v.result)
      [] v.gate = "boundary" -> FromTenant(v.result)
      [] v.gate = "read_only" -> FromReadOnly(v.result)
      [] v.gate = "risk" -> FromRisk(v.result)
      [] v.gate = "sensitive" -> FromSensitive(v.result)
      [] v.gate = "pii" -> FromPiiPhi(v.result)
      [] v.gate = "injection" -> FromPromptInjection(v.result)
      [] v.gate = "result_set" -> FromResultSet(v.result)
      [] v.gate = "credential" -> FromCredentialVault(v.result)

NoHash == <<>>
ComputeEntryHash(body, prev) == <<body, prev>>

\* link: the next entry of a chain.
Link(chain, body) ==
    LET prev == IF chain = <<>> THEN NoHash ELSE Last(chain).hash
    IN  [body |-> body, prev |-> prev, hash |-> ComputeEntryHash(body, prev)]

\* MUTANT (Broken): the links are not compared, only the hashes.
BrokenContent(chain, i) == ComputeEntryHash(chain[i].body, chain[i].prev) # chain[i].hash

Broken(chain, i) ==
    \/ chain[i].prev # (IF i = 1 THEN NoHash ELSE chain[i - 1].hash)
    \/ ComputeEntryHash(chain[i].body, chain[i].prev) # chain[i].hash

\* verify_chain: the first broken entry, None when there is none.
VerifyChain(chain) ==
    LET broken == {i \in DOMAIN chain : Broken(chain, i)}
    IN  IF broken = {} THEN None ELSE Min(broken)

-----------------------------------------------------------------------------
(* The machine: something is written, a contract judges it, the verdict and *)
(* the versions of its approval are logged, the store gives the chain back. *)

Fresh == verdict = None /\ log = <<>> /\ stored = None

ContractsInit ==
    /\ text = <<>> /\ prompt = <<>>
    /\ verdict = None /\ request = None
    /\ log = <<>> /\ stored = None /\ faults = 0

Type(p) ==
    /\ Fresh /\ prompt = <<>> /\ Len(text) < MaxText
    /\ text' = Append(text, p)
    /\ UNCHANGED <<prompt, verdict, request, log, stored, faults>>

AddSegment(s) ==
    /\ Fresh /\ text = <<>> /\ Len(prompt) < MaxSegments
    /\ prompt' = Append(prompt, s)
    /\ UNCHANGED <<text, verdict, request, log, stored, faults>>

\* A contract is called; what was judged is put away.
Judge(gate, input, result) ==
    /\ Fresh
    /\ verdict' = [gate |-> gate, input |-> input, result |-> result]
    /\ text' = <<>> /\ prompt' = <<>>
    /\ UNCHANGED <<request, log, stored, faults>>

JudgeStatement ==
    /\ prompt = <<>>
    /\ \E sql \in {text} \cup (IF text = <<>> THEN {NotAString} ELSE {}) :
         \/ Judge("read_only", None, Enforce(sql))
         \/ Judge("risk", None, Classify(sql))
         \/ \E declared \in SUBSET Declared : Judge("pii", None, Detect(declared, sql))
         \/ LET refs == ResolveRefs(sql)
            IN  \E rules \in SUBSET Rules : Judge("sensitive", None, Sensitive(rules, refs))

\* The references are given, not extracted.
JudgeReferences ==
    /\ text = <<>> /\ prompt = <<>>
    /\ \E tables \in SUBSET {r.table : r \in Rules}, columns \in SUBSET {<<r.table, r.column>> : r \in Rules} :
         Judge("sensitive", None, Sensitive(Rules, Explicit(tables, columns)))

JudgePrompt == text = <<>> /\ Judge("injection", None, Defend(prompt))

JudgeResult ==
    /\ text = <<>> /\ prompt = <<>>
    /\ \E columns \in Columns, rows \in SeqOf(ResultRows, MaxRows), policy \in Policies :
         Judge("result_set", <<columns, rows, policy>>, ResultSet(columns, rows, policy))

JudgeAccess ==
    /\ text = <<>> /\ prompt = <<>>
    /\ \/ \E q \in PermissionRequests, rules \in SUBSET PermissionRules :
            Judge("permission", None, Permission(q, rules))
       \/ \E q \in BoundaryRequests : Judge("boundary", None, Boundary(q[1], q[2]))
       \/ \E q \in CredentialRequests, policy \in CredentialPolicies :
            Judge("credential", None, Credential(q, policy))

\* from_permission, from_sensitive: they raise unless approval is called for
\* and the level has a quorum.
Open ==
    /\ verdict # None /\ request = None /\ stored = None
    /\ \E expires \in BOOLEAN :
         \/ /\ verdict.gate = "permission" /\ verdict.result.decision = "requires_approval"
            /\ request' = Opened("permission", 1, expires)
         \/ /\ verdict.gate = "sensitive" /\ verdict.result.decision = "requires_approval"
            /\ Quorum(verdict.result.level) # None
            /\ request' = Opened("sensitive_data", Quorum(verdict.result.level), expires)
    /\ UNCHANGED <<text, prompt, verdict, log, stored, faults>>

Transition(r) ==
    /\ stored = None
    /\ request' = r
    /\ UNCHANGED <<text, prompt, verdict, log, stored, faults>>

Approve(a) == request # None /\ GuardVote(request, a) /\ Transition(Approved(request, a))
Reject(a) == request # None /\ GuardVote(request, a) /\ Transition(Rejected(request, a))

Cancel == request # None /\ ~IsTerminal(request) /\ Transition(Closed(request, "cancelled"))

Expire ==
    /\ request # None /\ ~IsTerminal(request) /\ request.expires
    /\ Transition(Closed(request, "expired"))

\* The caller builds an event from what it holds and links it.
Record ==
    /\ verdict # None /\ stored = None /\ Len(log) < MaxLog
    /\ \E body \in {FromVerdict(verdict)} \cup (IF request = None THEN {} ELSE {FromApproval(request)}) :
         log' = Append(log, Link(log, body))
    /\ UNCHANGED <<text, prompt, verdict, request, stored, faults>>

\* The chain is read back from its store ...
ReadChainBack ==
    /\ stored = None /\ log # <<>>
    /\ stored' = log
    /\ verdict' = None /\ request' = None
    /\ UNCHANGED <<text, prompt, log, faults>>

\* ... which may have lost, doubled, exchanged or changed entries.
Fault(chain) ==
    /\ faults < MaxFaults
    /\ stored' = chain /\ faults' = faults + 1
    /\ UNCHANGED <<text, prompt, verdict, request, log>>

Lose == stored # None /\ \E i \in DOMAIN stored : Fault(RemoveAt(stored, i))
Double == stored # None /\ \E i \in DOMAIN stored : Fault(InsertAt(stored, i, stored[i]))
Exchange ==
    stored # None /\ \E i, j \in DOMAIN stored :
        i < j /\ Fault([stored EXCEPT ![i] = stored[j], ![j] = stored[i]])
Alter == stored # None /\ \E i \in DOMAIN stored : Fault([stored EXCEPT ![i].body.reason = "altered"])

ContractsNext ==
    \/ \E p \in Phrases : Type(p)
    \/ \E s \in Segments : AddSegment(s)
    \/ JudgeStatement \/ JudgeReferences \/ JudgePrompt \/ JudgeResult \/ JudgeAccess
    \/ Open
    \/ \E a \in Approvers : Approve(a) \/ Reject(a)
    \/ Cancel \/ Expire \/ Record \/ ReadChainBack
    \/ Lose \/ Double \/ Exchange \/ Alter

ContractsSpec == ContractsInit /\ [][ContractsNext]_contractsVars

-----------------------------------------------------------------------------
Optional(S) == {None} \cup S

\* A verdict, a request and an event are what the contracts' classes admit.
ContractsTypeOK ==
    /\ text \in Seq(Phrases) /\ prompt \in Seq(Segments)
    /\ request \in Optional(ApprovalRequests)
    /\ \A i \in DOMAIN log : log[i].body \in AuditEvents
    /\ verdict # None =>
         LET r == verdict.result
         IN  CASE verdict.gate = "permission" -> r \in PermissionResults
               [] verdict.gate = "boundary" -> r \in BoundaryResults
               [] verdict.gate = "credential" -> r \in CredentialResults
               [] verdict.gate = "injection" -> r \in InjectionResults
               [] verdict.gate = "result_set" -> r \in ResultSetResults
               [] verdict.gate = "read_only" -> r.reason \in ReadOnlyReasons
               [] OTHER -> TRUE

\* The code of a statement as a reader takes it, one phrase after the other:
\* `within` is the phrase whose literal or comment is being read.
Lexed(sql) ==
    LET plain(s, p) == IF p.does \cap {"quote", "dashes", "open"} # {} THEN [s EXCEPT !.within = p]
                       ELSE [s EXCEPT !.code = Append(@, p)]
        ends(s, p) == \/ Does(s.within, "quote") /\ p = s.within
                      \/ Does(s.within, "dashes") /\ Does(p, "newline")
                      \/ Does(s.within, "open") /\ Does(p, "close")
    IN  Normalize(FoldLeft(LAMBDA s, p : IF s.within = None THEN plain(s, p)
                                         ELSE IF ends(s, p) THEN [s EXCEPT !.within = None] ELSE s,
                           [within |-> None, code |-> <<>>], sql).code)

\* sanitize jumps from the opening of a literal or comment to its end, with
\* doubled quotes and missing ends; it finds exactly the code that a reader
\* finds who goes phrase by phrase.
ScansLikeSQL == Normalize(Sanitize(text)) = Lexed(text)

\* What the read-only contract allows is one statement that begins as a read and
\* has no keyword that writes, whatever its comments and literals hold, and it is
\* graded a read; what it denies is graded critical (sql_query_risk_classifier.py:
\* 315-327).  A function that writes, as in SELECT setval(...), has no such keyword
\* and is allowed, as sql_read_only_enforcement.py:33-39 says.
ReadsAreReads ==
    LET code == Lexed(text)
        allowed == Enforce(text).decision = "allow"
    IN  /\ allowed => /\ code[1].word \in ReadStart
                      /\ \A i \in DOMAIN code :
                           /\ code[i].word \notin {"INSERT", "UPDATE", "DELETE", "INTO"}
                           /\ Does(code[i], "semicolon") => i = Len(code)
        /\ allowed <=> "invalid_or_unparseable" \notin Signals(text)
        /\ ~allowed => Classify(text).level = "critical"

\* The table a name in a statement stands for: aliases first.
Meant(code, name) ==
    LET given == {p \in code : p.alias # None /\ p.alias = name}
    IN  Catalog[IF given = {} THEN name ELSE (CHOOSE p \in given : TRUE).table]

\* What a statement refers to: names resolved, a column without a table in any table
\* of the statement, stars spelled out.
SpelledOut(sql) ==
    LET code == ToSet(Lexed(sql))
        tables == {Meant(code, p.table) : p \in {q \in code : q.does \cap {"from", "join", "comma"} # {}}}
        columns(p) == (IF p.table = None THEN tables ELSE {Meant(code, p.table)}) \X {p.column}
        star(t) == \E p \in code : (Does(p, "star") /\ t \in tables)
                                  \/ (Does(p, "table_star") /\ Meant(code, p.table) = t)
    IN  Explicit(tables, (UNION {columns(p) : p \in {q \in code : q.column # None}})
                         \cup {<<r.table, r.column>> : r \in {s \in Rules : star(s.table)}})

\* No alias, no schema, no column without its table, no list of tables.
OwnNames(sql) ==
    LET code == ToSet(Lexed(sql))
    IN  \A p \in code :
            /\ ~Does(p, "comma")
            /\ p.column # None => p.table # None
            /\ p.table # None => Meant(code, p.table) = p.table

Stricter(new, old) ==
    /\ Rank(Restrictiveness, new.decision) >= Rank(Restrictiveness, old.decision)
    /\ Rank(SensitivityLevels, new.level) >= Rank(SensitivityLevels, old.level)

\* Of a statement that calls every table by its own name, extraction is never
\* milder than the explicit references would be, and no matched rule, however
\* insensitive its level, is ignored (sql_sensitive_data_policy.py:310-316, the most
\* restrictive action wins).  With an alias, a schema, a column without its table or
\* a list of tables it may be milder, as its KNOWN LIMITATIONS say.
StarIsCovered ==
    OwnNames(text) =>
        LET extracted == ResolveRefs(text)
            refs == Match(Rules, SpelledOut(text))
        IN  extracted # None =>
              \A rules \in SUBSET Rules :
                LET result == Sensitive(rules, extracted)
                IN  /\ Stricter(result, Aggregate(refs \cap rules))
                    /\ \A r \in refs \cap rules : Rank(Restrictiveness, result.decision) >= Rank(Restrictiveness, r.action)

\* The last phrase continues the digits before it.
Continued(sql) == Len(sql) > 1 /\ IsDigits(sql[Len(sql) - 1]) /\ IsDigits(sql[Len(sql)])

\* More text never makes a judgement milder: no phrase that follows takes a
\* sensitive reference or personal data back, no segment that joins a prompt
\* hides another, unless there was nothing to judge before.  Only a card number is
\* lost when digits follow its digits (_pii_value_scan.py:76, 110-113).  Phrases are
\* set off by blanks: letters glued to digits would undo a phone number as well (:74).
NeverMilder ==
    [][/\ text' # <<>> =>
            LET old == ResolveRefs(text)
                new == ResolveRefs(text')
                lost == Detect(Declared, text).summary.categories \ Detect(Declared, text').summary.categories
            IN  /\ old # None => \A rules \in SUBSET Rules : Stricter(Sensitive(rules, new), Sensitive(rules, old))
                /\ lost \subseteq (IF Continued(text') THEN {"credit_card"} ELSE {})
       /\ prompt' # <<>> =>
            LET order == <<"allow", "review", "block">>
            IN  Rank(order, Defend(prompt').disposition) >= Rank(order, Defend(prompt).disposition)]_<<text, prompt>>

\* A request is approved only by its quorum of distinct approvers, none of them
\* the requester, and none of whom, nor anyone before them, rejected it.
ApprovedByQuorum ==
    request # None /\ request.state = "approved" =>
        LET voters == {request.decisions[i].approver : i \in DOMAIN request.decisions}
        IN  /\ Cardinality(voters) >= request.required
            /\ request.requester \notin voters
            /\ \A i \in DOMAIN request.decisions : request.decisions[i].decision = "approve"

\* verify_chain names the first entry at which the chain that the store gives
\* back is not the one that was linked, and none when it is a beginning of it.
BreakIsFound ==
    stored # None =>
        LET differs == {i \in DOMAIN stored : i > Len(log) \/ stored[i] # log[i]}
        IN  VerifyChain(stored) = IF differs = {} THEN None ELSE Min(differs)
=============================================================================
