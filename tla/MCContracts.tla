---------------------------- MODULE MCContracts ----------------------------
(* The phrases, rules, prompts, results and requests of the instance.       *)
EXTENDS Contracts

Plain(word) == [word |-> word, does |-> {}, joins |-> 0, table |-> None, column |-> None, alias |-> None,
                names |-> {}, values |-> {}, digits |-> 0, sums |-> <<0, 0>>]
Doing(word, does) == [Plain(word) EXCEPT !.does = does]
On(word, does, table) == [Doing(word, does) EXCEPT !.table = table]
Marks == {Doing("'", {"quote"}), Doing("--", {"dashes"}), Doing("newline", {"newline"}), Doing("/*", {"open"}),
          Doing("*/", {"close"}), Doing(";", {"semicolon"})}

MCPhrases ==
    Marks \cup
    {Doing("SELECT", {"star"}), On("SELECT", {"table_star", "effect"}, "users"), Plain("DELETE"),
     [On("FROM", {"from"}, "users") EXCEPT !.alias = "u"], On(",", {"comma"}, "orders"),
     [On("JOIN", {"join"}, "public.orders") EXCEPT !.joins = 4],
     [Doing("WHERE", {"where", "limit"}) EXCEPT !.names = {"diagnosis"}],
     [Plain("users") EXCEPT !.table = "users", !.column = "ssn", !.names = {"ssn"}, !.values = {"email"}],
     [Plain("u") EXCEPT !.table = "u", !.column = "ssn", !.names = {"ssn"}],
     \* 4111111111111111, and 5: together they are no card number.
     [Plain("digits") EXCEPT !.digits = 16, !.sums = <<30, 27>>], [Plain("digits") EXCEPT !.digits = 1, !.sums = <<5, 1>>]}

MCCatalog == [t \in {"users", "public.orders", "orders", "u"} |-> IF t = "public.orders" THEN "orders" ELSE t]

Rule(table, column, level, action) == [table |-> table, column |-> column, level |-> level, action |-> action]
MCRules ==
    {Rule("users", "ssn", "confidential", "deny"), Rule("users", None, "restricted", "requires_approval"),
     Rule("orders", None, "confidential", "requires_approval")}
MCDeclared == {[id |-> <<"users", "ssn">>, category |-> "ssn"]}

Segment(source, blank, hits, hidden) == [source |-> source, blank |-> blank, hits |-> hits, hidden |-> hidden]
MCSegments ==
    {Segment("direct", FALSE, {}, {}), Segment("direct", TRUE, {}, {}), Segment("direct", TRUE, {}, {"zero_width"}),
     Segment("direct", FALSE, {"medium"}, {"hex"}), Segment("direct", FALSE, {"high"}, {}),
     Segment("indirect", FALSE, {}, {"hex"}), Segment("indirect", FALSE, {"medium"}, {}),
     Segment("direct", FALSE, {}, {"base64", "hex"})}

Cell(bytes, null, values) == [bytes |-> bytes, null |-> null, values |-> values]
MCRows ==
    {<<Cell(1, FALSE, {})>>, <<Cell(4, TRUE, {})>>, <<Cell(11, FALSE, {"ssn", "phone"})>>,
     <<Cell(1, FALSE, {}), Cell(16, FALSE, {"credit_card"})>>}
MCPolicies == [rows : {None, 0, 1, 2}, bytes : {None, 0, 4, 12}, columns : {None, 1}, truncate : BOOLEAN]

MCPermissionRules ==
    [action : {"execute_sql"}, type : {"table"}, id : {"users"}, decision : {"allow", "deny", "requires_approval"}]
    \cup [action : {"execute_sql"}, type : {"table"}, id : {"orders"}, decision : {"allow"}]
MCPermissionRequests ==
    [subject : {None, "u"}, action : {"execute_sql", "drop_database"}, type : {"table", "server"}, id : {None, "users"}]
Scopes == {None, "t1", "t2"} \X {None, "w1", "w2"}
MCBoundaryRequests == Scopes \X Scopes
MCCredentialRequests ==
    [leaks : {{}, {"endpoint.host"}}, mode : {"secret_ref", "none"}, provider : {"vault", "env"}, environment : {"dev", "prod"},
     profile : {"dev", "prod"}, tenant : {"t1", "t2"}, purpose : {"execution", "non_execution"}]
MCCredentialPolicies == {[owner |-> "t1", providers |-> {"vault"}, environments |-> {"prod"}]}
=============================================================================
