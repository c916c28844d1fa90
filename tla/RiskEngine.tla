----------------------------- MODULE RiskEngine -----------------------------
(***************************************************************************)
(* The risk engine (risk/engine.py, sql_facts.py, reversibility.py) with   *)
(* the policy it is deployed with (policies/risk_rules.yaml), and the two  *)
(* other places that parse a statement on their own: the blast radius      *)
(* estimate and the journal.                                               *)
(*                                                                         *)
(* A call is [agent, tool, sql, path, to]: the statement, the path and the *)
(* number of recipients among its arguments.  A statement is               *)
(* [kind, where, object, tables], by the class sqlglot parses it into; the *)
(* object of a DROP is "table", "alias" (a table whose name is not written *)
(* as sqlite_master has it) or something else, that of an INSERT is        *)
(* "present" if it replaces a row that is there.                           *)
(* An optional matcher of a rule is a set of at most one element.          *)
(***************************************************************************)
EXTENDS Integers, Sequences

CONSTANTS
    ProdTables,      \* prod_tables
    SensitivePaths   \* the paths that the rule's pattern finds

None == "none"

Severity == [LOW |-> 1, MEDIUM |-> 2, HIGH |-> 3]

Levels == DOMAIN Severity

\* The sql argument of a call that has none.
NoSql == [kind |-> "absent", where |-> None, object |-> None, tables |-> {}]

\* What sqlglot raises ParseError on.
Garbage == [NoSql EXCEPT !.kind = "garbage"]

\* What sqlglot raises TokenError on, such as a quote that does not end.
Unlexed == [NoSql EXCEPT !.kind = "unlexed"]

DdlKinds == {"DROP", "TRUNCATE", "ALTER", "CREATE"}

DmlKinds == {"INSERT", "UPDATE", "DELETE", "SELECT"}

\* The statements sqlglot parses: the above, "COMMAND" for syntax it keeps as
\* text, and "OTHER" for every other class.
Parsed(sql) == sql.kind \in DdlKinds \cup DmlKinds \cup {"COMMAND", "OTHER"}

\* A statement is one of these; its condition is missing, true in a way that
\* _is_tautological() sees, or neither.
WellFormed(sql) ==
    /\ sql.where \in {None, "always", "some"}
    /\ Parsed(sql) \/ sql \in {NoSql, Garbage, Unlexed}

\* Mutant: a condition that is always true counts as a condition.
UnboundedSyntactically(sql) == sql.kind \in {"DELETE", "UPDATE"} /\ sql.where = None

\* A write whose condition is missing, or one that is always true.
Unbounded(sql) == sql.kind \in {"DELETE", "UPDATE"} /\ sql.where \in {None, "always"}

\* extract_sql_facts() of a statement that parses.
SqlFacts(sql) ==
    [ddl_kind |-> IF sql.kind \in DdlKinds THEN sql.kind ELSE None,
     dml_kind |-> IF sql.kind \in DmlKinds THEN sql.kind ELSE None,
     flags |->
         {f \in {"no_where", "touches_prod_table", "unrecognized_statement"} :
             \/ f = "no_where" /\ Unbounded(sql)
             \/ f = "touches_prod_table" /\ sql.tables \cap ProdTables # {}
             \/ f = "unrecognized_statement" /\ sql.kind = "COMMAND"}]

\* What the statement matcher of a rule asks of the facts.
SqlMatches(matcher, facts) ==
    /\ \A kinds \in matcher.ddl_kind : facts.ddl_kind \in kinds
    /\ \A kinds \in matcher.dml_kind : facts.dml_kind \in kinds
    /\ matcher.flags \subseteq facts.flags

Matches(rule, call) ==
    /\ \A tools \in rule.tools : call.tool \in tools
    /\ \A paths \in rule.path : call.path \in paths
    /\ \A matcher \in rule.sql : Parsed(call.sql) /\ SqlMatches(matcher, SqlFacts(call.sql))
    /\ \A gte \in rule.recipients : call.to >= gte

\* classify(): can the effect be taken back?  Facts are missing for a statement
\* that is absent or does not parse.
Classify(call) ==
    CASE call.tool \in {"db__query", "fs__read"} -> "REVERSIBLE"
      [] call.tool \in {"fs__write", "fs__delete"} -> "COMPENSABLE"
      [] call.tool = "db__execute" /\ call.sql.kind = "SELECT" -> "REVERSIBLE"
      [] call.tool = "db__execute"
            /\ call.sql.kind \in {"DROP", "CREATE", "INSERT", "UPDATE", "DELETE"} -> "COMPENSABLE"
      [] OTHER -> "IRREVERSIBLE"

\* Mutant: a later rule overrides an earlier one.
LastMatch(rules, call) ==
    LET hits == {i \in DOMAIN rules : Matches(rules[i], call)}
    IN  IF hits = {} THEN 0 ELSE CHOOSE i \in hits : \A j \in hits : i >= j

\* The position of the first rule that matches, or of none.
FirstMatch(rules, call) ==
    LET hits == {i \in DOMAIN rules : Matches(rules[i], call)}
    IN  IF hits = {} THEN 0 ELSE CHOOSE i \in hits : \A j \in hits : i <= j

\* evaluate(): the level and the rule it comes from.  Of what is Unlexed it has none:
\* it raises.
Evaluate(rules, call) ==
    LET i == FirstMatch(rules, call)
    IN  CASE call.sql.kind = "garbage" ->
                [level |-> "HIGH", rule |-> "SQL-PARSE-ERROR-FAIL-CLOSED"]
          [] call.sql.kind # "garbage" /\ i = 0 ->
                [level |-> "MEDIUM", rule |-> "UNMATCHED-FAIL-CLOSED"]
          [] call.sql.kind # "garbage" /\ i # 0 ->
                [level |-> rules[i].level, rule |-> rules[i].id]
-----------------------------------------------------------------------------
(* The deployed policy.                                                    *)

Rule(id, level, tools) ==
    [id |-> id, level |-> level, tools |-> {tools}, path |-> {}, sql |-> {}, recipients |-> {}]

OnSql(rule, ddl, dml, flags) ==
    [rule EXCEPT !.sql = {[ddl_kind |-> ddl, dml_kind |-> dml, flags |-> flags]}]

Policy ==
    << OnSql(Rule("SQL-PROD-TABLE-HIGH", "HIGH", {"db__execute"}),
             {}, {}, {"touches_prod_table"}),
       OnSql(Rule("SQL-DESTRUCTIVE-DDL-HIGH", "HIGH", {"db__execute"}),
             {{"DROP", "TRUNCATE", "ALTER"}}, {}, {}),
       OnSql(Rule("SQL-UNBOUNDED-WRITE-HIGH", "HIGH", {"db__execute"}),
             {}, {{"DELETE", "UPDATE"}}, {"no_where"}),
       OnSql(Rule("SQL-UNRECOGNIZED-STATEMENT-HIGH", "HIGH", {"db__execute"}),
             {}, {}, {"unrecognized_statement"}),
       OnSql(Rule("SQL-WRITE-MEDIUM", "MEDIUM", {"db__execute"}),
             {}, {{"INSERT", "UPDATE", "DELETE"}}, {}),
       Rule("SQL-READ-LOW", "LOW", {"db__query"}),
       [Rule("FS-SENSITIVE-PATH-HIGH", "HIGH", {"fs__write", "fs__delete"})
            EXCEPT !.path = {SensitivePaths}],
       Rule("FS-DELETE-HIGH", "HIGH", {"fs__delete"}),
       Rule("FS-WRITE-MEDIUM", "MEDIUM", {"fs__write"}),
       Rule("FS-READ-LOW", "LOW", {"fs__read"}),
       Rule("GIT-FORCE-PUSH-HIGH", "HIGH", {"git__force_push"}),
       Rule("GIT-PUSH-MEDIUM", "MEDIUM", {"git__push"}),
       [Rule("EMAIL-BROAD-RECIPIENTS-HIGH", "HIGH", {"email__send"}) EXCEPT !.recipients = {10}],
       Rule("EMAIL-SEND-LOW", "LOW", {"email__send"}) >>
-----------------------------------------------------------------------------
(* The other readers of a statement.                                       *)

\* build_count_sql(): the statements whose rows the approval card counts.
CountsRows(sql) ==
    \/ sql.kind \in {"UPDATE", "DELETE"}
    \/ sql.kind = "DROP" /\ sql.object \in {"table", "alias"}

\* estimate_blast_radius() behind the gate's own condition on the level.
Estimates(call, level) ==
    level # "LOW" /\ call.tool = "db__execute" /\ CountsRows(call.sql)

\* Mutant: a write of every row is not captured.
CapturesBounded(call) ==
    \/ call.tool \in {"fs__write", "fs__delete"} /\ call.path # None
    \/ /\ call.tool = "db__execute"
       /\ \/ call.sql.kind \in {"UPDATE", "DELETE"} /\ call.sql.where # None
          \/ call.sql.kind = "DROP" /\ call.sql.object = "table"

\* capture(): the calls that the journal has a pre-image for.  It looks a dropped
\* table up in sqlite_master by the name as the statement writes it.
Captures(call) ==
    \/ call.tool \in {"fs__write", "fs__delete"} /\ call.path # None
    \/ /\ call.tool = "db__execute"
       /\ \/ call.sql.kind \in {"UPDATE", "DELETE"}
          \/ call.sql.kind = "DROP" /\ call.sql.object = "table"

\* The calls that overwrite or remove what a tool server holds.
Takes(call) ==
    \/ call.tool \in {"fs__write", "fs__delete"} /\ call.path # None
    \/ /\ call.tool = "db__execute"
       /\ \/ call.sql.kind \in {"UPDATE", "DELETE", "DROP", "TRUNCATE", "ALTER", "COMMAND",
                               "OTHER", "garbage"}
          \/ call.sql.kind = "INSERT" /\ call.sql.object = "present"

\* Those that classify() has down as COMPENSABLE and capture() reads nothing for: an
\* INSERT is taken to add only, and of a DROP only a table under its own name is read.
Overlooked(call) ==
    /\ call.tool = "db__execute"
    /\ \/ call.sql.kind = "INSERT"
       \/ call.sql.kind = "DROP" /\ call.sql.object # "table"

\* What a tool server does beyond a bounded, recoverable change.  tools-db runs
\* whatever db__execute is given, also what sqlglot cannot read, and refuses
\* in db__query what is not a SELECT.
Grave(call) ==
    \/ /\ call.tool = "db__execute"
       /\ \/ call.sql.kind \in {"DROP", "TRUNCATE", "ALTER", "COMMAND", "garbage", "unlexed"}
          \/ call.sql.kind \in {"DELETE", "UPDATE"} /\ call.sql.where # "some"
          \/ call.sql.kind # "SELECT" /\ call.sql.tables \cap ProdTables # {}
    \/ call.tool = "fs__delete"
    \/ call.tool = "fs__write" /\ call.path \in SensitivePaths
    \/ call.tool = "git__force_push"
    \/ call.tool = "email__send" /\ call.to >= 10
=============================================================================
