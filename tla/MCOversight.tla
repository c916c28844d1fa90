---------------------------- MODULE MCOversight -----------------------------
(***************************************************************************)
(* Instances of Oversight for TLC: every shape of call on its own, and the *)
(* pairs of calls whose rows meet in the table.                            *)
(***************************************************************************)
EXTENDS Oversight

CONSTANTS a1, a2

Statement(kind, where, object, tables) ==
    [kind |-> kind, where |-> where, object |-> object, tables |-> tables]

Targets == {{"staging"}, {"orders"}}

Statements ==
    {Statement(k, w, None, t) : k \in {"UPDATE", "DELETE"}, w \in {None, "always", "some"}, t \in Targets}
    \cup {Statement("DROP", None, o, t) : o \in {"table", "alias", "index"}, t \in Targets}
    \cup {Statement("INSERT", None, o, t) : o \in {None, "present"}, t \in Targets}
    \cup {Statement(k, None, None, t) : k \in {"SELECT", "CREATE", "TRUNCATE", "ALTER", "COMMAND", "OTHER"},
                                        t \in Targets}
    \cup {NoSql, Garbage, Unlexed}

Db(agent, tool, sql) == [agent |-> agent, tool |-> tool, sql |-> sql, path |-> None, to |-> 0]

File(agent, tool, path) == [agent |-> agent, tool |-> tool, sql |-> NoSql, path |-> path, to |-> 0]

Other(tool, to) == [agent |-> a1, tool |-> tool, sql |-> NoSql, path |-> None, to |-> to]

Shapes ==
    {Db(a1, t, s) : t \in {"db__query", "db__execute"}, s \in Statements}
    \cup {File(a1, t, p) : t \in {"fs__read", "fs__write", "fs__delete"}, p \in {"notes", "secrets"}}
    \cup {Other(t, 0) : t \in {"git__push", "git__force_push"}}
    \cup {Other("email__send", n) : n \in {1, 9, 10}}

MCScripts ==
    {<<call>> : call \in Shapes}
    \cup {<<File(a1, "fs__read", "notes"), File(a1, "fs__read", "notes")>>,
          <<File(a1, "fs__delete", "notes"), File(a1, "fs__read", "notes")>>,
          <<File(a1, "fs__write", "notes"), File(a1, "fs__delete", "notes")>>,
          <<File(a1, "fs__read", "notes"), File(a2, "fs__read", "notes")>>}
=============================================================================
