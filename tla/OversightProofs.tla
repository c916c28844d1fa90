-------------------------- MODULE OversightProofs ---------------------------
(***************************************************************************)
(* Proofs about RiskEngine and Oversight: what the engine decides under    *)
(* every list of rules, that no grave call runs without a human's approval *)
(* under the deployed one, that an action flagged as a first touch is the  *)
(* first, that what was counted for the operator is in the journal, that   *)
(* the two detectors catch what they are for, and that a score, a sum over *)
(* any number of rows, falls only with their age.                          *)
(***************************************************************************)
EXTENDS Oversight, FiniteSetTheorems, TLAPS

\* A set of natural numbers that is not empty has a least element.
LEMMA Least ==
    ASSUME NEW S \in SUBSET Nat, S # {}
    PROVE  \E i \in S : \A j \in S : i <= j
<1>1. PICK i \in S : \A j \in S : ~ (<<j, i>> \in OpToRel(<, Nat))
  BY NatLessThanWellFounded, WFMin, Zenon
<1>2. ASSUME NEW j \in S PROVE i <= j
  <2>1. i \in Nat /\ j \in Nat
    OBVIOUS
  <2>2. j < i => <<j, i>> \in OpToRel(<, Nat)
    BY <2>1, Zenon DEF OpToRel
  <2>3. ~(j < i)
    BY <1>1, <2>2, Zenon
  <2> QED BY <2>1, <2>3
<1> QED BY <1>1, <1>2

\* The first rule that matches decides, whatever the rules (engine.py, evaluate).
LEMMA FirstMatchDecides ==
    ASSUME NEW n \in Nat, NEW rules, DOMAIN rules = 1 .. n, NEW call
    PROVE  LET i == FirstMatch(rules, call)
           IN  \/ i = 0 /\ \A j \in DOMAIN rules : ~Matches(rules[j], call)
               \/ /\ i \in DOMAIN rules
                  /\ Matches(rules[i], call)
                  /\ \A j \in 1 .. i - 1 : ~Matches(rules[j], call)
<1> DEFINE hits == {i \in DOMAIN rules : Matches(rules[i], call)}
<1>1. CASE hits = {}
  BY <1>1 DEF FirstMatch
<1>2. CASE hits # {}
  <2>1. hits \in SUBSET Nat
    OBVIOUS
  <2>2. \E i \in hits : \A j \in hits : i <= j
    BY <1>2, <2>1, Least
  <2>3. FirstMatch(rules, call) = CHOOSE i \in hits : \A j \in hits : i <= j
    BY <1>2 DEF FirstMatch
  <2> DEFINE first == FirstMatch(rules, call)
  <2>4. first \in hits /\ \A j \in hits : first <= j
    BY <2>2, <2>3
  <2> HIDE DEF first
  <2>5. first \in DOMAIN rules /\ Matches(rules[first], call)
    BY <2>4
  <2>6. ASSUME NEW j \in 1 .. first - 1 PROVE ~Matches(rules[j], call)
    BY <2>4, <2>5
  <2> QED BY <2>5, <2>6 DEF first
<1> QED BY <1>1, <1>2
-----------------------------------------------------------------------------
(* The deployed policy.                                                    *)

\* The tools and levels of the deployed rules, where the proofs below need them.
LEMMA PolicyRules ==
    /\ DOMAIN Policy = 1 .. 14
    /\ \A i \in 1 .. 4 : Policy[i].level = "HIGH" /\ Policy[i].tools = {{"db__execute"}}
    /\ Policy[5].tools = {{"db__execute"}} /\ Policy[6].tools = {{"db__query"}}
    /\ Policy[7].level = "HIGH" /\ Policy[7].tools = {{"fs__write", "fs__delete"}}
    /\ Policy[8].level = "HIGH" /\ Policy[8].tools = {{"fs__delete"}}
    /\ Policy[9].tools = {{"fs__write"}} /\ Policy[10].tools = {{"fs__read"}}
    /\ Policy[11].level = "HIGH" /\ Policy[11].tools = {{"git__force_push"}}
    /\ Policy[12].tools = {{"git__push"}}
    /\ Policy[13].level = "HIGH" /\ Policy[13].tools = {{"email__send"}}
    /\ Policy[14].tools = {{"email__send"}}
<1>1. DOMAIN Policy = 1 .. 14
  BY DEF Policy
<1>2. Policy[1].level = "HIGH" /\ Policy[1].tools = {{"db__execute"}}
  BY DEF Policy, Rule, OnSql
<1>3. Policy[2].level = "HIGH" /\ Policy[2].tools = {{"db__execute"}}
  BY DEF Policy, Rule, OnSql
<1>4. Policy[3].level = "HIGH" /\ Policy[3].tools = {{"db__execute"}}
  BY DEF Policy, Rule, OnSql
<1>5. Policy[4].level = "HIGH" /\ Policy[4].tools = {{"db__execute"}}
  BY DEF Policy, Rule, OnSql
<1>6. Policy[5].tools = {{"db__execute"}} /\ Policy[6].tools = {{"db__query"}}
  BY DEF Policy, Rule, OnSql
<1>7. /\ Policy[7].level = "HIGH" /\ Policy[7].tools = {{"fs__write", "fs__delete"}}
      /\ Policy[8].level = "HIGH" /\ Policy[8].tools = {{"fs__delete"}}
      /\ Policy[9].tools = {{"fs__write"}} /\ Policy[10].tools = {{"fs__read"}}
  BY DEF Policy, Rule
<1>8. /\ Policy[11].level = "HIGH" /\ Policy[11].tools = {{"git__force_push"}}
      /\ Policy[12].tools = {{"git__push"}}
      /\ Policy[13].level = "HIGH" /\ Policy[13].tools = {{"email__send"}}
      /\ Policy[14].tools = {{"email__send"}}
  BY DEF Policy, Rule
<1> HIDE DEF Policy
<1>9. \A i \in 1 .. 4 : i = 1 \/ i = 2 \/ i = 3 \/ i = 4
  OBVIOUS
<1> QED BY <1>1, <1>2, <1>3, <1>4, <1>5, <1>6, <1>7, <1>8, <1>9

\* The matchers of the rules that hold a grave call.
LEMMA PolicyMatchers ==
    /\ \A i \in 1 .. 4 : Policy[i].path = {} /\ Policy[i].recipients = {}
    /\ Policy[1].sql = {[ddl_kind |-> {}, dml_kind |-> {}, flags |-> {"touches_prod_table"}]}
    /\ Policy[2].sql = {[ddl_kind |-> {{"DROP", "TRUNCATE", "ALTER"}}, dml_kind |-> {}, flags |-> {}]}
    /\ Policy[3].sql = {[ddl_kind |-> {}, dml_kind |-> {{"DELETE", "UPDATE"}}, flags |-> {"no_where"}]}
    /\ Policy[4].sql = {[ddl_kind |-> {}, dml_kind |-> {}, flags |-> {"unrecognized_statement"}]}
    /\ Policy[7].path = {SensitivePaths} /\ Policy[7].sql = {} /\ Policy[7].recipients = {}
    /\ Policy[8].path = {} /\ Policy[8].sql = {} /\ Policy[8].recipients = {}
    /\ Policy[11].path = {} /\ Policy[11].sql = {} /\ Policy[11].recipients = {}
    /\ Policy[13].path = {} /\ Policy[13].sql = {} /\ Policy[13].recipients = {10}
<1>1. /\ Policy[1].path = {} /\ Policy[1].recipients = {}
      /\ Policy[1].sql = {[ddl_kind |-> {}, dml_kind |-> {}, flags |-> {"touches_prod_table"}]}
  BY DEF Policy, Rule, OnSql
<1>2. /\ Policy[2].path = {} /\ Policy[2].recipients = {}
      /\ Policy[2].sql = {[ddl_kind |-> {{"DROP", "TRUNCATE", "ALTER"}}, dml_kind |-> {}, flags |-> {}]}
  BY DEF Policy, Rule, OnSql
<1>3. /\ Policy[3].path = {} /\ Policy[3].recipients = {}
      /\ Policy[3].sql = {[ddl_kind |-> {}, dml_kind |-> {{"DELETE", "UPDATE"}}, flags |-> {"no_where"}]}
  BY DEF Policy, Rule, OnSql
<1>4. /\ Policy[4].path = {} /\ Policy[4].recipients = {}
      /\ Policy[4].sql = {[ddl_kind |-> {}, dml_kind |-> {}, flags |-> {"unrecognized_statement"}]}
  BY DEF Policy, Rule, OnSql
<1>5. /\ Policy[7].path = {SensitivePaths} /\ Policy[7].sql = {} /\ Policy[7].recipients = {}
      /\ Policy[8].path = {} /\ Policy[8].sql = {} /\ Policy[8].recipients = {}
      /\ Policy[11].path = {} /\ Policy[11].sql = {} /\ Policy[11].recipients = {}
      /\ Policy[13].path = {} /\ Policy[13].sql = {} /\ Policy[13].recipients = {10}
  BY DEF Policy, Rule
<1> HIDE DEF Policy
<1>6. \A i \in 1 .. 4 : i = 1 \/ i = 2 \/ i = 3 \/ i = 4
  OBVIOUS
<1> QED BY <1>1, <1>2, <1>3, <1>4, <1>5, <1>6

\* A rule does not match the calls of another tool.
LEMMA OtherToolsRules ==
    ASSUME NEW call
    PROVE  /\ call.tool \notin {"db__execute", "db__query"} =>
                  \A j \in 1 .. 6 : ~Matches(Policy[j], call)
           /\ call.tool \in {"git__force_push", "email__send"} =>
                  \A j \in 1 .. 10 : ~Matches(Policy[j], call)
           /\ call.tool = "email__send" =>
                  \A j \in 1 .. 12 : ~Matches(Policy[j], call)
<1>1. ASSUME NEW j, NEW tools, Policy[j].tools = {tools}, call.tool \notin tools
      PROVE  ~Matches(Policy[j], call)
  BY <1>1 DEF Matches
<1>2. ASSUME call.tool \notin {"db__execute", "db__query"}, NEW j \in 1 .. 6
      PROVE  ~Matches(Policy[j], call)
  <2>1. Policy[j].tools = {{"db__execute"}} \/ Policy[j].tools = {{"db__query"}}
    BY PolicyRules
  <2> QED BY <1>1, <1>2, <2>1
<1>3. ASSUME call.tool \in {"git__force_push", "email__send"}, NEW j \in 7 .. 10
      PROVE  ~Matches(Policy[j], call)
  <2>1. \/ Policy[j].tools = {{"fs__write", "fs__delete"}} \/ Policy[j].tools = {{"fs__delete"}}
        \/ Policy[j].tools = {{"fs__write"}} \/ Policy[j].tools = {{"fs__read"}}
    BY PolicyRules
  <2> QED BY <1>1, <1>3, <2>1
<1>4. ASSUME call.tool = "email__send", NEW j \in 11 .. 12
      PROVE  ~Matches(Policy[j], call)
  <2>1. Policy[j].tools = {{"git__force_push"}} \/ Policy[j].tools = {{"git__push"}}
    BY PolicyRules
  <2> QED BY <1>1, <1>4, <2>1
<1>5. \A j \in 1 .. 10 : j \in 1 .. 6 \/ j \in 7 .. 10
  OBVIOUS
<1>6. \A j \in 1 .. 12 : j \in 1 .. 10 \/ j \in 11 .. 12
  OBVIOUS
<1> QED BY <1>2, <1>3, <1>4, <1>5, <1>6

\* A rule that matches, with none before it of another level, gives its level.
LEMMA FirstMatchLevel ==
    ASSUME NEW call, NEW i \in 1 .. 14, Matches(Policy[i], call),
           \A j \in 1 .. i : Matches(Policy[j], call) => Policy[j].level = "HIGH"
    PROVE  Evaluate(Policy, call).level = "HIGH"
<1> DEFINE first == FirstMatch(Policy, call)
<1>1. \/ first = 0 /\ \A j \in DOMAIN Policy : ~Matches(Policy[j], call)
      \/ /\ first \in DOMAIN Policy
         /\ Matches(Policy[first], call)
         /\ \A j \in 1 .. first - 1 : ~Matches(Policy[j], call)
  BY PolicyRules, FirstMatchDecides
<1> HIDE DEF first
<1>2. first \in 1 .. 14 /\ Matches(Policy[first], call)
  BY <1>1, PolicyRules
<1>3. first <= i
  BY <1>1, <1>2
<1>4. Policy[first].level = "HIGH"
  BY <1>2, <1>3
<1>5. first # 0
  BY <1>2
<1> QED BY <1>4, <1>5 DEF Evaluate, first

\* A grave statement that parses matches one of the four rules that hold it.
LEMMA GraveStatementIsHigh ==
    ASSUME NEW call, WellFormed(call.sql), Grave(call), call.tool = "db__execute",
           call.sql.kind \notin {"garbage", "unlexed"}
    PROVE  \E i \in 1 .. 4 : Matches(Policy[i], call)
<1> USE DEF None, DdlKinds, DmlKinds
<1>1. Parsed(call.sql)
  BY DEF Grave, WellFormed, NoSql, Garbage, Unlexed
<1> DEFINE facts == SqlFacts(call.sql)
<1>2. ASSUME call.sql.kind \in {"DROP", "TRUNCATE", "ALTER"}
      PROVE  Matches(Policy[2], call)
  <2>1. facts.ddl_kind = call.sql.kind
    BY <1>2 DEF SqlFacts
  <2> HIDE DEF facts
  <2> QED BY <1>1, <1>2, <2>1, PolicyRules, PolicyMatchers DEF Matches, SqlMatches, facts
<1>3. ASSUME call.sql.kind = "COMMAND"
      PROVE  Matches(Policy[4], call)
  <2>1. "unrecognized_statement" \in facts.flags
    BY <1>3 DEF SqlFacts
  <2> HIDE DEF facts
  <2> QED BY <1>1, <2>1, PolicyRules, PolicyMatchers DEF Matches, SqlMatches, facts
<1>4. ASSUME call.sql.kind \in {"DELETE", "UPDATE"}, call.sql.where # "some"
      PROVE  Matches(Policy[3], call)
  <2>1. Unbounded(call.sql)
    BY <1>4 DEF WellFormed, Unbounded
  <2>2. "no_where" \in facts.flags /\ facts.dml_kind = call.sql.kind
    BY <1>4, <2>1 DEF SqlFacts
  <2> HIDE DEF facts
  <2> QED BY <1>1, <1>4, <2>2, PolicyRules, PolicyMatchers DEF Matches, SqlMatches, facts
<1>5. ASSUME call.sql.tables \cap ProdTables # {}
      PROVE  Matches(Policy[1], call)
  <2>1. "touches_prod_table" \in facts.flags
    BY <1>5 DEF SqlFacts
  <2> HIDE DEF facts
  <2> QED BY <1>1, <2>1, PolicyRules, PolicyMatchers DEF Matches, SqlMatches, facts
<1> QED BY <1>2, <1>3, <1>4, <1>5 DEF Grave

\* The deployed policy gives every grave call that it can read at all the level that is
\* held.
THEOREM GraveIsHigh ==
    ASSUME NEW call, WellFormed(call.sql), call.sql # Unlexed, Grave(call)
    PROVE  Evaluate(Policy, call).level = "HIGH"
<1>1. CASE call.sql.kind = "garbage"
  BY <1>1 DEF Evaluate
<1>0. call.sql.kind # "unlexed"
  BY DEF WellFormed, Parsed, DdlKinds, DmlKinds, NoSql, Garbage, Unlexed
<1>2. CASE call.tool = "db__execute" /\ call.sql.kind # "garbage"
  <2>1. PICK i \in 1 .. 4 : Matches(Policy[i], call)
    BY <1>0, <1>2, GraveStatementIsHigh
  <2>2. \A j \in 1 .. i : Policy[j].level = "HIGH"
    BY PolicyRules
  <2> QED BY <2>1, <2>2, FirstMatchLevel
<1>3. CASE call.tool \in {"fs__delete", "fs__write"}
  <2>1. \A j \in 1 .. 6 : ~Matches(Policy[j], call)
    BY <1>3, OtherToolsRules
  <2>2. CASE call.tool = "fs__delete"
    <3>1. Matches(Policy[8], call)
      BY <2>2, PolicyRules, PolicyMatchers DEF Matches
    <3>2. \A j \in 1 .. 8 : Matches(Policy[j], call) => Policy[j].level = "HIGH"
      BY <2>1, PolicyRules
    <3> QED BY <3>1, <3>2, FirstMatchLevel
  <2>3. CASE call.tool = "fs__write"
    <3>1. call.path \in SensitivePaths
      BY <2>3 DEF Grave
    <3>2. Matches(Policy[7], call)
      BY <2>3, <3>1, PolicyRules, PolicyMatchers DEF Matches
    <3>3. \A j \in 1 .. 7 : Matches(Policy[j], call) => Policy[j].level = "HIGH"
      BY <2>1, PolicyRules
    <3> QED BY <3>2, <3>3, FirstMatchLevel
  <2> QED BY <1>3, <2>2, <2>3
<1>4. CASE call.tool = "git__force_push"
  <2>1. Matches(Policy[11], call)
    BY <1>4, PolicyRules, PolicyMatchers DEF Matches
  <2>2. \A j \in 1 .. 10 : ~Matches(Policy[j], call)
    BY <1>4, OtherToolsRules
  <2> QED BY <2>1, <2>2, PolicyRules, FirstMatchLevel
<1>5. CASE call.tool = "email__send"
  <2>1. call.to >= 10
    BY <1>5 DEF Grave
  <2>2. Matches(Policy[13], call)
    BY <1>5, <2>1, PolicyRules, PolicyMatchers DEF Matches
  <2>3. \A j \in 1 .. 12 : ~Matches(Policy[j], call)
    BY <1>5, OtherToolsRules
  <2> QED BY <2>2, <2>3, PolicyRules, FirstMatchLevel
<1> QED BY <1>1, <1>2, <1>3, <1>4, <1>5 DEF Grave
\* Every rule has one of the three levels.
LEMMA PolicyLevels == \A i \in DOMAIN Policy : Policy[i].level \in Levels
<1>1. /\ Policy[5].level \in Levels /\ Policy[6].level \in Levels
  BY DEF Policy, Rule, OnSql, Levels, Severity
<1>2. /\ Policy[9].level \in Levels /\ Policy[10].level \in Levels
      /\ Policy[12].level \in Levels /\ Policy[14].level \in Levels
  BY DEF Policy, Rule, Levels, Severity
<1>3. "HIGH" \in Levels
  BY DEF Levels, Severity
<1>4. \A i \in 1 .. 14 : i \in 1 .. 4 \/ i = 5 \/ i = 6 \/ i = 7 \/ i = 8 \/ i = 9 \/ i = 10
                         \/ i = 11 \/ i = 12 \/ i = 13 \/ i = 14
  OBVIOUS
<1> QED BY <1>1, <1>2, <1>3, <1>4, PolicyRules

\* So has every verdict.
LEMMA EvaluateLevel == ASSUME NEW call PROVE Evaluate(Policy, call).level \in Levels
<1>1. {"HIGH", "MEDIUM"} \subseteq Levels
  BY DEF Levels, Severity
<1>2. FirstMatch(Policy, call) = 0 \/ FirstMatch(Policy, call) \in DOMAIN Policy
  BY FirstMatchDecides, PolicyRules
<1> QED BY <1>1, <1>2, PolicyLevels DEF Evaluate

\* After a rule that does not hold, no rule is for the same tool.
LEMMA LaterRules ==
    ASSUME NEW call, NEW i \in 1 .. 14, NEW j \in i + 1 .. 14,
           Matches(Policy[i], call), Matches(Policy[j], call)
    PROVE  Policy[i].level = "HIGH"
<1>1. ASSUME NEW k \in 1 .. 14, Matches(Policy[k], call)
      PROVE  /\ k \in 1 .. 5 => call.tool = "db__execute"
             /\ k = 6 => call.tool = "db__query"
             /\ k \in 7 .. 8 => call.tool \in {"fs__write", "fs__delete"}
             /\ k = 9 => call.tool = "fs__write"
             /\ k = 10 => call.tool = "fs__read"
             /\ k = 11 => call.tool = "git__force_push"
             /\ k = 12 => call.tool = "git__push"
             /\ k \in 13 .. 14 => call.tool = "email__send"
  <2>1. \A tools : Policy[k].tools = {tools} => call.tool \in tools
    BY <1>1 DEF Matches
  <2>2. k \in 1 .. 5 => call.tool = "db__execute"
    <3>1. k \in 1 .. 5 => k \in 1 .. 4 \/ k = 5
      OBVIOUS
    <3> QED BY <2>1, <3>1, PolicyRules
  <2>3. k \in 7 .. 8 => call.tool \in {"fs__write", "fs__delete"}
    <3>1. k \in 7 .. 8 => k = 7 \/ k = 8
      OBVIOUS
    <3> QED BY <2>1, <3>1, PolicyRules
  <2>4. k \in 13 .. 14 => call.tool = "email__send"
    <3>1. k \in 13 .. 14 => k = 13 \/ k = 14
      OBVIOUS
    <3> QED BY <2>1, <3>1, PolicyRules
  <2>5. /\ k = 6 => call.tool = "db__query"
        /\ k = 9 => call.tool = "fs__write"
    BY <2>1, PolicyRules
  <2>6. /\ k = 10 => call.tool = "fs__read"
        /\ k = 11 => call.tool = "git__force_push"
        /\ k = 12 => call.tool = "git__push"
    BY <2>1, PolicyRules
  <2> QED BY <2>2, <2>3, <2>4, <2>5, <2>6
<1>2. i \in 1 .. 4 \/ i \in {7, 8, 11, 13}
  <2>1. i \notin {5, 6, 9, 10, 12, 14}
    BY <1>1
  <2> QED BY <2>1
<1>3. i \in 1 .. 4 => Policy[i].level = "HIGH"
  BY PolicyRules
<1> QED BY <1>2, <1>3, PolicyRules

\* The order of the deployed rules hides none that is more severe from any call.
THEOREM OrderHidesNothing ==
    ASSUME NEW call, NEW r \in DOMAIN Policy, Matches(Policy[r], call)
    PROVE  Severity[Policy[r].level] <= Severity[Evaluate(Policy, call).level]
<1>1. \A l \in Levels : Severity[l] \in 1 .. 3 /\ Severity["HIGH"] = 3
  BY DEF Levels, Severity
<1>2. Policy[r].level \in Levels
  BY PolicyLevels
<1> DEFINE first == FirstMatch(Policy, call)
<1>3. \/ first = 0 /\ \A j \in DOMAIN Policy : ~Matches(Policy[j], call)
      \/ /\ first \in DOMAIN Policy
         /\ Matches(Policy[first], call)
         /\ \A j \in 1 .. first - 1 : ~Matches(Policy[j], call)
  BY PolicyRules, FirstMatchDecides
<1>4. call.sql.kind # "garbage" /\ first # 0 => Evaluate(Policy, call).level = Policy[first].level
  BY DEF Evaluate
<1> HIDE DEF first
<1>5. first # 0
  BY <1>3, PolicyRules
<1>6. CASE call.sql.kind = "garbage"
  BY <1>1, <1>2, <1>6 DEF Evaluate
<1>7. CASE call.sql.kind # "garbage" /\ r = first
  BY <1>1, <1>2, <1>4, <1>5, <1>7
<1>8. CASE call.sql.kind # "garbage" /\ r # first
  <2>1. first \in 1 .. 14 /\ r \in first + 1 .. 14
    BY <1>3, <1>5, <1>8, PolicyRules
  <2>2. Policy[first].level = "HIGH"
    BY <1>3, <1>5, <2>1, LaterRules
  <2> QED BY <1>1, <1>2, <1>4, <1>5, <1>8, <2>2
<1> QED BY <1>6, <1>7, <1>8
-----------------------------------------------------------------------------
(* The inductive invariant of Oversight.                                   *)

\* The level of call c's verdict.
LevelOf(c) == Evaluate(Policy, script[c]).level

RowSet ==
    [of : Calls, kind : {"call", "undo"}, status : Statuses, level : Levels, counted : BOOLEAN,
     requested_at : Nat, resolved_at : Nat, novel : BOOLEAN]

Stages == {"idle", "submit", "hold", "execute", "ran", "refused", "failed", "lost"}

Typed ==
    /\ phase \in {"serving", "down"}
    /\ script \in Scripts
    /\ now \in Nat
    /\ store \in Seq(RowSet)
    /\ durable \in Seq(RowSet)
    /\ pc \in [Calls -> Stages]
    /\ creep \in [Calls -> {"none", "due", "novel", "marked", "done"}]
    /\ ran \in SUBSET Calls

\* Row i of a table is the one that submit() inserted for call c.
IsRow(table, i, c) == i \in DOMAIN table /\ table[i].of = c /\ table[i].kind = "call"

\* What is durable is the beginning of the table, but for flags not yet committed.
DurableIsPrefix ==
    /\ Len(durable) <= Len(store)
    /\ \A i \in DOMAIN durable :
            /\ durable[i].of = store[i].of
            /\ durable[i].kind = store[i].kind
            /\ durable[i].status = store[i].status
            /\ durable[i].level = store[i].level
            /\ durable[i].novel => store[i].novel

\* A call has at most one row, none before it is made.
OneRow ==
    /\ \A c \in Calls : \A i, j \in DOMAIN store : IsRow(store, i, c) /\ IsRow(store, j, c) => i = j
    /\ \A c \in Calls : \A i \in DOMAIN store : IsRow(store, i, c) => pc[c] # "idle"

\* Where a call is, and what its row then says.
CallFacts ==
    \A c \in Calls :
        /\ pc[c] # "idle" => c \in DOMAIN script
        /\ pc[c] \notin {"idle", "failed"} => script[c].sql # Unlexed
        /\ pc[c] = "submit" => \E i \in DOMAIN store : IsRow(store, i, c)
        /\ pc[c] \in {"hold", "execute"} \/ c \in ran \/ creep[c] \in {"due", "novel", "marked"}
               => \E i \in DOMAIN durable : IsRow(durable, i, c)
        /\ c \in ran => pc[c] = "ran"
        /\ phase = "down" => pc[c] \notin {"submit", "hold", "execute"}

\* A held level is never let through by itself, and what runs was let through.
RowFacts ==
    \A i \in DOMAIN store : store[i].kind = "call" =>
        LET c == store[i].of
        IN  /\ store[i].status = "AUTO_ALLOWED" => LevelOf(c) # "HIGH"
            /\ pc[c] = "submit" => store[i].status \in {"PENDING", "AUTO_ALLOWED"}
            /\ pc[c] = "execute" \/ c \in ran => store[i].status \in Allowed

\* The level in a row is that of the call's verdict.
LevelFacts == \A i \in DOMAIN store : store[i].level = LevelOf(store[i].of)

\* No earlier row has the resource of a call that is about to be flagged, or of one
\* that is.
FlagFacts ==
    /\ \A i \in DOMAIN store : store[i].novel =>
            \A j \in 1 .. i - 1 : ~SameResource(store[i].of, store[j].of)
    /\ \A c \in Calls : creep[c] = "novel" =>
            \A i \in DOMAIN store : IsRow(store, i, c) =>
                \A j \in 1 .. i - 1 : ~SameResource(c, store[j].of)

OversightInv == Typed /\ DurableIsPrefix /\ OneRow /\ CallFacts /\ RowFacts /\ LevelFacts /\ FlagFacts

\* A call in the gate or in its creep check has its row, and RowOf finds it.
LEMMA RowOfFinds ==
    ASSUME OversightInv, NEW c \in Calls,
           \/ pc[c] \in {"submit", "hold", "execute"}
           \/ c \in ran
           \/ creep[c] \in {"due", "novel", "marked"}
    PROVE  /\ RowOf(c) \in DOMAIN store
           /\ IsRow(store, RowOf(c), c)
           /\ RowsOf(c) = {RowOf(c)}
           /\ Status(c) = store[RowOf(c)].status
<1>1. PICK i \in DOMAIN store : IsRow(store, i, c)
  BY DEF OversightInv, Typed, CallFacts, DurableIsPrefix, IsRow
<1>2. RowsOf(c) = {i}
  BY <1>1 DEF RowsOf, OversightInv, OneRow, IsRow
<1>3. RowOf(c) = i
  BY <1>2 DEF RowOf
<1> QED BY <1>1, <1>2, <1>3 DEF Status

\* A step that inserts nothing keeps the rows of each call.
LEMMA OneRowKept ==
    ASSUME OversightInv, DOMAIN store' \subseteq DOMAIN store,
           \A i \in DOMAIN store' : store'[i].of = store[i].of /\ store'[i].kind = store[i].kind,
           \A c \in Calls : pc'[c] = "idle" => pc[c] = "idle"
    PROVE  OneRow'
<1>1. \A i, c : IsRow(store', i, c) => IsRow(store, i, c)
  BY DEF IsRow
<1>2. OneRow
  BY DEF OversightInv
<1> QED BY <1>1, <1>2 DEF OneRow, IsRow

\* A row stays in the durable table, whatever is committed.
LEMMA RowsStayDurable ==
    ASSUME OversightInv, durable' \in {store, durable}
    PROVE  \A c \in Calls : (\E i \in DOMAIN durable : IsRow(durable, i, c))
                             => \E i \in DOMAIN durable' : IsRow(durable', i, c)
<1>1. \A i \in DOMAIN durable : /\ i \in DOMAIN store /\ durable[i].of = store[i].of
                                /\ durable[i].kind = store[i].kind
  BY DEF OversightInv, Typed, DurableIsPrefix
<1> QED BY <1>1 DEF IsRow

\* A step that inserts nothing keeps the levels.
LEMMA LevelsKept ==
    ASSUME OversightInv, UNCHANGED script, DOMAIN store' \subseteq DOMAIN store,
           \A i \in DOMAIN store' : store'[i].of = store[i].of /\ store'[i].level = store[i].level
    PROVE  LevelFacts'
BY DEF OversightInv, LevelFacts, LevelOf

\* The inductive invariant holds at the start.
LEMMA InitInv == Init => OversightInv
<1> SUFFICES ASSUME Init PROVE OversightInv
  OBVIOUS
<1>1. Typed
  BY DEF Init, Typed, Stages
<1>2. DurableIsPrefix /\ OneRow /\ RowFacts /\ LevelFacts /\ FlagFacts
  BY DEF Init, DurableIsPrefix, OneRow, RowFacts, LevelFacts, FlagFacts
<1>3. CallFacts
  BY DEF Init, CallFacts
<1> QED BY <1>1, <1>2, <1>3 DEF OversightInv

\* A step that changes neither the table nor the calls.
LEMMA QuietSteps ==
    ASSUME OversightInv, \/ \E c \in Calls : LoopReads(c)
                         \/ \E a \in Beating : Scores(a)
                         \/ Tick
                         \/ UNCHANGED vars
    PROVE  OversightInv'
<1>1. UNCHANGED <<phase, script, store, durable, pc, creep, ran>> /\ now' \in Nat
  BY DEF OversightInv, Typed, LoopReads, Scores, Tick, vars, tableVars, checkVars, runVars, scoreVars
<1>2. Typed'
  BY <1>1 DEF OversightInv, Typed
<1>3. DurableIsPrefix' /\ OneRow' /\ CallFacts'
  BY <1>1 DEF OversightInv, DurableIsPrefix, OneRow, CallFacts, IsRow
<1>4. RowFacts' /\ FlagFacts'
  BY <1>1 DEF OversightInv, RowFacts, FlagFacts, IsRow, LevelOf, SameResource
<1>5. LevelFacts'
  BY <1>1, LevelsKept
<1> QED BY <1>2, <1>3, <1>4, <1>5 DEF OversightInv

\* A step that commits, or only moves a call or its creep check on.
LEMMA CommitSteps ==
    ASSUME OversightInv, \/ \E c \in Calls : Recorded(c) \/ Execute(c) \/ CreepReads(c) \/ CreepCommits(c)
                         \/ \E a \in Beating : Heartbeat(a)
    PROVE  OversightInv'
<1>1. /\ UNCHANGED <<phase, script, now, store>>
      /\ durable' \in {store, durable}
  BY DEF Recorded, Scheduled, Execute, CreepReads, CreepCommits, Heartbeat, tableVars
<1>2. LevelFacts'
  BY <1>1, LevelsKept
<1>3. CASE \E c \in Calls : Recorded(c)
  <2> PICK c \in Calls : Recorded(c)
    BY <1>3
  <2>1. /\ pc[c] = "submit" /\ durable' = store /\ ran' = ran
        /\ pc' = [pc EXCEPT ![c] = IF Status(c) = "PENDING" THEN "hold" ELSE "execute"]
        /\ \E d \in {"due", "done"} : creep' = [creep EXCEPT ![c] = d]
    BY DEF Recorded, Scheduled, runVars
  <2>2. IsRow(store, RowOf(c), c) /\ RowsOf(c) = {RowOf(c)} /\ Status(c) = store[RowOf(c)].status
    BY <2>1, RowOfFinds
  <2>3. Typed'
    BY <1>1, <2>1 DEF OversightInv, Typed, Stages
  <2>4. DurableIsPrefix' /\ OneRow'
    BY <1>1, <2>1 DEF OversightInv, Typed, DurableIsPrefix, OneRow, IsRow
  <2>5. CallFacts'
    <3>1. \A d \in Calls : d # c => pc'[d] = pc[d] /\ creep'[d] = creep[d]
      BY <2>1 DEF OversightInv, Typed
    <3>2. pc'[c] \in {"hold", "execute"}
      BY <2>1 DEF OversightInv, Typed
    <3>3. \E i \in DOMAIN durable' : IsRow(durable', i, c)
      <4>1. durable' = store /\ RowOf(c) \in DOMAIN store /\ IsRow(store, RowOf(c), c)
        BY <2>1, RowOfFinds
      <4> QED BY <4>1
    <3>4. phase # "down" /\ c \notin ran /\ c \in DOMAIN script /\ script[c].sql # Unlexed
      BY <2>1 DEF OversightInv, CallFacts
    <3>5. \A d \in Calls : (\E i \in DOMAIN durable : IsRow(durable, i, d))
                            => \E i \in DOMAIN durable' : IsRow(durable', i, d)
      BY <1>1, RowsStayDurable
    <3> SUFFICES ASSUME NEW d \in Calls
                 PROVE  /\ pc'[d] # "idle" => d \in DOMAIN script
                        /\ pc'[d] \notin {"idle", "failed"} => script[d].sql # Unlexed
                        /\ pc'[d] = "submit" => \E i \in DOMAIN store : IsRow(store, i, d)
                        /\ pc'[d] \in {"hold", "execute"} \/ d \in ran
                                \/ creep'[d] \in {"due", "novel", "marked"}
                              => \E i \in DOMAIN durable' : IsRow(durable', i, d)
                        /\ d \in ran => pc'[d] = "ran"
                        /\ phase = "down" => pc'[d] \notin {"submit", "hold", "execute"}
      BY <1>1, <2>1 DEF CallFacts, IsRow
    <3>6. CASE d = c
      BY <1>1, <2>1, <3>2, <3>3, <3>4, <3>6 DEF IsRow
    <3>7. CASE d # c
      BY <1>1, <2>1, <3>1, <3>5, <3>7 DEF OversightInv, CallFacts, IsRow
    <3> QED BY <3>6, <3>7
  <2>6. RowFacts'
    <3> SUFFICES ASSUME NEW i \in DOMAIN store, store[i].kind = "call"
                 PROVE  /\ store[i].status = "AUTO_ALLOWED" => LevelOf(store[i].of) # "HIGH"
                        /\ pc'[store[i].of] = "submit" => store[i].status \in {"PENDING", "AUTO_ALLOWED"}
                        /\ pc'[store[i].of] = "execute" \/ store[i].of \in ran => store[i].status \in Allowed
      BY <1>1, <2>1 DEF RowFacts, LevelOf
    <3>1. store[i].of \in Calls
      <4>1. store[i] \in RowSet
        BY DEF OversightInv, Typed
      <4> QED BY <4>1 DEF RowSet
    <3>2. CASE store[i].of = c
      <4>1. i = RowOf(c)
        BY <2>2, <3>2 DEF OversightInv, OneRow, IsRow
      <4>2. c \notin ran
        BY <2>1 DEF OversightInv, CallFacts
      <4> QED BY <2>1, <2>2, <3>1, <3>2, <4>1, <4>2 DEF OversightInv, Typed, RowFacts, Allowed
    <3>3. CASE store[i].of # c
      BY <2>1, <3>1, <3>3 DEF OversightInv, Typed, RowFacts
    <3> QED BY <3>2, <3>3
  <2>7. FlagFacts'
    BY <1>1, <2>1 DEF OversightInv, Typed, FlagFacts, IsRow, SameResource
  <2> QED BY <1>2, <2>3, <2>4, <2>5, <2>6, <2>7 DEF OversightInv
<1>4. CASE \E c \in Calls : Execute(c)
  <2> PICK c \in Calls : Execute(c)
    BY <1>4
  <2>1. /\ pc[c] = "execute" /\ pc' = [pc EXCEPT ![c] = "ran"] /\ ran' = ran \cup {c}
        /\ creep' = creep
    BY DEF Execute, checkVars
  <2>2. Typed'
    BY <1>1, <2>1 DEF OversightInv, Typed, Stages
  <2>3. DurableIsPrefix' /\ OneRow'
    BY <1>1, <2>1 DEF OversightInv, Typed, DurableIsPrefix, OneRow, IsRow
  <2>4. CallFacts'
    <3>1. \A d \in Calls : d # c => pc'[d] = pc[d]
      BY <2>1 DEF OversightInv, Typed
    <3>2. pc'[c] = "ran"
      BY <2>1 DEF OversightInv, Typed
    <3> QED BY <1>1, <2>1, <3>1, <3>2, RowsStayDurable DEF OversightInv, CallFacts, IsRow
  <2>5. RowFacts'
    BY <1>1, <2>1 DEF OversightInv, Typed, RowSet, RowFacts, LevelOf
  <2>6. FlagFacts'
    BY <1>1, <2>1 DEF OversightInv, FlagFacts, IsRow, SameResource
  <2> QED BY <1>2, <2>2, <2>3, <2>4, <2>5, <2>6 DEF OversightInv
<1>5. CASE \E c \in Calls : CreepReads(c)
  <2> PICK c \in Calls : CreepReads(c)
    BY <1>5
  <2>1. /\ creep[c] = "due" /\ UNCHANGED <<durable, pc, ran>>
        /\ \/ Touches(c) = {} /\ creep' = [creep EXCEPT ![c] = "novel"]
           \/ creep' = [creep EXCEPT ![c] = "done"]
    BY DEF CreepReads, tableVars, runVars
  <2>2. Typed' /\ DurableIsPrefix' /\ OneRow' /\ CallFacts'
    BY <1>1, <2>1 DEF OversightInv, Typed, DurableIsPrefix, OneRow, CallFacts, IsRow
  <2>3. RowFacts'
    BY <1>1, <2>1 DEF OversightInv, RowFacts, LevelOf
  <2>4. ASSUME Touches(c) = {}, NEW i \in DOMAIN store, IsRow(store, i, c), NEW j \in 1 .. i - 1
        PROVE  ~SameResource(c, store[j].of)
    <3>1. j \in DOMAIN store
      BY <2>4 DEF OversightInv, Typed
    <3>2. j \notin RowsOf(c)
      BY <2>4, <3>1 DEF OversightInv, Typed, OneRow, RowsOf, IsRow
    <3> QED BY <2>4, <3>1, <3>2 DEF Touches
  <2>5. ASSUME NEW d \in Calls, creep'[d] = "novel", NEW i \in DOMAIN store, IsRow(store, i, d),
               NEW j \in 1 .. i - 1
        PROVE  ~SameResource(d, store[j].of)
    <3>1. d # c => creep[d] = "novel"
      BY <2>1, <2>5 DEF OversightInv, Typed
    <3>2. d = c => Touches(c) = {}
      BY <2>1, <2>5 DEF OversightInv, Typed
    <3> QED BY <2>4, <2>5, <3>1, <3>2 DEF OversightInv, FlagFacts
  <2>6. \A i \in DOMAIN store : store[i].novel =>
            \A j \in 1 .. i - 1 : ~SameResource(store[i].of, store[j].of)
    BY DEF OversightInv, FlagFacts
  <2>7. FlagFacts'
    BY <1>1, <2>5, <2>6 DEF FlagFacts, IsRow, SameResource
  <2> QED BY <1>2, <2>2, <2>3, <2>7 DEF OversightInv
<1>6. CASE \E c \in Calls : CreepCommits(c)
  <2> PICK c \in Calls : CreepCommits(c)
    BY <1>6
  <2>1. /\ creep[c] = "marked" /\ creep' = [creep EXCEPT ![c] = "done"]
        /\ UNCHANGED <<pc, ran>>
    BY DEF CreepCommits, runVars
  <2>2. Typed' /\ DurableIsPrefix' /\ OneRow' /\ CallFacts'
    <3>1. Typed' /\ DurableIsPrefix'
      BY <1>1, <2>1 DEF OversightInv, Typed, DurableIsPrefix
    <3>2. OneRow'
      BY <1>1, <2>1, OneRowKept
    <3>3. \A d \in Calls : creep'[d] \in {"due", "novel", "marked"} => creep'[d] = creep[d]
      BY <2>1 DEF OversightInv, Typed
    <3>4. CallFacts'
      BY <1>1, <2>1, <3>3, RowsStayDurable DEF OversightInv, CallFacts, IsRow
    <3> QED BY <3>1, <3>2, <3>4
  <2>3. RowFacts' /\ FlagFacts'
    BY <1>1, <2>1 DEF OversightInv, Typed, RowFacts, LevelOf, FlagFacts, IsRow, SameResource
  <2> QED BY <1>2, <2>2, <2>3 DEF OversightInv
<1>7. CASE \E a \in Beating : Heartbeat(a)
  <2>1. UNCHANGED <<pc, ran, creep>>
    BY <1>7 DEF Heartbeat, checkVars, runVars
  <2>2. Typed' /\ DurableIsPrefix' /\ OneRow' /\ CallFacts'
    BY <1>1, <2>1 DEF OversightInv, Typed, DurableIsPrefix, OneRow, CallFacts, IsRow
  <2>3. RowFacts' /\ FlagFacts'
    BY <1>1, <2>1 DEF OversightInv, RowFacts, LevelOf, FlagFacts, IsRow, SameResource
  <2> QED BY <1>2, <2>2, <2>3 DEF OversightInv
<1> QED BY <1>3, <1>4, <1>5, <1>6, <1>7

\* A call fails without a row.
LEMMA FailsStep ==
    ASSUME OversightInv, NEW c \in Calls, Fails(c)
    PROVE  OversightInv'
<1>1. /\ UNCHANGED <<phase, script, now, store, durable, creep, ran>>
      /\ pc[c] = "idle" /\ c \in DOMAIN script /\ pc' = [pc EXCEPT ![c] = "failed"]
  BY DEF Fails, tableVars, checkVars, runVars
<1>2. pc'[c] = "failed" /\ \A d \in Calls : d # c => pc'[d] = pc[d]
  BY <1>1 DEF OversightInv, Typed
<1>3. Typed'
  BY <1>1 DEF OversightInv, Typed, Stages
<1>4. DurableIsPrefix' /\ OneRow'
  BY <1>1, <1>2 DEF OversightInv, DurableIsPrefix, OneRow, IsRow
<1>5. CallFacts'
  BY <1>1, <1>2 DEF OversightInv, CallFacts, IsRow
<1>6. RowFacts'
  <2> SUFFICES ASSUME NEW i \in DOMAIN store, store[i].kind = "call"
               PROVE  /\ store[i].status = "AUTO_ALLOWED" => LevelOf(store[i].of) # "HIGH"
                      /\ pc'[store[i].of] = "submit" => store[i].status \in {"PENDING", "AUTO_ALLOWED"}
                      /\ pc'[store[i].of] = "execute" \/ store[i].of \in ran
                            => store[i].status \in Allowed
    BY <1>1 DEF RowFacts, LevelOf
  <2>1. store[i] \in RowSet
    BY DEF OversightInv, Typed
  <2>2. store[i].of \in Calls
    BY <2>1 DEF RowSet
  <2> QED BY <1>2, <2>2 DEF OversightInv, RowFacts
<1>7. FlagFacts'
  BY <1>1 DEF OversightInv, FlagFacts, IsRow, SameResource
<1>8. LevelFacts'
  BY <1>1, LevelsKept
<1> QED BY <1>3, <1>4, <1>5, <1>6, <1>7, <1>8 DEF OversightInv

\* A row that is inserted.
LEMMA RowTyped ==
    ASSUME OversightInv, NEW c \in Calls, NEW kind \in {"call", "undo"}, NEW status \in Statuses,
           NEW counted \in BOOLEAN
    PROVE  LET row == Row(c, kind, status, counted)
           IN  /\ row \in RowSet /\ row.of = c /\ row.kind = kind /\ row.status = status /\ ~row.novel
               /\ row.level = LevelOf(c)
BY EvaluateLevel DEF Row, RowSet, LevelOf, OversightInv, Typed

\* The table after an INSERT.
LEMMA Inserts ==
    ASSUME OversightInv, NEW row \in RowSet, store' = Append(store, row)
    PROVE  /\ store' \in Seq(RowSet)
           /\ Len(store') = Len(store) + 1
           /\ DOMAIN store' = 1 .. Len(store) + 1
           /\ DOMAIN store = 1 .. Len(store) /\ Len(store) \in Nat
           /\ \A i \in DOMAIN store : store'[i] = store[i]
           /\ store'[Len(store) + 1] = row
BY DEF OversightInv, Typed

\* The submission of a call.
LEMMA SubmitStep ==
    ASSUME OversightInv, NEW c \in Calls, Submit(c)
    PROVE  OversightInv'
<1> DEFINE n == Len(store) + 1
           status == IF LevelOf(c) = "HIGH" THEN "PENDING" ELSE "AUTO_ALLOWED"
<1>1. /\ phase = "serving" /\ c \in DOMAIN script /\ pc[c] = "idle" /\ script[c].sql # Unlexed
      /\ pc' = [pc EXCEPT ![c] = "submit"]
      /\ UNCHANGED <<phase, script, now, durable, creep, ran>>
  BY DEF Submit, checkVars, runVars
<1>2. status \in Statuses
  BY DEF Statuses
<1>3. PICK counted \in BOOLEAN : store' = Append(store, Row(c, "call", status, counted))
  BY Zenon DEF Submit, LevelOf, Estimates
<1>4. /\ store' \in Seq(RowSet)
      /\ Len(store') = n /\ DOMAIN store' = 1 .. n
      /\ DOMAIN store = 1 .. n - 1 /\ n \in Nat /\ Len(store) = n - 1
      /\ \A i \in DOMAIN store : store'[i] = store[i]
      /\ store'[n].of = c /\ store'[n].kind = "call" /\ store'[n].status = status
      /\ ~store'[n].novel /\ store'[n].level = LevelOf(c)
  <2> DEFINE row == Row(c, "call", status, counted)
  <2>1. /\ row \in RowSet /\ row.of = c /\ row.kind = "call" /\ row.status = status /\ ~row.novel
        /\ row.level = LevelOf(c)
    BY <1>2, RowTyped
  <2>2. store' = Append(store, row)
    BY <1>3
  <2> HIDE DEF row, status
  <2> QED BY <2>1, <2>2, Inserts
<1> HIDE DEF n
<1>5. \A i \in DOMAIN store' : i \in DOMAIN store \/ i = n
  BY <1>4
<1>6. \A i \in DOMAIN store : ~IsRow(store, i, c)
  BY <1>1 DEF OversightInv, OneRow
<1>7. c \notin ran /\ creep[c] # "novel"
  BY <1>1, <1>6, RowOfFinds DEF OversightInv, CallFacts
<1>8. Typed'
  BY <1>1, <1>4 DEF OversightInv, Typed, Stages
<1>9. DurableIsPrefix'
  BY <1>1, <1>4 DEF OversightInv, Typed, DurableIsPrefix
<1>10. OneRow'
  <2>1. ASSUME NEW i, NEW d, IsRow(store', i, d)
        PROVE  IsRow(store, i, d) \/ (i = n /\ d = c)
    <3>1. CASE i \in DOMAIN store
      BY <1>4, <2>1, <3>1 DEF IsRow
    <3>2. CASE i = n
      BY <1>4, <2>1, <3>2 DEF IsRow
    <3> QED BY <1>5, <2>1, <3>1, <3>2 DEF IsRow
  <2>2. \A d \in Calls : d # c => pc'[d] = pc[d]
    BY <1>1 DEF OversightInv, Typed
  <2>3. pc'[c] = "submit"
    BY <1>1 DEF OversightInv, Typed
  <2>4. \A i, d : IsRow(store, i, d) => i \in DOMAIN store
    BY DEF IsRow
  <2> HIDE DEF IsRow
  <2> QED BY <1>6, <2>1, <2>2, <2>3, <2>4 DEF OversightInv, OneRow
<1>11. CallFacts'
  <2>1. IsRow(store', n, c) /\ n \in DOMAIN store'
    BY <1>4 DEF IsRow
  <2>2. \A d \in Calls : (\E i \in DOMAIN store : IsRow(store, i, d))
                         => \E i \in DOMAIN store' : IsRow(store', i, d)
    BY <1>4 DEF IsRow
  <2>3. \A d \in Calls : d # c => pc'[d] = pc[d]
    BY <1>1 DEF OversightInv, Typed
  <2>4. pc'[c] = "submit"
    BY <1>1 DEF OversightInv, Typed
  <2> HIDE DEF IsRow
  <2> QED BY <1>1, <1>7, <2>1, <2>2, <2>3, <2>4 DEF OversightInv, CallFacts
<1>12. RowFacts'
  <2> SUFFICES ASSUME NEW i \in DOMAIN store', store'[i].kind = "call"
               PROVE  LET d == store'[i].of
                      IN  /\ store'[i].status = "AUTO_ALLOWED" => LevelOf(d) # "HIGH"
                          /\ pc'[d] = "submit" => store'[i].status \in {"PENDING", "AUTO_ALLOWED"}
                          /\ pc'[d] = "execute" \/ d \in ran => store'[i].status \in Allowed
    BY <1>1 DEF RowFacts, LevelOf
  <2>1. CASE i = n
    BY <1>1, <1>4, <1>7, <2>1 DEF OversightInv, Typed
  <2>2. CASE i \in DOMAIN store
    <3>1. store'[i] = store[i] /\ store[i].of # c
      BY <1>4, <1>6, <2>2 DEF IsRow
    <3>2. pc'[store[i].of] = pc[store[i].of]
      BY <1>1, <3>1 DEF OversightInv, Typed
    <3> QED BY <2>2, <3>1, <3>2 DEF OversightInv, RowFacts
  <2> QED BY <1>5, <2>1, <2>2
<1>13. FlagFacts'
  <2>1. ASSUME NEW i \in DOMAIN store', store'[i].novel, NEW j \in 1 .. i - 1
        PROVE  ~SameResource(store'[i].of, store'[j].of)
    BY <1>4, <1>5, <2>1 DEF OversightInv, FlagFacts
  <2>2. ASSUME NEW d \in Calls, creep[d] = "novel", NEW i \in DOMAIN store', IsRow(store', i, d),
               NEW j \in 1 .. i - 1
        PROVE  ~SameResource(d, store'[j].of)
    <3>1. i \in DOMAIN store /\ IsRow(store, i, d)
      BY <1>4, <1>5, <1>7, <2>2 DEF IsRow
    <3>2. j \in DOMAIN store
      BY <1>4, <3>1
    <3> QED BY <1>4, <2>2, <3>1, <3>2 DEF OversightInv, FlagFacts
  <2> QED BY <1>1, <2>1, <2>2 DEF FlagFacts, IsRow, SameResource
<1>14. LevelFacts'
  BY <1>1, <1>4, <1>5 DEF OversightInv, LevelFacts, LevelOf
<1> QED BY <1>8, <1>9, <1>10, <1>11, <1>12, <1>13, <1>14 DEF OversightInv

\* The undo of a call inserts a row that is not the call's own.
LEMMA UndoStep ==
    ASSUME OversightInv, NEW c \in Calls, Undo(c)
    PROVE  OversightInv'
<1> DEFINE n == Len(store) + 1
<1>1. UNCHANGED <<phase, script, now, pc, creep, ran>> /\ durable' = store'
  BY DEF Undo, checkVars, runVars
<1>2. store' = Append(store, Row(c, "undo", "APPROVED", FALSE))
  BY DEF Undo
<1>3. "APPROVED" \in Statuses
  BY DEF Statuses, Resolutions, Verdicts
<1>4. /\ store' \in Seq(RowSet)
      /\ Len(store') = n /\ DOMAIN store' = 1 .. n
      /\ DOMAIN store = 1 .. n - 1 /\ n \in Nat /\ Len(store) = n - 1
      /\ \A i \in DOMAIN store : store'[i] = store[i]
      /\ store'[n].of = c /\ store'[n].kind = "undo"
      /\ ~store'[n].novel /\ store'[n].level = LevelOf(c)
  <2> DEFINE row == Row(c, "undo", "APPROVED", FALSE)
  <2>1. row \in RowSet /\ row.of = c /\ row.kind = "undo" /\ ~row.novel /\ row.level = LevelOf(c)
    BY <1>3, EvaluateLevel DEF Row, RowSet, LevelOf, OversightInv, Typed
  <2>2. store' = Append(store, row)
    BY <1>2
  <2> HIDE DEF row
  <2> QED BY <2>1, <2>2, Inserts
<1> HIDE DEF n
<1>5. \A i \in DOMAIN store' : i \in DOMAIN store \/ i = n
  BY <1>4
<1>6. \A i, d : IsRow(store', i, d) <=> IsRow(store, i, d)
  BY <1>4, <1>5 DEF IsRow
<1>7. Typed'
  BY <1>1, <1>4 DEF OversightInv, Typed
<1>8. DurableIsPrefix'
  BY <1>1, <1>4 DEF DurableIsPrefix
<1>9. OneRow'
  BY <1>1, <1>6, <1>4 DEF OversightInv, OneRow, IsRow
<1>10. \A i, d : IsRow(durable, i, d) => i \in DOMAIN store /\ IsRow(store, i, d)
  BY DEF OversightInv, Typed, DurableIsPrefix, IsRow
<1>11. CallFacts'
  BY <1>1, <1>4, <1>6, <1>10 DEF OversightInv, CallFacts, IsRow
<1>12. RowFacts'
  BY <1>1, <1>4, <1>5 DEF OversightInv, RowFacts, LevelOf
<1>13. FlagFacts'
  <2>1. ASSUME NEW i \in DOMAIN store', store'[i].novel, NEW j \in 1 .. i - 1
        PROVE  ~SameResource(store'[i].of, store'[j].of)
    BY <1>4, <1>5, <2>1 DEF OversightInv, FlagFacts
  <2>2. ASSUME NEW d \in Calls, creep[d] = "novel", NEW i \in DOMAIN store', IsRow(store', i, d),
               NEW j \in 1 .. i - 1
        PROVE  ~SameResource(d, store'[j].of)
    <3>1. i \in DOMAIN store /\ IsRow(store, i, d)
      BY <1>6, <2>2 DEF IsRow
    <3>2. j \in DOMAIN store
      BY <1>4, <3>1
    <3> QED BY <1>4, <2>2, <3>1, <3>2 DEF OversightInv, FlagFacts
  <2> QED BY <1>1, <2>1, <2>2 DEF FlagFacts, IsRow, SameResource
<1>14. LevelFacts'
  BY <1>1, <1>4, <1>5 DEF OversightInv, LevelFacts, LevelOf
<1> QED BY <1>7, <1>8, <1>9, <1>11, <1>12, <1>13, <1>14 DEF OversightInv

\* What is flagged depends on the calls of the rows alone.
LEMMA FlagsKept ==
    ASSUME OversightInv, UNCHANGED <<script, creep>>,
           store' \in Seq(RowSet), DOMAIN store' = DOMAIN store,
           \A i \in DOMAIN store : /\ store'[i].of = store[i].of
                                   /\ store'[i].kind = store[i].kind
                                   /\ store'[i].novel = store[i].novel
    PROVE  FlagFacts'
<1>1. ASSUME NEW i \in DOMAIN store, NEW j \in 1 .. i - 1
      PROVE  j \in DOMAIN store
  BY DEF OversightInv, Typed
<1>2. ASSUME NEW i \in DOMAIN store', store'[i].novel, NEW j \in 1 .. i - 1
      PROVE  ~SameResource(store'[i].of, store'[j].of)
  BY <1>1, <1>2 DEF OversightInv, FlagFacts
<1>3. ASSUME NEW d \in Calls, creep'[d] = "novel", NEW i \in DOMAIN store', IsRow(store', i, d),
             NEW j \in 1 .. i - 1
      PROVE  ~SameResource(d, store'[j].of)
  <2>1. IsRow(store, i, d)
    BY <1>3 DEF IsRow
  <2> QED BY <1>1, <1>3, <2>1 DEF OversightInv, FlagFacts
<1> QED BY <1>2, <1>3 DEF FlagFacts, IsRow, SameResource

\* The end of a hold.
LEMMA ResolveStep ==
    ASSUME OversightInv, NEW c \in Calls, NEW status \in Resolutions, Resolve(c, status)
    PROVE  OversightInv'
<1> DEFINE n == RowOf(c)
<1>1. /\ pc[c] = "hold"
      /\ pc' = [pc EXCEPT ![c] = IF status = "APPROVED" THEN "execute" ELSE "refused"]
      /\ durable' = store'
      /\ UNCHANGED <<phase, script, now, creep, ran>>
  BY DEF Resolve, checkVars, runVars
<1>2. n \in DOMAIN store /\ IsRow(store, n, c)
  BY <1>1, RowOfFinds
<1>3. store' = [store EXCEPT ![n].status = status, ![n].resolved_at = now]
  BY DEF Resolve
<1>4. c \notin ran /\ phase = "serving"
  BY <1>1 DEF OversightInv, Typed, CallFacts
<1> HIDE DEF n
<1>5. store[n] \in RowSet
  BY <1>2 DEF OversightInv, Typed
<1>6. /\ store' \in Seq(RowSet) /\ DOMAIN store' = DOMAIN store /\ Len(store') = Len(store)
      /\ \A i \in DOMAIN store : /\ store'[i].of = store[i].of
                                 /\ store'[i].kind = store[i].kind
                                 /\ store'[i].level = store[i].level
                                 /\ store'[i].novel = store[i].novel
                                 /\ i # n => store'[i].status = store[i].status
      /\ store'[n].status = status
  <2> DEFINE row == [store[n] EXCEPT !.status = status, !.resolved_at = now]
  <2>1. store' = [store EXCEPT ![n] = row]
    BY <1>2, <1>3, <1>5 DEF RowSet, OversightInv, Typed
  <2>2. /\ row \in RowSet /\ row.of = store[n].of /\ row.kind = store[n].kind
        /\ row.novel = store[n].novel /\ row.level = store[n].level /\ row.status = status
    BY <1>5 DEF RowSet, OversightInv, Typed, Statuses
  <2> HIDE DEF row
  <2> QED BY <1>2, <2>1, <2>2 DEF OversightInv, Typed
<1>7. Typed'
  BY <1>1, <1>6 DEF OversightInv, Typed, Stages
<1>8. DurableIsPrefix'
  BY <1>1, <1>6 DEF OversightInv, Typed, DurableIsPrefix
<1>9. OneRow'
  <2>1. \A d \in Calls : pc'[d] = "idle" => pc[d] = "idle"
    BY <1>1 DEF OversightInv, Typed
  <2> QED BY <1>6, <2>1, OneRowKept
<1>10. \A i, d : IsRow(durable, i, d) => IsRow(store', i, d)
  BY <1>6 DEF OversightInv, Typed, DurableIsPrefix, IsRow
<1>11. CallFacts'
  <2>1. IsRow(durable', n, c) /\ n \in DOMAIN durable'
    BY <1>1, <1>2, <1>6 DEF IsRow
  <2>2. \A d \in Calls : (\E i \in DOMAIN durable : IsRow(durable, i, d))
                         => \E i \in DOMAIN durable' : IsRow(durable', i, d)
    BY <1>1, <1>10 DEF IsRow
  <2>3. \A d \in Calls : (\E i \in DOMAIN store : IsRow(store, i, d))
                         => \E i \in DOMAIN store' : IsRow(store', i, d)
    BY <1>6 DEF IsRow
  <2>4. \A d \in Calls : d # c => pc'[d] = pc[d]
    BY <1>1 DEF OversightInv, Typed
  <2>5. pc'[c] \in {"execute", "refused"} /\ c \in DOMAIN script
    BY <1>1 DEF OversightInv, Typed, CallFacts
  <2> HIDE DEF IsRow
  <2> QED BY <1>1, <1>4, <2>1, <2>2, <2>3, <2>4, <2>5 DEF OversightInv, CallFacts
<1>12. RowFacts'
  <2> SUFFICES ASSUME NEW i \in DOMAIN store', store'[i].kind = "call"
               PROVE  LET d == store'[i].of
                      IN  /\ store'[i].status = "AUTO_ALLOWED" => LevelOf(d) # "HIGH"
                          /\ pc'[d] = "submit" => store'[i].status \in {"PENDING", "AUTO_ALLOWED"}
                          /\ pc'[d] = "execute" \/ d \in ran => store'[i].status \in Allowed
    BY <1>1 DEF RowFacts, LevelOf
  <2>1. CASE i = n
    BY <1>1, <1>2, <1>4, <1>6, <2>1
       DEF OversightInv, Typed, IsRow, Resolutions, Verdicts, Allowed
  <2>2. CASE i # n
    <3>1. store[i].of # c
      BY <1>2, <1>6, <2>2 DEF OversightInv, OneRow, IsRow
    <3>2. pc'[store[i].of] = pc[store[i].of]
      BY <1>1, <3>1 DEF OversightInv, Typed
    <3> QED BY <1>6, <2>2, <3>2 DEF OversightInv, RowFacts
  <2> QED BY <2>1, <2>2
<1>13. FlagFacts'
  BY <1>1, <1>6, FlagsKept
<1>14. LevelFacts'
  BY <1>1, <1>6, LevelsKept
<1> QED BY <1>7, <1>8, <1>9, <1>11, <1>12, <1>13, <1>14 DEF OversightInv

\* A first touch is flagged.
LEMMA CreepMarksStep ==
    ASSUME OversightInv, NEW c \in Calls, CreepMarks(c)
    PROVE  OversightInv'
<1> DEFINE n == RowOf(c)
<1>1. /\ creep[c] = "novel" /\ creep' = [creep EXCEPT ![c] = "marked"]
      /\ UNCHANGED <<phase, script, now, durable, pc, ran>>
  BY DEF CreepMarks, runVars
<1>2. n \in DOMAIN store /\ IsRow(store, n, c)
  BY <1>1, RowOfFinds
<1>3. store' = [store EXCEPT ![n].novel = TRUE]
  BY DEF CreepMarks
<1> HIDE DEF n
<1>4. store[n] \in RowSet
  BY <1>2 DEF OversightInv, Typed
<1>5. /\ store' \in Seq(RowSet) /\ DOMAIN store' = DOMAIN store /\ Len(store') = Len(store)
      /\ \A i \in DOMAIN store : /\ store'[i].of = store[i].of
                                 /\ store'[i].kind = store[i].kind
                                 /\ store'[i].level = store[i].level
                                 /\ store'[i].status = store[i].status
                                 /\ store[i].novel => store'[i].novel
                                 /\ i # n => store'[i].novel = store[i].novel
  <2> DEFINE row == [store[n] EXCEPT !.novel = TRUE]
  <2>1. store' = [store EXCEPT ![n] = row]
    BY <1>2, <1>3, <1>4 DEF RowSet, OversightInv, Typed
  <2>2. /\ row \in RowSet /\ row.of = store[n].of /\ row.kind = store[n].kind
        /\ row.level = store[n].level /\ row.status = store[n].status /\ row.novel = TRUE
    BY <1>4 DEF RowSet
  <2> HIDE DEF row
  <2> QED BY <1>2, <2>1, <2>2 DEF OversightInv, Typed
<1>6. Typed'
  BY <1>1, <1>5 DEF OversightInv, Typed
<1>7. DurableIsPrefix'
  <2>1. DOMAIN durable \subseteq DOMAIN store
    BY DEF OversightInv, Typed, DurableIsPrefix
  <2> QED BY <1>1, <1>5, <2>1 DEF OversightInv, DurableIsPrefix
<1>8. OneRow'
  BY <1>1, <1>5, OneRowKept
<1>9. CallFacts'
  <2>1. \A d \in Calls : (\E i \in DOMAIN store : IsRow(store, i, d))
                         => \E i \in DOMAIN store' : IsRow(store', i, d)
    BY <1>5 DEF IsRow
  <2>2. \A d \in Calls : creep'[d] \in {"due", "novel", "marked"}
                         => creep[d] \in {"due", "novel", "marked"}
    BY <1>1 DEF OversightInv, Typed
  <2> QED BY <1>1, <2>1, <2>2 DEF OversightInv, CallFacts
<1>10. RowFacts'
  BY <1>1, <1>5 DEF OversightInv, RowFacts, LevelOf
<1>11. FlagFacts'
  <2>1. ASSUME NEW i \in DOMAIN store', store'[i].novel, NEW j \in 1 .. i - 1
        PROVE  ~SameResource(store'[i].of, store'[j].of)
    <3>1. j \in DOMAIN store
      BY <1>5, <2>1 DEF OversightInv, Typed
    <3>2. CASE i = n
      BY <1>1, <1>2, <1>5, <2>1, <3>1, <3>2 DEF OversightInv, FlagFacts, IsRow
    <3>3. CASE i # n
      BY <1>5, <2>1, <3>1, <3>3 DEF OversightInv, FlagFacts
    <3> QED BY <3>2, <3>3
  <2>2. ASSUME NEW d \in Calls, creep'[d] = "novel", NEW i \in DOMAIN store', IsRow(store', i, d),
               NEW j \in 1 .. i - 1
        PROVE  ~SameResource(d, store'[j].of)
    <3>1. j \in DOMAIN store
      BY <1>5, <2>2 DEF OversightInv, Typed
    <3>2. creep[d] = "novel" /\ i \in DOMAIN store /\ IsRow(store, i, d)
      BY <1>1, <1>5, <2>2 DEF OversightInv, Typed, IsRow
    <3> QED BY <1>5, <2>2, <3>1, <3>2 DEF OversightInv, FlagFacts
  <2> QED BY <1>1, <2>1, <2>2 DEF FlagFacts, IsRow, SameResource
<1>12. LevelFacts'
  BY <1>1, <1>5, LevelsKept
<1> QED BY <1>6, <1>7, <1>8, <1>9, <1>10, <1>11, <1>12 DEF OversightInv

\* The death of atc-core: the table is what was durable.
LEMMA CrashStep == ASSUME OversightInv, Crash PROVE OversightInv'
<1>1. /\ store' = durable /\ durable' = durable /\ phase' = "down"
      /\ pc' = [c \in Calls |-> IF pc[c] \in {"submit", "hold", "execute"} THEN "lost" ELSE pc[c]]
      /\ creep' = [c \in Calls |-> IF creep[c] = "done" THEN "done" ELSE "none"]
      /\ UNCHANGED <<script, now, ran>>
  BY DEF Crash, runVars
<1>2. /\ Len(durable) <= Len(store) /\ DOMAIN durable \subseteq DOMAIN store
      /\ \A i \in DOMAIN durable : /\ durable[i].of = store[i].of
                                   /\ durable[i].kind = store[i].kind
                                   /\ durable[i].status = store[i].status
                                   /\ durable[i].level = store[i].level
                                   /\ durable[i].novel => store[i].novel
  BY DEF OversightInv, Typed, DurableIsPrefix
<1>3. Typed'
  BY <1>1 DEF OversightInv, Typed, Stages
<1>4. DurableIsPrefix'
  BY <1>1 DEF OversightInv, Typed, DurableIsPrefix
<1>5. OneRow'
  <2>1. \A d \in Calls : pc'[d] = "idle" => pc[d] = "idle"
    BY <1>1
  <2> QED BY <1>1, <1>2, <2>1, OneRowKept
<1>6. CallFacts'
  BY <1>1 DEF OversightInv, Typed, CallFacts, IsRow
<1>7. RowFacts'
  <2> SUFFICES ASSUME NEW i \in DOMAIN durable, durable[i].kind = "call"
               PROVE  LET d == durable[i].of
                      IN  /\ durable[i].status = "AUTO_ALLOWED" => LevelOf(d) # "HIGH"
                          /\ pc'[d] # "submit" /\ pc'[d] # "execute"
                          /\ d \in ran => durable[i].status \in Allowed
    BY <1>1 DEF RowFacts, LevelOf
  <2>1. durable[i] \in RowSet
    BY DEF OversightInv, Typed
  <2>2. durable[i].of \in Calls
    BY <2>1 DEF RowSet
  <2> QED BY <1>1, <1>2, <2>2 DEF OversightInv, RowFacts
<1>8. FlagFacts'
  <2>1. ASSUME NEW i \in DOMAIN durable, durable[i].novel, NEW j \in 1 .. i - 1
        PROVE  ~SameResource(durable[i].of, durable[j].of)
    <3>1. j \in DOMAIN durable
      BY <2>1 DEF OversightInv, Typed
    <3> QED BY <1>2, <2>1, <3>1 DEF OversightInv, FlagFacts
  <2>2. \A d \in Calls : creep'[d] # "novel"
    BY <1>1
  <2> QED BY <1>1, <2>1, <2>2 DEF FlagFacts, SameResource
<1>9. LevelFacts'
  BY <1>1, <1>2, LevelsKept
<1> QED BY <1>3, <1>4, <1>5, <1>6, <1>7, <1>8, <1>9 DEF OversightInv

\* The start of atc-core: what was held is expired.
LEMMA BootStep == ASSUME OversightInv, Boot PROVE OversightInv'
<1>1. /\ phase = "down" /\ phase' = "serving" /\ durable' = store'
      /\ UNCHANGED <<script, now, pc, creep, ran>>
  BY DEF Boot, checkVars, runVars
<1>2. /\ store' \in Seq(RowSet) /\ DOMAIN store' = DOMAIN store /\ Len(store') = Len(store)
      /\ \A i \in DOMAIN store :
            /\ store'[i].of = store[i].of
            /\ store'[i].kind = store[i].kind
            /\ store'[i].novel = store[i].novel
            /\ store'[i].level = store[i].level
            /\ store'[i].status = (IF store[i].status = "PENDING" THEN "EXPIRED" ELSE store[i].status)
  <2> DEFINE expired(i) == IF store[i].status = "PENDING"
                           THEN [store[i] EXCEPT !.status = "EXPIRED", !.resolved_at = now]
                           ELSE store[i]
  <2>1. store' = [i \in DOMAIN store |-> expired(i)]
    BY DEF Boot
  <2>2. ASSUME NEW i \in DOMAIN store
        PROVE  /\ expired(i) \in RowSet
               /\ expired(i).of = store[i].of
               /\ expired(i).kind = store[i].kind
               /\ expired(i).novel = store[i].novel
               /\ expired(i).level = store[i].level
               /\ expired(i).status = (IF store[i].status = "PENDING" THEN "EXPIRED"
                                       ELSE store[i].status)
    <3>1. store[i] \in RowSet
      BY DEF OversightInv, Typed
    <3> QED BY <3>1 DEF RowSet, OversightInv, Typed, Statuses, Resolutions
  <2> HIDE DEF expired
  <2> QED BY <2>1, <2>2 DEF OversightInv, Typed
<1>3. Typed'
  BY <1>1, <1>2 DEF OversightInv, Typed
<1>4. DurableIsPrefix'
  BY <1>1, <1>2 DEF OversightInv, Typed, DurableIsPrefix
<1>5. OneRow'
  BY <1>1, <1>2, OneRowKept
<1>6. \A i, d : IsRow(durable, i, d) => IsRow(store', i, d)
  BY <1>2 DEF OversightInv, Typed, DurableIsPrefix, IsRow
<1>7. CallFacts'
  BY <1>1, <1>2, <1>6 DEF OversightInv, CallFacts, IsRow
<1>8. RowFacts'
  <2> SUFFICES ASSUME NEW i \in DOMAIN store, store[i].kind = "call"
               PROVE  LET d == store[i].of
                      IN  /\ store'[i].status = "AUTO_ALLOWED" => LevelOf(d) # "HIGH"
                          /\ pc[d] # "submit" /\ pc[d] # "execute"
                          /\ d \in ran => store'[i].status \in Allowed
    BY <1>1, <1>2 DEF RowFacts, LevelOf
  <2>1. store[i] \in RowSet
    BY DEF OversightInv, Typed
  <2>2. store[i].of \in Calls
    BY <2>1 DEF RowSet
  <2> QED BY <1>1, <1>2, <2>2 DEF OversightInv, CallFacts, RowFacts, Allowed
<1>9. FlagFacts'
  BY <1>1, <1>2, FlagsKept
<1>10. LevelFacts'
  BY <1>1, <1>2, LevelsKept
<1> QED BY <1>3, <1>4, <1>5, <1>7, <1>8, <1>9, <1>10 DEF OversightInv

\* Every step keeps the inductive invariant.
LEMMA StepInv == OversightInv /\ [Next]_vars => OversightInv'
<1> SUFFICES ASSUME OversightInv, [Next]_vars PROVE OversightInv'
  OBVIOUS
<1>1. ASSUME NEW c \in Calls, Fails(c) \/ Submit(c) PROVE OversightInv'
  BY <1>1, FailsStep, SubmitStep
<1>2. ASSUME NEW c \in Calls, Undo(c) PROVE OversightInv'
  BY <1>2, UndoStep
<1>3. ASSUME NEW c \in Calls, NEW status \in Resolutions, Resolve(c, status) PROVE OversightInv'
  BY <1>3, ResolveStep
<1>4. ASSUME NEW c \in Calls, GateSteps(c) PROVE OversightInv'
  BY <1>3, <1>4, CommitSteps DEF GateSteps, Resolutions
<1>5. ASSUME NEW c \in Calls, Checks(c) PROVE OversightInv'
  BY <1>5, QuietSteps, CommitSteps, CreepMarksStep DEF Checks
<1>6. ASSUME NEW a \in Beating, Heartbeat(a) \/ Scores(a) PROVE OversightInv'
  BY <1>6, QuietSteps, CommitSteps
<1>7. CASE Tick \/ UNCHANGED vars
  BY <1>7, QuietSteps
<1>8. CASE Crash
  BY <1>8, CrashStep
<1>9. CASE Boot
  BY <1>9, BootStep
<1>10. Verdicts \subseteq Resolutions
  BY DEF Resolutions
<1> QED BY <1>1, <1>2, <1>3, <1>4, <1>5, <1>6, <1>7, <1>8, <1>9, <1>10 DEF Next

\* The invariant of every behaviour.
THEOREM OversightInvariant == Spec => []OversightInv
BY InitInv, StepInv, PTL DEF Spec

\* Under the deployed policy nothing grave runs that no human approved, for any number of
\* calls, in whatever order the calls, checks, undos, heartbeats and crashes come.
THEOREM GraveRunsAreApproved == Spec => []GraveRunsApproved
<1>1. OversightInv => GraveRunsApproved
  <2> SUFFICES ASSUME OversightInv, NEW c \in ran, Grave(script[c])
               PROVE  Status(c) = "APPROVED"
    BY DEF GraveRunsApproved
  <2>1. c \in Calls /\ c \in DOMAIN script /\ script \in Scripts /\ script[c].sql # Unlexed
    BY DEF OversightInv, Typed, CallFacts
  <2>2. WellFormed(script[c].sql)
    BY <2>1, OversightAssumption
  <2>3. LevelOf(c) = "HIGH"
    BY <2>1, <2>2, GraveIsHigh DEF LevelOf
  <2>4. /\ RowOf(c) \in DOMAIN store /\ IsRow(store, RowOf(c), c)
        /\ Status(c) = store[RowOf(c)].status
    BY <2>1, RowOfFinds
  <2> QED BY <2>3, <2>4 DEF OversightInv, RowFacts, IsRow, Allowed
<1> QED BY <1>1, OversightInvariant, PTL

\* Every recorded action has at least the level of every rule that matches it.
THEOREM MostSevereRuleAlwaysWins == Spec => []MostSevereRuleWins
<1>1. OversightInv => MostSevereRuleWins
  BY OrderHidesNothing DEF OversightInv, LevelFacts, LevelOf, MostSevereRuleWins
<1> QED BY <1>1, OversightInvariant, PTL

\* An action flagged as a first touch is the first of its agent and resource in the table.
THEOREM NovelRowsAreFirst == Spec => []NovelMeansFirst
<1>1. OversightInv => NovelMeansFirst
  BY DEF OversightInv, FlagFacts, NovelMeansFirst
<1> QED BY <1>1, OversightInvariant, PTL
-----------------------------------------------------------------------------
(* What each step does to the rows of the table.                           *)

\* The types of what the invariant above leaves out.
MoreTyped ==
    /\ loop \in [Calls -> {"none", "due", "done"}]
    /\ seen \in [Calls -> Nat]
    /\ crashes \in Nat
    /\ alarms \in SUBSET Calls

\* No row comes or goes, and none changes but for its status and its flag.
SameRows ==
    /\ DOMAIN store' = DOMAIN store
    /\ \A i \in DOMAIN store : /\ store'[i].of = store[i].of
                               /\ store'[i].kind = store[i].kind
                               /\ store'[i].requested_at = store[i].requested_at
                               /\ store'[i].counted = store[i].counted
                               /\ store[i].novel => store'[i].novel

\* A row of call c is inserted behind the others.
AddsRow(c, kind) ==
    /\ DOMAIN store = 1 .. Len(store) /\ Len(store) \in Nat
    /\ DOMAIN store' = 1 .. Len(store) + 1
    /\ \A i \in DOMAIN store : store'[i] = store[i]
    /\ LET row == store'[Len(store) + 1]
       IN  /\ row.of = c /\ row.kind = kind /\ row.requested_at = now
           /\ row.counted \in BOOLEAN
           /\ row.counted => kind = "call" /\ Estimates(script[c], LevelOf(c))

\* The rest of the types.
LEMMA MoreTypedStep == OversightInv /\ MoreTyped /\ [Next]_vars => MoreTyped'
<1> SUFFICES ASSUME OversightInv, MoreTyped, [Next]_vars PROVE MoreTyped'
  OBVIOUS
<1>1. ASSUME NEW c \in Calls, Fails(c) \/ Submit(c) \/ Undo(c) PROVE MoreTyped'
  BY <1>1 DEF Fails, Submit, Undo, MoreTyped, checkVars
<1>2. ASSUME NEW c \in Calls, Recorded(c) \/ Execute(c) PROVE MoreTyped'
  BY <1>2 DEF Recorded, Scheduled, Execute, MoreTyped, checkVars
<1>3. ASSUME NEW c \in Calls, NEW status, Resolve(c, status) PROVE MoreTyped'
  BY <1>3 DEF Resolve, MoreTyped, checkVars
<1>4. ASSUME NEW c \in Calls, CreepReads(c) PROVE MoreTyped'
  <2>1. Len(store) \in Nat
    BY DEF OversightInv, Typed
  <2> QED BY <1>4, <2>1 DEF CreepReads, MoreTyped
<1>5. ASSUME NEW c \in Calls, CreepMarks(c) \/ CreepCommits(c) \/ LoopReads(c) PROVE MoreTyped'
  BY <1>5 DEF CreepMarks, CreepCommits, LoopReads, MoreTyped
<1>6. ASSUME NEW a \in Beating, Heartbeat(a) \/ Scores(a) PROVE MoreTyped'
  BY <1>6 DEF Heartbeat, Scores, MoreTyped, checkVars
<1>7. CASE Tick \/ Boot \/ UNCHANGED vars
  BY <1>7 DEF Tick, Boot, vars, MoreTyped, checkVars
<1>8. CASE Crash
  BY <1>8 DEF Crash, MoreTyped
<1> QED BY <1>1, <1>2, <1>3, <1>4, <1>5, <1>6, <1>7, <1>8 DEF Next, GateSteps, Checks

\* submit() inserts the row of its call.
LEMMA SubmitAdds ==
    ASSUME OversightInv, NEW c \in Calls, Submit(c)
    PROVE  AddsRow(c, "call")
<1> DEFINE status == IF LevelOf(c) = "HIGH" THEN "PENDING" ELSE "AUTO_ALLOWED"
<1>1. status \in Statuses
  BY DEF Statuses
<1>2. PICK counted \in {Estimates(script[c], LevelOf(c)), FALSE} :
          store' = Append(store, Row(c, "call", status, counted))
  BY Zenon DEF Submit, LevelOf
<1>3. counted \in BOOLEAN
  BY <1>2, Zenon DEF Estimates
<1>4. counted => Estimates(script[c], LevelOf(c))
  BY <1>2, Zenon
<1> DEFINE row == Row(c, "call", status, counted)
<1>5. row \in RowSet /\ row.of = c /\ row.kind = "call"
  BY <1>1, <1>3, RowTyped
<1>6. row.requested_at = now /\ row.counted = counted
  BY DEF Row
<1> HIDE DEF row, status
<1>7. store' = Append(store, row)
  BY <1>2 DEF row
<1> QED BY <1>3, <1>4, <1>5, <1>6, <1>7, Inserts DEF AddsRow

\* The undo endpoint inserts a row that no operator was shown a count for.
LEMMA UndoAdds ==
    ASSUME OversightInv, NEW c \in Calls, Undo(c)
    PROVE  AddsRow(c, "undo")
<1>1. "APPROVED" \in Statuses
  BY DEF Statuses, Resolutions, Verdicts
<1> DEFINE row == Row(c, "undo", "APPROVED", FALSE)
<1>2. row \in RowSet /\ row.of = c /\ row.kind = "undo"
  BY <1>1, RowTyped
<1>3. row.requested_at = now /\ row.counted = FALSE
  BY DEF Row
<1>4. store' = Append(store, row)
  BY DEF Undo
<1> HIDE DEF row
<1> QED BY <1>2, <1>3, <1>4, Inserts DEF AddsRow

\* The end of a hold changes a row's status.
LEMMA ResolveSame ==
    ASSUME OversightInv, NEW c \in Calls, NEW status, Resolve(c, status)
    PROVE  SameRows
<1> DEFINE n == RowOf(c)
<1>1. n \in DOMAIN store
  BY RowOfFinds DEF Resolve
<1>2. store' = [store EXCEPT ![n].status = status, ![n].resolved_at = now]
  BY DEF Resolve
<1> HIDE DEF n
<1>3. store[n] \in RowSet
  BY <1>1 DEF OversightInv, Typed
<1> DEFINE row == [store[n] EXCEPT !.status = status, !.resolved_at = now]
<1>4. store' = [store EXCEPT ![n] = row]
  BY <1>1, <1>2, <1>3 DEF RowSet, OversightInv, Typed
<1>5. /\ row.of = store[n].of /\ row.kind = store[n].kind /\ row.novel = store[n].novel
      /\ row.counted = store[n].counted /\ row.requested_at = store[n].requested_at
  BY <1>3 DEF RowSet
<1> HIDE DEF row
<1> QED BY <1>1, <1>4, <1>5 DEF SameRows

\* mark_novel() flags the call's own row.
LEMMA CreepMarksSame ==
    ASSUME OversightInv, NEW c \in Calls, CreepMarks(c)
    PROVE  SameRows /\ RowOf(c) \in DOMAIN store /\ IsRow(store, RowOf(c), c) /\ store'[RowOf(c)].novel
<1> DEFINE n == RowOf(c)
<1>1. n \in DOMAIN store /\ IsRow(store, n, c)
  BY RowOfFinds DEF CreepMarks
<1>2. store' = [store EXCEPT ![n].novel = TRUE]
  BY DEF CreepMarks
<1> HIDE DEF n
<1>3. store[n] \in RowSet
  BY <1>1 DEF OversightInv, Typed
<1> DEFINE row == [store[n] EXCEPT !.novel = TRUE]
<1>4. store' = [store EXCEPT ![n] = row]
  BY <1>1, <1>2, <1>3 DEF RowSet, OversightInv, Typed
<1>5. /\ row.of = store[n].of /\ row.kind = store[n].kind /\ row.novel = TRUE
      /\ row.counted = store[n].counted /\ row.requested_at = store[n].requested_at
  BY <1>3 DEF RowSet
<1> HIDE DEF row
<1>6. SameRows /\ store'[n].novel
  BY <1>1, <1>4, <1>5 DEF SameRows
<1> QED BY <1>1, <1>6 DEF n

\* The start of atc-core changes the status of rows.
LEMMA BootSame ==
    ASSUME OversightInv, Boot
    PROVE  SameRows
<1> DEFINE expired(i) == IF store[i].status = "PENDING"
                         THEN [store[i] EXCEPT !.status = "EXPIRED", !.resolved_at = now]
                         ELSE store[i]
<1>1. store' = [i \in DOMAIN store |-> expired(i)]
  BY DEF Boot
<1>2. ASSUME NEW i \in DOMAIN store
      PROVE  /\ expired(i).of = store[i].of
             /\ expired(i).kind = store[i].kind
             /\ expired(i).novel = store[i].novel
             /\ expired(i).counted = store[i].counted
             /\ expired(i).requested_at = store[i].requested_at
  <2>1. store[i] \in RowSet
    BY DEF OversightInv, Typed
  <2> QED BY <2>1 DEF RowSet
<1> HIDE DEF expired
<1> QED BY <1>1, <1>2 DEF SameRows

\* A call that fails, and every step but Submit, Undo and Crash.
LEMMA OthersSame ==
    ASSUME OversightInv,
           \/ \E c \in Calls : Fails(c) \/ GateSteps(c) \/ Checks(c)
           \/ \E c \in Calls, status \in Verdicts : Resolve(c, status)
           \/ \E a \in Beating : Heartbeat(a) \/ Scores(a)
           \/ Tick \/ Boot \/ UNCHANGED vars
    PROVE  SameRows
<1>1. ASSUME UNCHANGED store PROVE SameRows
  BY <1>1 DEF SameRows
<1>2. ASSUME NEW c \in Calls, GateSteps(c) PROVE SameRows
  BY <1>1, <1>2, ResolveSame DEF GateSteps, Recorded, Execute
<1>3. ASSUME NEW c \in Calls, Checks(c) PROVE SameRows
  BY <1>1, <1>3, CreepMarksSame DEF Checks, CreepReads, CreepCommits, LoopReads, tableVars
<1>4. ASSUME NEW a \in Beating, Heartbeat(a) \/ Scores(a) PROVE SameRows
  BY <1>1, <1>4 DEF Heartbeat, Scores, tableVars
<1>5. CASE Tick \/ UNCHANGED vars
  BY <1>1, <1>5 DEF Tick, vars, tableVars
<1>6. ASSUME NEW c \in Calls, Fails(c) PROVE SameRows
  BY <1>1, <1>6 DEF Fails, tableVars
<1> QED BY <1>2, <1>3, <1>4, <1>5, <1>6, ResolveSame, BootSame

\* What the calls are does not change.
LEMMA ScriptStays == [Next]_vars => UNCHANGED script
<1> SUFFICES ASSUME [Next]_vars PROVE UNCHANGED script
  OBVIOUS
<1>1. ASSUME NEW c \in Calls, Fails(c) \/ Submit(c) \/ Undo(c) \/ GateSteps(c) \/ Checks(c) PROVE UNCHANGED script
  BY <1>1 DEF Fails, Submit, Undo, GateSteps, Recorded, Execute, Resolve, Checks, CreepReads, CreepMarks,
              CreepCommits, LoopReads
<1>2. ASSUME NEW c \in Calls, NEW status, Resolve(c, status) PROVE UNCHANGED script
  BY <1>2 DEF Resolve
<1>3. ASSUME NEW a \in Beating, Heartbeat(a) \/ Scores(a) PROVE UNCHANGED script
  BY <1>3 DEF Heartbeat, Scores
<1>4. CASE Tick \/ Crash \/ Boot \/ UNCHANGED vars
  BY <1>4 DEF Tick, Crash, Boot, vars
<1> QED BY <1>1, <1>2, <1>3, <1>4 DEF Next
-----------------------------------------------------------------------------
(* The rows that were counted for the operator.                            *)

\* build_count_sql() counts the rows of the call's statement.
Counts(c) == script[c].tool = "db__execute" /\ CountsRows(script[c].sql)

\* Only rows of such calls are counted, and a call that the journal captures has its
\* pre-image once it has run, or its capture failed.
CountInv ==
    /\ \A i \in DOMAIN store : store[i].counted => Counts(store[i].of)
    /\ \A i \in DOMAIN durable : durable[i].counted => Counts(durable[i].of)
    /\ \A c \in ran : Classify(script[c]) = "COMPENSABLE" /\ Captures(script[c]) => c \in kept \cup blind

\* What takes something away and is counted, or down as compensable, is captured, but
\* for the statements that the readers disagree about.
LEMMA RecoverableIsCaptured ==
    ASSUME NEW call, Takes(call), ~Overlooked(call),
           \/ call.tool = "db__execute" /\ CountsRows(call.sql)
           \/ Classify(call) = "COMPENSABLE"
    PROVE  Classify(call) = "COMPENSABLE" /\ Captures(call)
<1>1. Classify(call) = "COMPENSABLE"
  BY DEF CountsRows, Classify
<1>2. CASE call.tool \in {"fs__write", "fs__delete"}
  BY <1>1, <1>2 DEF Takes, Captures
<1>3. CASE call.tool = "db__execute"
  <2>1. call.sql.kind \in {"DROP", "CREATE", "INSERT", "UPDATE", "DELETE"}
    BY <1>1, <1>3 DEF Classify
  <2> QED BY <1>1, <1>3, <2>1 DEF Takes, Overlooked, Captures
<1> QED BY <1>2, <1>3 DEF Takes

\* Whatever is committed is the table, before the step or after it.
LEMMA CommitsKeepRows ==
    ASSUME OversightInv, [Next]_vars
    PROVE  durable' \in {durable, store, store'}
<1>1. ASSUME NEW c \in Calls, Fails(c) \/ Submit(c) \/ Undo(c) \/ GateSteps(c) \/ Checks(c)
      PROVE  durable' \in {durable, store, store'}
  BY <1>1 DEF Fails, Submit, Undo, GateSteps, Recorded, Execute, Resolve, Checks, CreepReads, CreepMarks,
              CreepCommits, LoopReads, tableVars
<1>2. ASSUME NEW c \in Calls, NEW status, Resolve(c, status) PROVE durable' \in {durable, store, store'}
  BY <1>2 DEF Resolve
<1>3. ASSUME NEW a \in Beating, Heartbeat(a) \/ Scores(a) PROVE durable' \in {durable, store, store'}
  BY <1>3 DEF Heartbeat, Scores, tableVars
<1>4. CASE Tick \/ Crash \/ Boot \/ UNCHANGED vars
  BY <1>4 DEF Tick, Crash, Boot, vars, tableVars
<1> QED BY <1>1, <1>2, <1>3, <1>4 DEF Next

\* A call that the journal captures runs after its capture, or its failure.
LEMMA RunsAreKept ==
    ASSUME OversightInv, CountInv, [Next]_vars
    PROVE  \A c \in ran' : Classify(script'[c]) = "COMPENSABLE" /\ Captures(script'[c])
                           => c \in kept' \cup blind'
<1>1. UNCHANGED script
  BY ScriptStays
<1>2. \A c \in ran : Classify(script[c]) = "COMPENSABLE" /\ Captures(script[c]) => c \in kept \cup blind
  BY DEF CountInv
<1>3. ASSUME NEW c \in Calls, Execute(c)
      PROVE  /\ ran' = ran \cup {c} /\ kept \subseteq kept' /\ blind \subseteq blind'
             /\ Classify(script[c]) = "COMPENSABLE" /\ Captures(script[c]) => c \in kept' \cup blind'
  <2>1. ran' = ran \cup {c}
    BY <1>3 DEF Execute
  <2>2. CASE Classify(script[c]) = "COMPENSABLE" /\ Captures(script[c])
    <3>1. \/ kept' = kept \cup {c} /\ UNCHANGED blind
          \/ blind' = blind \cup {c} /\ UNCHANGED kept
      BY <1>3, <2>2 DEF Execute
    <3> QED BY <2>1, <3>1
  <2>3. CASE ~(Classify(script[c]) = "COMPENSABLE" /\ Captures(script[c]))
    <3>1. UNCHANGED <<kept, blind>>
      BY <1>3, <2>3 DEF Execute
    <3> QED BY <2>1, <2>3, <3>1
  <2> QED BY <2>2, <2>3
<1>4. CASE \E c \in Calls : Execute(c)
  BY <1>1, <1>2, <1>3, <1>4
<1>5. ASSUME ~\E c \in Calls : Execute(c) PROVE UNCHANGED <<ran, kept, blind>>
  <2>1. ASSUME NEW c \in Calls, Fails(c) \/ Submit(c) \/ Undo(c) \/ GateSteps(c) \/ Checks(c)
        PROVE  UNCHANGED <<ran, kept, blind>>
    BY <1>5, <2>1 DEF Fails, Submit, Undo, GateSteps, Recorded, Resolve, Checks, CreepReads, CreepMarks,
                      CreepCommits, LoopReads, runVars
  <2>2. ASSUME NEW c \in Calls, NEW status, Resolve(c, status) PROVE UNCHANGED <<ran, kept, blind>>
    BY <2>2 DEF Resolve, runVars
  <2>3. ASSUME NEW a \in Beating, Heartbeat(a) \/ Scores(a) PROVE UNCHANGED <<ran, kept, blind>>
    BY <2>3 DEF Heartbeat, Scores, runVars
  <2>4. CASE Tick \/ Crash \/ Boot \/ UNCHANGED vars
    BY <2>4 DEF Tick, Crash, Boot, vars, runVars
  <2> QED BY <2>1, <2>2, <2>3, <2>4 DEF Next
<1> QED BY <1>1, <1>2, <1>4, <1>5

\* Every step keeps what is known of the counts.
LEMMA CountStep ==
    ASSUME OversightInv, CountInv, [Next]_vars
    PROVE  CountInv'
<1>1. UNCHANGED script
  BY ScriptStays
<1>2. durable' \in {durable, store, store'}
  BY CommitsKeepRows
<1>3. \A c : Counts(c)' <=> Counts(c)
  BY <1>1 DEF Counts
<1>4. /\ \A i \in DOMAIN store : store[i].counted => Counts(store[i].of)
      /\ \A i \in DOMAIN durable : durable[i].counted => Counts(durable[i].of)
  BY DEF CountInv
<1>5. ASSUME SameRows PROVE \A i \in DOMAIN store' : store'[i].counted => Counts(store'[i].of)
  BY <1>4, <1>5 DEF SameRows
<1>6. ASSUME NEW c \in Calls, NEW kind, AddsRow(c, kind)
      PROVE  \A i \in DOMAIN store' : store'[i].counted => Counts(store'[i].of)
  <2> DEFINE n == Len(store) + 1
  <2>1. \A i \in DOMAIN store' : i \in DOMAIN store \/ i = n
    BY <1>6 DEF AddsRow
  <2>2. \A i \in DOMAIN store : store'[i] = store[i]
    BY <1>6 DEF AddsRow
  <2>3. store'[n].counted => Counts(store'[n].of)
    BY <1>6 DEF AddsRow, Estimates, Counts
  <2> QED BY <1>4, <2>1, <2>2, <2>3
<1>7. CASE Crash
  BY <1>1, <1>2, <1>3, <1>4, <1>7, RunsAreKept DEF Crash, CountInv
<1>8. CASE ~Crash
  <2>1. SameRows \/ \E c \in Calls, kind \in {"call", "undo"} : AddsRow(c, kind)
    BY <1>8, SubmitAdds, UndoAdds, OthersSame DEF Next
  <2>2. \A i \in DOMAIN store' : store'[i].counted => Counts(store'[i].of)
    BY <1>5, <1>6, <2>1
  <2> QED BY <1>1, <1>2, <1>3, <1>4, <2>2, RunsAreKept DEF CountInv
<1> QED BY <1>7, <1>8

\* When a call has run that took something away, and was shown with a row count or as
\* compensable, the journal has what it took, unless the capture itself failed or the
\* statement is one that capture() overlooks.
THEOREM RecoverableRowsAreKept == Spec => []RecoverableIsKept
<1>1. Init => CountInv
  BY DEF Init, CountInv
<1>2. OversightInv /\ CountInv /\ [Next]_vars => CountInv'
  BY CountStep
<1>3. CountInv => RecoverableIsKept
  <2> SUFFICES ASSUME CountInv, NEW i \in DOMAIN store, store[i].of \in ran,
                      Takes(script[store[i].of]), ~Overlooked(script[store[i].of]),
                      store[i].counted \/ Classify(script[store[i].of]) = "COMPENSABLE"
               PROVE  store[i].of \in kept \cup blind
    BY DEF RecoverableIsKept
  <2>1. store[i].counted => Counts(store[i].of)
    BY DEF CountInv
  <2>2. Classify(script[store[i].of]) = "COMPENSABLE" /\ Captures(script[store[i].of])
    BY <2>1, RecoverableIsCaptured DEF Counts
  <2> QED BY <2>2 DEF CountInv
<1> QED BY <1>1, <1>2, <1>3, OversightInvariant, PTL DEF Spec
-----------------------------------------------------------------------------
(* The detectors.                                                          *)

\* Call c's row is flagged; or another row of the resource was there when its check read.
Touched(c) == \E i \in DOMAIN store : store[i].novel /\ IsRow(store, i, c)

TouchedBefore(c) ==
    \E i \in DOMAIN store : ~IsRow(store, i, c) /\ SameResource(c, store[i].of) /\ i <= seen[c]

TouchFacts ==
    \A c \in Calls :
        /\ creep[c] = "marked" => Touched(c)
        /\ creep[c] = "done" /\ HasResource(script[c]) => Touched(c) \/ TouchedBefore(c)

\* What was true of a call's rows stays so, but in a crash.
LEMMA TouchesStay ==
    ASSUME OversightInv, [Next]_vars, ~Crash, NEW c \in Calls
    PROVE  /\ Touched(c) => Touched(c)'
           /\ TouchedBefore(c) /\ seen'[c] = seen[c] => TouchedBefore(c)'
<1>1. UNCHANGED script
  BY ScriptStays
<1>2. SameRows \/ \E d \in Calls, kind \in {"call", "undo"} : AddsRow(d, kind)
  BY SubmitAdds, UndoAdds, OthersSame DEF Next
<1>3. /\ DOMAIN store \subseteq DOMAIN store'
      /\ \A i \in DOMAIN store : /\ store'[i].of = store[i].of
                                 /\ store'[i].kind = store[i].kind
                                 /\ store[i].novel => store'[i].novel
  <2>1. CASE SameRows
    BY <2>1 DEF SameRows
  <2>2. ASSUME NEW d \in Calls, NEW kind, AddsRow(d, kind)
        PROVE  /\ DOMAIN store \subseteq DOMAIN store'
               /\ \A i \in DOMAIN store : store'[i] = store[i]
    BY <2>2 DEF AddsRow
  <2> QED BY <1>2, <2>1, <2>2
<1>4. \A i \in DOMAIN store : IsRow(store', i, c) <=> IsRow(store, i, c)
  BY <1>3 DEF IsRow
<1>5. \A i \in DOMAIN store : SameResource(c, store[i].of)' <=> SameResource(c, store[i].of)
  BY <1>1, <1>3 DEF SameResource
<1> QED BY <1>3, <1>4, <1>5 DEF Touched, TouchedBefore

\* How a creep check moves on.
LEMMA CreepMoves ==
    ASSUME OversightInv, MoreTyped, [Next]_vars, ~Crash, NEW c \in Calls
    PROVE  \/ creep'[c] = creep[c] /\ seen'[c] = seen[c]
           \/ creep'[c] \in {"due", "novel"}
           \/ creep'[c] = "done" /\ ~HasResource(script[c])
           \/ CreepReads(c) /\ Touches(c) # {}
           \/ CreepMarks(c)
           \/ CreepCommits(c)
<1> DEFINE Moved == \/ creep'[c] = creep[c] /\ seen'[c] = seen[c]
                    \/ creep'[c] \in {"due", "novel"}
                    \/ creep'[c] = "done" /\ ~HasResource(script[c])
                    \/ CreepReads(c) /\ Touches(c) # {}
                    \/ CreepMarks(c)
                    \/ CreepCommits(c)
<1>1. creep \in [Calls -> {"none", "due", "novel", "marked", "done"}] /\ seen \in [Calls -> Nat]
  BY DEF OversightInv, Typed, MoreTyped
<1>2. ASSUME NEW d \in Calls, Recorded(d) PROVE Moved
  BY <1>1, <1>2 DEF Recorded, Scheduled
<1>3. ASSUME NEW d \in Calls, CreepReads(d) PROVE Moved
  BY <1>1, <1>3 DEF CreepReads
<1>4. ASSUME NEW d \in Calls, CreepMarks(d) \/ CreepCommits(d) PROVE Moved
  BY <1>1, <1>4 DEF CreepMarks, CreepCommits
<1>5. ASSUME NEW d \in Calls, Fails(d) \/ Submit(d) \/ Undo(d) \/ Execute(d) \/ LoopReads(d) PROVE Moved
  BY <1>5 DEF Fails, Submit, Undo, Execute, LoopReads, checkVars
<1>6. ASSUME NEW d \in Calls, NEW status, Resolve(d, status) PROVE Moved
  BY <1>6 DEF Resolve, checkVars
<1>7. ASSUME NEW a \in Beating, Heartbeat(a) \/ Scores(a) PROVE Moved
  BY <1>7 DEF Heartbeat, Scores, checkVars
<1>8. CASE Tick \/ Boot \/ UNCHANGED vars
  BY <1>8 DEF Tick, Boot, vars, checkVars
<1> QED BY <1>2, <1>3, <1>4, <1>5, <1>6, <1>7, <1>8 DEF Next, GateSteps, Checks

\* Every step but a crash keeps what is known of the first touches.
LEMMA TouchStep ==
    ASSUME OversightInv, MoreTyped, TouchFacts, [Next]_vars, ~Crash
    PROVE  TouchFacts'
<1>1. UNCHANGED script
  BY ScriptStays
<1>2. \A c : HasResource(script[c])' <=> HasResource(script[c])
  BY <1>1
<1>3. creep \in [Calls -> {"none", "due", "novel", "marked", "done"}] /\ seen \in [Calls -> Nat]
  BY DEF OversightInv, Typed, MoreTyped
<1> SUFFICES ASSUME NEW c \in Calls
             PROVE  /\ creep'[c] = "marked" => Touched(c)'
                    /\ creep'[c] = "done" /\ HasResource(script[c]) => Touched(c)' \/ TouchedBefore(c)'
  BY <1>2 DEF TouchFacts
<1>4. /\ creep[c] = "marked" => Touched(c)
      /\ creep[c] = "done" /\ HasResource(script[c]) => Touched(c) \/ TouchedBefore(c)
  BY DEF TouchFacts
<1>5. CASE creep'[c] = creep[c] /\ seen'[c] = seen[c]
  BY <1>4, <1>5, TouchesStay
<1>6. CASE creep'[c] \in {"due", "novel"} \/ (creep'[c] = "done" /\ ~HasResource(script[c]))
  BY <1>6
<1>7. CASE CreepReads(c) /\ Touches(c) # {}
  <2>1. creep'[c] = "done" /\ seen'[c] = Len(store) /\ UNCHANGED store
    BY <1>3, <1>7 DEF CreepReads, tableVars
  <2>2. PICK i \in DOMAIN store : i \notin RowsOf(c) /\ SameResource(c, store[i].of)
    BY <1>7 DEF Touches
  <2>3. ~IsRow(store, i, c) /\ i <= Len(store)
    BY <2>2 DEF RowsOf, IsRow, OversightInv, Typed
  <2>4. SameResource(c, store[i].of)'
    BY <1>1, <2>1, <2>2 DEF SameResource
  <2>5. ~IsRow(store', i, c)
    BY <2>1, <2>3 DEF IsRow
  <2>6. TouchedBefore(c)'
    BY <2>1, <2>2, <2>3, <2>4, <2>5 DEF TouchedBefore
  <2> QED BY <2>1, <2>6
<1>8. CASE CreepMarks(c)
  <2> DEFINE n == RowOf(c)
  <2>1. SameRows /\ n \in DOMAIN store /\ IsRow(store, n, c) /\ store'[n].novel
    BY <1>8, CreepMarksSame
  <2>2. creep'[c] = "marked"
    BY <1>3, <1>8 DEF CreepMarks
  <2> HIDE DEF n
  <2>3. n \in DOMAIN store' /\ IsRow(store', n, c)
    BY <2>1 DEF SameRows, IsRow
  <2> QED BY <2>1, <2>2, <2>3 DEF Touched
<1>9. CASE CreepCommits(c)
  <2>1. creep[c] = "marked" /\ creep'[c] = "done"
    BY <1>3, <1>9 DEF CreepCommits
  <2> QED BY <1>4, <2>1, TouchesStay
<1> QED BY <1>5, <1>6, <1>7, <1>8, <1>9, CreepMoves

\* The row of a call is the one RowOf finds.
LEMMA RowOfIs ==
    ASSUME OversightInv, NEW c \in Calls, NEW i \in DOMAIN store, IsRow(store, i, c)
    PROVE  RowsOf(c) = {i} /\ RowOf(c) = i
<1>1. RowsOf(c) = {i}
  BY DEF RowsOf, OversightInv, OneRow, IsRow
<1> QED BY <1>1 DEF RowOf

\* So first touches are flagged.
LEMMA TouchIsFlagged ==
    ASSUME OversightInv, crashes = 0 => TouchFacts
    PROVE  FirstTouchFlagged
<1> SUFFICES ASSUME NEW c \in Calls, creep[c] = "done", HasResource(script[c]), crashes = 0
             PROVE  store[RowOf(c)].novel \/ \E i \in Touches(c) : i <= seen[c]
  BY DEF FirstTouchFlagged
<1>1. CASE Touched(c)
  BY <1>1, RowOfIs DEF Touched
<1>2. CASE TouchedBefore(c)
  BY <1>2 DEF TouchedBefore, Touches, RowsOf, IsRow
<1> QED BY <1>1, <1>2 DEF TouchFacts

\* The calls like c in the window that ends with row i, and whether they are a loop.
Alike(c, i) ==
    {k \in DOMAIN store : /\ store[k].kind = "call" /\ Repeats(c, store[k].of)
                          /\ store[k].requested_at \in store[i].requested_at - Window .. store[i].requested_at}

EndsLoop(c, i) == IsRow(store, i, c) /\ Cardinality(Alike(c, i)) > Threshold

\* A call whose check has not read was made in this unit of time.
UnreadFacts ==
    /\ \A c \in Calls : loop[c] # "none" => \E i \in DOMAIN store : IsRow(store, i, c)
    /\ \A c \in Calls : pc[c] \in {"idle", "submit"} => loop[c] = "none"
    /\ \A i \in DOMAIN store : store[i].requested_at <= now
    /\ \A c \in Calls, i \in DOMAIN store : IsRow(store, i, c) /\ loop[c] # "done" =>
            (pc[c] = "submit" \/ loop[c] = "due") /\ store[i].requested_at = now

\* A suspected call ends a loop.
AlarmFacts == \A d \in alarms : \E i \in DOMAIN store : EndsLoop(d, i)

\* Call e is like d, made at the same time as row i, and suspected or not yet read.
Answers(d, i, e, j) ==
    /\ IsRow(store, j, e) /\ Repeats(d, e)
    /\ store[j].requested_at = store[i].requested_at
    /\ loop[e] # "done" \/ e \in alarms

\* A loop ends with such a call.
CaughtFacts ==
    \A d \in Calls, i \in DOMAIN store : EndsLoop(d, i) =>
        \E e \in Calls, j \in DOMAIN store : Answers(d, i, e, j)

LoopFacts == UnreadFacts /\ AlarmFacts /\ CaughtFacts

\* A set of rows is finite.
LEMMA RowsFinite ==
    ASSUME OversightInv, NEW S, S \subseteq DOMAIN store
    PROVE  IsFiniteSet(S) /\ Cardinality(S) \in Nat
<1>1. DOMAIN store = 1 .. Len(store) /\ Len(store) \in Nat
  BY DEF OversightInv, Typed
<1>2. IsFiniteSet(DOMAIN store)
  BY <1>1, FS_Interval
<1>3. IsFiniteSet(S)
  BY <1>2, FS_Subset
<1> QED BY <1>3, FS_CardinalityType

\* The types of a row's columns.
LEMMA RowFields ==
    ASSUME OversightInv, NEW i \in DOMAIN store
    PROVE  /\ store[i].of \in Calls /\ store[i].kind \in {"call", "undo"}
           /\ store[i].requested_at \in Nat
<1>1. store[i] \in RowSet
  BY DEF OversightInv, Typed
<1> QED BY <1>1 DEF RowSet

\* The calls alike are those of the rows.
LEMMA AlikeSame ==
    ASSUME SameRows, UNCHANGED script, NEW d, NEW i \in DOMAIN store
    PROVE  /\ Alike(d, i)' = Alike(d, i)
           /\ IsRow(store', i, d) <=> IsRow(store, i, d)
           /\ EndsLoop(d, i)' <=> EndsLoop(d, i)
<1>1. Alike(d, i)' = Alike(d, i)
  BY DEF SameRows, Alike, Repeats
<1>2. IsRow(store', i, d) <=> IsRow(store, i, d)
  BY DEF SameRows, IsRow
<1> QED BY <1>1, <1>2 DEF EndsLoop

\* No row comes or goes, no check reads, and no call goes on.
LEMMA LoopSame ==
    ASSUME OversightInv, LoopFacts, SameRows, UNCHANGED <<script, now, loop, alarms>>,
           \A c \in Calls : /\ pc[c] = "submit" => pc'[c] = "submit"
                            /\ pc'[c] \in {"idle", "submit"} => pc[c] \in {"idle", "submit"}
    PROVE  LoopFacts'
<1>1. \A c : \A i \in DOMAIN store : IsRow(store', i, c) <=> IsRow(store, i, c)
  BY AlikeSame
<1>2. \A d : \A i \in DOMAIN store : EndsLoop(d, i)' <=> EndsLoop(d, i)
  BY AlikeSame
<1>3. \A i \in DOMAIN store : store'[i].requested_at = store[i].requested_at
  BY DEF SameRows
<1>4. DOMAIN store' = DOMAIN store
  BY DEF SameRows
<1>5. \A d, e : \A i, j \in DOMAIN store : Answers(d, i, e, j)' <=> Answers(d, i, e, j)
  BY <1>1, <1>3 DEF Answers, Repeats
<1>6. UnreadFacts'
  BY <1>1, <1>3, <1>4 DEF LoopFacts, UnreadFacts
<1>7. AlarmFacts'
  BY <1>2, <1>4 DEF LoopFacts, AlarmFacts
<1>8. CaughtFacts'
  BY <1>2, <1>4, <1>5 DEF LoopFacts, CaughtFacts
<1> QED BY <1>6, <1>7, <1>8 DEF LoopFacts

\* Time passes, and no check has yet to read.
LEMMA LoopTick ==
    ASSUME OversightInv, LoopFacts, Tick
    PROVE  LoopFacts'
<1>1. UNCHANGED <<script, store, pc, loop, alarms>> /\ now' = now + 1 /\ now \in Nat
  BY DEF Tick, tableVars, checkVars, OversightInv, Typed
<1>2. \A c \in Calls : pc[c] # "submit" /\ loop[c] # "due"
  BY DEF Tick, Ready
<1>3. SameRows
  BY <1>1 DEF SameRows
<1>4. UnreadFacts'
  <2>1. \A i \in DOMAIN store : store[i].requested_at <= now'
    BY <1>1, RowFields DEF LoopFacts, UnreadFacts
  <2> QED BY <1>1, <1>2, <2>1 DEF LoopFacts, UnreadFacts, IsRow
<1>5. AlarmFacts'
  BY <1>1, <1>3, AlikeSame DEF LoopFacts, AlarmFacts
<1>6. CaughtFacts'
  <2>1. \A d, i, e, j : Answers(d, i, e, j)' <=> Answers(d, i, e, j)
    BY <1>1 DEF Answers, IsRow, Repeats
  <2>2. \A d : \A i \in DOMAIN store : EndsLoop(d, i)' <=> EndsLoop(d, i)
    BY <1>1, <1>3, AlikeSame
  <2> QED BY <1>1, <2>1, <2>2 DEF LoopFacts, CaughtFacts
<1> QED BY <1>4, <1>5, <1>6 DEF LoopFacts

\* The commit of submit() schedules the check.
LEMMA LoopRecorded ==
    ASSUME OversightInv, MoreTyped, LoopFacts, NEW c \in Calls, Recorded(c)
    PROVE  LoopFacts'
<1>1. /\ UNCHANGED <<script, store, now, alarms>> /\ pc[c] = "submit"
      /\ loop' = [loop EXCEPT ![c] = "due"]
      /\ pc'[c] \in {"hold", "execute"} /\ \A d \in Calls : d # c => pc'[d] = pc[d]
  BY DEF Recorded, Scheduled, OversightInv, Typed
<1>2. loop'[c] = "due" /\ \A d \in Calls : d # c => loop'[d] = loop[d]
  BY <1>1 DEF MoreTyped
<1>3. \E i \in DOMAIN store : IsRow(store, i, c)
  BY <1>1 DEF OversightInv, CallFacts
<1>4. SameRows
  BY <1>1 DEF SameRows
<1>5. UnreadFacts'
  <2>1. \A i \in DOMAIN store : IsRow(store, i, c) => store[i].requested_at = now
    <3> SUFFICES ASSUME NEW i \in DOMAIN store, IsRow(store, i, c) PROVE store[i].requested_at = now
      OBVIOUS
    <3>1. loop[c] # "done"
      BY <1>1 DEF LoopFacts, UnreadFacts
    <3> QED BY <3>1 DEF LoopFacts, UnreadFacts
  <2> QED BY <1>1, <1>2, <1>3, <2>1 DEF LoopFacts, UnreadFacts
<1>6. AlarmFacts'
  BY <1>1, <1>4, AlikeSame DEF LoopFacts, AlarmFacts
<1>7. CaughtFacts'
  <2>1. \A d, i, j : \A e \in Calls : Answers(d, i, e, j) => Answers(d, i, e, j)'
    BY <1>1, <1>2 DEF Answers, IsRow, Repeats
  <2>2. \A d : \A i \in DOMAIN store : EndsLoop(d, i)' <=> EndsLoop(d, i)
    BY <1>1, <1>4, AlikeSame
  <2> QED BY <1>1, <2>1, <2>2 DEF LoopFacts, CaughtFacts
<1> QED BY <1>5, <1>6, <1>7 DEF LoopFacts

\* Likeness, of the same calls before and after.
LEMMA RepeatsLaws ==
    /\ \A c : Repeats(c, c)
    /\ \A c, d : Repeats(c, d) => Repeats(d, c)
    /\ \A c, d, e : Repeats(c, d) /\ Repeats(d, e) => Repeats(c, e)
BY DEF Repeats

\* What a check counts is, with the call's own row, what is alike in the window, when it
\* runs in the unit of time of the call.
LEMMA ReadsAreLoops ==
    ASSUME OversightInv, UnreadFacts, NEW e \in Calls, NEW j \in DOMAIN store, IsRow(store, j, e),
           store[j].requested_at = now
    PROVE  RecentRepeats(e) = Alike(e, j) \ {j} /\ j \in Alike(e, j)
<1>1. now \in Nat /\ Window \in Nat
  BY OversightAssumption DEF OversightInv, Typed
<1>2. j \in Alike(e, j)
  BY <1>1, RepeatsLaws DEF Alike, IsRow
<1>3. ASSUME NEW k \in DOMAIN store, store[k].kind = "call"
      PROVE  store[k].of # e <=> k # j
  BY <1>3 DEF OversightInv, OneRow, IsRow
<1>4. ASSUME NEW k \in DOMAIN store
      PROVE  store[k].requested_at \in now - Window .. now <=> store[k].requested_at >= now - Window
  <2>1. store[k].requested_at \in Nat /\ store[k].requested_at <= now
    BY RowFields DEF UnreadFacts
  <2> QED BY <1>1, <2>1
<1>5. ASSUME NEW k \in DOMAIN store
      PROVE  k \in RecentRepeats(e) <=> k \in Alike(e, j) \ {j}
  BY <1>3, <1>4 DEF RecentRepeats, Alike
<1>6. RecentRepeats(e) \subseteq DOMAIN store /\ Alike(e, j) \ {j} \subseteq DOMAIN store
  BY DEF RecentRepeats, Alike
<1> QED BY <1>2, <1>5, <1>6

\* So the check suspects the call exactly if it ends a loop.
LEMMA SuspectsLoops ==
    ASSUME OversightInv, UnreadFacts, NEW e \in Calls, NEW j \in DOMAIN store, IsRow(store, j, e),
           store[j].requested_at = now
    PROVE  Cardinality(RecentRepeats(e)) >= Threshold <=> EndsLoop(e, j)
<1>1. RecentRepeats(e) = Alike(e, j) \ {j} /\ j \in Alike(e, j)
  BY ReadsAreLoops
<1>2. IsFiniteSet(Alike(e, j)) /\ Cardinality(Alike(e, j)) \in Nat
  <2>1. Alike(e, j) \subseteq DOMAIN store
    BY DEF Alike
  <2> QED BY <2>1, RowsFinite
<1>3. Cardinality(RecentRepeats(e)) = Cardinality(Alike(e, j)) - 1
  BY <1>1, <1>2, FS_RemoveElement
<1>4. Threshold \in Nat
  BY OversightAssumption
<1> QED BY <1>2, <1>3, <1>4 DEF EndsLoop

\* Like calls end the same loops at the same time.
LEMMA LikeEnds ==
    ASSUME NEW d \in Calls, NEW e \in Calls, Repeats(d, e), NEW i \in DOMAIN store,
           NEW j \in DOMAIN store, IsRow(store, j, e),
           store[i].requested_at = store[j].requested_at, EndsLoop(d, i)
    PROVE  EndsLoop(e, j)
<1>1. Alike(d, i) = Alike(e, j)
  BY RepeatsLaws DEF Alike
<1> QED BY <1>1 DEF EndsLoop

\* A check reads the table.
LEMMA LoopRead ==
    ASSUME OversightInv, MoreTyped, LoopFacts, NEW c \in Calls, LoopReads(c)
    PROVE  LoopFacts'
<1>1. /\ UNCHANGED <<script, store, pc, now>> /\ loop[c] = "due"
      /\ loop'[c] = "done" /\ \A d \in Calls : d # c => loop'[d] = loop[d]
      /\ alarms' = IF Cardinality(RecentRepeats(c)) >= Threshold THEN alarms \cup {c} ELSE alarms
  BY DEF LoopReads, tableVars, MoreTyped
<1>2. SameRows
  BY <1>1 DEF SameRows
<1>3. PICK j \in DOMAIN store : IsRow(store, j, c)
  BY <1>1 DEF LoopFacts, UnreadFacts
<1>4. store[j].requested_at = now
  BY <1>1, <1>3 DEF LoopFacts, UnreadFacts
<1>5. c \in alarms' <=> c \in alarms \/ EndsLoop(c, j)
  BY <1>1, <1>3, <1>4, SuspectsLoops DEF LoopFacts
<1>6. \A d : \A i \in DOMAIN store : EndsLoop(d, i)' <=> EndsLoop(d, i)
  BY <1>1, <1>2, AlikeSame
<1>7. UnreadFacts'
  <2>1. pc[c] \notin {"idle", "submit"}
    BY <1>1 DEF LoopFacts, UnreadFacts
  <2> QED BY <1>1, <1>3, <2>1 DEF LoopFacts, UnreadFacts, IsRow
<1>8. AlarmFacts'
  <2>1. \A d \in alarms' : d \in alarms \/ (d = c /\ c \in alarms')
    BY <1>1
  <2>2. \A d \in alarms' : d \in alarms \/ (d = c /\ EndsLoop(c, j))
    BY <1>5, <2>1
  <2> QED BY <1>1, <1>6, <2>2 DEF LoopFacts, AlarmFacts
<1>9. CaughtFacts'
  <2> SUFFICES ASSUME NEW d \in Calls, NEW i \in DOMAIN store, EndsLoop(d, i)
               PROVE  \E e \in Calls, k \in DOMAIN store : Answers(d, i, e, k)'
    BY <1>1, <1>6 DEF CaughtFacts
  <2>1. PICK e \in Calls, k \in DOMAIN store : Answers(d, i, e, k)
    BY DEF LoopFacts, CaughtFacts
  <2>2. CASE e # c
    <3>1. Answers(d, i, e, k)'
      BY <1>1, <2>1, <2>2 DEF Answers, IsRow, Repeats
    <3> QED BY <3>1
  <2>3. CASE e = c
    <3>1. k = j
      BY <1>3, <2>1, <2>3 DEF Answers, OversightInv, OneRow
    <3>2. EndsLoop(c, j)
      BY <2>1, <2>3, <3>1, LikeEnds DEF Answers
    <3>3. Answers(d, i, e, k)'
      BY <1>1, <1>5, <2>1, <2>3, <3>2 DEF Answers, IsRow, Repeats
    <3> QED BY <3>3
  <2> QED BY <2>2, <2>3
<1> QED BY <1>7, <1>8, <1>9 DEF LoopFacts

\* A row is inserted, of no call that a check reads, or of a new one.
LEMMA LoopAdds ==
    ASSUME OversightInv, MoreTyped, LoopFacts, NEW c \in Calls, NEW kind \in {"call", "undo"},
           AddsRow(c, kind), UNCHANGED <<script, now, loop, alarms>>,
           \/ kind = "undo" /\ UNCHANGED pc
           \/ kind = "call" /\ pc[c] = "idle" /\ pc' = [pc EXCEPT ![c] = "submit"]
    PROVE  LoopFacts'
<1>1. PICK n : /\ DOMAIN store' = DOMAIN store \cup {n} /\ n \notin DOMAIN store
               /\ \A i \in DOMAIN store : store'[i] = store[i]
               /\ store'[n].of = c /\ store'[n].kind = kind /\ store'[n].requested_at = now
  <2> DEFINE last == Len(store) + 1
  <2>1. /\ DOMAIN store' = DOMAIN store \cup {last} /\ last \notin DOMAIN store
        /\ \A i \in DOMAIN store : store'[i] = store[i]
        /\ store'[last].of = c /\ store'[last].kind = kind /\ store'[last].requested_at = now
    BY DEF AddsRow
  <2> HIDE DEF last
  <2> QED BY <2>1
<1>2. \A d : \A i \in DOMAIN store : IsRow(store', i, d) <=> IsRow(store, i, d)
  BY <1>1 DEF IsRow
<1>3. \A d : IsRow(store', n, d) <=> d = c /\ kind = "call"
  BY <1>1 DEF IsRow
<1>4. now \in Nat /\ Window \in Nat /\ \A i \in DOMAIN store : store[i].requested_at \in Nat
  BY OversightAssumption, RowFields DEF OversightInv, Typed
<1>5. \A i \in DOMAIN store : store[i].requested_at <= now
  BY DEF LoopFacts, UnreadFacts
<1>6. ASSUME NEW d \in Calls, NEW i \in DOMAIN store
      PROVE  \/ Alike(d, i)' = Alike(d, i)
             \/ /\ Alike(d, i)' = Alike(d, i) \cup {n}
                /\ kind = "call" /\ Repeats(d, c) /\ store[i].requested_at = now
  <2>1. ASSUME NEW k \in DOMAIN store PROVE k \in Alike(d, i)' <=> k \in Alike(d, i)
    BY <1>1, <2>1 DEF Alike, Repeats
  <2>2. n \in Alike(d, i)' => kind = "call" /\ Repeats(d, c) /\ store[i].requested_at = now
    <3> SUFFICES ASSUME n \in Alike(d, i)'
                 PROVE  kind = "call" /\ Repeats(d, c) /\ store[i].requested_at = now
      OBVIOUS
    <3>1. kind = "call" /\ Repeats(d, c) /\ now <= store[i].requested_at
      BY <1>1, <1>4 DEF Alike, Repeats
    <3> QED BY <1>4, <1>5, <3>1
  <2>3. Alike(d, i) \subseteq DOMAIN store /\ Alike(d, i)' \subseteq DOMAIN store \cup {n}
    BY <1>1 DEF Alike
  <2> QED BY <2>1, <2>2, <2>3
<1>7. ASSUME NEW d \in Calls, NEW i \in DOMAIN store, EndsLoop(d, i)
      PROVE  EndsLoop(d, i)'
  <2>1. IsRow(store', i, d)
    BY <1>2, <1>7 DEF EndsLoop
  <2>2. IsFiniteSet(Alike(d, i)) /\ Cardinality(Alike(d, i)) \in Nat
    <3>1. Alike(d, i) \subseteq DOMAIN store
      BY DEF Alike
    <3> QED BY <3>1, RowsFinite
  <2>3. Threshold \in Nat /\ Cardinality(Alike(d, i)) > Threshold
    BY <1>7, OversightAssumption DEF EndsLoop
  <2>4. Cardinality(Alike(d, i) \cup {n}) >= Cardinality(Alike(d, i))
    BY <2>2, FS_AddElement
  <2>5. Cardinality(Alike(d, i) \cup {n}) \in Nat
    BY <2>2, FS_AddElement
  <2>6. Cardinality(Alike(d, i)') > Threshold
    BY <1>6, <2>2, <2>3, <2>4, <2>5
  <2> QED BY <2>1, <2>6 DEF EndsLoop
<1>8. UnreadFacts'
  <2>1. kind = "call" => pc'[c] = "submit" /\ loop[c] = "none"
    BY DEF OversightInv, Typed, LoopFacts, UnreadFacts
  <2>2. \A d \in Calls : /\ pc'[d] = pc[d] \/ (kind = "call" /\ d = c)
    BY DEF OversightInv, Typed
  <2>3. \A d \in Calls : loop'[d] # "none" => \E i \in DOMAIN store' : IsRow(store', i, d)
    BY <1>1, <1>2 DEF LoopFacts, UnreadFacts
  <2>4. \A d \in Calls : pc'[d] \in {"idle", "submit"} => loop'[d] = "none"
    BY <2>1, <2>2 DEF LoopFacts, UnreadFacts
  <2>5. \A i \in DOMAIN store' : store'[i].requested_at <= now'
    BY <1>1, <1>4, <1>5
  <2>6. ASSUME NEW d \in Calls, NEW i \in DOMAIN store', IsRow(store', i, d), loop'[d] # "done"
        PROVE  (pc'[d] = "submit" \/ loop'[d] = "due") /\ store'[i].requested_at = now'
    <3>1. CASE i = n
      BY <1>1, <1>3, <2>1, <2>6, <3>1
    <3>2. CASE i \in DOMAIN store
      <4>1. IsRow(store, i, d)
        BY <1>2, <2>6, <3>2
      <4>2. (pc[d] = "submit" \/ loop[d] = "due") /\ store[i].requested_at = now
        BY <2>6, <3>2, <4>1 DEF LoopFacts, UnreadFacts
      <4> QED BY <1>1, <2>1, <2>2, <3>2, <4>2
    <3> QED BY <1>1, <2>6, <3>1, <3>2
  <2> QED BY <2>3, <2>4, <2>5, <2>6 DEF UnreadFacts
<1>9. AlarmFacts'
  BY <1>1, <1>7 DEF LoopFacts, AlarmFacts, MoreTyped
<1>10. ASSUME NEW d \in Calls, NEW i \in DOMAIN store', EndsLoop(d, i)'
       PROVE  \E e \in Calls, j \in DOMAIN store' : Answers(d, i, e, j)'
  <2>1. ASSUME kind = "call", Repeats(d, c), store'[i].requested_at = now
        PROVE  Answers(d, i, c, n)'
    <3>1. loop'[c] # "done"
      BY <2>1 DEF LoopFacts, UnreadFacts
    <3>2. IsRow(store', n, c) /\ Repeats(d, c)' /\ store'[n].requested_at = store'[i].requested_at
      BY <1>1, <1>3, <2>1 DEF Repeats
    <3> QED BY <3>1, <3>2 DEF Answers
  <2>2. CASE i = n
    <3>1. d = c /\ kind = "call" /\ store'[i].requested_at = now
      BY <1>1, <1>3, <1>10, <2>2 DEF EndsLoop
    <3>2. Repeats(d, c)
      BY <3>1, RepeatsLaws
    <3> QED BY <1>1, <2>1, <3>1, <3>2
  <2>3. CASE i \in DOMAIN store /\ Alike(d, i)' # Alike(d, i)
    <3>1. kind = "call" /\ Repeats(d, c) /\ store'[i].requested_at = now
      BY <1>1, <1>6, <2>3
    <3> QED BY <1>1, <2>1, <3>1
  <2>4. CASE i \in DOMAIN store /\ Alike(d, i)' = Alike(d, i)
    <3>1. EndsLoop(d, i)
      BY <1>2, <1>10, <2>4 DEF EndsLoop
    <3>2. PICK e \in Calls, j \in DOMAIN store : Answers(d, i, e, j)
      BY <2>4, <3>1 DEF LoopFacts, CaughtFacts
    <3>3. Answers(d, i, e, j)'
      BY <1>1, <1>2, <2>4, <3>2 DEF Answers, Repeats
    <3> QED BY <1>1, <3>3
  <2> QED BY <1>1, <2>2, <2>3, <2>4
<1>11. CaughtFacts'
  BY <1>10 DEF CaughtFacts
<1> QED BY <1>8, <1>9, <1>11 DEF LoopFacts

\* Every step but a crash keeps what is known of the loops.
LEMMA LoopStep ==
    ASSUME OversightInv, MoreTyped, LoopFacts, [Next]_vars, ~Crash
    PROVE  LoopFacts'
<1>1. UNCHANGED script
  BY ScriptStays
<1>2. pc \in [Calls -> Stages]
  BY DEF OversightInv, Typed
<1>3. ASSUME NEW c \in Calls, Submit(c) PROVE LoopFacts'
  <2>1. AddsRow(c, "call")
    BY <1>3, SubmitAdds
  <2>2. UNCHANGED <<now, loop, alarms>> /\ pc[c] = "idle" /\ pc' = [pc EXCEPT ![c] = "submit"]
    BY <1>3 DEF Submit, checkVars
  <2> QED BY <1>1, <2>1, <2>2, LoopAdds
<1>4. ASSUME NEW c \in Calls, Undo(c) PROVE LoopFacts'
  <2>1. AddsRow(c, "undo")
    BY <1>4, UndoAdds
  <2>2. UNCHANGED <<now, loop, alarms, pc>>
    BY <1>4 DEF Undo, checkVars
  <2> QED BY <1>1, <2>1, <2>2, LoopAdds
<1>5. ASSUME NEW c \in Calls, Recorded(c) \/ LoopReads(c) PROVE LoopFacts'
  BY <1>5, LoopRecorded, LoopRead
<1>6. ASSUME NEW c \in Calls, Execute(c) PROVE LoopFacts'
  <2>1. /\ UNCHANGED <<now, loop, alarms>> /\ pc[c] = "execute"
        /\ pc' = [pc EXCEPT ![c] = "ran"]
    BY <1>6 DEF Execute, checkVars
  <2>2. SameRows
    BY <1>6, OthersSame DEF GateSteps
  <2> QED BY <1>1, <1>2, <2>1, <2>2, LoopSame
<1>7. ASSUME NEW c \in Calls, NEW status, Resolve(c, status) PROVE LoopFacts'
  <2>1. /\ UNCHANGED <<now, loop, alarms>> /\ pc[c] = "hold"
        /\ pc' = [pc EXCEPT ![c] = IF status = "APPROVED" THEN "execute" ELSE "refused"]
    BY <1>7 DEF Resolve, checkVars
  <2>2. SameRows
    BY <1>7, ResolveSame
  <2> QED BY <1>1, <1>2, <2>1, <2>2, LoopSame
<1>8. ASSUME NEW c \in Calls, CreepReads(c) \/ CreepMarks(c) \/ CreepCommits(c) PROVE LoopFacts'
  <2>1. UNCHANGED <<now, loop, alarms, pc>>
    BY <1>8 DEF CreepReads, CreepMarks, CreepCommits
  <2>2. SameRows
    BY <1>8, OthersSame DEF Checks
  <2> QED BY <1>1, <2>1, <2>2, LoopSame
<1>9. ASSUME NEW a \in Beating, Heartbeat(a) \/ Scores(a) PROVE LoopFacts'
  <2>1. UNCHANGED <<now, loop, alarms, pc>>
    BY <1>9 DEF Heartbeat, Scores, checkVars
  <2>2. SameRows
    BY <1>9, OthersSame
  <2> QED BY <1>1, <2>1, <2>2, LoopSame
<1>10. CASE Boot \/ UNCHANGED vars
  <2>1. UNCHANGED <<now, loop, alarms, pc>>
    BY <1>10 DEF Boot, vars, checkVars
  <2>2. SameRows
    BY <1>10, OthersSame
  <2> QED BY <1>1, <2>1, <2>2, LoopSame
<1>11. CASE Tick
  BY <1>11, LoopTick
<1>12. ASSUME NEW c \in Calls, Fails(c) PROVE LoopFacts'
  <2>1. UNCHANGED <<now, loop, alarms>> /\ pc[c] = "idle" /\ pc' = [pc EXCEPT ![c] = "failed"]
    BY <1>12 DEF Fails, checkVars
  <2>2. SameRows
    BY <1>12, OthersSame
  <2> QED BY <1>1, <1>2, <2>1, <2>2, LoopSame
<1> QED BY <1>3, <1>4, <1>5, <1>6, <1>7, <1>8, <1>9, <1>10, <1>11, <1>12 DEF Next, GateSteps, Checks

\* When the checks have read, suspicion and loops agree.
LEMMA LoopsAgree ==
    ASSUME OversightInv, MoreTyped, crashes = 0 => LoopFacts
    PROVE  LoopsAreCaught
<1> DEFINE made == {c \in Calls : RowsOf(c) # {}}
<1> SUFFICES ASSUME crashes = 0, \A c \in made : loop[c] = "done", NEW c \in made
             PROVE  (\E d \in made : Repeats(c, d) /\ Loops(d)) <=> \E d \in alarms : Repeats(c, d)
  BY Zenon DEF LoopsAreCaught
<1>1. LoopFacts
  OBVIOUS
<1>2. \A d \in Calls, i \in DOMAIN store : IsRow(store, i, d) => d \in made /\ RowOf(d) = i
  <2>1. \A d \in Calls, i \in DOMAIN store : IsRow(store, i, d) => RowsOf(d) = {i} /\ RowOf(d) = i
    BY RowOfIs
  <2> QED BY <2>1
<1>3. \A d \in made : RowOf(d) \in DOMAIN store /\ IsRow(store, RowOf(d), d)
  BY DEF RowOf, RowsOf, IsRow
<1>4. \A d \in made : Loops(d) <=> Cardinality(Alike(d, RowOf(d))) > Threshold
  BY DEF Loops, Alike
<1> HIDE DEF made
<1>5. \A d \in made : d \in Calls
  BY DEF made
<1>6. ASSUME NEW d \in made, Repeats(c, d), Loops(d)
      PROVE  \E e \in alarms : Repeats(c, e)
  <2>1. EndsLoop(d, RowOf(d))
    BY <1>3, <1>4, <1>6 DEF EndsLoop
  <2>2. PICK e \in Calls, j \in DOMAIN store : Answers(d, RowOf(d), e, j)
    BY <1>1, <1>3, <1>5, <2>1 DEF LoopFacts, CaughtFacts
  <2>3. e \in alarms
    BY <1>2, <2>2 DEF Answers
  <2>4. Repeats(c, e)
    BY <1>6, <2>2, RepeatsLaws DEF Answers
  <2> QED BY <2>3, <2>4
<1>7. ASSUME NEW d \in alarms, Repeats(c, d)
      PROVE  \E e \in made : Repeats(c, e) /\ Loops(e)
  <2>1. PICK i \in DOMAIN store : EndsLoop(d, i)
    BY <1>1 DEF LoopFacts, AlarmFacts
  <2>2. d \in Calls
    BY DEF MoreTyped
  <2>3. d \in made /\ RowOf(d) = i
    BY <1>2, <2>1, <2>2 DEF EndsLoop
  <2> QED BY <1>4, <1>7, <2>1, <2>3 DEF EndsLoop
<1> QED BY <1>6, <1>7

\* The invariant of the detectors.
DetectInv == MoreTyped /\ (crashes = 0 => TouchFacts /\ LoopFacts)

\* Every step keeps the invariant of the detectors.
LEMMA DetectStep == OversightInv /\ DetectInv /\ [Next]_vars => DetectInv'
<1> SUFFICES ASSUME OversightInv, DetectInv, [Next]_vars PROVE DetectInv'
  OBVIOUS
<1>1. MoreTyped'
  BY MoreTypedStep DEF DetectInv
<1>2. ASSUME crashes' = 0 PROVE crashes = 0 /\ ~Crash
  <2>1. Crash => crashes' # 0
    BY DEF Crash, DetectInv, MoreTyped
  <2>2. ASSUME NEW c \in Calls, Fails(c) \/ Submit(c) \/ Undo(c) \/ GateSteps(c) \/ Checks(c)
        PROVE  UNCHANGED crashes
    BY <2>2 DEF Fails, Submit, Undo, GateSteps, Recorded, Execute, Resolve, Checks, CreepReads, CreepMarks,
                CreepCommits, LoopReads
  <2>3. ASSUME NEW c \in Calls, NEW status, Resolve(c, status) PROVE UNCHANGED crashes
    BY <2>3 DEF Resolve
  <2>4. ASSUME NEW a \in Beating, Heartbeat(a) \/ Scores(a) PROVE UNCHANGED crashes
    BY <2>4 DEF Heartbeat, Scores
  <2>5. CASE Tick \/ Boot \/ UNCHANGED vars
    BY <1>2, <2>1, <2>5 DEF Tick, Boot, vars
  <2> QED BY <1>2, <2>1, <2>2, <2>3, <2>4, <2>5 DEF Next
<1>3. ASSUME crashes' = 0 PROVE TouchFacts' /\ LoopFacts'
  BY <1>2, <1>3, TouchStep, LoopStep DEF DetectInv
<1> QED BY <1>1, <1>3 DEF DetectInv

\* It holds at the start, and so in every behaviour.
LEMMA DetectInvHolds == Spec => []DetectInv
<1>1. Init => DetectInv
  <2> SUFFICES ASSUME Init PROVE DetectInv
    OBVIOUS
  <2>1. MoreTyped
    BY DEF Init, MoreTyped
  <2>2. TouchFacts
    BY DEF Init, TouchFacts
  <2>3. LoopFacts
    BY DEF Init, LoopFacts, UnreadFacts, AlarmFacts, CaughtFacts
  <2> QED BY <2>1, <2>2, <2>3 DEF DetectInv
<1> QED BY <1>1, OversightInvariant, DetectStep, PTL DEF Spec

\* While atc-core does not die, every first touch is flagged, and when the checks have
\* read, an agent is suspected of a loop exactly if it is in one, in whatever order the
\* checks read beside the inserts, the resolutions, the undos and each other.
THEOREM DetectorsAlwaysCatch == Spec => []DetectorsCatch
<1>1. OversightInv /\ DetectInv => DetectorsCatch
  BY TouchIsFlagged, LoopsAgree DEF DetectInv, DetectorsCatch
<1> QED BY <1>1, OversightInvariant, DetectInvHolds, PTL
-----------------------------------------------------------------------------
(* Types.                                                                  *)

\* The rest of the types, and the calls and checks of a process that is down.
RestTyped ==
    /\ {kept, blind} \subseteq SUBSET Calls
    /\ beat \in [Beating -> Nat \cup {Idle}]
    /\ DOMAIN score = Beating
    /\ \A a \in Beating : score[a].at \in Nat \cup {Idle}
    /\ phase = "down" => /\ \A c \in Calls : creep[c] \in {"none", "done"} /\ loop[c] \in {"none", "done"}
                         /\ \A a \in Beating : beat[a] = Idle

\* Every step keeps them.
LEMMA RestStep ==
    ASSUME OversightInv, MoreTyped, RestTyped, [Next]_vars
    PROVE  RestTyped'
<1>1. now \in Nat /\ \A c \in Calls : phase = "down" => pc[c] \notin {"submit", "hold", "execute"}
  BY DEF OversightInv, Typed, CallFacts
<1>2. ASSUME NEW c \in Calls, Fails(c) \/ Submit(c) \/ Undo(c) PROVE RestTyped'
  BY <1>2 DEF Fails, Submit, Undo, RestTyped, checkVars, runVars, scoreVars
<1>3. ASSUME NEW c \in Calls, Recorded(c) PROVE RestTyped'
  BY <1>1, <1>3 DEF Recorded, RestTyped, runVars, scoreVars
<1>4. ASSUME NEW c \in Calls, Execute(c) PROVE RestTyped'
  <2>1. {kept', blind'} \subseteq SUBSET Calls
    BY <1>4 DEF Execute, RestTyped
  <2>2. UNCHANGED <<beat, score, phase, creep, loop>>
    BY <1>4 DEF Execute, checkVars, scoreVars
  <2> QED BY <2>1, <2>2 DEF RestTyped
<1>5. ASSUME NEW c \in Calls, NEW status, Resolve(c, status) PROVE RestTyped'
  BY <1>5 DEF Resolve, RestTyped, checkVars, runVars, scoreVars
<1>6. ASSUME NEW c \in Calls, Checks(c) PROVE RestTyped'
  <2>1. phase # "down"
    BY <1>6 DEF Checks, CreepReads, CreepMarks, CreepCommits, LoopReads, RestTyped
  <2> QED BY <1>6, <2>1 DEF Checks, CreepReads, CreepMarks, CreepCommits, LoopReads, RestTyped,
                            runVars, scoreVars
<1>7. ASSUME NEW a \in Beating, Heartbeat(a) PROVE RestTyped'
  BY <1>1, <1>7 DEF Heartbeat, RestTyped, checkVars, runVars
<1>8. ASSUME NEW a \in Beating, Scores(a) PROVE RestTyped'
  <2>1. DOMAIN score' = Beating /\ \A b \in Beating : score'[b].at \in Nat \cup {Idle}
    BY <1>8 DEF Scores, RestTyped
  <2> QED BY <1>8, <2>1 DEF Scores, RestTyped, checkVars, runVars
<1>9. CASE Tick \/ Boot \/ UNCHANGED vars
  BY <1>9 DEF Tick, Boot, vars, RestTyped, checkVars, runVars, scoreVars
<1>10. CASE Crash
  BY <1>10 DEF Crash, RestTyped, MoreTyped, OversightInv, Typed, runVars
<1> QED BY <1>2, <1>3, <1>4, <1>5, <1>6, <1>7, <1>8, <1>9, <1>10 DEF Next, GateSteps

\* All but the sums has its type, and no call, check or heartbeat outlives its process.
THEOREM AllButSumsIsTyped == Spec => []TypedButSums
<1>1. Init => RestTyped
  BY DEF Init, RestTyped, NoScore
<1>2. OversightInv /\ DetectInv /\ RestTyped /\ [Next]_vars => RestTyped'
  BY RestStep DEF DetectInv
<1>3. OversightInv /\ MoreTyped /\ RestTyped => TypedButSums
  <2> SUFFICES ASSUME OversightInv, MoreTyped, RestTyped PROVE TypedButSums
    OBVIOUS
  <2>1. \A table \in {store, durable} :
            DOMAIN table = 1 .. Len(table) /\ \A i \in DOMAIN table : RowOK(table[i])
    <3>1. ASSUME NEW table \in Seq(RowSet), NEW i \in DOMAIN table PROVE RowOK(table[i])
      <4>1. table[i] \in RowSet
        OBVIOUS
      <4> QED BY <4>1 DEF RowSet, RowOK
    <3>2. store \in Seq(RowSet) /\ durable \in Seq(RowSet)
      BY DEF OversightInv, Typed
    <3> QED BY <3>1, <3>2
  <2>2. phase = "down" => ~Ready
    BY DEF Ready, RestTyped, OversightInv, CallFacts
  <2> QED BY <2>1, <2>2 DEF OversightInv, Typed, Stages, MoreTyped, RestTyped, TypedButSums
<1>4. Spec => []DetectInv
  BY DetectInvHolds
<1>5. DetectInv => MoreTyped
  BY DEF DetectInv
<1> QED BY <1>1, <1>2, <1>3, <1>4, <1>5, OversightInvariant, PTL DEF Spec
-----------------------------------------------------------------------------
(* Sums.                                                                   *)

\* What holds of 0, and of n + 1 if of n, holds of every natural number.
LEMMA UpTo ==
    ASSUME NEW T \in SUBSET Nat, 0 \in T, \A n \in T : n + 1 \in T, NEW n \in Nat
    PROVE  n \in T
<1> DEFINE rest == Nat \ T
<1>1. CASE rest = {}
  BY <1>1
<1>2. CASE rest # {}
  <2>1. rest \in SUBSET Nat
    OBVIOUS
  <2>2. PICK m \in rest : \A k \in rest : m <= k
    <3> HIDE DEF rest
    <3> QED BY <1>2, <2>1, Least
  <2>3. m \in Nat /\ m # 0
    OBVIOUS
  <2>4. m - 1 \in Nat /\ m - 1 \notin rest
    BY <2>2, <2>3
  <2>5. m - 1 + 1 \in T
    BY <2>4
  <2> QED BY <2>3, <2>5
<1> QED BY <1>1, <1>2

\* The member that a sum over s takes first.
First(s) == CHOOSE x \in s : TRUE

\* g is the sum of f over each subset of S.
Sums(f, S, g) ==
    g = [s \in SUBSET S |-> IF s = {} THEN 0 ELSE f[First(s)] + g[s \ {First(s)}]]

LEMMA FirstIsIn == ASSUME NEW s, s # {} PROVE First(s) \in s
BY DEF First

\* A set without one of its members is smaller.
LEMMA Smaller ==
    ASSUME NEW s, IsFiniteSet(s), NEW x \in s
    PROVE  /\ IsFiniteSet(s \ {x}) /\ Cardinality(s) \in Nat \ {0}
           /\ Cardinality(s \ {x}) = Cardinality(s) - 1
<1>1. IsFiniteSet(s \ {x}) /\ Cardinality(s \ {x}) = Cardinality(s) - 1
  BY FS_RemoveElement
<1>2. Cardinality(s) \in Nat /\ Cardinality(s \ {x}) \in Nat
  BY <1>1, FS_CardinalityType
<1> QED BY <1>1, <1>2

\* The sums exist, and are natural numbers.
LEMMA SumsExist ==
    ASSUME NEW f, NEW S, IsFiniteSet(S), \A x \in S : f[x] \in Nat
    PROVE  \E g \in [SUBSET S -> Nat] : Sums(f, S, g)
<1> DEFINE Entry(g, s) == IF s = {} THEN 0 ELSE f[First(s)] + g[s \ {First(s)}]
           T == {k \in Nat : \E g \in [SUBSET S -> Nat] :
                    \A s \in SUBSET S : Cardinality(s) <= k => g[s] = Entry(g, s)}
<1>1. \A s \in SUBSET S : IsFiniteSet(s) /\ Cardinality(s) \in Nat
  BY FS_Subset, FS_CardinalityType
<1>2. 0 \in T
  <2> DEFINE g == [s \in SUBSET S |-> 0]
  <2>1. \A s \in SUBSET S : Cardinality(s) <= 0 => s = {}
    BY <1>1, FS_EmptySet
  <2>2. g \in [SUBSET S -> Nat]
    OBVIOUS
  <2>3. \A s \in SUBSET S : Cardinality(s) <= 0 => g[s] = Entry(g, s)
    BY <2>1
  <2> QED BY <2>2, <2>3
<1>3. ASSUME NEW k \in T PROVE k + 1 \in T
  <2>1. k \in Nat
    OBVIOUS
  <2>2. PICK g \in [SUBSET S -> Nat] :
            \A s \in SUBSET S : Cardinality(s) <= k => g[s] = Entry(g, s)
    OBVIOUS
  <2> DEFINE h == [s \in SUBSET S |-> Entry(g, s)]
  <2>3. ASSUME NEW s \in SUBSET S PROVE Entry(g, s) \in Nat
    <3>1. s # {} => First(s) \in S /\ s \ {First(s)} \in SUBSET S
      BY FirstIsIn
    <3> QED BY <3>1
  <2>4. h \in [SUBSET S -> Nat]
    BY <2>3
  <2>5. ASSUME NEW s \in SUBSET S, Cardinality(s) <= k + 1 PROVE h[s] = Entry(h, s)
    <3>1. CASE s = {}
      BY <3>1
    <3>2. CASE s # {}
      <4> DEFINE r == s \ {First(s)}
      <4>1. First(s) \in s
        BY <3>2, FirstIsIn
      <4>2. r \in SUBSET S
        OBVIOUS
      <4>3. Cardinality(r) <= k
        BY <1>1, <2>1, <2>5, <4>1, <4>2, Smaller
      <4>4. g[r] = Entry(g, r)
        BY <2>2, <4>2, <4>3
      <4>5. h[r] = g[r]
        BY <4>2, <4>4
      <4> QED BY <3>2, <4>5
    <3> QED BY <3>1, <3>2
  <2> HIDE DEF h, Entry
  <2>6. \E e \in [SUBSET S -> Nat] :
            \A s \in SUBSET S : Cardinality(s) <= k + 1 => e[s] = Entry(e, s)
    BY <2>4, <2>5
  <2> QED BY <2>1, <2>6
<1>4. Cardinality(S) \in T
  <2>1. T \in SUBSET Nat /\ Cardinality(S) \in Nat
    BY <1>1
  <2> HIDE DEF T
  <2> QED BY <1>2, <1>3, <2>1, UpTo
<1>5. PICK g \in [SUBSET S -> Nat] :
        \A s \in SUBSET S : Cardinality(s) <= Cardinality(S) => g[s] = Entry(g, s)
  BY <1>4
<1>6. \A s \in SUBSET S : g[s] = Entry(g, s)
  BY <1>5, FS_Subset
<1>7. g = [s \in SUBSET S |-> Entry(g, s)]
  BY <1>6
<1> QED BY <1>7 DEF Sums

\* There is only one such function, whatever larger set it is of.
LEMMA SumsAgree ==
    ASSUME NEW f, NEW S, NEW R \in SUBSET S, IsFiniteSet(S),
           NEW g, Sums(f, S, g), NEW h, Sums(f, R, h), NEW r \in SUBSET R
    PROVE  g[r] = h[r]
<1> DEFINE T == {k \in Nat : \A s \in SUBSET R : Cardinality(s) <= k => g[s] = h[s]}
<1>1. \A s \in SUBSET R : IsFiniteSet(s) /\ Cardinality(s) \in Nat
  BY FS_Subset, FS_CardinalityType
<1>2. \A s \in SUBSET R :
        /\ s = {} => g[s] = 0 /\ h[s] = 0
        /\ s # {} => /\ g[s] = f[First(s)] + g[s \ {First(s)}]
                     /\ h[s] = f[First(s)] + h[s \ {First(s)}]
  BY DEF Sums
<1>3. 0 \in T
  <2>1. \A s \in SUBSET R : Cardinality(s) <= 0 => s = {}
    BY <1>1, FS_EmptySet
  <2> QED BY <1>2, <2>1
<1>4. ASSUME NEW k \in T PROVE k + 1 \in T
  <2>1. k \in Nat /\ \A s \in SUBSET R : Cardinality(s) <= k => g[s] = h[s]
    OBVIOUS
  <2>2. ASSUME NEW s \in SUBSET R, Cardinality(s) <= k + 1, s # {} PROVE g[s] = h[s]
    <3>1. First(s) \in s /\ s \ {First(s)} \in SUBSET R
      BY <2>2, FirstIsIn
    <3>2. Cardinality(s \ {First(s)}) <= k
      BY <1>1, <2>1, <2>2, <3>1, Smaller
    <3> QED BY <1>2, <2>1, <2>2, <3>1, <3>2
  <2> QED BY <1>2, <2>1, <2>2
<1>5. Cardinality(r) \in T
  <2>1. T \in SUBSET Nat /\ Cardinality(r) \in Nat
    BY <1>1
  <2> HIDE DEF T
  <2> QED BY <1>3, <1>4, <2>1, UpTo
<1> QED BY <1>1, <1>5

\* What SumFunctionOnSet() is.
LEMMA SumIs ==
    ASSUME NEW f, NEW S, IsFiniteSet(S), \A x \in S : f[x] \in Nat
    PROVE  \E g \in [SUBSET S -> Nat] : Sums(f, S, g) /\ SumFunctionOnSet(f, S) = g[S]
<1> DEFINE it == CHOOSE g : Sums(f, S, g)
<1>1. SumFunctionOnSet(f, S) = it[S]
  BY DEF SumFunctionOnSet, FoldFunctionOnSet, MapThenFoldSet, Sums, First
<1>2. PICK g \in [SUBSET S -> Nat] : Sums(f, S, g)
  BY SumsExist
<1>3. Sums(f, S, it)
  BY <1>2
<1> HIDE DEF it
<1>4. it[S] = g[S]
  BY <1>2, <1>3, SumsAgree
<1> QED BY <1>1, <1>2, <1>4

LEMMA SumTyped ==
    ASSUME NEW f, NEW S, IsFiniteSet(S), \A x \in S : f[x] \in Nat
    PROVE  SumFunctionOnSet(f, S) \in Nat
<1>1. PICK g \in [SUBSET S -> Nat] : Sums(f, S, g) /\ SumFunctionOnSet(f, S) = g[S]
  BY SumIs
<1> QED BY <1>1

\* A sum is that of the others and what its first member adds.
LEMMA SumFirst ==
    ASSUME NEW f, NEW S, IsFiniteSet(S), \A x \in S : f[x] \in Nat, S # {}
    PROVE  SumFunctionOnSet(f, S) = f[First(S)] + SumFunctionOnSet(f, S \ {First(S)})
<1> DEFINE R == S \ {First(S)}
<1>1. IsFiniteSet(R) /\ R \in SUBSET S
  BY FS_Subset
<1>2. PICK g \in [SUBSET S -> Nat] : Sums(f, S, g) /\ SumFunctionOnSet(f, S) = g[S]
  BY SumIs
<1>3. PICK h \in [SUBSET R -> Nat] : Sums(f, R, h) /\ SumFunctionOnSet(f, R) = h[R]
  <2> HIDE DEF R
  <2> QED BY <1>1, SumIs
<1>4. g[S] = f[First(S)] + g[R]
  BY <1>2 DEF Sums
<1>5. g[R] = h[R]
  <2> HIDE DEF R
  <2> QED BY <1>1, <1>2, <1>3, SumsAgree
<1> QED BY <1>2, <1>3, <1>4, <1>5

\* It is that of the others and what any one adds: the order is of no matter.
LEMMA SumOfOthers ==
    ASSUME NEW f, NEW A, IsFiniteSet(A), \A i \in A : f[i] \in Nat, NEW x \in A
    PROVE  SumFunctionOnSet(f, A) = f[x] + SumFunctionOnSet(f, A \ {x})
<1> DEFINE Sum(S) == SumFunctionOnSet(f, S)
           T == {k \in Nat : \A S \in SUBSET A, y \in A :
                    Cardinality(S) <= k /\ y \in S => Sum(S) = f[y] + Sum(S \ {y})}
<1>1. \A S \in SUBSET A : IsFiniteSet(S) /\ Cardinality(S) \in Nat /\ Sum(S) \in Nat
  BY FS_Subset, FS_CardinalityType, SumTyped
<1>2. \A S \in SUBSET A : S # {} =>
        First(S) \in S /\ Sum(S) = f[First(S)] + Sum(S \ {First(S)})
  BY <1>1, SumFirst, FirstIsIn
<1> HIDE DEF Sum
<1>3. 0 \in T
  <2>1. \A S \in SUBSET A : Cardinality(S) <= 0 => S = {}
    BY <1>1, FS_EmptySet
  <2> QED BY <2>1
<1>4. ASSUME NEW k \in T PROVE k + 1 \in T
  <2>1. k \in Nat /\ \A S \in SUBSET A, y \in A :
                    Cardinality(S) <= k /\ y \in S => Sum(S) = f[y] + Sum(S \ {y})
    OBVIOUS
  <2>2. ASSUME NEW S \in SUBSET A, NEW y \in S, Cardinality(S) <= k + 1
        PROVE  Sum(S) = f[y] + Sum(S \ {y})
    <3> DEFINE z == First(S)
    <3>1. z \in S /\ Sum(S) = f[z] + Sum(S \ {z})
      BY <1>2
    <3> HIDE DEF z
    <3>2. CASE y = z
      BY <3>1, <3>2
    <3>3. CASE y # z
      <4>1. /\ S \ {y} \in SUBSET A /\ S \ {z} \in SUBSET A
            /\ y \in S \ {z} /\ z \in S \ {y}
        BY <3>1, <3>3
      <4>2. Cardinality(S \ {z}) <= k /\ Cardinality(S \ {y}) <= k
        BY <1>1, <2>1, <2>2, <3>1, Smaller
      <4>3. Sum(S \ {z}) = f[y] + Sum((S \ {z}) \ {y})
        BY <2>1, <4>1, <4>2
      <4>4. Sum(S \ {y}) = f[z] + Sum((S \ {y}) \ {z})
        BY <2>1, <4>1, <4>2
      <4>5. (S \ {y}) \ {z} = (S \ {z}) \ {y} /\ (S \ {y}) \ {z} \in SUBSET A
        OBVIOUS
      <4>6. Sum((S \ {y}) \ {z}) \in Nat /\ f[y] \in Nat /\ f[z] \in Nat
        BY <1>1, <3>1, <4>5
      <4> QED BY <3>1, <4>3, <4>4, <4>5, <4>6
    <3> QED BY <3>2, <3>3
  <2> QED BY <2>1, <2>2
<1>5. Cardinality(A) \in T
  <2>1. T \in SUBSET Nat /\ Cardinality(A) \in Nat
    BY <1>1
  <2> HIDE DEF T
  <2> QED BY <1>3, <1>4, <2>1, UpTo
<1>6. Cardinality(A) <= Cardinality(A)
  BY <1>1
<1>7. Sum(A) = f[x] + Sum(A \ {x})
  BY <1>5, <1>6
<1> QED BY <1>7 DEF Sum

\* More members, each adding no less, add up to no less.
LEMMA SumGrows ==
    ASSUME NEW f, NEW g, NEW B, IsFiniteSet(B), NEW A \in SUBSET B,
           \A i \in A : f[i] \in Nat /\ f[i] <= g[i], \A i \in B : g[i] \in Nat
    PROVE  SumFunctionOnSet(f, A) <= SumFunctionOnSet(g, B)
<1> DEFINE Less(S) == SumFunctionOnSet(f, A \cap S)
           More(S) == SumFunctionOnSet(g, S)
           T == {k \in Nat : \A S \in SUBSET B : Cardinality(S) <= k => Less(S) <= More(S)}
<1>1. \A S \in SUBSET B : IsFiniteSet(S) /\ Cardinality(S) \in Nat /\ IsFiniteSet(A \cap S)
  <2>1. \A S \in SUBSET B : IsFiniteSet(S) /\ IsFiniteSet(A \cap S)
    BY FS_Subset
  <2> QED BY <2>1, FS_CardinalityType
<1>2. ASSUME NEW S \in SUBSET B PROVE Less(S) \in Nat /\ More(S) \in Nat
  <2>1. /\ \A i \in A \cap S : f[i] \in Nat
        /\ \A i \in S : g[i] \in Nat
    OBVIOUS
  <2> QED BY <1>1, <2>1, SumTyped
<1>3. ASSUME NEW S \in SUBSET B, NEW x \in S, x \in A PROVE Less(S) = f[x] + Less(S \ {x})
  <2> DEFINE R == A \cap S
  <2>1. x \in R /\ R \ {x} = A \cap (S \ {x}) /\ \A i \in R : f[i] \in Nat
    BY <1>3
  <2>2. IsFiniteSet(R)
    BY <1>1
  <2> HIDE DEF R
  <2>3. SumFunctionOnSet(f, R) = f[x] + SumFunctionOnSet(f, R \ {x})
    BY <2>1, <2>2, SumOfOthers
  <2> QED BY <2>1, <2>3 DEF R
<1>4. ASSUME NEW S \in SUBSET B, NEW x \in S, x \notin A PROVE Less(S) = Less(S \ {x})
  <2>1. A \cap S = A \cap (S \ {x})
    BY <1>4
  <2> QED BY <2>1
<1>5. ASSUME NEW S \in SUBSET B, NEW x \in S PROVE More(S) = g[x] + More(S \ {x})
  <2>1. \A i \in S : g[i] \in Nat
    OBVIOUS
  <2> QED BY <1>1, <2>1, SumOfOthers
<1>6. Less({}) = 0 /\ More({}) = 0
  <2>1. \A e : SumFunctionOnSet(e, {}) = 0
    <3> TAKE e
    <3>1. IsFiniteSet({}) /\ \A x \in {} : e[x] \in Nat
      BY FS_EmptySet
    <3>2. PICK h \in [SUBSET {} -> Nat] : Sums(e, {}, h) /\ SumFunctionOnSet(e, {}) = h[{}]
      BY <3>1, SumIs
    <3> QED BY <3>2 DEF Sums
  <2>2. A \cap {} = {}
    OBVIOUS
  <2> QED BY <2>1, <2>2
<1>7. Less(B) = SumFunctionOnSet(f, A) /\ More(B) = SumFunctionOnSet(g, B)
  <2>1. A \cap B = A
    OBVIOUS
  <2> QED BY <2>1
<1> HIDE DEF Less, More
<1>8. 0 \in T
  <2>1. ASSUME NEW S \in SUBSET B, Cardinality(S) <= 0 PROVE S = {}
    <3>1. IsFiniteSet(S) /\ Cardinality(S) \in Nat
      BY <1>1
    <3>2. Cardinality(S) = 0
      BY <2>1, <3>1
    <3> QED BY <3>1, <3>2, FS_EmptySet
  <2> QED BY <1>6, <2>1
<1>9. ASSUME NEW k \in T PROVE k + 1 \in T
  <2>1. k \in Nat /\ \A S \in SUBSET B : Cardinality(S) <= k => Less(S) <= More(S)
    OBVIOUS
  <2>2. ASSUME NEW S \in SUBSET B, Cardinality(S) <= k + 1, NEW x \in S PROVE Less(S) <= More(S)
    <3>1. S \ {x} \in SUBSET B /\ Cardinality(S \ {x}) <= k
      <4>1. IsFiniteSet(S)
        BY <1>1
      <4>2. Cardinality(S) \in Nat \ {0} /\ Cardinality(S \ {x}) = Cardinality(S) - 1
        BY <4>1, Smaller
      <4> QED BY <2>1, <2>2, <4>2
    <3>2. /\ Less(S \ {x}) <= More(S \ {x})
          /\ Less(S \ {x}) \in Nat /\ More(S \ {x}) \in Nat
      BY <1>2, <2>1, <3>1
    <3>3. More(S) = g[x] + More(S \ {x}) /\ g[x] \in Nat
      BY <1>5
    <3>4. CASE x \in A
      <4>1. Less(S) = f[x] + Less(S \ {x}) /\ f[x] \in Nat /\ f[x] <= g[x]
        BY <1>3, <3>4
      <4> QED BY <3>2, <3>3, <4>1
    <3>5. CASE x \notin A
      <4>1. Less(S) = Less(S \ {x})
        BY <1>4, <3>5
      <4> QED BY <3>2, <3>3, <4>1
    <3> QED BY <3>4, <3>5
  <2>3. ASSUME NEW S \in SUBSET B, Cardinality(S) <= k + 1 PROVE Less(S) <= More(S)
    <3>1. CASE S = {}
      BY <1>6, <3>1
    <3>2. CASE S # {}
      BY <2>2, <2>3, <3>2
    <3> QED BY <3>1, <3>2
  <2> QED BY <2>1, <2>3
<1>10. Cardinality(B) \in T
  <2>1. T \in SUBSET Nat /\ Cardinality(B) \in Nat
    BY <1>1
  <2> HIDE DEF T
  <2> QED BY <1>8, <1>9, <2>1, UpTo
<1>11. Cardinality(B) <= Cardinality(B)
  BY <1>1
<1>12. Less(B) <= More(B)
  BY <1>10, <1>11
<1> QED BY <1>7, <1>12
-----------------------------------------------------------------------------
(* The scores.                                                             *)

\* Of any table: what its rows add to a score at t, and those that count for agent a.
TermsOf(table, t) ==
    [i \in DOMAIN table |-> Decayed(Weight(table[i]), t - table[i].resolved_at)]

ScoredOf(table, a) ==
    {i \in DOMAIN table : script[table[i].of].agent = a /\ table[i].status # "PENDING"}

SumOf(table, a, t) == SumFunctionOnSet(TermsOf(table, t), ScoredOf(table, a))

\* Rows are added, resolved and flagged, and nothing else happens to them.
Grows(old, new) ==
    /\ DOMAIN old \subseteq DOMAIN new
    /\ \A i \in DOMAIN old :
            /\ new[i].of = old[i].of /\ new[i].level = old[i].level
            /\ old[i].novel => new[i].novel
            /\ old[i].status # "PENDING" =>
                    new[i].status = old[i].status /\ new[i].resolved_at = old[i].resolved_at

\* A held call's row is pending.
HoldFacts ==
    \A c \in Calls : pc[c] = "hold" =>
        \A i \in DOMAIN store : IsRow(store, i, c) => store[i].status = "PENDING"

\* The clock is within its bound, and so is every heartbeat, which follows the last.
ClockFacts ==
    /\ now <= MaxTime
    /\ beat \in [Beating -> Nat \cup {Idle}]
    /\ \A a \in Beating :
            /\ beat[a] <= now
            /\ score[a].at \in Nat \cup {Idle} /\ score[a].at <= now
            /\ beat[a] # Idle => score[a].at <= beat[a]

\* The rows that a firm score was read from are still there, also for who restarts,
\* and add up to no less at the moment it was read for.
ScoreFacts ==
    /\ DOMAIN score = Beating
    /\ \A a \in Beating :
            /\ score[a].value \in Nat
            /\ score[a].firm =>
                    /\ score[a].value <= SumOf(store, a, score[a].at)
                    /\ score[a].value <= SumOf(durable, a, score[a].at)

ScoreInv == HoldFacts /\ ClockFacts /\ ScoreFacts

\* A term of a score is a natural number: the clock is within its bound.
LEMMA DecayedTyped ==
    ASSUME NEW w \in Nat, NEW age \in Int, age <= MaxTime
    PROVE  Decayed(w, age) \in Nat
<1> DEFINE n == MaxTime - IF age > 0 THEN age ELSE 0
<1>1. n \in Nat
  BY OversightAssumption
<1> HIDE DEF n
<1>2. IsFiniteSet(1 .. n) /\ Cardinality(1 .. n) = n
  BY <1>1, FS_Interval
<1>3. IsFiniteSet(SUBSET (1 .. n)) /\ Cardinality(SUBSET (1 .. n)) = 2 ^ n
  BY <1>2, FS_SUBSET
<1>4. 2 ^ n \in Nat
  BY <1>3, FS_CardinalityType
<1>5. Decayed(w, age) = w * 2 ^ n
  BY DEF Decayed, n
<1> QED BY <1>4, <1>5

\* What weighs no less, adds no less at the same age.
LEMMA DecayedGrows ==
    ASSUME NEW w \in Nat, NEW v \in Nat, w <= v, NEW age \in Int, age <= MaxTime
    PROVE  Decayed(w, age) <= Decayed(v, age)
<1> DEFINE p == 2 ^ (MaxTime - IF age > 0 THEN age ELSE 0)
<1>1. Decayed(1, age) \in Nat
  BY DecayedTyped
<1>2. Decayed(1, age) = 1 * p /\ Decayed(w, age) = w * p /\ Decayed(v, age) = v * p
  BY DEF Decayed
<1>3. p \in Int
  BY OversightAssumption
<1> HIDE DEF p
<1>4. p \in Nat
  BY <1>1, <1>2, <1>3
<1>5. w * p <= v * p
  BY <1>4
<1> QED BY <1>2, <1>5

LEMMA WeightTyped == ASSUME NEW row PROVE Weight(row) \in Nat
<1>1. (CASE row.level = "LOW" -> 1
         [] row.level = "MEDIUM" -> 5
         [] row.level = "HIGH" /\ row.status = "DENIED" -> 50
         [] OTHER -> 25) \in {1, 5, 50, 25}
  OBVIOUS
<1>2. (IF row.novel THEN 20 ELSE 0) \in {0, 20}
  OBVIOUS
<1> QED BY <1>1, <1>2 DEF Weight

\* The sums over a table are natural numbers.
LEMMA SumOfTyped ==
    ASSUME NEW table \in Seq(RowSet), NEW t \in Int, t <= MaxTime
    PROVE  /\ \A i \in DOMAIN table : TermsOf(table, t)[i] \in Nat
           /\ \A a : IsFiniteSet(ScoredOf(table, a)) /\ SumOf(table, a, t) \in Nat
<1>1. ASSUME NEW i \in DOMAIN table PROVE TermsOf(table, t)[i] \in Nat
  <2>1. table[i] \in RowSet
    OBVIOUS
  <2>2. t - table[i].resolved_at \in Int /\ t - table[i].resolved_at <= MaxTime
    BY <2>1, OversightAssumption DEF RowSet
  <2>3. Decayed(Weight(table[i]), t - table[i].resolved_at) \in Nat
    BY <2>2, WeightTyped, DecayedTyped
  <2> QED BY <2>3 DEF TermsOf
<1>2. ASSUME NEW a PROVE IsFiniteSet(ScoredOf(table, a)) /\ SumOf(table, a, t) \in Nat
  <2>1. Len(table) \in Nat /\ DOMAIN table = 1 .. Len(table)
    OBVIOUS
  <2>2. IsFiniteSet(DOMAIN table)
    BY <2>1, FS_Interval
  <2>3. ScoredOf(table, a) \subseteq DOMAIN table
    BY DEF ScoredOf
  <2>4. IsFiniteSet(ScoredOf(table, a))
    BY <2>2, <2>3, FS_Subset
  <2>5. \A i \in ScoredOf(table, a) : TermsOf(table, t)[i] \in Nat
    BY <1>1, <2>3
  <2> QED BY <2>4, <2>5, SumTyped DEF SumOf
<1> QED BY <1>1, <1>2

\* A table that grows lowers no sum of a moment.
LEMMA SumOfGrows ==
    ASSUME NEW old \in Seq(RowSet), NEW new \in Seq(RowSet), Grows(old, new),
           NEW a, NEW t \in Int, t <= MaxTime
    PROVE  SumOf(old, a, t) <= SumOf(new, a, t)
<1>1. ScoredOf(old, a) \subseteq ScoredOf(new, a)
  BY DEF ScoredOf, Grows
<1>2. ASSUME NEW i \in ScoredOf(old, a)
      PROVE  TermsOf(old, t)[i] \in Nat /\ TermsOf(old, t)[i] <= TermsOf(new, t)[i]
  <2>1. i \in DOMAIN old /\ i \in DOMAIN new
    BY <1>1 DEF ScoredOf
  <2>2. /\ new[i].level = old[i].level /\ new[i].status = old[i].status
        /\ new[i].resolved_at = old[i].resolved_at
        /\ old[i].novel => new[i].novel
    BY <2>1 DEF Grows, ScoredOf
  <2>3. Weight(old[i]) <= Weight(new[i])
    BY <2>2 DEF Weight
  <2>4. old[i] \in RowSet
    BY <2>1
  <2>5. t - old[i].resolved_at \in Int /\ t - old[i].resolved_at <= MaxTime
    BY <2>4, OversightAssumption DEF RowSet
  <2>6. Decayed(Weight(old[i]), t - old[i].resolved_at)
            <= Decayed(Weight(new[i]), t - old[i].resolved_at)
    BY <2>3, <2>5, WeightTyped, DecayedGrows
  <2>7. TermsOf(old, t)[i] <= TermsOf(new, t)[i]
    BY <2>1, <2>2, <2>6 DEF TermsOf
  <2> QED BY <2>1, <2>7, SumOfTyped
<1>3. IsFiniteSet(ScoredOf(new, a)) /\ \A i \in ScoredOf(new, a) : TermsOf(new, t)[i] \in Nat
  BY SumOfTyped DEF ScoredOf
<1> QED BY <1>1, <1>2, <1>3, SumGrows DEF SumOf

\* A row that does not change has grown.
LEMMA SameGrows == \A table : Grows(table, table)
BY DEF Grows

\* The end of a hold resolves a row that was pending.
LEMMA ResolveGrows ==
    ASSUME OversightInv, HoldFacts, NEW c \in Calls, NEW status, Resolve(c, status)
    PROVE  /\ Grows(store, store') /\ DOMAIN store' = DOMAIN store
           /\ \A i \in DOMAIN store : /\ store'[i].of = store[i].of /\ store'[i].kind = store[i].kind
                                      /\ i # RowOf(c) => store'[i].status = store[i].status
<1> DEFINE n == RowOf(c)
<1>1. n \in DOMAIN store /\ IsRow(store, n, c) /\ pc[c] = "hold"
  BY RowOfFinds DEF Resolve
<1>2. store' = [store EXCEPT ![n].status = status, ![n].resolved_at = now]
  BY DEF Resolve
<1> HIDE DEF n
<1>3. store[n] \in RowSet /\ store[n].status = "PENDING"
  BY <1>1 DEF OversightInv, Typed, HoldFacts
<1> DEFINE row == [store[n] EXCEPT !.status = status, !.resolved_at = now]
<1>4. store' = [store EXCEPT ![n] = row]
  BY <1>1, <1>2, <1>3 DEF RowSet, OversightInv, Typed
<1>5. /\ row.of = store[n].of /\ row.kind = store[n].kind /\ row.novel = store[n].novel
      /\ row.level = store[n].level
  BY <1>3 DEF RowSet
<1> HIDE DEF row
<1>6. \A i \in DOMAIN store : i # n => store'[i] = store[i]
  BY <1>1, <1>4
<1>7. store'[n] = row /\ DOMAIN store' = DOMAIN store
  BY <1>1, <1>4
<1>8. Grows(store, store')
  BY <1>3, <1>5, <1>6, <1>7 DEF Grows
<1> QED BY <1>5, <1>6, <1>7, <1>8 DEF n

\* A flag changes nothing else.
LEMMA CreepMarksGrows ==
    ASSUME OversightInv, NEW c \in Calls, CreepMarks(c)
    PROVE  /\ Grows(store, store') /\ DOMAIN store' = DOMAIN store
           /\ \A i \in DOMAIN store : /\ store'[i].of = store[i].of /\ store'[i].kind = store[i].kind
                                      /\ store'[i].status = store[i].status
<1> DEFINE n == RowOf(c)
<1>1. n \in DOMAIN store
  BY RowOfFinds DEF CreepMarks
<1>2. store' = [store EXCEPT ![n].novel = TRUE]
  BY DEF CreepMarks
<1> HIDE DEF n
<1>3. store[n] \in RowSet
  BY <1>1 DEF OversightInv, Typed
<1> DEFINE row == [store[n] EXCEPT !.novel = TRUE]
<1>4. store' = [store EXCEPT ![n] = row]
  BY <1>1, <1>2, <1>3 DEF RowSet, OversightInv, Typed
<1>5. /\ row.of = store[n].of /\ row.kind = store[n].kind /\ row.novel
      /\ row.level = store[n].level /\ row.status = store[n].status
      /\ row.resolved_at = store[n].resolved_at
  BY <1>3 DEF RowSet
<1> HIDE DEF row
<1>6. \A i \in DOMAIN store : i # n => store'[i] = store[i]
  BY <1>1, <1>4
<1>7. store'[n] = row /\ DOMAIN store' = DOMAIN store
  BY <1>1, <1>4
<1>8. Grows(store, store')
  BY <1>5, <1>6, <1>7 DEF Grows
<1> QED BY <1>5, <1>6, <1>7, <1>8

\* The start of atc-core expires what is pending.
LEMMA BootGrows ==
    ASSUME OversightInv, Boot
    PROVE  Grows(store, store')
<1> DEFINE expired(i) == IF store[i].status = "PENDING"
                         THEN [store[i] EXCEPT !.status = "EXPIRED", !.resolved_at = now]
                         ELSE store[i]
<1>1. store' = [i \in DOMAIN store |-> expired(i)]
  BY DEF Boot
<1>2. ASSUME NEW i \in DOMAIN store
      PROVE  /\ expired(i).of = store[i].of
             /\ expired(i).level = store[i].level
             /\ expired(i).novel = store[i].novel
             /\ store[i].status # "PENDING" => expired(i) = store[i]
  <2>1. store[i] \in RowSet
    BY DEF OversightInv, Typed
  <2> QED BY <2>1 DEF RowSet
<1> HIDE DEF expired
<1> QED BY <1>1, <1>2 DEF Grows

\* A step that adds no row of a call, nor changes the status of one, and begins no hold.
LEMMA HoldStays ==
    ASSUME HoldFacts, DOMAIN store' = DOMAIN store,
           \A i \in DOMAIN store : store'[i].of = store[i].of /\ store'[i].kind = store[i].kind,
           NEW d, \A i \in DOMAIN store :
                    store[i].of # d => store'[i].status = store[i].status,
           \A c \in Calls : pc'[c] = "hold" => pc[c] = "hold" /\ c # d
    PROVE  HoldFacts'
BY DEF HoldFacts, IsRow

\* Every step but a crash makes the table grow, and leaves a held call's row pending.
LEMMA TableStep ==
    ASSUME OversightInv, HoldFacts, [Next]_vars
    PROVE  (~Crash => Grows(store, store')) /\ HoldFacts'
<1>0. pc \in [Calls -> Stages] /\ store \in Seq(RowSet)
  BY DEF OversightInv, Typed
<1>1. ASSUME UNCHANGED store, \A c \in Calls : pc'[c] = "hold" => pc[c] = "hold"
      PROVE  Grows(store, store') /\ HoldFacts'
  BY <1>1, SameGrows DEF HoldFacts, IsRow
<1>2. ASSUME NEW c \in Calls, NEW kind, AddsRow(c, kind), kind = "call" => pc'[c] # "hold",
             \A d \in Calls : pc'[d] = "hold" => pc[d] = "hold"
      PROVE  Grows(store, store') /\ HoldFacts'
  <2>1. DOMAIN store \subseteq DOMAIN store' /\ \A i \in DOMAIN store : store'[i] = store[i]
    BY <1>2 DEF AddsRow
  <2>2. \A i \in DOMAIN store' : i \in DOMAIN store \/ (store'[i].of = c /\ store'[i].kind = kind)
    BY <1>2 DEF AddsRow
  <2> QED BY <1>2, <2>1, <2>2 DEF Grows, HoldFacts, IsRow
<1>3. ASSUME NEW c \in Calls, Submit(c) PROVE Grows(store, store') /\ HoldFacts'
  <2>1. \A d \in Calls : pc'[d] = "hold" => pc[d] = "hold" /\ d # c
    BY <1>0, <1>3 DEF Submit
  <2> QED BY <1>2, <1>3, <2>1, SubmitAdds
<1>4. ASSUME NEW c \in Calls, Undo(c) PROVE Grows(store, store') /\ HoldFacts'
  <2>1. pc' = pc
    BY <1>4 DEF Undo
  <2> QED BY <1>2, <1>4, <2>1, UndoAdds
<1>5. ASSUME NEW c \in Calls, Recorded(c) PROVE Grows(store, store') /\ HoldFacts'
  <2>1. store' = store /\ pc[c] = "submit"
        /\ pc' = [pc EXCEPT ![c] = IF Status(c) = "PENDING" THEN "hold" ELSE "execute"]
    BY <1>5 DEF Recorded
  <2>2. RowsOf(c) = {RowOf(c)} /\ Status(c) = store[RowOf(c)].status
    BY <2>1, RowOfFinds
  <2>3. \A i \in DOMAIN store : IsRow(store, i, c) => i = RowOf(c)
    BY <2>2 DEF RowsOf, IsRow
  <2>4. pc'[c] = "hold" => \A i \in DOMAIN store : IsRow(store, i, c) => store[i].status = "PENDING"
    BY <1>0, <2>1, <2>2, <2>3
  <2>5. \A d \in Calls : d # c => pc'[d] = pc[d]
    BY <1>0, <2>1
  <2> QED BY <2>1, <2>4, <2>5, SameGrows DEF HoldFacts, IsRow
<1>6. ASSUME NEW c \in Calls, NEW status, Resolve(c, status) PROVE Grows(store, store') /\ HoldFacts'
  <2>1. \A d \in Calls : pc'[d] = "hold" => pc[d] = "hold" /\ d # c
    BY <1>0, <1>6 DEF Resolve
  <2>2. store[RowOf(c)].of = c
    BY <1>6, RowOfFinds DEF Resolve, IsRow
  <2>3. /\ Grows(store, store') /\ DOMAIN store' = DOMAIN store
        /\ \A i \in DOMAIN store : /\ store'[i].of = store[i].of /\ store'[i].kind = store[i].kind
                                   /\ i # RowOf(c) => store'[i].status = store[i].status
    BY <1>6, ResolveGrows
  <2>4. \A i \in DOMAIN store : store[i].of # c => store'[i].status = store[i].status
    BY <2>2, <2>3
  <2> QED BY <2>1, <2>3, <2>4, HoldStays
<1>7. ASSUME NEW c \in Calls, CreepMarks(c) PROVE Grows(store, store') /\ HoldFacts'
  <2>1. pc' = pc
    BY <1>7 DEF CreepMarks
  <2>2. /\ Grows(store, store') /\ DOMAIN store' = DOMAIN store
        /\ \A i \in DOMAIN store : /\ store'[i].of = store[i].of /\ store'[i].kind = store[i].kind
                                   /\ store'[i].status = store[i].status
    BY <1>7, CreepMarksGrows
  <2> QED BY <2>1, <2>2 DEF HoldFacts, IsRow
<1>8. ASSUME NEW c \in Calls, Fails(c) \/ Execute(c) \/ CreepReads(c) \/ CreepCommits(c) \/ LoopReads(c)
      PROVE  Grows(store, store') /\ HoldFacts'
  <2>1. UNCHANGED store /\ \A d \in Calls : pc'[d] = "hold" => pc[d] = "hold"
    BY <1>0, <1>8 DEF Fails, Execute, CreepReads, CreepCommits, LoopReads, tableVars
  <2> QED BY <1>1, <2>1
<1>9. ASSUME NEW a \in Beating, Heartbeat(a) \/ Scores(a) PROVE Grows(store, store') /\ HoldFacts'
  BY <1>1, <1>9 DEF Heartbeat, Scores, tableVars
<1>10. CASE Tick \/ UNCHANGED vars
  BY <1>1, <1>10 DEF Tick, vars, tableVars
<1>11. CASE Boot
  <2>1. \A c \in Calls : pc'[c] # "hold"
    BY <1>11 DEF Boot, OversightInv, CallFacts
  <2> QED BY <1>11, <2>1, BootGrows DEF HoldFacts
<1>12. CASE Crash
  <2>1. \A c \in Calls : pc'[c] # "hold"
    BY <1>0, <1>12 DEF Crash
  <2> QED BY <1>12, <2>1 DEF HoldFacts
<1> QED BY <1>3, <1>4, <1>5, <1>6, <1>7, <1>8, <1>9, <1>10, <1>11, <1>12 DEF Next, GateSteps, Checks

\* What is durable is so still, or is the table before the step or after it.
LEMMA DurableStep == [Next]_vars => durable' \in {durable, store, store'}
<1> SUFFICES ASSUME [Next]_vars PROVE durable' \in {durable, store, store'}
  OBVIOUS
<1>1. ASSUME NEW c \in Calls, Fails(c) \/ Submit(c) \/ Undo(c) \/ Recorded(c) \/ Execute(c)
      PROVE  durable' \in {durable, store, store'}
  BY <1>1 DEF Fails, Submit, Undo, Recorded, Execute, tableVars
<1>2. ASSUME NEW c \in Calls, NEW status, Resolve(c, status)
      PROVE  durable' \in {durable, store, store'}
  BY <1>2 DEF Resolve
<1>3. ASSUME NEW c \in Calls, Checks(c) PROVE durable' \in {durable, store, store'}
  BY <1>3 DEF Checks, CreepReads, CreepMarks, CreepCommits, LoopReads, tableVars
<1>4. ASSUME NEW a \in Beating, Heartbeat(a) \/ Scores(a)
      PROVE  durable' \in {durable, store, store'}
  BY <1>4 DEF Heartbeat, Scores, tableVars
<1>5. CASE Tick \/ Crash \/ Boot \/ UNCHANGED vars
  BY <1>5 DEF Tick, Crash, Boot, vars, tableVars
<1> QED BY <1>1, <1>2, <1>3, <1>4, <1>5 DEF Next, GateSteps

\* Heartbeats and the clock, and who scores.
LEMMA ClockStep ==
    ASSUME OversightInv, ClockFacts, DOMAIN score = Beating, [Next]_vars
    PROVE  /\ ClockFacts'
           /\ \/ score' = score
              \/ \E a \in Beating : Scores(a)
<1>0. now \in Nat /\ MaxTime \in Nat /\ Idle \in Int /\ Idle < 0
  BY OversightAssumption DEF OversightInv, Typed, Idle
<1> DEFINE at(b) == score[b].at
<1>9. ASSUME NEW b \in Beating
      PROVE  /\ beat[b] \in Int /\ beat[b] <= now
             /\ at(b) \in Nat \cup {Idle} /\ at(b) \in Int /\ at(b) <= now
             /\ beat[b] # Idle => beat[b] \in Nat /\ at(b) <= beat[b]
  <2>1. beat[b] \in Nat \cup {Idle} /\ at(b) \in Nat \cup {Idle}
    BY DEF ClockFacts
  <2>2. beat[b] <= now /\ at(b) <= now /\ (beat[b] # Idle => at(b) <= beat[b])
    BY DEF ClockFacts
  <2> HIDE DEF at
  <2> QED BY <1>0, <2>1, <2>2
<1>1. CASE UNCHANGED <<now, beat, score>>
  BY <1>1 DEF ClockFacts
<1>2. ASSUME NEW c \in Calls, Fails(c) \/ Submit(c) \/ Undo(c) \/ Recorded(c) \/ Execute(c) \/ Checks(c)
      PROVE  UNCHANGED <<now, beat, score>>
  BY <1>2 DEF Fails, Submit, Undo, Recorded, Execute, Checks, CreepReads, CreepMarks, CreepCommits,
              LoopReads, scoreVars
<1>3. ASSUME NEW c \in Calls, NEW status, Resolve(c, status) PROVE UNCHANGED <<now, beat, score>>
  BY <1>3 DEF Resolve, scoreVars
<1>4. ASSUME NEW a \in Beating, Heartbeat(a) PROVE ClockFacts' /\ score' = score
  BY <1>0, <1>4 DEF Heartbeat, ClockFacts, Idle
<1>5. ASSUME NEW a \in Beating, Scores(a) PROVE ClockFacts'
  <2>1. /\ now' = now /\ beat' = [beat EXCEPT ![a] = Idle]
        /\ score' = [score EXCEPT ![a] = [value |-> ScoreOf(a, beat[a]), at |-> beat[a],
                                          firm |-> store = durable]]
    BY <1>5 DEF Scores
  <2>2. score'[a].at = beat[a] /\ \A b \in Beating : b # a => score'[b] = score[b]
    BY <2>1
  <2>3. beat'[a] = Idle /\ \A b \in Beating : b # a => beat'[b] = beat[b]
    BY <2>1 DEF ClockFacts
  <2>4. beat' \in [Beating -> Nat \cup {Idle}]
    BY <2>1 DEF ClockFacts
  <2>5. ASSUME NEW b \in Beating
        PROVE  /\ beat'[b] <= now' /\ score'[b].at \in Nat \cup {Idle} /\ score'[b].at <= now'
               /\ beat'[b] # Idle => score'[b].at <= beat'[b]
    <3>1. CASE b = a
      <4>1. beat[b] \in Nat /\ beat[b] <= now
        BY <1>5, <1>9, <3>1 DEF Scores
      <4> QED BY <1>0, <2>1, <2>2, <2>3, <3>1, <4>1
    <3>2. CASE b # a
      <4>1. beat'[b] = beat[b] /\ score'[b] = score[b]
        BY <2>2, <2>3, <3>2
      <4> QED BY <1>9, <2>1, <4>1
    <3> QED BY <3>1, <3>2
  <2> QED BY <2>1, <2>4, <2>5 DEF ClockFacts
<1>6. CASE Tick
  <2>1. now' = now + 1 /\ now < MaxTime /\ UNCHANGED <<beat, score>>
    BY <1>6 DEF Tick, scoreVars
  <2>2. now' <= MaxTime
    BY <1>0, <2>1
  <2>3. ASSUME NEW a \in Beating
        PROVE  /\ beat[a] <= now' /\ at(a) \in Nat \cup {Idle} /\ at(a) <= now'
               /\ beat[a] # Idle => at(a) <= beat[a]
    <3> HIDE DEF at
    <3> QED BY <1>0, <1>9, <2>1
  <2> QED BY <2>1, <2>2, <2>3 DEF ClockFacts
<1>7. CASE Crash
  <2>1. now' = now /\ score' = score /\ beat' = [a \in Beating |-> Idle]
    BY <1>7 DEF Crash
  <2> QED BY <1>0, <2>1 DEF ClockFacts, Idle
<1>8. CASE Boot \/ UNCHANGED vars
  BY <1>1, <1>8 DEF Boot, vars, scoreVars
<1> QED BY <1>1, <1>2, <1>3, <1>4, <1>5, <1>6, <1>7, <1>8 DEF Next, GateSteps

\* No step lowers what the rows of a score add up to.
LEMMA ScoreStep ==
    ASSUME OversightInv, OversightInv', ScoreInv, [Next]_vars
    PROVE  /\ ScoreInv'
           /\ \A a \in Beating : score'[a].value < score[a].value =>
                    score'[a].at > score[a].at \/ ~score[a].firm
<1>1. /\ store \in Seq(RowSet) /\ durable \in Seq(RowSet)
      /\ store' \in Seq(RowSet) /\ durable' \in Seq(RowSet)
      /\ now \in Nat /\ MaxTime \in Nat
  BY OversightAssumption DEF OversightInv, Typed
<1>2. HoldFacts /\ ClockFacts /\ ScoreFacts
  BY DEF ScoreInv
<1>3. (~Crash => Grows(store, store')) /\ HoldFacts'
  BY <1>2, TableStep
<1>4. ClockFacts' /\ (score' = score \/ \E a \in Beating : Scores(a))
  BY <1>2, ClockStep DEF ScoreFacts
<1>5. durable' \in {durable, store, store'} /\ script' = script
  BY DurableStep, ScriptStays
<1>6. ASSUME NEW a \in Beating
      PROVE  /\ score[a].at \in Int /\ score[a].at <= MaxTime
             /\ beat[a] # Idle => beat[a] \in Int /\ beat[a] <= MaxTime /\ score[a].at <= beat[a]
  <2>1. beat[a] \in Nat \cup {Idle} /\ score[a].at \in Nat \cup {Idle}
    BY <1>2 DEF ClockFacts
  <2>2. beat[a] <= now /\ score[a].at <= now /\ now <= MaxTime
        /\ (beat[a] # Idle => score[a].at <= beat[a])
    BY <1>2 DEF ClockFacts
  <2>3. Idle \in Int
    BY DEF Idle
  <2> QED BY <1>1, <2>1, <2>2, <2>3
\* The rows that a firm score was read from.
<1>7. ASSUME NEW a \in Beating, score[a].firm
      PROVE  /\ score[a].value <= SumOf(store', a, score[a].at)
             /\ score[a].value <= SumOf(durable', a, score[a].at)
  <2> DEFINE t == score[a].at
  <2>1. t \in Int /\ t <= MaxTime
    BY <1>6
  <2>2. score[a].value \in Nat /\ score[a].value <= SumOf(store, a, t)
        /\ score[a].value <= SumOf(durable, a, t)
    BY <1>2, <1>7 DEF ScoreFacts
  <2> HIDE DEF t
  <2>3. score[a].value <= SumOf(store', a, t)
    <3>1. CASE Crash
      <4>1. store' = durable
        BY <3>1 DEF Crash
      <4> QED BY <2>2, <4>1
    <3>2. CASE ~Crash
      <4>1. SumOf(store, a, t) <= SumOf(store', a, t)
        BY <1>1, <1>3, <2>1, <3>2, SumOfGrows
      <4>2. SumOf(store, a, t) \in Nat /\ SumOf(store', a, t) \in Nat
        BY <1>1, <2>1, SumOfTyped
      <4> QED BY <2>2, <4>1, <4>2
    <3> QED BY <3>1, <3>2
  <2>4. score[a].value <= SumOf(durable', a, t)
    BY <1>5, <2>2, <2>3
  <2> QED BY <2>3, <2>4 DEF t
<1>8. ASSUME NEW a \in Beating
      PROVE  SumOf(store, a, score[a].at)' = SumOf(store', a, score'[a].at)
  BY <1>5 DEF SumOf, ScoredOf, TermsOf
<1>9. ASSUME NEW a \in Beating
      PROVE  SumOf(durable, a, score[a].at)' = SumOf(durable', a, score'[a].at)
  BY <1>5 DEF SumOf, ScoredOf, TermsOf
<1>10. CASE score' = score
  <2>1. ScoreFacts'
    BY <1>2, <1>7, <1>8, <1>9, <1>10 DEF ScoreFacts
  <2>2. \A a \in Beating : score[a].value \in Nat
    BY <1>2 DEF ScoreFacts
  <2> QED BY <1>3, <1>4, <1>10, <2>1, <2>2 DEF ScoreInv
<1>11. ASSUME NEW a \in Beating, Scores(a)
       PROVE  /\ ScoreFacts'
              /\ \A b \in Beating : score'[b].value < score[b].value =>
                        score'[b].at > score[b].at \/ ~score[b].firm
  <2>1. beat[a] # Idle /\ store' = store /\ durable' = durable
        /\ score' = [score EXCEPT ![a] = [value |-> ScoreOf(a, beat[a]), at |-> beat[a],
                                          firm |-> store = durable]]
    BY <1>11 DEF Scores, tableVars
  <2>2. DOMAIN score = Beating
    BY <1>2 DEF ScoreFacts
  <2>3. score'[a] = [value |-> ScoreOf(a, beat[a]), at |-> beat[a], firm |-> store = durable]
    BY <2>1, <2>2
  <2>4. DOMAIN score' = Beating /\ \A b \in Beating : b # a => score'[b] = score[b]
    BY <2>1, <2>2
  <2>5. ScoreOf(a, beat[a]) = SumOf(store, a, beat[a])
    BY DEF ScoreOf, SumOf, Terms, TermsOf, Scored, ScoredOf
  <2>6. beat[a] \in Int /\ beat[a] <= MaxTime /\ score[a].at \in Int /\ score[a].at <= beat[a]
    BY <1>6, <2>1
  <2>7. SumOf(store, a, beat[a]) \in Nat
    BY <1>1, <2>6, SumOfTyped
  <2>8. score'[a].value = SumOf(store, a, beat[a]) /\ score'[a].at = beat[a]
        /\ (score'[a].firm => store = durable)
    <3> DEFINE committed == store = durable
    <3>1. score'[a] = [value |-> ScoreOf(a, beat[a]), at |-> beat[a], firm |-> committed]
      BY <2>3
    <3>2. committed => store = durable
      OBVIOUS
    <3> HIDE DEF committed
    <3>3. /\ score'[a].value = ScoreOf(a, beat[a]) /\ score'[a].at = beat[a]
          /\ score'[a].firm = committed
      BY <3>1
    <3> QED BY <2>5, <3>2, <3>3
  <2>9. ASSUME NEW b \in Beating
        PROVE  /\ score'[b].value \in Nat
               /\ score'[b].firm => /\ score'[b].value <= SumOf(store', b, score'[b].at)
                                    /\ score'[b].value <= SumOf(durable', b, score'[b].at)
    <3>1. CASE b = a
      BY <2>1, <2>7, <2>8, <3>1
    <3>2. CASE b # a
      <4>1. score'[b] = score[b] /\ score[b].value \in Nat
        BY <1>2, <2>4, <3>2 DEF ScoreFacts
      <4> QED BY <1>7, <4>1
    <3> QED BY <3>1, <3>2
  <2>10. ScoreFacts'
    BY <1>8, <1>9, <2>4, <2>9 DEF ScoreFacts
  <2>11. ASSUME score'[a].value < score[a].value, ~(score'[a].at > score[a].at), score[a].firm
         PROVE  FALSE
    <3>1. score[a].at = beat[a]
      BY <2>6, <2>8, <2>11
    <3>2. score[a].value <= SumOf(store, a, beat[a]) /\ score[a].value \in Nat
      BY <1>2, <2>11, <3>1 DEF ScoreFacts
    <3> QED BY <2>7, <2>8, <2>11, <3>2
  <2>12. \A b \in Beating : b # a => ~(score'[b].value < score[b].value)
    <3>1. \A b \in Beating : score[b].value \in Nat
      BY <1>2 DEF ScoreFacts
    <3> QED BY <2>4, <3>1
  <2> QED BY <2>10, <2>11, <2>12
<1> QED BY <1>3, <1>4, <1>10, <1>11 DEF ScoreInv

\* At first there are no rows, and nothing has been scored.
LEMMA ScoreInit == ASSUME Init PROVE ScoreInv
<1>1. HoldFacts
  BY DEF Init, HoldFacts
<1>2. ClockFacts
  BY OversightAssumption DEF Init, ClockFacts, NoScore, Idle
<1>3. Idle \in Int /\ Idle <= MaxTime /\ 0 \in Nat
  BY OversightAssumption DEF Idle
<1>4. store = << >> /\ durable = << >> /\ << >> \in Seq(RowSet)
  BY DEF Init
<1>5. \A a \in Beating : score[a].value = 0 /\ score[a].at = Idle
  BY DEF Init, NoScore
<1>6. \A a : SumOf(<< >>, a, Idle) \in Nat
  BY <1>3, <1>4, SumOfTyped
<1> HIDE DEF Idle
<1>7. \A a \in Beating : score[a].value <= SumOf(store, a, score[a].at)
                          /\ score[a].value <= SumOf(durable, a, score[a].at)
  BY <1>4, <1>5, <1>6
<1>8. DOMAIN score = Beating
  BY DEF Init
<1>9. \A a \in Beating : score[a].value \in Nat
  BY <1>3, <1>5
<1>10. ScoreFacts
  BY <1>7, <1>8, <1>9 DEF ScoreFacts
<1> QED BY <1>1, <1>2, <1>10 DEF ScoreInv

\* What a score is worth: in every state its agent's resolved rows, as everybody sees
\* them and as a restart would find them, add up to no less than a firm score at the
\* moment it was read for (scorer.py, compute_score).
THEOREM ScoreInvHolds == Spec => []ScoreInv
<1>1. Init => ScoreInv
  BY ScoreInit
<1>2. OversightInv /\ OversightInv' /\ ScoreInv /\ [Next]_vars => ScoreInv'
  BY ScoreStep
<1> QED BY <1>1, <1>2, OversightInvariant, PTL DEF Spec

\* Every variable has its type, the scores too: a score is a sum of weights.
THEOREM OversightTyped == Spec => []TypeOK
<1>1. TypedButSums /\ ScoreInv => TypeOK
  BY DEF TypeOK, ScoreInv, ScoreFacts
<1> QED BY <1>1, AllButSumsIsTyped, ScoreInvHolds, PTL

\* A score is lower than the one before only because its records are older: no decision,
\* flag, undo or restart lowers it, unless a crash took what it had read before it was
\* committed (scorer.py: "a restarted atc-core process picks the score back up correctly").
THEOREM ScoresFallOnlyWithAge == Spec => ScoreFallsOnlyWithAge
<1>1. OversightInv /\ OversightInv' /\ ScoreInv /\ [Next]_vars =>
        [\A a \in Beating : score'[a].value < score[a].value =>
            score'[a].at > score[a].at \/ ~score[a].firm]_vars
  BY ScoreStep
<1> QED BY <1>1, OversightInvariant, ScoreInvHolds, PTL DEF Spec, ScoreFallsOnlyWithAge
=============================================================================
