----------------------------- MODULE Bootstrap ------------------------------
(***************************************************************************)
(* How the shared SQLite file comes to hold a schema, the agents and a      *)
(* seeded history.  Two processes open it: atc-core (Store.connect, then    *)
(* Gateway.startup) and the one-shot history-seeder (Store.connect, then    *)
(* history_seeder.runner.run), in any overlap, and each may die at any      *)
(* await.  A method of Store is one step: the other process sees it when    *)
(* it commits.  A process that waits too long for SQLite's lock dies too.   *)
(*                                                                         *)
(* The random history is chosen row by row as the rows are inserted, which  *)
(* nobody can tell from choosing it beforehand.  An age is in hours before  *)
(* the run that made the row; of a window only its newest moment counts.    *)
(***************************************************************************)
EXTENDS RiskEngine, ActionStatus, FiniteSets

CONSTANTS
    Core, Seeder,   \* the two processes
    Teams,          \* bound: the identities the registry may list, in order
    Settings,       \* the environments a run of the seeder is started with
    PerDay,         \* ACTIONS_PER_AGENT_PER_DAY
    MaxRuns,        \* bound: how often the seeder is run
    MaxDeaths,      \* bound: how often a process dies
    MaxLive         \* bound: the calls agents make

Personas == {"coder", "assistant", "compliance"}

ASSUME BootstrapAssumption ==
    /\ Core # Seeder
    /\ Settings \subseteq [force : BOOLEAN, backdate : BOOLEAN, days : Nat]
    /\ {PerDay, MaxRuns, MaxDeaths, MaxLive} \subseteq Nat
    /\ Teams \subseteq Seq([id : STRING, persona : Personas, scope : SUBSET STRING]) \ {<< >>}
    \* The registry is a dictionary by id.
    /\ \A t \in Teams : \A i, j \in DOMAIN t : t[i].id = t[j].id => i = j

VARIABLES
    team,      \* the registry both processes read
    columns,   \* the migrated columns that are there; NoTables before any table
    agents,    \* the agents table
    rows,      \* the actions table
    marker,    \* the setting history_seeded_at: the run that wrote it, or NoRun
    spans,     \* the runs whose spans were emitted
    pc,        \* where each process is
    at,        \* the position in the loop each process is in
    runs,      \* the seeder's runs: their settings and what is left to insert
    deaths,
    checks,    \* the live calls whose creep check is scheduled
    ordered    \* history: the agents the operator has in quarantine

fileVars == <<columns, agents, rows, marker>>
liveVars == <<ordered, checks>>
vars == <<team, fileVars, spans, pc, at, runs, deaths, liveVars>>

Processes == {Core, Seeder}

Migrations == <<"tokens_used", "reversibility", "blast_radius", "novel">>

AllColumns == {Migrations[i] : i \in DOMAIN Migrations}

NoTables == {"no tables"}

NoRun == 0

Coder == [id |-> "coder-01", persona |-> "coder", scope |-> {"db", "fs", "git"}]
Assistant == [id |-> "assist-01", persona |-> "assistant", scope |-> {"email", "fs"}]
Compliance == [id |-> "comply-01", persona |-> "compliance", scope |-> {"fs"}]

\* tool_namespace().
Namespace ==
    [db__query |-> "db", db__execute |-> "db", fs__read |-> "fs", fs__write |-> "fs",
     git__push |-> "git", email__send |-> "email"]

Ids == {team[i].id : i \in DOMAIN team}

NoAgent == [quarantined |-> FALSE, created_by |-> None]
-----------------------------------------------------------------------------
(* What generate_history() draws from.                                     *)

Profile(tool, names, level, rule) ==
    [tool |-> tool, names |-> names, level |-> level, rule |-> rule]

PersonaProfiles ==
    [coder |->
        {Profile("db__query", {"staging_old", "orders", "customers"}, "LOW", "SQL-READ-LOW"),
         Profile("db__execute", {"staging_old"}, "MEDIUM", "SQL-WRITE-MEDIUM"),
         Profile("db__execute", {"customers"}, "HIGH", "SQL-PROD-TABLE-HIGH"),
         Profile("fs__read", {"README.md", "seed.py"}, "LOW", "FS-READ-LOW"),
         Profile("git__push", {"origin/main"}, "MEDIUM", "GIT-PUSH-MEDIUM")},
     assistant |->
        {Profile("email__send", {"standup", "digest"}, "LOW", "EMAIL-SEND-LOW"),
         Profile("fs__read", {"daily-summary.md"}, "LOW", "FS-READ-LOW"),
         Profile("fs__write", {"daily-summary.md"}, "MEDIUM", "FS-WRITE-MEDIUM")},
     compliance |->
        {Profile("fs__read", {"risk_rules.yaml", "agents.yaml"}, "LOW", "FS-READ-LOW")}]

\* What policies/agents.yaml and risk_rules.yaml are deployed with: an agent's scope
\* has the tools of its persona, and of what the personas write only the customers
\* table is of production.
ASSUME DeploymentAssumption ==
    /\ \A t \in Teams : \A i \in DOMAIN t : \A p \in PersonaProfiles[t[i].persona] :
            Namespace[p.tool] \in t[i].scope
    /\ "customers" \in ProdTables /\ "staging_old" \notin ProdTables
    /\ "daily-summary.md" \notin SensitivePaths

\* Mutant: a held action may have been let through by the gate.
OutcomesUnheld(level) ==
    IF level \in {"LOW", "MEDIUM"} THEN {"AUTO_ALLOWED"} ELSE Resolutions \cup {"AUTO_ALLOWED"}

\* _resolve_outcome(): the statuses a row of this level may end in.
Outcomes(level) == IF level \in {"LOW", "MEDIUM"} THEN {"AUTO_ALLOWED"} ELSE Resolutions

\* The newest moment of the window, whose ends are an hour and these days ago.
Newest(days) == IF 24 * days < 1 THEN 24 * days ELSE 1

CountFor(days) == IF days * PerDay > 1 THEN days * PerDay ELSE 1

\* A row of the table: the seeder's, or one the gate wrote for a call it let
\* through, which is of NoRun.  The seeder names a table; the gate stores the
\* first of the arguments sql, path and to.
Row(run, nth, agent, p, resource, status, age) ==
    [run |-> run, nth |-> nth, agent |-> agent, tool |-> p.tool, resource |-> resource,
     level |-> p.level, rule |-> p.rule, status |-> status, age |-> age, novel |-> FALSE]

SeededName(name) == <<"name", name>>

LiveName(p, name) == <<IF Namespace[p.tool] = "db" THEN "statement on" ELSE "name", name>>
-----------------------------------------------------------------------------
Init ==
    /\ team \in Teams
    /\ columns \in {NoTables} \cup {{Migrations[i] : i \in 1 .. n} : n \in 0 .. Len(Migrations)}
    /\ agents = [id \in Ids |-> NoAgent]
    /\ rows = {}
    /\ marker = NoRun
    /\ spans = {}
    /\ pc = [p \in Processes |-> "off"]
    /\ at = [p \in Processes |-> 1]
    /\ runs = << >>
    /\ deaths = 0
    /\ checks = {}
    /\ ordered = {}

Goes(p, place, position) ==
    /\ pc' = [pc EXCEPT ![p] = place]
    /\ at' = [at EXCEPT ![p] = position]

Run == Len(runs)

Left == runs[Run].left
-----------------------------------------------------------------------------
(* Store.connect(), by either process.                                     *)

StartCore ==
    /\ pc[Core] = "off"
    /\ Goes(Core, "schema", 1)
    /\ UNCHANGED <<team, fileVars, spans, runs, deaths, liveVars>>

\* The seeder is started with its settings from the environment.
StartSeeder ==
    /\ pc[Seeder] = "off"
    /\ Run < MaxRuns
    /\ Goes(Seeder, "schema", 1)
    /\ \E s \in Settings :
        runs' = Append(runs, [force |-> s.force, backdate |-> s.backdate, days |-> s.days,
                              left |-> [id \in Ids |-> CountFor(s.days)], died |-> FALSE])
    /\ UNCHANGED <<team, fileVars, spans, deaths, liveVars>>

\* CREATE TABLE IF NOT EXISTS: new tables have every column.
CreatesTables(p) ==
    /\ pc[p] = "schema"
    /\ columns' = IF columns = NoTables THEN AllColumns ELSE columns
    /\ Goes(p, "migrate", 1)
    /\ UNCHANGED <<team, agents, rows, marker, spans, runs, deaths, liveVars>>

\* Mutant: a column that is there already ends the migration.
MigratesUntilKnown(p) ==
    /\ pc[p] = "migrate"
    /\ columns' = columns \cup {Migrations[at[p]]}
    /\ IF at[p] < Len(Migrations) /\ Migrations[at[p]] \notin columns
       THEN Goes(p, "migrate", at[p] + 1)
       ELSE Goes(p, IF p = Core THEN "look" ELSE "check", 1)
    /\ UNCHANGED <<team, agents, rows, marker, spans, runs, deaths, liveVars>>

\* ADD COLUMN; that the column is there already is not an error.
Migrates(p) ==
    /\ pc[p] = "migrate"
    /\ columns' = columns \cup {Migrations[at[p]]}
    /\ IF at[p] < Len(Migrations)
       THEN Goes(p, "migrate", at[p] + 1)
       ELSE Goes(p, IF p = Core THEN "look" ELSE "check", 1)
    /\ UNCHANGED <<team, agents, rows, marker, spans, runs, deaths, liveVars>>
-----------------------------------------------------------------------------
(* Registering the agents, which both processes do.                        *)

\* Mutant: the loop runs once too often.
NextAgentBeyond(p, done) ==
    IF at[p] <= Len(team) THEN Goes(p, "look", at[p] + 1) ELSE Goes(p, done, 1)

\* Where process p goes when it is done with the agent at its position.
NextAgent(p, done) ==
    IF at[p] < Len(team) THEN Goes(p, "look", at[p] + 1) ELSE Goes(p, done, 1)

LooksForAgent(p, done) ==
    /\ pc[p] = "look"
    /\ IF agents[team[at[p]].id] = NoAgent
       THEN Goes(p, "register", at[p])
       ELSE NextAgent(p, done)
    /\ UNCHANGED <<team, fileVars, spans, runs, deaths, liveVars>>

\* Mutant: on conflict, the whole row is replaced.
UpsertReplaces(id, p) ==
    agents' = [agents EXCEPT ![id] = [quarantined |-> FALSE, created_by |-> p]]

\* On conflict, only what comes from the registry is written again.
UpsertAgent(id, p) ==
    agents' = [agents EXCEPT ![id] =
                  IF @ = NoAgent THEN [quarantined |-> FALSE, created_by |-> p] ELSE @]

RegistersAgent(p, done) ==
    /\ pc[p] = "register"
    /\ UpsertAgent(team[at[p]].id, p)
    /\ NextAgent(p, done)
    /\ UNCHANGED <<team, columns, rows, marker, spans, runs, deaths, liveVars>>

CoreStartup == LooksForAgent(Core, "serving") \/ RegistersAgent(Core, "serving")
-----------------------------------------------------------------------------
(* history_seeder.runner.run().                                            *)

\* Mutant: the marker is not looked at.
ChecksNothing ==
    /\ pc[Seeder] = "check"
    /\ Goes(Seeder, "look", 1)
    /\ UNCHANGED <<team, fileVars, spans, runs, deaths, liveVars>>

ChecksMarker ==
    /\ pc[Seeder] = "check"
    /\ IF ~runs[Run].force /\ marker # NoRun
       THEN Goes(Seeder, "off", 1)
       ELSE Goes(Seeder, "look", 1)
    /\ UNCHANGED <<team, fileVars, spans, runs, deaths, liveVars>>

RegistersAgents == LooksForAgent(Seeder, "insert") \/ RegistersAgent(Seeder, "insert")

\* The next of the generated actions is inserted.
InsertsAction ==
    /\ pc[Seeder] = "insert"
    /\ \E i \in DOMAIN team :
        /\ Left[team[i].id] > 0
        /\ \E p \in PersonaProfiles[team[i].persona] :
            \E name \in p.names, status \in Outcomes(p.level) :
                rows' = rows \cup {Row(Run, Left[team[i].id], team[i].id, p, SeededName(name), status,
                                       Newest(runs[Run].days))}
        /\ runs' = [runs EXCEPT ![Run].left[team[i].id] = @ - 1]
    /\ UNCHANGED <<team, columns, agents, marker, spans, pc, at, deaths, liveVars>>

\* emit_backdated_spans(), without an await, once all of them are inserted.
EmitsSpans ==
    /\ pc[Seeder] = "insert"
    /\ \A id \in Ids : Left[id] = 0
    /\ spans' = IF runs[Run].backdate THEN spans \cup {Run} ELSE spans
    /\ Goes(Seeder, "mark", 1)
    /\ UNCHANGED <<team, fileVars, runs, deaths, liveVars>>

SetsMarker ==
    /\ pc[Seeder] = "mark"
    /\ marker' = Run
    /\ Goes(Seeder, "off", 1)
    /\ UNCHANGED <<team, columns, agents, rows, spans, runs, deaths, liveVars>>
-----------------------------------------------------------------------------
(* atc-core serves.                                                        *)

SetsQuarantine(id) ==
    /\ pc[Core] = "serving"
    /\ \E q \in BOOLEAN :
        /\ agents' = [agents EXCEPT ![id].quarantined = q]
        /\ ordered' = IF q THEN ordered \cup {id} ELSE ordered \ {id}
    /\ UNCHANGED <<team, columns, rows, marker, spans, pc, at, runs, deaths, checks>>

LiveRows == {r \in rows : r.run = NoRun}

\* A call the gate does not hold, on something the agent's history may name;
\* its row is in the table before its creep check reads it.
Calls(i) ==
    /\ pc[Core] = "serving"
    /\ ~agents[team[i].id].quarantined
    /\ Cardinality(LiveRows) < MaxLive
    /\ \E p \in PersonaProfiles[team[i].persona] :
        /\ p.level = "LOW"
        /\ \E name \in p.names :
            rows' = rows \cup {Row(NoRun, Cardinality(LiveRows), team[i].id, p, LiveName(p, name),
                                   "AUTO_ALLOWED", 0)}
    /\ checks' = checks \cup {Cardinality(LiveRows)}
    /\ UNCHANGED <<team, columns, agents, marker, spans, pc, at, runs, deaths, ordered>>

\* Mutant: only what the gate wrote counts as a touch.
LiveTouches(r) == {s \in LiveRows \ {r} : s.agent = r.agent /\ s.resource = r.resource}

Touches(r) == {s \in rows \ {r} : s.agent = r.agent /\ s.resource = r.resource}

FlagsNovel(r) == ~r.novel /\ rows' = (rows \ {r}) \cup {[r EXCEPT !.novel = TRUE]}

CreepCheck(r) ==
    /\ r.nth \in checks
    /\ checks' = checks \ {r.nth}
    /\ IF Touches(r) = {} THEN FlagsNovel(r) ELSE UNCHANGED rows
    /\ UNCHANGED <<team, columns, agents, marker, spans, pc, at, runs, deaths, ordered>>
-----------------------------------------------------------------------------
Dies(p) ==
    /\ pc[p] # "off"
    /\ deaths < MaxDeaths
    /\ deaths' = deaths + 1
    /\ Goes(p, "off", 1)
    /\ runs' = IF p = Seeder THEN [runs EXCEPT ![Run].died = TRUE] ELSE runs
    /\ checks' = IF p = Core THEN {} ELSE checks
    /\ UNCHANGED <<team, fileVars, spans, ordered>>

Next ==
    \/ StartCore \/ StartSeeder
    \/ \E p \in Processes : CreatesTables(p) \/ Migrates(p) \/ Dies(p)
    \/ CoreStartup
    \/ ChecksMarker \/ RegistersAgents \/ InsertsAction \/ EmitsSpans \/ SetsMarker
    \/ \E id \in Ids : SetsQuarantine(id)
    \/ \E i \in DOMAIN team : Calls(i)
    \/ \E r \in LiveRows : CreepCheck(r)

Spec == Init /\ [][Next]_vars
-----------------------------------------------------------------------------
Places ==
    {"off", "schema", "migrate", "look", "register", "serving", "check", "insert", "mark"}

RunRecords ==
    [force : BOOLEAN, backdate : BOOLEAN, days : Nat, left : [Ids -> Nat], died : BOOLEAN]

Profiles == UNION {PersonaProfiles[n] : n \in Personas}

Rows ==
    [run : 0 .. Run, nth : Nat, agent : Ids, tool : {p.tool : p \in Profiles},
     resource : {"name", "statement on"} \X UNION {p.names : p \in Profiles},
     level : {p.level : p \in Profiles}, rule : {p.rule : p \in Profiles},
     status : Statuses, age : Nat, novel : BOOLEAN]

\* Every variable has its type, and each process is inside its loop.
TypeOK ==
    /\ team \in Teams
    /\ columns = NoTables \/ columns \subseteq AllColumns
    /\ agents \in [Ids -> [quarantined : BOOLEAN, created_by : Processes \cup {None}]]
    /\ rows \subseteq Rows /\ IsFiniteSet(rows)
    /\ runs \in Seq(RunRecords)
    /\ marker \in 0 .. Run
    /\ spans \subseteq 1 .. Run
    /\ pc \in [Processes -> Places]
    /\ at \in [Processes -> Nat]
    /\ \A p \in Processes :
        /\ pc[p] = "migrate" => at[p] \in DOMAIN Migrations
        /\ pc[p] \in {"look", "register"} => at[p] \in DOMAIN team
    /\ deaths \in 0 .. MaxDeaths
    /\ checks \subseteq 0 .. MaxLive - 1
    /\ ordered \subseteq Ids

\* A process that has connected finds every column its statements name, also in
\* a file that is older, was half migrated, or is being migrated by the other.
SchemaIsReady ==
    \A p \in Processes : pc[p] \notin {"off", "schema", "migrate"} => columns = AllColumns

RowsOf(run) == {r \in rows : r.run = run}

\* The marker names a run whose whole history, and its spans, are out.
MarkedIsWhole ==
    marker # NoRun =>
        /\ Cardinality(RowsOf(marker)) = Len(team) * CountFor(runs[marker].days)
        /\ runs[marker].backdate => marker \in spans

\* A run that was not forced adds to no history but what runs left that died
\* before their marker.
DuplicatesNeedADeath ==
    \A n \in 1 .. Run :
        ~runs[n].force /\ RowsOf(n) # {} =>
            \A m \in 1 .. n - 1 : RowsOf(m) # {} => runs[m].died

\* The seeder's promise that re-running it is safe (docker-compose.yml:141), as far
\* as it is kept: one whole history, or the remains of runs that died.
HistoryIsWhole == MarkedIsWhole /\ DuplicatesNeedADeath

\* A call agent r.agent may have made to have its row: it names the row's table
\* or path, or neither.
CallsOn(r) ==
    {[agent |-> r.agent, tool |-> r.tool, sql |-> NoSql, path |-> r.resource[2], to |-> 1]}
    \cup {[agent |-> r.agent, tool |-> r.tool, path |-> None, to |-> 0,
           sql |-> [kind |-> k, where |-> "some", object |-> None, tables |-> {r.resource[2]}]] :
             k \in DmlKinds}

\* Every seeded row is one the gate could have written: the deployed policy
\* gives some call of that tool on that resource this level and this rule, the
\* tool is in the agent's scope, and the status is a final one that the gate
\* gives this level.  A row that is PENDING would be a hold nobody waits for.
CouldHaveHappened ==
    \A r \in rows :
        /\ \E c \in CallsOn(r) : Evaluate(Policy, c) = [level |-> r.level, rule |-> r.rule]
        /\ \E i \in DOMAIN team : team[i].id = r.agent /\ Namespace[r.tool] \in team[i].scope
        /\ r.status \in Terminal
        /\ r.status = "AUTO_ALLOWED" <=> r.level # "HIGH"

\* A seeded row is an hour older than the run that made it, so that the first
\* live call after it is the newest in every list; unless the history is one of
\* no days, whose window is the last hour itself.
SeededRowsAreOld == \A r \in rows \ LiveRows : runs[r.run].days > 0 => r.age >= 1

\* The history reads as one that the gate wrote before the demonstration began.
HistoryIsPlausible == CouldHaveHappened /\ SeededRowsAreOld

\* A registered agent is quarantined exactly while the operator says so, and it
\* stays who registered it, whatever the seeder and a startup do at the same
\* time.
KeepsLiveAgents ==
    [][\A id \in Ids : agents[id] # NoAgent =>
           /\ agents'[id].created_by = agents[id].created_by
           /\ agents'[id].quarantined <=> id \in ordered']_vars

\* What the seeder is for: a live call is no first touch if the agent's history
\* names what it touches.  Of tables this is not so: the gate stores the text of
\* the statement where the seeder stores the name of the table.
BaselineCoversFiles ==
    [][\A r \in LiveRows : Namespace[r.tool] # "db" /\ FlagsNovel(r) =>
           \A s \in rows \ LiveRows : ~(s.agent = r.agent /\ s.resource[2] = r.resource[2])]_vars
-----------------------------------------------------------------------------
(* The inductive invariant behind SchemaIsReady, KeepsLiveAgents and        *)
(* DuplicatesNeedADeath.                                                    *)

\* A process that migrates has passed the columns before its own, and nobody
\* takes a column away.
SchemaInv ==
    /\ columns = NoTables \/ columns \subseteq AllColumns
    /\ \A p \in Processes : pc[p] = "migrate" =>
            columns \subseteq AllColumns /\ \A i \in 1 .. at[p] - 1 : Migrations[i] \in columns
    /\ SchemaIsReady

QuarantineInv == \A id \in Ids : agents[id].quarantined <=> id \in ordered

\* The places of a run of the seeder once it has passed the check of the marker.
Seeding == {"look", "register", "insert", "mark"}

\* What a run says of the earlier ones: that they left nothing or died.
FindsRemains(n) == \A m \in 1 .. n - 1 : RowsOf(m) # {} => runs[m].died

\* A run that has rows and did not die is at work or has left its marker, and a
\* run that inserts unforced has found no marker.
RunsInv ==
    /\ pc[Seeder] # "off" => Run > 0
    /\ \A m \in 1 .. Run : RowsOf(m) # {} =>
            runs[m].died \/ marker # NoRun \/ (m = Run /\ pc[Seeder] \in {"insert", "mark"})
    /\ pc[Seeder] \in Seeding /\ ~runs[Run].force => FindsRemains(Run)
    /\ pc[Seeder] \notin {"off", "insert", "mark"} => RowsOf(Run) = {}
    /\ DuplicatesNeedADeath

Inv == TypeOK /\ SchemaInv /\ QuarantineInv /\ RunsInv
=============================================================================
