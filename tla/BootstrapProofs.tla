-------------------------- MODULE BootstrapProofs ---------------------------
(***************************************************************************)
(* Proofs about Bootstrap, for any registries, any settings of the seeder   *)
(* and any number of its runs, of deaths and of live calls.                 *)
(***************************************************************************)
EXTENDS Bootstrap, FiniteSetTheorems, TLAPS

Identities == [id : STRING, persona : Personas, scope : SUBSET STRING]

Resources == {"name", "statement on"} \X UNION {p.names : p \in Profiles}

\* The registry is a sequence of identities that is not empty.
LEMMA RegistryIsListed ==
    ASSUME TypeOK
    PROVE  /\ team \in Seq(Identities)
           /\ Len(team) \in Nat \ {0}
           /\ DOMAIN team = 1 .. Len(team)
           /\ \A i \in DOMAIN team : team[i] \in Identities /\ team[i].id \in Ids
<1>1. team \in Seq(Identities) \ {<< >>}
    BY BootstrapAssumption DEF TypeOK, Identities
<1>2. Len(team) \in Nat \ {0} /\ DOMAIN team = 1 .. Len(team)
    BY <1>1
<1> QED BY <1>1, <1>2 DEF Ids

\* The types of rows and runs stay what they are until a run begins.
LEMMA SameSets ==
    ASSUME team' = team, Len(runs') = Len(runs)
    PROVE  Ids' = Ids /\ Run' = Run /\ RunRecords' = RunRecords /\ Rows' = Rows
BY DEF Ids, Run, RunRecords, Rows

\* A row may be in any of these.
LEMMA OutcomesAreStatuses ==
    ASSUME NEW level
    PROVE  Outcomes(level) \subseteq Statuses
BY DEF Outcomes, Statuses, Resolutions

\* There is at least one action to insert for an agent.
LEMMA CountIsNatural ==
    ASSUME NEW days \in Nat
    PROVE  CountFor(days) \in Nat
<1>1. PerDay \in Nat
    BY BootstrapAssumption
<1>2. days * PerDay \in Int
    BY <1>1
<1> QED BY <1>2 DEF CountFor

\* A process that goes somewhere leaves the other where it is.
LEMMA GoesTyped ==
    ASSUME TypeOK, NEW p \in Processes, NEW place \in Places, NEW position \in Nat,
           place = "migrate" => position \in DOMAIN Migrations,
           place \in {"look", "register"} => position \in DOMAIN team,
           Goes(p, place, position), team' = team
    PROVE  /\ pc' \in [Processes -> Places]
           /\ at' \in [Processes -> Nat]
           /\ \A q \in Processes :
                /\ pc'[q] = "migrate" => at'[q] \in DOMAIN Migrations
                /\ pc'[q] \in {"look", "register"} => at'[q] \in DOMAIN team'
BY DEF TypeOK, Goes

\* What a row is made from.
LEMMA RowTyped ==
    ASSUME TypeOK, NEW run \in 0 .. Run, NEW nth \in Nat, NEW i \in DOMAIN team,
           NEW p \in PersonaProfiles[team[i].persona], NEW resource \in Resources,
           NEW status \in Statuses, NEW age \in Nat
    PROVE  Row(run, nth, team[i].id, p, resource, status, age) \in Rows
<1>1. team[i].persona \in Personas /\ team[i].id \in Ids
    BY RegistryIsListed DEF Identities
<1>2. p \in Profiles
    BY <1>1 DEF Profiles
<1> QED BY <1>1, <1>2 DEF Row, Rows, Resources

\* Whose run a row is, flagged or not.
LEMMA RowsAreOfARun ==
    ASSUME NEW r \in Rows
    PROVE  r.run \in 0 .. Run /\ [r EXCEPT !.novel = TRUE].run = r.run
BY DEF Rows

\* What it is named after.
LEMMA NameTyped ==
    ASSUME TypeOK, NEW i \in DOMAIN team, NEW p \in PersonaProfiles[team[i].persona],
           NEW name \in p.names
    PROVE  SeededName(name) \in Resources /\ LiveName(p, name) \in Resources
<1>1. team[i].persona \in Personas
    BY RegistryIsListed DEF Identities
<1>2. p \in Profiles
    BY <1>1 DEF Profiles
<1> QED BY <1>2 DEF SeededName, LiveName, Resources

LEMMA NextAgentTyped ==
    ASSUME TypeOK, NEW p \in Processes, pc[p] \in {"look", "register"},
           NEW done \in {"serving", "insert"}, NextAgent(p, done), team' = team
    PROVE  /\ pc' \in [Processes -> Places]
           /\ at' \in [Processes -> Nat]
           /\ \A q \in Processes :
                /\ pc'[q] = "migrate" => at'[q] \in DOMAIN Migrations
                /\ pc'[q] \in {"look", "register"} => at'[q] \in DOMAIN team'
<1>1. at[p] \in 1 .. Len(team) /\ DOMAIN team = 1 .. Len(team) /\ Len(team) \in Nat
    BY RegistryIsListed DEF TypeOK
<1>2. CASE at[p] < Len(team)
    <2>1. Goes(p, "look", at[p] + 1) /\ at[p] + 1 \in DOMAIN team /\ at[p] + 1 \in Nat
        BY <1>1, <1>2 DEF NextAgent
    <2> QED BY <2>1, GoesTyped DEF Places
<1>3. CASE ~(at[p] < Len(team))
    <2>1. Goes(p, done, 1) /\ done \in Places
        BY <1>3 DEF NextAgent, Places
    <2> QED BY <2>1, GoesTyped
<1> QED BY <1>2, <1>3
-----------------------------------------------------------------------------
(* Types.                                                                  *)

LEMMA InitTyped == Init => TypeOK
<1> SUFFICES ASSUME Init PROVE TypeOK
    OBVIOUS
<1>1. columns = NoTables \/ columns \subseteq AllColumns
    BY DEF Init, AllColumns, Migrations
<1>2. agents \in [Ids -> [quarantined : BOOLEAN, created_by : Processes \cup {None}]]
    BY DEF Init, NoAgent
<1>3. pc \in [Processes -> Places] /\ at \in [Processes -> Nat]
    BY DEF Init, Places
<1>4. IsFiniteSet(rows)
    BY FS_EmptySet DEF Init
<1>5. Len(runs) = 0 /\ runs \in Seq(RunRecords)
    BY DEF Init
<1>6. 0 \in 0 .. MaxDeaths
    BY BootstrapAssumption
<1> QED BY <1>1, <1>2, <1>3, <1>4, <1>5, <1>6 DEF Init, TypeOK, Run, NoRun, RunRecords

LEMMA ConnectTyped ==
    ASSUME TypeOK, SchemaInv,
           StartCore \/ StartSeeder \/ \E p \in Processes : CreatesTables(p) \/ Migrates(p)
    PROVE  TypeOK'
<1> USE DEF fileVars, liveVars
<1>1. Core \in Processes /\ Seeder \in Processes /\ 1 \in DOMAIN Migrations
      /\ 1 \in DOMAIN team /\ DOMAIN Migrations = 1 .. 4 /\ Len(Migrations) = 4
    BY RegistryIsListed DEF Processes, Migrations
<1>2. CASE StartCore
    BY <1>1, <1>2, GoesTyped, SameSets DEF StartCore, TypeOK, Places
<1>3. CASE StartSeeder
    <2>1. PICK s \in Settings :
            runs' = Append(runs, [force |-> s.force, backdate |-> s.backdate, days |-> s.days,
                                  left |-> [id \in Ids |-> CountFor(s.days)], died |-> FALSE])
        BY <1>3 DEF StartSeeder
    <2>2. s \in [force : BOOLEAN, backdate : BOOLEAN, days : Nat]
        BY BootstrapAssumption
    <2>3. [id \in Ids |-> CountFor(s.days)] \in [Ids -> Nat]
        BY <2>2, CountIsNatural
    <2>4. runs \in Seq(RunRecords)
        BY DEF TypeOK, RunRecords
    <2>5. runs' \in Seq(RunRecords) /\ Len(runs') = Len(runs) + 1 /\ Len(runs) \in Nat
        BY <2>1, <2>2, <2>3, <2>4 DEF RunRecords
    <2>6. /\ pc' \in [Processes -> Places]
          /\ at' \in [Processes -> Nat]
          /\ \A q \in Processes :
                /\ pc'[q] = "migrate" => at'[q] \in DOMAIN Migrations
                /\ pc'[q] \in {"look", "register"} => at'[q] \in DOMAIN team'
        BY <1>1, <1>3, GoesTyped DEF StartSeeder, Places
    <2>7. UNCHANGED <<team, fileVars, spans, deaths, liveVars>>
        BY <1>3 DEF StartSeeder
    <2>8. Ids' = Ids /\ RunRecords' = RunRecords /\ Run' = Run + 1 /\ Run \in Nat
        BY <2>5, <2>7 DEF Ids, RunRecords, Run
    <2>9. Rows \subseteq Rows'
        <3>1. 0 .. Run \subseteq 0 .. Run'
            BY <2>8
        <3>2. ASSUME NEW r \in Rows PROVE r \in Rows'
            BY <2>8, <3>1, <3>2 DEF Rows
        <3> QED BY <3>2
    <2>10. rows' \subseteq Rows' /\ IsFiniteSet(rows')
        BY <2>7, <2>9 DEF TypeOK
    <2> QED BY <2>5, <2>6, <2>7, <2>8, <2>10 DEF TypeOK
<1>4. ASSUME NEW p \in Processes, CreatesTables(p)
      PROVE  TypeOK'
    <2>1. columns' \subseteq AllColumns
        BY <1>4 DEF CreatesTables, TypeOK
    <2>2. /\ pc' \in [Processes -> Places]
          /\ at' \in [Processes -> Nat]
          /\ \A q \in Processes :
                /\ pc'[q] = "migrate" => at'[q] \in DOMAIN Migrations
                /\ pc'[q] \in {"look", "register"} => at'[q] \in DOMAIN team'
        BY <1>1, <1>4, GoesTyped DEF CreatesTables, Places
    <2> QED BY <1>4, <2>1, <2>2, SameSets DEF CreatesTables, TypeOK
<1>5. ASSUME NEW p \in Processes, Migrates(p)
      PROVE  TypeOK'
    <2>1. at[p] \in 1 .. 4 /\ Migrations[at[p]] \in AllColumns
        BY <1>1, <1>5 DEF Migrates, TypeOK, AllColumns
    <2>2. columns' = NoTables \/ columns' \subseteq AllColumns
        BY <2>1, <1>5 DEF Migrates, SchemaInv
    <2>3. /\ pc' \in [Processes -> Places]
          /\ at' \in [Processes -> Nat]
          /\ \A q \in Processes :
                /\ pc'[q] = "migrate" => at'[q] \in DOMAIN Migrations
                /\ pc'[q] \in {"look", "register"} => at'[q] \in DOMAIN team'
        <3>1. CASE at[p] < Len(Migrations)
            <4>1. Goes(p, "migrate", at[p] + 1) /\ at[p] + 1 \in DOMAIN Migrations
                BY <1>1, <1>5, <2>1, <3>1 DEF Migrates
            <4> QED BY <1>1, <1>5, <2>1, <4>1, GoesTyped DEF Migrates, Places
        <3>2. CASE ~(at[p] < Len(Migrations))
            <4>1. Goes(p, IF p = Core THEN "look" ELSE "check", 1)
                BY <1>5, <3>2 DEF Migrates
            <4>2. (IF p = Core THEN "look" ELSE "check") \in Places
                BY DEF Places
            <4> QED BY <1>1, <1>5, <4>1, <4>2, GoesTyped DEF Migrates
        <3> QED BY <3>1, <3>2
    <2> QED BY <1>5, <2>2, <2>3, SameSets DEF Migrates, TypeOK
<1> QED BY <1>2, <1>3, <1>4, <1>5

LEMMA RegistrationTyped ==
    ASSUME TypeOK, NEW p \in Processes, NEW done \in {"serving", "insert"},
           LooksForAgent(p, done) \/ RegistersAgent(p, done)
    PROVE  TypeOK'
<1> USE DEF fileVars, liveVars
<1>1. at[p] \in Nat
    BY DEF TypeOK
<1>2. CASE LooksForAgent(p, done)
    <2>1. /\ pc' \in [Processes -> Places]
          /\ at' \in [Processes -> Nat]
          /\ \A q \in Processes :
                /\ pc'[q] = "migrate" => at'[q] \in DOMAIN Migrations
                /\ pc'[q] \in {"look", "register"} => at'[q] \in DOMAIN team'
        <3>1. CASE Goes(p, "register", at[p])
            BY <1>1, <1>2, <3>1, GoesTyped DEF LooksForAgent, TypeOK, Places
        <3>2. CASE NextAgent(p, done)
            BY <1>2, <3>2, NextAgentTyped DEF LooksForAgent
        <3> QED BY <1>2, <3>1, <3>2 DEF LooksForAgent
    <2> QED BY <1>2, <2>1, SameSets DEF LooksForAgent, TypeOK
<1>3. CASE RegistersAgent(p, done)
    <2>1. /\ pc' \in [Processes -> Places]
          /\ at' \in [Processes -> Nat]
          /\ \A q \in Processes :
                /\ pc'[q] = "migrate" => at'[q] \in DOMAIN Migrations
                /\ pc'[q] \in {"look", "register"} => at'[q] \in DOMAIN team'
        BY <1>3, NextAgentTyped DEF RegistersAgent
    <2>2. agents' \in [Ids -> [quarantined : BOOLEAN, created_by : Processes \cup {None}]]
        BY <1>3 DEF RegistersAgent, UpsertAgent, TypeOK
    <2> QED BY <1>3, <2>1, <2>2, SameSets DEF RegistersAgent, TypeOK
<1> QED BY <1>2, <1>3

LEMMA SeedingTyped ==
    ASSUME TypeOK, RunsInv, ChecksMarker \/ InsertsAction \/ EmitsSpans \/ SetsMarker
    PROVE  TypeOK'
<1> USE DEF fileVars, liveVars
<1>1. Seeder \in Processes /\ 1 \in Nat /\ 1 \in DOMAIN team
    BY RegistryIsListed DEF Processes
<1>2. runs \in Seq(RunRecords) /\ Len(runs) \in Nat
    BY DEF TypeOK, RunRecords
<1>3. CASE ChecksMarker
    <2>1. /\ pc' \in [Processes -> Places]
          /\ at' \in [Processes -> Nat]
          /\ \A q \in Processes :
                /\ pc'[q] = "migrate" => at'[q] \in DOMAIN Migrations
                /\ pc'[q] \in {"look", "register"} => at'[q] \in DOMAIN team'
        <3>1. Goes(Seeder, "off", 1) \/ Goes(Seeder, "look", 1)
            BY <1>3 DEF ChecksMarker
        <3> QED BY <1>1, <1>3, <3>1, GoesTyped DEF ChecksMarker, Places
    <2> QED BY <1>3, <2>1, SameSets DEF ChecksMarker, TypeOK
<1>4. CASE InsertsAction
    <2>1. Run \in 1 .. Len(runs) /\ Run \in 0 .. Run
        BY <1>2, <1>4 DEF InsertsAction, RunsInv, Run
    <2>2. PICK i \in DOMAIN team :
            /\ Left[team[i].id] > 0
            /\ \E p \in PersonaProfiles[team[i].persona] :
                \E name \in p.names, status \in Outcomes(p.level) :
                    rows' = rows \cup {Row(Run, Left[team[i].id], team[i].id, p, SeededName(name),
                                           status, Newest(runs[Run].days))}
            /\ runs' = [runs EXCEPT ![Run].left[team[i].id] = @ - 1]
        BY <1>4 DEF InsertsAction
    <2>3. PICK p \in PersonaProfiles[team[i].persona] :
            \E name \in p.names, status \in Outcomes(p.level) :
                rows' = rows \cup {Row(Run, Left[team[i].id], team[i].id, p, SeededName(name),
                                       status, Newest(runs[Run].days))}
        BY <2>2
    <2>4. PICK name \in p.names, status \in Outcomes(p.level) :
            rows' = rows \cup {Row(Run, Left[team[i].id], team[i].id, p, SeededName(name), status,
                                   Newest(runs[Run].days))}
        BY <2>3
    <2>5. runs[Run] \in RunRecords /\ team[i].id \in Ids
        BY <1>2, <2>1, RegistryIsListed
    <2>6. runs' \in Seq(RunRecords) /\ Len(runs') = Len(runs)
        <3>1. [runs[Run] EXCEPT !.left[team[i].id] = @ - 1] \in RunRecords
            BY <2>2, <2>5 DEF RunRecords, Left
        <3>2. runs' = [runs EXCEPT ![Run] = [runs[Run] EXCEPT !.left[team[i].id] = @ - 1]]
            BY <2>2
        <3> QED BY <1>2, <2>1, <3>1, <3>2
    <2>7. Row(Run, Left[team[i].id], team[i].id, p, SeededName(name), status,
              Newest(runs[Run].days)) \in Rows
        <3>1. Left[team[i].id] \in Nat /\ Newest(runs[Run].days) \in Nat
            BY <2>5 DEF RunRecords, Left, Newest
        <3>2. status \in Statuses
            BY OutcomesAreStatuses
        <3>3. SeededName(name) \in Resources
            BY NameTyped
        <3> QED BY <2>1, <3>1, <3>2, <3>3, RowTyped
    <2>8. IsFiniteSet(rows')
        BY <2>4, FS_AddElement DEF TypeOK
    <2>9. UNCHANGED <<team, columns, agents, marker, spans, pc, at, deaths, liveVars>>
        BY <1>4 DEF InsertsAction
    <2>10. Ids' = Ids /\ RunRecords' = RunRecords /\ Run' = Run /\ Rows' = Rows
        BY <2>6, <2>9 DEF Ids, RunRecords, Run, Rows
    <2>11. rows' \subseteq Rows
        BY <2>4, <2>7 DEF TypeOK
    <2> QED BY <2>6, <2>8, <2>9, <2>10, <2>11 DEF TypeOK, RunRecords
<1>5. CASE EmitsSpans
    <2>1. /\ pc' \in [Processes -> Places]
          /\ at' \in [Processes -> Nat]
          /\ \A q \in Processes :
                /\ pc'[q] = "migrate" => at'[q] \in DOMAIN Migrations
                /\ pc'[q] \in {"look", "register"} => at'[q] \in DOMAIN team'
        BY <1>1, <1>5, GoesTyped DEF EmitsSpans, Places
    <2>2. Run \in 1 .. Run
        BY <1>2, <1>5 DEF EmitsSpans, RunsInv, Run
    <2>3. spans' \subseteq 1 .. Run
        BY <1>5, <2>2 DEF EmitsSpans, TypeOK
    <2> QED BY <1>5, <2>1, <2>3, SameSets DEF EmitsSpans, TypeOK
<1>6. CASE SetsMarker
    <2>1. /\ pc' \in [Processes -> Places]
          /\ at' \in [Processes -> Nat]
          /\ \A q \in Processes :
                /\ pc'[q] = "migrate" => at'[q] \in DOMAIN Migrations
                /\ pc'[q] \in {"look", "register"} => at'[q] \in DOMAIN team'
        BY <1>1, <1>6, GoesTyped DEF SetsMarker, Places
    <2>2. marker' \in 0 .. Run
        BY <1>2, <1>6 DEF SetsMarker, Run
    <2> QED BY <1>6, <2>1, <2>2, SameSets DEF SetsMarker, TypeOK
<1> QED BY <1>3, <1>4, <1>5, <1>6

LEMMA ServingTyped ==
    ASSUME TypeOK,
           \/ \E id \in Ids : SetsQuarantine(id)
           \/ \E i \in DOMAIN team : Calls(i)
           \/ \E r \in LiveRows : CreepCheck(r)
    PROVE  TypeOK'
<1> USE DEF fileVars, liveVars
<1>1. ASSUME NEW id \in Ids, SetsQuarantine(id) PROVE TypeOK'
    <2>1. agents' \in [Ids -> [quarantined : BOOLEAN, created_by : Processes \cup {None}]]
        BY <1>1 DEF SetsQuarantine, TypeOK
    <2> QED BY <1>1, <2>1, SameSets DEF SetsQuarantine, TypeOK
<1>2. ASSUME NEW i \in DOMAIN team, Calls(i) PROVE TypeOK'
    <2>1. PICK p \in PersonaProfiles[team[i].persona] : \E name \in p.names :
            rows' = rows \cup {Row(NoRun, Cardinality(LiveRows), team[i].id, p, LiveName(p, name),
                                   "AUTO_ALLOWED", 0)}
        BY <1>2 DEF Calls
    <2>2. PICK name \in p.names :
            rows' = rows \cup {Row(NoRun, Cardinality(LiveRows), team[i].id, p, LiveName(p, name),
                                   "AUTO_ALLOWED", 0)}
        BY <2>1
    <2>3. Cardinality(LiveRows) \in 0 .. MaxLive - 1
        <3>1. IsFiniteSet(LiveRows)
            BY FS_Subset DEF LiveRows, TypeOK
        <3>2. Cardinality(LiveRows) \in Nat
            BY <3>1, FS_CardinalityType
        <3> QED BY <1>2, <3>2, BootstrapAssumption DEF Calls
    <2>4. Row(NoRun, Cardinality(LiveRows), team[i].id, p, LiveName(p, name), "AUTO_ALLOWED", 0)
            \in Rows
        <3>1. LiveName(p, name) \in Resources
            BY NameTyped
        <3>2. NoRun \in 0 .. Run /\ "AUTO_ALLOWED" \in Statuses /\ 0 \in Nat
            BY DEF TypeOK, NoRun, Run, Statuses
        <3> QED BY <2>3, <3>1, <3>2, RowTyped
    <2>5. IsFiniteSet(rows') /\ rows' \subseteq Rows
        BY <2>2, <2>4, FS_AddElement DEF TypeOK
    <2>6. checks' \subseteq 0 .. MaxLive - 1
        BY <1>2, <2>3 DEF Calls, TypeOK
    <2> QED BY <1>2, <2>5, <2>6, SameSets DEF Calls, TypeOK
<1>3. ASSUME NEW r \in LiveRows, CreepCheck(r) PROVE TypeOK'
    <2>1. r \in Rows /\ IsFiniteSet(rows) /\ rows \subseteq Rows
        BY DEF LiveRows, TypeOK
    <2>2. rows' = rows \/ rows' = (rows \ {r}) \cup {[r EXCEPT !.novel = TRUE]}
        BY <1>3 DEF CreepCheck, FlagsNovel
    <2>3. IsFiniteSet((rows \ {r}) \cup {[r EXCEPT !.novel = TRUE]})
        BY <2>1, FS_AddElement, FS_RemoveElement
    <2>4. [r EXCEPT !.novel = TRUE] \in Rows
        BY <2>1 DEF Rows
    <2>5. IsFiniteSet(rows') /\ rows' \subseteq Rows
        BY <2>1, <2>2, <2>3, <2>4
    <2> QED BY <1>3, <2>5, SameSets DEF CreepCheck, TypeOK
<1> QED BY <1>1, <1>2, <1>3

LEMMA DeathTyped ==
    ASSUME TypeOK, RunsInv, NEW p \in Processes, Dies(p)
    PROVE  TypeOK'
<1> USE DEF fileVars, liveVars
<1>1. /\ pc' \in [Processes -> Places]
      /\ at' \in [Processes -> Nat]
      /\ \A q \in Processes :
            /\ pc'[q] = "migrate" => at'[q] \in DOMAIN Migrations
            /\ pc'[q] \in {"look", "register"} => at'[q] \in DOMAIN team'
    BY GoesTyped DEF Dies, Places
<1>2. runs \in Seq(RunRecords) /\ Len(runs) \in Nat
    BY DEF TypeOK, RunRecords
<1>3. runs' \in Seq(RunRecords) /\ Len(runs') = Len(runs)
    <2>1. CASE p = Seeder
        <3>1. Run \in 1 .. Len(runs)
            BY <1>2, <2>1 DEF Dies, RunsInv, Run
        <3>2. runs' = [runs EXCEPT ![Run] = [runs[Run] EXCEPT !.died = TRUE]]
            BY <2>1 DEF Dies
        <3>3. runs[Run] \in RunRecords
            BY <1>2, <3>1
        <3>4. [runs[Run] EXCEPT !.died = TRUE] \in RunRecords
            BY <3>3 DEF RunRecords
        <3> QED BY <1>2, <3>1, <3>2, <3>4
    <2>2. CASE p # Seeder
        BY <1>2, <2>2 DEF Dies
    <2> QED BY <2>1, <2>2
<1>4. deaths' \in 0 .. MaxDeaths
    BY BootstrapAssumption DEF Dies, TypeOK
<1> QED BY <1>1, <1>3, <1>4, SameSets DEF Dies, TypeOK

LEMMA StepTyped ==
    ASSUME TypeOK, SchemaInv, RunsInv, [Next]_vars
    PROVE  TypeOK'
<1>1. CASE StartCore \/ StartSeeder \/ \E p \in Processes : CreatesTables(p) \/ Migrates(p)
    BY <1>1, ConnectTyped
<1>2. CASE CoreStartup \/ RegistersAgents
    BY <1>2, RegistrationTyped DEF CoreStartup, RegistersAgents, Processes
<1>3. CASE ChecksMarker \/ InsertsAction \/ EmitsSpans \/ SetsMarker
    BY <1>3, SeedingTyped
<1>4. CASE \/ \E id \in Ids : SetsQuarantine(id)
           \/ \E i \in DOMAIN team : Calls(i)
           \/ \E r \in LiveRows : CreepCheck(r)
    BY <1>4, ServingTyped
<1>5. CASE \E p \in Processes : Dies(p)
    BY <1>5, DeathTyped
<1>6. CASE UNCHANGED vars
    BY <1>6, SameSets DEF vars, fileVars, liveVars, TypeOK
<1> QED BY <1>1, <1>2, <1>3, <1>4, <1>5, <1>6 DEF Next
-----------------------------------------------------------------------------
(* The schema: columns only come, and a loop passes the ones before its own.*)

\* Whoever goes anywhere but on through the migration, or is not yet in it, leaves
\* the columns as they are and has them already if it serves.
LEMMA SchemaStays ==
    ASSUME TypeOK, SchemaInv, columns' = columns,
           \A p \in Processes :
               \/ pc'[p] = pc[p] /\ at'[p] = at[p]
               \/ pc'[p] \in {"off", "schema"}
               \/ pc'[p] # "migrate" /\ pc[p] \notin {"off", "schema", "migrate"}
    PROVE  SchemaInv'
BY DEF SchemaInv, SchemaIsReady

LEMMA SchemaStep ==
    ASSUME TypeOK, SchemaInv, [Next]_vars
    PROVE  SchemaInv'
<1> USE DEF fileVars, liveVars
<1>0. pc \in [Processes -> Places] /\ at \in [Processes -> Nat]
      /\ Core \in Processes /\ Seeder \in Processes
    BY DEF TypeOK, Processes
<1>1. CASE StartCore \/ StartSeeder
    BY <1>0, <1>1, SchemaStays DEF StartCore, StartSeeder, Goes
<1>2. ASSUME NEW p \in Processes, CreatesTables(p)
      PROVE  SchemaInv'
    <2>1. columns' \subseteq AllColumns /\ (columns # NoTables => columns' = columns)
        BY <1>2 DEF CreatesTables, SchemaInv
    <2>2. NoTables # AllColumns /\ ~(NoTables \subseteq AllColumns)
        <3>1. DOMAIN Migrations = 1 .. 4
            BY DEF Migrations
        <3>2. /\ Migrations[1] = "tokens_used" /\ Migrations[2] = "reversibility"
              /\ Migrations[3] = "blast_radius" /\ Migrations[4] = "novel"
            BY DEF Migrations
        <3>3. AllColumns = {Migrations[1], Migrations[2], Migrations[3], Migrations[4]}
            BY <3>1 DEF AllColumns
        <3> QED BY <3>2, <3>3 DEF NoTables
    <2>3. \A q \in Processes \ {p} : pc'[q] = pc[q] /\ at'[q] = at[q]
        BY <1>0, <1>2 DEF CreatesTables, Goes
    <2>4. pc'[p] = "migrate" /\ at'[p] = 1
        BY <1>0, <1>2 DEF CreatesTables, Goes
    <2> QED BY <2>1, <2>2, <2>3, <2>4 DEF SchemaInv, SchemaIsReady
<1>3. ASSUME NEW p \in Processes, Migrates(p)
      PROVE  SchemaInv'
    <2>1. Len(Migrations) = 4 /\ at[p] \in 1 .. 4
          /\ AllColumns = {Migrations[1], Migrations[2], Migrations[3], Migrations[4]}
        BY <1>3 DEF Migrates, TypeOK, Migrations, AllColumns
    <2>2. columns \subseteq AllColumns /\ \A j \in 1 .. at[p] - 1 : Migrations[j] \in columns
        BY <1>3 DEF Migrates, SchemaInv
    <2>3. columns' = columns \cup {Migrations[at[p]]}
        BY <1>3 DEF Migrates
    <2>4. columns' \subseteq AllColumns /\ columns \subseteq columns'
          /\ \A j \in 1 .. at[p] : Migrations[j] \in columns'
        BY <2>1, <2>2, <2>3
    <2>5. \A q \in Processes \ {p} : pc'[q] = pc[q] /\ at'[q] = at[q]
        BY <1>0, <1>3 DEF Migrates, Goes
    <2>6. CASE at[p] < 4
        <3>1. pc'[p] = "migrate" /\ at'[p] = at[p] + 1
            BY <1>0, <1>3, <2>1, <2>6 DEF Migrates, Goes
        <3> QED BY <2>1, <2>4, <2>5, <3>1 DEF SchemaInv, SchemaIsReady
    <2>7. CASE at[p] = 4
        <3>1. pc'[p] \in {"look", "check"}
            BY <1>0, <1>3, <2>1, <2>7 DEF Migrates, Goes
        <3>2. columns' = AllColumns
            BY <2>1, <2>4, <2>7
        <3> QED BY <2>4, <2>5, <3>1, <3>2 DEF SchemaInv, SchemaIsReady
    <2> QED BY <2>1, <2>6, <2>7
<1>4. ASSUME NEW p \in Processes, NEW done \in {"serving", "insert"},
             LooksForAgent(p, done) \/ RegistersAgent(p, done)
      PROVE  SchemaInv'
    BY <1>0, <1>4, SchemaStays DEF LooksForAgent, RegistersAgent, NextAgent, Goes
<1>5. CASE ChecksMarker
    BY <1>0, <1>5, SchemaStays DEF ChecksMarker, Goes
<1>6. CASE InsertsAction
    BY <1>6, SchemaStays DEF InsertsAction
<1>7. CASE EmitsSpans
    BY <1>0, <1>7, SchemaStays DEF EmitsSpans, Goes
<1>8. CASE SetsMarker
    BY <1>0, <1>8, SchemaStays DEF SetsMarker, Goes
<1>9. CASE \/ \E id \in Ids : SetsQuarantine(id)
           \/ \E i \in DOMAIN team : Calls(i)
           \/ \E r \in LiveRows : CreepCheck(r)
    BY <1>9, SchemaStays DEF SetsQuarantine, Calls, CreepCheck
<1>10. CASE \E p \in Processes : Dies(p)
    BY <1>0, <1>10, SchemaStays DEF Dies, Goes
<1>11. CASE UNCHANGED vars
    BY <1>11, SchemaStays DEF vars
<1> QED BY <1>1, <1>2, <1>3, <1>4, <1>5, <1>6, <1>7, <1>8, <1>9, <1>10, <1>11
        DEF Next, CoreStartup, RegistersAgents, Processes
-----------------------------------------------------------------------------
(* The agents: a registration writes only where there was no agent.        *)

\* What one step does to an agent's row, which is both the invariant's step and
\* the property.
LEMMA AgentsStep ==
    ASSUME TypeOK, QuarantineInv, [Next]_vars
    PROVE  /\ QuarantineInv'
           /\ \A id \in Ids : agents[id] # NoAgent =>
                /\ agents'[id].created_by = agents[id].created_by
                /\ agents'[id].quarantined <=> id \in ordered'
<1> USE DEF fileVars, liveVars
<1>0. agents \in [Ids -> [quarantined : BOOLEAN, created_by : Processes \cup {None}]]
      /\ ordered \subseteq Ids
    BY DEF TypeOK
<1>1. ASSUME NEW p \in Processes, NEW done, RegistersAgent(p, done)
      PROVE  /\ UNCHANGED <<team, ordered>>
             /\ \A id \in Ids : /\ agents[id] # NoAgent => agents'[id] = agents[id]
                                /\ agents'[id].quarantined = agents[id].quarantined
    <2>1. UpsertAgent(team[at[p]].id, p) /\ UNCHANGED <<team, ordered>>
        BY <1>1 DEF RegistersAgent
    <2>2. \A id \in Ids :
            \/ agents'[id] = agents[id]
            \/ agents[id] = NoAgent /\ agents'[id] = [quarantined |-> FALSE, created_by |-> p]
        <3> DEFINE x == team[at[p]].id
        <3>1. agents' = [agents EXCEPT ![x] =
                  IF agents[x] = NoAgent THEN [quarantined |-> FALSE, created_by |-> p] ELSE agents[x]]
            BY <2>1 DEF UpsertAgent
        <3> HIDE DEF x
        <3> TAKE id \in Ids
        <3>2. CASE id = x
            <4>1. agents'[id] = IF agents[id] = NoAgent
                                THEN [quarantined |-> FALSE, created_by |-> p] ELSE agents[id]
                BY <1>0, <3>1, <3>2
            <4> QED BY <4>1
        <3>3. CASE id # x
            BY <1>0, <3>1, <3>3
        <3> QED BY <3>2, <3>3
    <2>3. NoAgent.quarantined = FALSE /\ [quarantined |-> FALSE, created_by |-> p].quarantined = FALSE
        BY DEF NoAgent
    <2>4. \A id \in Ids : agents'[id].quarantined = agents[id].quarantined
        BY <2>2, <2>3, Zenon
    <2> QED BY <2>1, <2>2, <2>4
<1>2. CASE CoreStartup \/ RegistersAgents
    <2>1. /\ UNCHANGED <<team, ordered>>
          /\ \A id \in Ids : /\ agents[id] # NoAgent => agents'[id] = agents[id]
                             /\ agents'[id].quarantined = agents[id].quarantined
        BY <1>1, <1>2 DEF CoreStartup, RegistersAgents, Processes, LooksForAgent
    <2> QED BY <2>1 DEF QuarantineInv, Ids
<1>3. CASE \E id \in Ids : SetsQuarantine(id)
    <2>1. PICK id \in Ids, q \in BOOLEAN :
            /\ agents' = [agents EXCEPT ![id].quarantined = q]
            /\ ordered' = IF q THEN ordered \cup {id} ELSE ordered \ {id}
            /\ team' = team
        BY <1>3 DEF SetsQuarantine
    <2> QED BY <1>0, <2>1 DEF QuarantineInv, Ids
<1>4. CASE UNCHANGED <<team, agents, ordered>>
    BY <1>4 DEF QuarantineInv, Ids
<1>5. CASE \/ StartCore \/ StartSeeder
           \/ \E p \in Processes : CreatesTables(p) \/ Migrates(p) \/ Dies(p)
           \/ ChecksMarker \/ InsertsAction \/ EmitsSpans \/ SetsMarker
           \/ \E i \in DOMAIN team : Calls(i)
           \/ \E r \in LiveRows : CreepCheck(r)
           \/ UNCHANGED vars
    BY <1>4, <1>5 DEF StartCore, StartSeeder, CreatesTables, Migrates, Dies, ChecksMarker,
        InsertsAction, EmitsSpans, SetsMarker, Calls, CreepCheck, vars
<1> QED BY <1>2, <1>3, <1>5 DEF Next
-----------------------------------------------------------------------------
(* The runs of the seeder: what one leaves, and what the next finds.       *)

\* The gate's rows are of no run, flagged or not.
LEMMA CallsAreNobodys ==
    ASSUME TypeOK,
           (\E i \in DOMAIN team : Calls(i)) \/ (\E r \in LiveRows : CreepCheck(r))
    PROVE  \A m \in 1 .. Run : RowsOf(m)' = RowsOf(m)
<1>0. rows \subseteq Rows /\ Run \in Nat
    BY DEF TypeOK, Run
<1>1. CASE \E i \in DOMAIN team : Calls(i)
    BY <1>1 DEF Calls, RowsOf, Row, NoRun
<1>2. ASSUME NEW r \in LiveRows, CreepCheck(r)
      PROVE  \A m \in 1 .. Run : RowsOf(m)' = RowsOf(m)
    <2>1. r \in Rows /\ r.run = 0
        BY <1>0 DEF LiveRows, NoRun
    <2> DEFINE flagged == [r EXCEPT !.novel = TRUE]
    <2>2. flagged.run = 0
        BY <2>1, RowsAreOfARun
    <2>3. rows' = rows \/ rows' = (rows \ {r}) \cup {flagged}
        BY <1>2 DEF CreepCheck, FlagsNovel
    <2> HIDE DEF flagged
    <2>4. \A m \in 1 .. Run : m # r.run /\ m # flagged.run
        BY <1>0, <2>1, <2>2
    <2> QED BY <2>3, <2>4 DEF RowsOf
<1> QED BY <1>1, <1>2

\* Rows that are nobody's run come and change, and no run is touched by them.
LEMMA RunsStay ==
    ASSUME TypeOK, RunsInv, UNCHANGED runs, marker' = marker,
           pc'[Seeder] = pc[Seeder],
           \A m \in 1 .. Run : RowsOf(m)' = RowsOf(m)
    PROVE  RunsInv'
BY DEF RunsInv, Run, FindsRemains, DuplicatesNeedADeath, Seeding

LEMMA RunsStep ==
    ASSUME TypeOK, RunsInv, [Next]_vars
    PROVE  RunsInv'
<1> USE DEF fileVars, liveVars
<1>0. /\ pc \in [Processes -> Places] /\ Seeder \in Processes /\ Core \in Processes
      /\ Seeder # Core /\ runs \in Seq(RunRecords) /\ Run \in Nat /\ rows \subseteq Rows
    BY BootstrapAssumption DEF TypeOK, Processes, Run
<1>1. CASE UNCHANGED <<rows, runs, marker>> /\ pc'[Seeder] = pc[Seeder]
    BY <1>1, RunsStay DEF RowsOf
<1>2. CASE StartSeeder
    <2>1. PICK s \in Settings :
            runs' = Append(runs, [force |-> s.force, backdate |-> s.backdate, days |-> s.days,
                                  left |-> [id \in Ids |-> CountFor(s.days)], died |-> FALSE])
        BY <1>2 DEF StartSeeder
    <2>2. Run' = Run + 1 /\ \A m \in 1 .. Run : runs'[m] = runs[m]
        BY <1>0, <2>1 DEF Run
    <2>3. pc[Seeder] = "off" /\ pc'[Seeder] = "schema" /\ UNCHANGED <<rows, marker>>
        BY <1>0, <1>2 DEF StartSeeder, Goes
    <2>4. \A m : RowsOf(m)' = RowsOf(m)
        BY <2>3 DEF RowsOf
    <2>5. RowsOf(Run + 1) = {}
        <3>1. \A r \in rows : r.run \in 0 .. Run
            BY <1>0, RowsAreOfARun
        <3> QED BY <1>0, <3>1 DEF RowsOf
    <2>6. \A m \in 1 .. Run' : RowsOf(m)' # {} => m \in 1 .. Run
        BY <1>0, <2>2, <2>4, <2>5
    <2>7. \A m \in 1 .. Run' : RowsOf(m)' # {} =>
            runs'[m].died \/ marker' # NoRun \/ (m = Run' /\ pc'[Seeder] \in {"insert", "mark"})
        BY <2>2, <2>3, <2>4, <2>6 DEF RunsInv
    <2>8. DuplicatesNeedADeath'
        BY <1>0, <2>2, <2>4, <2>6 DEF RunsInv, DuplicatesNeedADeath
    <2> QED BY <1>0, <2>2, <2>3, <2>4, <2>5, <2>7, <2>8 DEF RunsInv, Seeding
<1>3. CASE (\E p \in Processes : CreatesTables(p) \/ Migrates(p)) \/ ChecksMarker \/ RegistersAgents
           \/ EmitsSpans
    <2>1. UNCHANGED <<rows, runs, marker>>
        BY <1>3 DEF CreatesTables, Migrates, ChecksMarker, RegistersAgents, LooksForAgent,
                    RegistersAgent, EmitsSpans
    <2>2. \A m : RowsOf(m)' = RowsOf(m)
        BY <2>1 DEF RowsOf
    <2>3. \/ pc'[Seeder] = pc[Seeder]
          \/ pc[Seeder] \in {"schema", "migrate"} /\ pc'[Seeder] \in {"migrate", "check"}
          \/ pc[Seeder] = "check" /\ pc'[Seeder] = "off"
          \/ pc[Seeder] = "check" /\ pc'[Seeder] = "look" /\ (runs[Run].force \/ marker = NoRun)
          \/ pc[Seeder] \in {"look", "register"} /\ pc'[Seeder] \in {"look", "register", "insert"}
          \/ pc[Seeder] = "insert" /\ pc'[Seeder] = "mark"
        BY <1>0, <1>3 DEF CreatesTables, Migrates, ChecksMarker, RegistersAgents, LooksForAgent,
                          RegistersAgent, NextAgent, EmitsSpans, Goes
    <2>4. Run' = Run /\ DuplicatesNeedADeath'
        BY <2>1, <2>2 DEF Run, RunsInv, DuplicatesNeedADeath
    <2>5. \A m \in 1 .. Run : RowsOf(m) # {} =>
            runs[m].died \/ marker # NoRun \/ (m = Run /\ pc'[Seeder] \in {"insert", "mark"})
        BY <1>0, <2>3 DEF RunsInv
    <2>6. pc'[Seeder] \in Seeding /\ ~runs[Run].force => FindsRemains(Run)
        BY <1>0, <2>3 DEF RunsInv, Seeding, FindsRemains
    <2>7. FindsRemains(Run)' = FindsRemains(Run)
        BY <2>1, <2>2, <2>4 DEF FindsRemains
    <2> QED BY <1>0, <2>1, <2>2, <2>3, <2>4, <2>5, <2>6, <2>7 DEF RunsInv
<1>4. CASE InsertsAction
    <2>1. pc[Seeder] = "insert" /\ pc'[Seeder] = "insert" /\ marker' = marker /\ Run \in 1 .. Run
        BY <1>0, <1>4 DEF InsertsAction, RunsInv
    <2>2. PICK i \in DOMAIN team : runs' = [runs EXCEPT ![Run].left[team[i].id] = @ - 1]
        BY <1>4 DEF InsertsAction
    <2>3. Run' = Run /\ \A m \in 1 .. Run : runs'[m].died = runs[m].died /\ runs'[m].force = runs[m].force
        <3>1. \A m \in 1 .. Run : runs[m] \in RunRecords
            BY <1>0 DEF Run
        <3>2. runs' = [runs EXCEPT ![Run] = [runs[Run] EXCEPT !.left[team[i].id] = @ - 1]]
            BY <2>2
        <3>3. LET r == [runs[Run] EXCEPT !.left[team[i].id] = @ - 1]
              IN  r.died = runs[Run].died /\ r.force = runs[Run].force
            BY <2>1, <3>1 DEF RunRecords
        <3> QED BY <1>0, <2>1, <3>2, <3>3 DEF Run
    <2>4. \A m \in 1 .. Run : m # Run => RowsOf(m)' = RowsOf(m)
        BY <1>4 DEF InsertsAction, RowsOf, Row
    <2>5. FindsRemains(Run)' = FindsRemains(Run)
        BY <1>0, <2>3, <2>4 DEF FindsRemains
    <2>6. DuplicatesNeedADeath'
        BY <1>0, <2>1, <2>3, <2>4, <2>5 DEF RunsInv, DuplicatesNeedADeath, FindsRemains, Seeding
    <2> QED BY <1>0, <2>1, <2>3, <2>4, <2>5, <2>6 DEF RunsInv, Seeding
<1>5. CASE SetsMarker
    <2>1. /\ UNCHANGED <<rows, runs>> /\ marker' = Run /\ pc'[Seeder] = "off" /\ Run > 0
        BY <1>0, <1>5 DEF SetsMarker, Goes, RunsInv
    <2>2. Run' = Run /\ \A m : RowsOf(m)' = RowsOf(m)
        BY <2>1 DEF Run, RowsOf
    <2> QED BY <1>0, <2>1, <2>2 DEF RunsInv, DuplicatesNeedADeath, Seeding, NoRun
<1>6. CASE \/ \E i \in DOMAIN team : Calls(i)
           \/ \E r \in LiveRows : CreepCheck(r)
    <2>1. UNCHANGED <<runs, marker, pc>>
        BY <1>6 DEF Calls, CreepCheck
    <2>2. \A m \in 1 .. Run : RowsOf(m)' = RowsOf(m)
        BY <1>6, CallsAreNobodys
    <2> QED BY <2>1, <2>2, RunsStay
<1>7. ASSUME NEW p \in Processes, Dies(p) PROVE RunsInv'
    <2>1. CASE p = Core
        BY <1>0, <1>1, <1>7, <2>1 DEF Dies, Goes
    <2>2. CASE p = Seeder
        <3>1. pc'[Seeder] = "off" /\ Run \in 1 .. Run /\ UNCHANGED <<rows, marker>>
              /\ runs' = [runs EXCEPT ![Run] = [runs[Run] EXCEPT !.died = TRUE]]
            BY <1>0, <1>7, <2>2 DEF Dies, Goes, RunsInv
        <3>2. \A m : RowsOf(m)' = RowsOf(m)
            BY <3>1 DEF RowsOf
        <3>3. runs[Run] \in RunRecords
            BY <1>0, <3>1 DEF Run
        <3>4. [runs[Run] EXCEPT !.died = TRUE].died = TRUE
              /\ [runs[Run] EXCEPT !.died = TRUE].force = runs[Run].force
            BY <3>3 DEF RunRecords
        <3>5. Run' = Run /\ runs'[Run].died
              /\ \A m \in 1 .. Run : /\ runs[m].died => runs'[m].died
                                     /\ runs'[m].force = runs[m].force
                                     /\ m # Run => runs'[m] = runs[m]
            BY <1>0, <3>1, <3>4 DEF Run
        <3>6. DuplicatesNeedADeath'
            BY <1>0, <3>2, <3>5 DEF RunsInv, DuplicatesNeedADeath
        <3> QED BY <1>0, <3>1, <3>2, <3>5, <3>6 DEF RunsInv, Seeding
    <2> QED BY <2>1, <2>2 DEF Processes
<1>8. CASE StartCore \/ CoreStartup \/ (\E id \in Ids : SetsQuarantine(id)) \/ UNCHANGED vars
    <2>1. UNCHANGED <<rows, runs, marker>> /\ pc'[Seeder] = pc[Seeder]
        BY <1>0, <1>8 DEF StartCore, CoreStartup, LooksForAgent, RegistersAgent, NextAgent, Goes,
                          SetsQuarantine, vars
    <2> QED BY <1>1, <2>1
<1> QED BY <1>2, <1>3, <1>4, <1>5, <1>6, <1>7, <1>8 DEF Next
-----------------------------------------------------------------------------
(* What a marked run has left.                                             *)

\* The rows of run n are one for each number that is no longer left to insert.
Counted(n) ==
    /\ \A id \in Ids : runs[n].left[id] <= CountFor(runs[n].days)
    /\ \A r \in RowsOf(n) : r.nth \in runs[n].left[r.agent] + 1 .. CountFor(runs[n].days)
    /\ \A id \in Ids : \A k \in runs[n].left[id] + 1 .. CountFor(runs[n].days) :
            \E r \in RowsOf(n) : r.agent = id /\ r.nth = k
    /\ \A r, s \in RowsOf(n) : r.agent = s.agent /\ r.nth = s.nth => r = s

\* Nothing is left of run n, and its spans are out.
Complete(n) ==
    /\ \A id \in Ids : runs[n].left[id] = 0
    /\ runs[n].backdate => n \in spans

\* Every run has the rows that it no longer owes, and one that is marked, or goes
\* to the marker, owes none.
WholeInv ==
    /\ \A n \in 1 .. Run : Counted(n)
    /\ pc[Seeder] = "mark" => Complete(Run)
    /\ marker # NoRun => Complete(marker)

\* What a row was made from, by an agent's profile.
Made(r) ==
    \E i \in DOMAIN team : \E p \in PersonaProfiles[team[i].persona] :
        /\ r.agent = team[i].id /\ r.tool = p.tool /\ r.level = p.level /\ r.rule = p.rule
        /\ r.resource[2] \in p.names
        /\ r.status \in Outcomes(p.level)

\* The seeder names what a row touches, and so does the gate, but for a statement.
Named(r) == (r.run = NoRun /\ Namespace[r.tool] = "db") \/ r.resource[1] = "name"

\* Every row is made from a profile of its agent, and no younger than its run says.
PlausibleInv == (\A r \in rows : Made(r) /\ Named(r)) /\ SeededRowsAreOld

\* A step that keeps the rows of the runs and what they owe keeps the count.
LEMMA WholeStays ==
    ASSUME WholeInv, RunsInv, team' = team, marker' = marker, Run' = Run, Run \in Nat, marker \in 0 .. Run,
           \A n \in 1 .. Run : /\ RowsOf(n)' = RowsOf(n)
                               /\ runs'[n].left = runs[n].left
                               /\ runs'[n].days = runs[n].days
                               /\ runs'[n].backdate = runs[n].backdate,
           spans \subseteq spans',
           pc'[Seeder] = "mark" => pc[Seeder] = "mark"
    PROVE  WholeInv'
<1>1. Ids' = Ids
    BY DEF Ids
<1>2. ASSUME NEW n \in 1 .. Run PROVE Counted(n)'
    BY <1>1 DEF WholeInv, Counted
<1>3. ASSUME NEW n \in 1 .. Run, Complete(n) PROVE Complete(n)'
    BY <1>1, <1>3 DEF Complete
<1>4. pc[Seeder] = "mark" => Run \in 1 .. Run
    BY DEF RunsInv
<1>5. marker # NoRun => marker \in 1 .. Run
    BY DEF NoRun
<1>6. Complete(Run)' \/ pc'[Seeder] # "mark"
    BY <1>3, <1>4 DEF WholeInv, Complete
<1>7. marker # NoRun => Complete(marker)'
    BY <1>3, <1>5 DEF WholeInv, Complete
<1> QED BY <1>2, <1>6, <1>7 DEF WholeInv, Complete

LEMMA WholeStep ==
    ASSUME TypeOK, RunsInv, WholeInv, [Next]_vars
    PROVE  WholeInv'
<1> USE DEF fileVars, liveVars
<1>0. /\ pc \in [Processes -> Places] /\ Seeder \in Processes /\ Core \in Processes
      /\ Seeder # Core /\ runs \in Seq(RunRecords) /\ Run \in Nat /\ rows \subseteq Rows
      /\ marker \in 0 .. Run
    BY BootstrapAssumption DEF TypeOK, Processes, Run
<1>1. ASSUME UNCHANGED <<team, rows, runs, marker, spans>>, pc'[Seeder] = "mark" => pc[Seeder] = "mark"
      PROVE  WholeInv'
    <2>1. Run' = Run /\ \A n : RowsOf(n)' = RowsOf(n)
        BY <1>1 DEF Run, RowsOf
    <2> QED BY <1>0, <1>1, <2>1, WholeStays
<1>2. CASE StartSeeder
    <2>1. PICK s \in Settings :
            runs' = Append(runs, [force |-> s.force, backdate |-> s.backdate, days |-> s.days,
                                  left |-> [id \in Ids |-> CountFor(s.days)], died |-> FALSE])
        BY <1>2 DEF StartSeeder
    <2> DEFINE new == [force |-> s.force, backdate |-> s.backdate, days |-> s.days,
                       left |-> [id \in Ids |-> CountFor(s.days)], died |-> FALSE]
    <2>2. Run' = Run + 1 /\ (\A n \in 1 .. Run : runs'[n] = runs[n]) /\ runs'[Run + 1] = new
        BY <1>0, <2>1 DEF Run
    <2>3. pc'[Seeder] = "schema" /\ UNCHANGED <<team, rows, marker, spans>>
        BY <1>0, <1>2 DEF StartSeeder, Goes
    <2>4. Ids' = Ids /\ \A n : RowsOf(n)' = RowsOf(n)
        BY <2>3 DEF RowsOf, Ids
    <2>5. RowsOf(Run + 1) = {}
        <3>1. \A r \in rows : r.run \in 0 .. Run
            BY <1>0, RowsAreOfARun
        <3> QED BY <1>0, <3>1 DEF RowsOf
    <2>6. ASSUME NEW n \in 1 .. Run PROVE Counted(n)'
        BY <2>2, <2>4 DEF WholeInv, Counted
    <2>7. ASSUME NEW n, n = Run + 1 PROVE Counted(n)'
        <3>1. CountFor(s.days) \in Nat
            BY BootstrapAssumption, CountIsNatural
        <3>2. /\ runs'[Run + 1].days = s.days
              /\ \A id \in Ids : runs'[Run + 1].left[id] = CountFor(s.days)
            BY <2>2
        <3>3. CountFor(s.days) + 1 .. CountFor(s.days) = {}
            BY <3>1
        <3> DEFINE total == CountFor(s.days)
        <3>5. /\ \A id \in Ids : runs'[n].left[id] = total
              /\ CountFor(runs'[n].days) = total
            BY <2>7, <3>2
        <3>6. RowsOf(n)' = {}
            BY <2>4, <2>5, <2>7
        <3> HIDE DEF total, new
        <3>7. CountFor(runs[n].days)' = total
            BY <3>5 DEF CountFor
        <3>8. total \in Nat /\ total + 1 .. total = {}
            BY <3>1 DEF total
        <3> QED BY <2>4, <3>5, <3>6, <3>7, <3>8 DEF Counted
    <2>8. marker # NoRun => Complete(marker)'
        <3>1. marker # NoRun => marker \in 1 .. Run
            BY <1>0 DEF NoRun
        <3> QED BY <2>2, <2>3, <2>4, <3>1 DEF WholeInv, Complete
    <2>9. \A n \in 1 .. Run' : n \in 1 .. Run \/ n = Run + 1
        BY <1>0, <2>2
    <2> QED BY <2>3, <2>6, <2>7, <2>8, <2>9 DEF WholeInv
<1>3. CASE InsertsAction
    <2>1. pc'[Seeder] = "insert" /\ UNCHANGED <<team, marker, spans>> /\ Run \in 1 .. Run
        BY <1>0, <1>3 DEF InsertsAction, RunsInv
    <2>2. PICK i \in DOMAIN team :
            /\ Left[team[i].id] > 0
            /\ \E p \in PersonaProfiles[team[i].persona] :
                \E name \in p.names, status \in Outcomes(p.level) :
                    rows' = rows \cup {Row(Run, Left[team[i].id], team[i].id, p, SeededName(name),
                                           status, Newest(runs[Run].days))}
            /\ runs' = [runs EXCEPT ![Run].left[team[i].id] = @ - 1]
        BY <1>3 DEF InsertsAction
    <2>3. PICK new : /\ rows' = rows \cup {new}
                     /\ new.run = Run /\ new.nth = Left[team[i].id] /\ new.agent = team[i].id
        <3>1. PICK p \in PersonaProfiles[team[i].persona] :
                \E name \in p.names, status \in Outcomes(p.level) :
                    rows' = rows \cup {Row(Run, Left[team[i].id], team[i].id, p, SeededName(name),
                                           status, Newest(runs[Run].days))}
            BY <2>2
        <3>2. PICK name \in p.names, status \in Outcomes(p.level) :
                rows' = rows \cup {Row(Run, Left[team[i].id], team[i].id, p, SeededName(name),
                                       status, Newest(runs[Run].days))}
            BY <3>1
        <3> DEFINE row == Row(Run, Left[team[i].id], team[i].id, p, SeededName(name),
                              status, Newest(runs[Run].days))
        <3>3. row.run = Run /\ row.nth = Left[team[i].id] /\ row.agent = team[i].id
            BY DEF Row
        <3> HIDE DEF row
        <3>4. rows' = rows \cup {row}
            BY <3>2 DEF row
        <3> QED BY <3>3, <3>4
    <2>4. PICK id \in Ids : id = team[i].id
        BY RegistryIsListed
    <2>5. runs[Run] \in RunRecords /\ \A n \in 1 .. Run : runs[n] \in RunRecords
        BY <1>0, <2>1 DEF Run
    <2>6. PICK k \in Nat : k = Left[id] /\ k > 0
        BY <2>2, <2>4, <2>5 DEF Left, RunRecords
    <2>7. /\ Run' = Run /\ \A n \in 1 .. Run : n # Run => runs'[n] = runs[n]
          /\ runs'[Run].left = [runs[Run].left EXCEPT ![id] = k - 1]
          /\ runs'[Run].days = runs[Run].days
        <3>1. runs' = [runs EXCEPT ![Run] = [runs[Run] EXCEPT !.left[id] = k - 1]]
            BY <2>2, <2>4, <2>6 DEF Left
        <3>2. LET r == [runs[Run] EXCEPT !.left[id] = k - 1]
              IN  r.left = [runs[Run].left EXCEPT ![id] = k - 1] /\ r.days = runs[Run].days
            BY <2>5 DEF RunRecords
        <3> QED BY <1>0, <2>1, <3>1, <3>2 DEF Run
    <2>8. \A n \in 1 .. Run : n # Run => RowsOf(n)' = RowsOf(n)
        BY <2>3 DEF RowsOf
    <2>9. RowsOf(Run)' = RowsOf(Run) \cup {new}
        BY <2>3, <2>7 DEF RowsOf
    <2>10. Ids' = Ids
        BY <2>1 DEF Ids
    <2>11. ASSUME NEW n \in 1 .. Run, n # Run PROVE Counted(n)'
        BY <2>7, <2>8, <2>10, <2>11 DEF WholeInv, Counted
    <2>12. ASSUME NEW n, n = Run PROVE Counted(n)'
        <3> DEFINE total == CountFor(runs[Run].days)
                   left == runs[Run].left
                   old == RowsOf(Run)
        <3>1. total \in Nat /\ left \in [Ids -> Nat] /\ left[id] = k
            BY <2>5, <2>6, CountIsNatural DEF RunRecords, Left
        <3>2. /\ \A j \in Ids : left[j] <= total
              /\ \A r \in old : r.nth \in left[r.agent] + 1 .. total
              /\ \A j \in Ids : \A m \in left[j] + 1 .. total : \E r \in old : r.agent = j /\ r.nth = m
              /\ \A r, s \in old : r.agent = s.agent /\ r.nth = s.nth => r = s
            BY <2>1 DEF WholeInv, Counted
        <3>3. \A r \in old : r.agent \in Ids /\ r.nth \in Nat
            BY <1>0 DEF RowsOf, Rows
        <3>4. PICK fresh : fresh = [left EXCEPT ![id] = k - 1]
            OBVIOUS
        <3>5. new.agent = id /\ new.nth = k
            BY <2>3, <2>4, <2>6
        <3> HIDE DEF total, left, old
        <3>6. fresh[id] = k - 1 /\ \A j \in Ids : j # id => fresh[j] = left[j]
            BY <3>1, <3>4
        <3>7. \A j \in Ids : fresh[j] <= total
            BY <3>1, <3>2, <3>6
        <3>8. \A r \in old \cup {new} : r.nth \in fresh[r.agent] + 1 .. total
            BY <3>1, <3>2, <3>3, <3>5, <3>6
        <3>9. \A j \in Ids : \A m \in fresh[j] + 1 .. total :
                \E r \in old \cup {new} : r.agent = j /\ r.nth = m
            <4> TAKE j \in Ids
            <4> TAKE m \in fresh[j] + 1 .. total
            <4>1. CASE j = id /\ m = k
                BY <3>5, <4>1
            <4>2. CASE ~(j = id /\ m = k)
                <5>1. m \in left[j] + 1 .. total
                    BY <3>1, <3>6, <4>2
                <5> QED BY <3>2, <5>1
            <4> QED BY <4>1, <4>2
        <3>10. \A r \in old : ~(r.agent = id /\ r.nth = k)
            BY <3>1, <3>2, <3>3
        <3>11. \A r, s \in old \cup {new} : r.agent = s.agent /\ r.nth = s.nth => r = s
            BY <3>2, <3>5, <3>10
        <3>12. runs'[Run].left = fresh /\ CountFor(runs'[Run].days) = total /\ RowsOf(Run)' = old \cup {new}
            BY <2>7, <2>9, <3>4 DEF total, left, old
        <3>13. runs'[n].left = fresh /\ CountFor(runs[n].days)' = total /\ RowsOf(n)' = old \cup {new}
            BY <2>7, <2>12, <3>12 DEF CountFor
        <3> QED BY <2>10, <3>7, <3>8, <3>9, <3>11, <3>13 DEF Counted
    <2>13. marker # NoRun => Complete(marker)'
        <3>1. ASSUME marker # NoRun PROVE marker \in 1 .. Run /\ marker # Run
            BY <1>0, <2>6, <3>1 DEF WholeInv, Complete, NoRun, Left
        <3>2. marker # NoRun => runs'[marker] = runs[marker] /\ Complete(marker)
            BY <2>7, <3>1 DEF WholeInv
        <3> QED BY <2>1, <2>10, <3>2 DEF Complete
    <2> QED BY <2>1, <2>7, <2>11, <2>12, <2>13 DEF WholeInv, Counted
<1>4. CASE EmitsSpans
    <2>1. /\ UNCHANGED <<team, rows, runs, marker>> /\ Run \in 1 .. Run
          /\ spans' = IF runs[Run].backdate THEN spans \cup {Run} ELSE spans
          /\ \A id \in Ids : runs[Run].left[id] = 0
        BY <1>0, <1>4 DEF EmitsSpans, RunsInv, Left
    <2>2. Ids' = Ids /\ Run' = Run /\ \A n : RowsOf(n)' = RowsOf(n)
        BY <2>1 DEF Ids, Run, RowsOf
    <2>3. \A n \in 1 .. Run : Counted(n)'
        BY <2>1, <2>2 DEF WholeInv, Counted
    <2>4. Complete(Run)'
        BY <2>1, <2>2 DEF Complete
    <2>5. marker # NoRun => Complete(marker)'
        BY <2>1, <2>2 DEF WholeInv, Complete
    <2> QED BY <2>1, <2>2, <2>3, <2>4, <2>5 DEF WholeInv
<1>5. CASE SetsMarker
    <2>1. /\ UNCHANGED <<team, rows, runs, spans>> /\ marker' = Run /\ pc'[Seeder] = "off"
          /\ pc[Seeder] = "mark"
        BY <1>0, <1>5 DEF SetsMarker, Goes
    <2>2. Ids' = Ids /\ Run' = Run /\ \A n : RowsOf(n)' = RowsOf(n)
        BY <2>1 DEF Ids, Run, RowsOf
    <2>3. \A n \in 1 .. Run : Counted(n)'
        BY <2>1, <2>2 DEF WholeInv, Counted
    <2>4. Complete(Run)'
        BY <2>1, <2>2 DEF WholeInv, Complete
    <2> QED BY <2>1, <2>2, <2>3, <2>4 DEF WholeInv, Complete
<1>6. CASE (\E i \in DOMAIN team : Calls(i)) \/ (\E r \in LiveRows : CreepCheck(r))
    <2>1. UNCHANGED <<team, runs, marker, spans, pc>>
        BY <1>6 DEF Calls, CreepCheck
    <2>2. Run' = Run
        BY <2>1 DEF Run
    <2> QED BY <1>0, <1>6, <2>1, <2>2, CallsAreNobodys, WholeStays
<1>7. ASSUME NEW p \in Processes, Dies(p) PROVE WholeInv'
    <2>1. /\ UNCHANGED <<team, rows, marker, spans>>
          /\ pc'[Seeder] = "mark" => pc[Seeder] = "mark"
        BY <1>0, <1>7 DEF Dies, Goes
    <2>2. CASE p = Core
        BY <1>0, <1>1, <1>7, <2>1, <2>2 DEF Dies
    <2>3. CASE p = Seeder
        <3>1. Run \in 1 .. Run /\ runs' = [runs EXCEPT ![Run] = [runs[Run] EXCEPT !.died = TRUE]]
            BY <1>0, <1>7, <2>3 DEF Dies, RunsInv
        <3>2. runs[Run] \in RunRecords
            BY <1>0, <3>1 DEF Run
        <3>3. LET r == [runs[Run] EXCEPT !.died = TRUE]
              IN  r.left = runs[Run].left /\ r.days = runs[Run].days /\ r.backdate = runs[Run].backdate
            BY <3>2 DEF RunRecords
        <3>4. Run' = Run /\ \A n \in 1 .. Run : /\ runs'[n].left = runs[n].left
                                                /\ runs'[n].days = runs[n].days
                                                /\ runs'[n].backdate = runs[n].backdate
            BY <1>0, <3>1, <3>3 DEF Run
        <3>5. \A n : RowsOf(n)' = RowsOf(n)
            BY <2>1 DEF RowsOf
        <3> QED BY <1>0, <2>1, <3>4, <3>5, WholeStays
    <2> QED BY <2>2, <2>3 DEF Processes
<1>8. CASE \/ StartCore \/ CoreStartup \/ ChecksMarker \/ RegistersAgents
           \/ (\E p \in Processes : CreatesTables(p) \/ Migrates(p))
           \/ (\E id \in Ids : SetsQuarantine(id)) \/ UNCHANGED vars
    <2>1. UNCHANGED <<team, rows, runs, marker, spans>>
        BY <1>8 DEF StartCore, CoreStartup, ChecksMarker, RegistersAgents, LooksForAgent,
                    RegistersAgent, CreatesTables, Migrates, SetsQuarantine, vars
    <2>2. pc'[Seeder] = "mark" => pc[Seeder] = "mark"
        BY <1>0, <1>8 DEF StartCore, CoreStartup, ChecksMarker, RegistersAgents, LooksForAgent,
                    RegistersAgent, CreatesTables, Migrates, SetsQuarantine, vars, NextAgent, Goes
    <2> QED BY <1>1, <2>1, <2>2
<1> QED BY <1>2, <1>3, <1>4, <1>5, <1>6, <1>7, <1>8 DEF Next

\* As many rows as it promised: one for each agent of the registry and each number.
LEMMA WholeIsCounted ==
    ASSUME TypeOK, WholeInv
    PROVE  MarkedIsWhole
<1> SUFFICES ASSUME marker # NoRun
             PROVE  /\ Cardinality(RowsOf(marker)) = Len(team) * CountFor(runs[marker].days)
                    /\ runs[marker].backdate => marker \in spans
    BY DEF MarkedIsWhole
<1>1. marker \in 1 .. Run /\ runs \in Seq(RunRecords) /\ Run \in Nat /\ Complete(marker) /\ Counted(marker)
    BY DEF TypeOK, WholeInv, NoRun, Run
<1>2. runs[marker] \in RunRecords
    BY <1>1 DEF Run
<1> DEFINE total == CountFor(runs[marker].days)
           kept == RowsOf(marker)
           slot == [r \in kept |-> <<r.agent, r.nth>>]
<1>3. total \in Nat
    BY <1>2, CountIsNatural DEF RunRecords
<1>4. \A r \in kept : r.agent \in Ids
    BY DEF TypeOK, RowsOf, Rows
<1>5. /\ \A r \in kept : r.nth \in 1 .. total
      /\ \A id \in Ids : \A k \in 1 .. total : \E r \in kept : r.agent = id /\ r.nth = k
      /\ \A r, s \in kept : r.agent = s.agent /\ r.nth = s.nth => r = s
    <2>1. \A id \in Ids : runs[marker].left[id] + 1 = 1
        BY <1>1 DEF Complete
    <2> QED BY <1>1, <1>4, <2>1 DEF Counted
<1>6. IsFiniteSet(kept)
    BY FS_Subset DEF TypeOK, RowsOf
<1>7. IsFiniteSet(Ids) /\ Cardinality(Ids) = Len(team)
    <2> DEFINE f == [i \in 1 .. Len(team) |-> team[i].id]
    <2>1. Len(team) \in Nat /\ DOMAIN team = 1 .. Len(team)
        BY RegistryIsListed
    <2>2. f \in Bijection(1 .. Len(team), Ids)
        <3>1. f \in [1 .. Len(team) -> Ids]
            BY <2>1 DEF Ids
        <3>2. \A i, j \in 1 .. Len(team) : f[i] = f[j] => i = j
            BY <2>1, BootstrapAssumption DEF TypeOK
        <3>3. \A id \in Ids : \E i \in 1 .. Len(team) : f[i] = id
            BY <2>1 DEF Ids
        <3> QED BY <3>1, <3>2, <3>3 DEF Bijection, Injection, Surjection, IsInjective
    <2>3. ExistsBijection(1 .. Len(team), Ids)
        BY <2>2 DEF ExistsBijection
    <2>4. IsFiniteSet(1 .. Len(team)) /\ Cardinality(1 .. Len(team)) = Len(team)
        <3>1. PICK n \in Nat : n = Len(team)
            BY <2>1
        <3>2. IsFiniteSet(1 .. n) /\ Cardinality(1 .. n) = n
            BY FS_Interval
        <3> QED BY <3>1, <3>2
    <2> QED BY <2>3, <2>4, FS_Bijection
<1>8. ExistsBijection(kept, Ids \X (1 .. total))
    <2> HIDE DEF total, kept
    <2>1. slot \in [kept -> Ids \X (1 .. total)]
        BY <1>4, <1>5
    <2>2. \A r, s \in kept : slot[r] = slot[s] => r = s
        BY <1>5
    <2>3. \A t \in Ids \X (1 .. total) : \E r \in kept : slot[r] = t
        BY <1>5
    <2>4. slot \in Bijection(kept, Ids \X (1 .. total))
        BY <2>1, <2>2, <2>3 DEF Bijection, Injection, Surjection, IsInjective
    <2> QED BY <2>4 DEF ExistsBijection
<1>9. IsFiniteSet(1 .. total) /\ Cardinality(1 .. total) = total
    BY <1>3, FS_Interval
<1>10. Cardinality(Ids \X (1 .. total)) = Len(team) * total
    BY <1>7, <1>9, FS_Product
<1>11. Cardinality(kept) = Len(team) * total
    BY <1>6, <1>8, <1>10, FS_Bijection
<1> QED BY <1>1, <1>11 DEF Complete
-----------------------------------------------------------------------------
(* What is seeded could have happened.                                     *)

\* The tools of the deployed rules.
LEMMA PolicyTools ==
    /\ DOMAIN Policy = 1 .. 14
    /\ \A i \in 1 .. 5 : Policy[i].tools = {{"db__execute"}}
    /\ Policy[6].tools = {{"db__query"}} /\ Policy[7].tools = {{"fs__write", "fs__delete"}}
    /\ Policy[8].tools = {{"fs__delete"}} /\ Policy[9].tools = {{"fs__write"}}
    /\ Policy[10].tools = {{"fs__read"}} /\ Policy[11].tools = {{"git__force_push"}}
    /\ Policy[12].tools = {{"git__push"}}
    /\ Policy[13].tools = {{"email__send"}} /\ Policy[14].tools = {{"email__send"}}
<1>1. DOMAIN Policy = 1 .. 14
    BY DEF Policy
<1>2. Policy[1].tools = {{"db__execute"}} /\ Policy[2].tools = {{"db__execute"}}
    BY DEF Policy, Rule, OnSql
<1>3. Policy[3].tools = {{"db__execute"}} /\ Policy[4].tools = {{"db__execute"}}
    BY DEF Policy, Rule, OnSql
<1>4. Policy[5].tools = {{"db__execute"}} /\ Policy[6].tools = {{"db__query"}}
    BY DEF Policy, Rule, OnSql
<1>5. /\ Policy[7].tools = {{"fs__write", "fs__delete"}}
      /\ Policy[8].tools = {{"fs__delete"}} /\ Policy[9].tools = {{"fs__write"}}
      /\ Policy[10].tools = {{"fs__read"}}
    BY DEF Policy, Rule
<1>6. /\ Policy[11].tools = {{"git__force_push"}} /\ Policy[12].tools = {{"git__push"}}
      /\ Policy[13].tools = {{"email__send"}} /\ Policy[14].tools = {{"email__send"}}
    BY DEF Policy, Rule
<1>7. \A i \in 1 .. 5 : i = 1 \/ i = 2 \/ i = 3 \/ i = 4 \/ i = 5
    OBVIOUS
<1> HIDE DEF Policy
<1> QED BY <1>1, <1>2, <1>3, <1>4, <1>5, <1>6, <1>7

\* The other matchers of the rules for db__execute, fs__write and email__send.
LEMMA PolicyConditions ==
    /\ \A i \in 1 .. 5 : Policy[i].path = {} /\ Policy[i].recipients = {}
    /\ Policy[1].sql = {[ddl_kind |-> {}, dml_kind |-> {}, flags |-> {"touches_prod_table"}]}
    /\ Policy[2].sql = {[ddl_kind |-> {{"DROP", "TRUNCATE", "ALTER"}}, dml_kind |-> {}, flags |-> {}]}
    /\ Policy[3].sql = {[ddl_kind |-> {}, dml_kind |-> {{"DELETE", "UPDATE"}}, flags |-> {"no_where"}]}
    /\ Policy[4].sql = {[ddl_kind |-> {}, dml_kind |-> {}, flags |-> {"unrecognized_statement"}]}
    /\ Policy[5].sql = {[ddl_kind |-> {}, dml_kind |-> {{"INSERT", "UPDATE", "DELETE"}}, flags |-> {}]}
    /\ Policy[7].path = {SensitivePaths}
    /\ Policy[13].recipients = {10}
<1>1. /\ Policy[1].path = {} /\ Policy[1].recipients = {}
      /\ Policy[1].sql = {[ddl_kind |-> {}, dml_kind |-> {}, flags |-> {"touches_prod_table"}]}
    BY DEF Policy, Rule, OnSql
<1>2. /\ Policy[2].path = {} /\ Policy[2].recipients = {}
      /\ Policy[2].sql = {[ddl_kind |-> {{"DROP", "TRUNCATE", "ALTER"}}, dml_kind |-> {}, flags |-> {}]}
    BY DEF Policy, Rule, OnSql
<1>3. /\ Policy[3].path = {} /\ Policy[3].recipients = {}
      /\ Policy[3].sql = {[ddl_kind |-> {}, dml_kind |-> {{"DELETE", "UPDATE"}}, flags |-> {"no_where"}]}
    BY DEF Policy, Rule, OnSql
<1>4. /\ Policy[4].path = {} /\ Policy[4].recipients = {}
      /\ Policy[4].sql = {[ddl_kind |-> {}, dml_kind |-> {}, flags |-> {"unrecognized_statement"}]}
    BY DEF Policy, Rule, OnSql
<1>5. /\ Policy[5].path = {} /\ Policy[5].recipients = {}
      /\ Policy[5].sql = {[ddl_kind |-> {}, dml_kind |-> {{"INSERT", "UPDATE", "DELETE"}}, flags |-> {}]}
    BY DEF Policy, Rule, OnSql
<1>6. Policy[7].path = {SensitivePaths} /\ Policy[13].recipients = {10}
    BY DEF Policy, Rule
<1>7. \A i \in 1 .. 5 : i = 1 \/ i = 2 \/ i = 3 \/ i = 4 \/ i = 5
    OBVIOUS
<1> HIDE DEF Policy
<1> QED BY <1>1, <1>2, <1>3, <1>4, <1>5, <1>6, <1>7

\* The rules that ask for nothing but the tool.
LEMMA PolicyDefaults ==
    ASSUME NEW i \in {6, 9, 10, 12, 14}
    PROVE  Policy[i].path = {} /\ Policy[i].sql = {} /\ Policy[i].recipients = {}
<1>1. /\ Policy[6].path = {} /\ Policy[6].sql = {} /\ Policy[6].recipients = {}
      /\ Policy[9].path = {} /\ Policy[9].sql = {} /\ Policy[9].recipients = {}
    BY DEF Policy, Rule
<1>2. /\ Policy[10].path = {} /\ Policy[10].sql = {} /\ Policy[10].recipients = {}
      /\ Policy[12].path = {} /\ Policy[12].sql = {} /\ Policy[12].recipients = {}
      /\ Policy[14].path = {} /\ Policy[14].sql = {} /\ Policy[14].recipients = {}
    BY DEF Policy, Rule
<1> HIDE DEF Policy
<1> QED BY <1>1, <1>2

\* What the rules say that the profiles name.
LEMMA PolicySays ==
    /\ Policy[1].level = "HIGH" /\ Policy[1].id = "SQL-PROD-TABLE-HIGH"
    /\ Policy[5].level = "MEDIUM" /\ Policy[5].id = "SQL-WRITE-MEDIUM"
    /\ Policy[6].level = "LOW" /\ Policy[6].id = "SQL-READ-LOW"
    /\ Policy[9].level = "MEDIUM" /\ Policy[9].id = "FS-WRITE-MEDIUM"
    /\ Policy[10].level = "LOW" /\ Policy[10].id = "FS-READ-LOW"
    /\ Policy[12].level = "MEDIUM" /\ Policy[12].id = "GIT-PUSH-MEDIUM"
    /\ Policy[14].level = "LOW" /\ Policy[14].id = "EMAIL-SEND-LOW"
<1>1. Policy[1].level = "HIGH" /\ Policy[1].id = "SQL-PROD-TABLE-HIGH"
    BY DEF Policy, Rule, OnSql
<1>2. Policy[5].level = "MEDIUM" /\ Policy[5].id = "SQL-WRITE-MEDIUM"
    BY DEF Policy, Rule, OnSql
<1>3. /\ Policy[6].level = "LOW" /\ Policy[6].id = "SQL-READ-LOW"
      /\ Policy[9].level = "MEDIUM" /\ Policy[9].id = "FS-WRITE-MEDIUM"
    BY DEF Policy, Rule
<1>4. /\ Policy[10].level = "LOW" /\ Policy[10].id = "FS-READ-LOW"
      /\ Policy[12].level = "MEDIUM" /\ Policy[12].id = "GIT-PUSH-MEDIUM"
      /\ Policy[14].level = "LOW" /\ Policy[14].id = "EMAIL-SEND-LOW"
    BY DEF Policy, Rule
<1> HIDE DEF Policy
<1> QED BY <1>1, <1>2, <1>3, <1>4

\* The first rule that matches gives the call its level.
LEMMA FirstHitDecides ==
    ASSUME NEW call, call.sql.kind # "garbage", NEW i \in 1 .. 14, Matches(Policy[i], call),
           \A j \in 1 .. i - 1 : ~Matches(Policy[j], call)
    PROVE  Evaluate(Policy, call) = [level |-> Policy[i].level, rule |-> Policy[i].id]
<1> DEFINE hits == {j \in DOMAIN Policy : Matches(Policy[j], call)}
<1>1. i \in hits /\ hits \subseteq 1 .. 14
    BY PolicyTools
<1>2. ASSUME NEW j \in hits PROVE i <= j
    <2>1. j \in 1 .. 14 /\ Matches(Policy[j], call)
        BY <1>1
    <2>2. ~(j \in 1 .. i - 1)
        BY <2>1
    <2> QED BY <2>1, <2>2
<1>3. FirstMatch(Policy, call) = CHOOSE k \in hits : \A j \in hits : k <= j
    BY <1>1 DEF FirstMatch
<1> HIDE DEF hits
<1>4. ASSUME NEW k \in hits, \A j \in hits : k <= j PROVE k = i
    <2>1. k <= i /\ i <= k /\ k \in 1 .. 14
        BY <1>1, <1>2, <1>4
    <2> QED BY <2>1
<1>5. FirstMatch(Policy, call) = i
    BY <1>1, <1>2, <1>3, <1>4
<1> QED BY <1>5 DEF Evaluate

\* Two rules for one tool each, and for the same one.
LEMMA SameTool ==
    ASSUME NEW a, NEW b, {{a}} = {{b}}
    PROVE  a = b
<1>1. {a} \in {{b}}
    OBVIOUS
<1>2. {a} = {b}
    BY <1>1
<1> QED BY <1>2

\* A call without a statement, of one of these tools, is given the tool's own level.
LEMMA PlainCallIsRated ==
    ASSUME NEW call, call.sql = NoSql, call.to = 1,
           call.tool = "fs__write" => call.path \notin SensitivePaths,
           NEW i \in {6, 9, 10, 12, 14},
           Policy[i].tools = {{call.tool}}
    PROVE  Evaluate(Policy, call) = [level |-> Policy[i].level, rule |-> Policy[i].id]
<1>1. Matches(Policy[i], call)
    BY PolicyDefaults DEF Matches
<1>2. /\ i = 6 => call.tool = "db__query"
      /\ i = 9 => call.tool = "fs__write"
      /\ i = 10 => call.tool = "fs__read"
      /\ i = 12 => call.tool = "git__push"
      /\ i = 14 => call.tool = "email__send"
    <2>1. /\ i = 6 => {{call.tool}} = {{"db__query"}}
          /\ i = 9 => {{call.tool}} = {{"fs__write"}}
          /\ i = 10 => {{call.tool}} = {{"fs__read"}}
          /\ i = 12 => {{call.tool}} = {{"git__push"}}
          /\ i = 14 => {{call.tool}} = {{"email__send"}}
        BY PolicyTools
    <2> QED BY <2>1, SameTool, Zenon
<1>3. ~Matches(Policy[7], call) \/ i = 6
    BY <1>2, PolicyTools, PolicyConditions DEF Matches
<1>4. ~Matches(Policy[13], call)
    BY PolicyConditions DEF Matches
<1>5. ASSUME NEW j \in 1 .. i - 1 PROVE ~Matches(Policy[j], call)
    <2>1. CASE j \in 1 .. 5
        <3>1. Policy[j].tools = {{"db__execute"}} /\ call.tool \notin {"db__execute"}
            BY <1>2, <2>1, PolicyTools
        <3> QED BY <3>1 DEF Matches
    <2>2. CASE j \in {6, 8, 9, 10, 11, 12}
        <3>1. /\ j = 6 => Policy[j].tools = {{"db__query"}} /\ call.tool \notin {"db__query"}
              /\ j = 8 => Policy[j].tools = {{"fs__delete"}} /\ call.tool \notin {"fs__delete"}
              /\ j = 9 => Policy[j].tools = {{"fs__write"}} /\ call.tool \notin {"fs__write"}
              /\ j = 10 => Policy[j].tools = {{"fs__read"}} /\ call.tool \notin {"fs__read"}
              /\ j = 11 => Policy[j].tools = {{"git__force_push"}} /\ call.tool \notin {"git__force_push"}
              /\ j = 12 => Policy[j].tools = {{"git__push"}} /\ call.tool \notin {"git__push"}
            BY <1>2, PolicyTools
        <3>2. \E tools : Policy[j].tools = {tools} /\ call.tool \notin tools
            BY <2>2, <3>1
        <3> QED BY <3>2 DEF Matches
    <2>3. j \in 1 .. 5 \/ j \in {6, 8, 9, 10, 11, 12} \/ j = 7 \/ j = 13
        OBVIOUS
    <2>4. j = 7 => i # 6
        OBVIOUS
    <2> QED BY <1>3, <1>4, <2>1, <2>2, <2>3, <2>4
<1>6. call.sql.kind # "garbage" /\ i \in 1 .. 14
    BY DEF NoSql
<1> QED BY <1>1, <1>5, <1>6, FirstHitDecides

\* An insert into a table is HIGH if the table is of production, and MEDIUM otherwise.
LEMMA InsertIsRated ==
    ASSUME NEW call, NEW table, call.tool = "db__execute",
           call.sql = [kind |-> "INSERT", where |-> "some", object |-> None, tables |-> {table}]
    PROVE  Evaluate(Policy, call) =
                IF table \in ProdTables THEN [level |-> "HIGH", rule |-> "SQL-PROD-TABLE-HIGH"]
                ELSE [level |-> "MEDIUM", rule |-> "SQL-WRITE-MEDIUM"]
<1> DEFINE facts == SqlFacts(call.sql)
<1>1. /\ call.sql.kind = "INSERT" /\ call.sql.tables = {table}
      /\ Parsed(call.sql) /\ ~Unbounded(call.sql)
    BY DEF Parsed, DmlKinds, Unbounded
<1>2. /\ facts.ddl_kind = None /\ facts.dml_kind = "INSERT"
      /\ facts.flags = IF table \in ProdTables THEN {"touches_prod_table"} ELSE {}
    BY <1>1 DEF SqlFacts, DdlKinds, DmlKinds, None
<1> HIDE DEF facts
<1>3. ASSUME NEW i \in 1 .. 5, NEW matcher, Policy[i].sql = {matcher}
      PROVE  Matches(Policy[i], call) <=> SqlMatches(matcher, facts)
    <2>1. Policy[i].tools = {{"db__execute"}} /\ Policy[i].path = {} /\ Policy[i].recipients = {}
        BY PolicyTools, PolicyConditions
    <2> QED BY <1>1, <1>3, <2>1 DEF Matches, facts
<1>4. CASE table \in ProdTables
    <2>1. Matches(Policy[1], call)
        <3> DEFINE matcher == [ddl_kind |-> {}, dml_kind |-> {}, flags |-> {"touches_prod_table"}]
        <3>1. SqlMatches(matcher, facts)
            BY <1>2, <1>4 DEF SqlMatches
        <3>2. Policy[1].sql = {matcher}
            BY PolicyConditions
        <3> HIDE DEF matcher
        <3> QED BY <1>3, <3>1, <3>2
    <2> QED BY <1>1, <1>4, <2>1, FirstHitDecides, PolicySays
<1>5. CASE table \notin ProdTables
    <2>1. ~Matches(Policy[1], call)
        <3> DEFINE matcher == [ddl_kind |-> {}, dml_kind |-> {}, flags |-> {"touches_prod_table"}]
        <3>1. ~SqlMatches(matcher, facts)
            BY <1>2, <1>5 DEF SqlMatches
        <3>2. Policy[1].sql = {matcher}
            BY PolicyConditions
        <3> HIDE DEF matcher
        <3> QED BY <1>3, <3>1, <3>2
    <2>2. ~Matches(Policy[2], call)
        <3> DEFINE matcher == [ddl_kind |-> {{"DROP", "TRUNCATE", "ALTER"}}, dml_kind |-> {}, flags |-> {}]
        <3>1. ~SqlMatches(matcher, facts)
            BY <1>2 DEF SqlMatches, None
        <3>2. Policy[2].sql = {matcher}
            BY PolicyConditions
        <3> HIDE DEF matcher
        <3> QED BY <1>3, <3>1, <3>2
    <2>3. ~Matches(Policy[3], call)
        <3> DEFINE matcher == [ddl_kind |-> {}, dml_kind |-> {{"DELETE", "UPDATE"}}, flags |-> {"no_where"}]
        <3>1. ~SqlMatches(matcher, facts)
            BY <1>2 DEF SqlMatches
        <3>2. Policy[3].sql = {matcher}
            BY PolicyConditions
        <3> HIDE DEF matcher
        <3> QED BY <1>3, <3>1, <3>2
    <2>4. ~Matches(Policy[4], call)
        <3> DEFINE matcher == [ddl_kind |-> {}, dml_kind |-> {}, flags |-> {"unrecognized_statement"}]
        <3>1. ~SqlMatches(matcher, facts)
            BY <1>2, <1>5 DEF SqlMatches
        <3>2. Policy[4].sql = {matcher}
            BY PolicyConditions
        <3> HIDE DEF matcher
        <3> QED BY <1>3, <3>1, <3>2
    <2>5. Matches(Policy[5], call)
        <3> DEFINE matcher == [ddl_kind |-> {}, dml_kind |-> {{"INSERT", "UPDATE", "DELETE"}}, flags |-> {}]
        <3>1. SqlMatches(matcher, facts)
            BY <1>2 DEF SqlMatches
        <3>2. Policy[5].sql = {matcher}
            BY PolicyConditions
        <3> HIDE DEF matcher
        <3> QED BY <1>3, <3>1, <3>2
    <2>6. \A j \in 1 .. 4 : ~Matches(Policy[j], call)
        BY <2>1, <2>2, <2>3, <2>4
    <2> QED BY <1>1, <1>5, <2>5, <2>6, FirstHitDecides, PolicySays
<1> QED BY <1>4, <1>5

\* What a profile draws: the tool, the names, the level and the rule of each.
LEMMA ProfilesListed ==
    ASSUME NEW persona \in Personas, NEW p \in PersonaProfiles[persona]
    PROVE  \/ p.tool = "db__query" /\ p.level = "LOW" /\ p.rule = "SQL-READ-LOW"
           \/ /\ p.tool = "db__execute" /\ p.names = {"staging_old"}
              /\ p.level = "MEDIUM" /\ p.rule = "SQL-WRITE-MEDIUM"
           \/ /\ p.tool = "db__execute" /\ p.names = {"customers"}
              /\ p.level = "HIGH" /\ p.rule = "SQL-PROD-TABLE-HIGH"
           \/ p.tool = "fs__read" /\ p.level = "LOW" /\ p.rule = "FS-READ-LOW"
           \/ /\ p.tool = "fs__write" /\ p.names = {"daily-summary.md"}
              /\ p.level = "MEDIUM" /\ p.rule = "FS-WRITE-MEDIUM"
           \/ p.tool = "git__push" /\ p.level = "MEDIUM" /\ p.rule = "GIT-PUSH-MEDIUM"
           \/ p.tool = "email__send" /\ p.level = "LOW" /\ p.rule = "EMAIL-SEND-LOW"
BY DEF Personas, PersonaProfiles, Profile

\* A row made from a profile of its agent is one that the gate could have written.
LEMMA MadeCouldHaveHappened ==
    ASSUME TypeOK, NEW r \in rows, Made(r)
    PROVE  /\ \E c \in CallsOn(r) : Evaluate(Policy, c) = [level |-> r.level, rule |-> r.rule]
           /\ \E i \in DOMAIN team : team[i].id = r.agent /\ Namespace[r.tool] \in team[i].scope
           /\ r.status \in Terminal
           /\ r.status = "AUTO_ALLOWED" <=> r.level # "HIGH"
<1>1. PICK i \in DOMAIN team : \E p \in PersonaProfiles[team[i].persona] :
        /\ r.agent = team[i].id /\ r.tool = p.tool /\ r.level = p.level /\ r.rule = p.rule
        /\ r.resource[2] \in p.names
        /\ r.status \in Outcomes(p.level)
    BY DEF Made
<1>2. PICK p \in PersonaProfiles[team[i].persona] :
        /\ r.agent = team[i].id /\ r.tool = p.tool /\ r.level = p.level /\ r.rule = p.rule
        /\ r.resource[2] \in p.names
        /\ r.status \in Outcomes(p.level)
    BY <1>1
<1>3. PICK persona \in Personas : persona = team[i].persona /\ p \in PersonaProfiles[persona]
    BY RegistryIsListed DEF Identities
<1>4. team \in Teams
    BY DEF TypeOK
<1>5. Namespace[p.tool] \in team[i].scope
    BY <1>4, DeploymentAssumption
<1>6. /\ r.status \in Terminal
      /\ r.status = "AUTO_ALLOWED" <=> r.level # "HIGH"
    <2>1. p.level \in {"LOW", "MEDIUM", "HIGH"}
        BY <1>3, ProfilesListed
    <2> QED BY <1>2, <2>1 DEF Outcomes, Resolutions, Verdicts, Terminal, Statuses
<1> DEFINE plain == [agent |-> r.agent, tool |-> r.tool, sql |-> NoSql, path |-> r.resource[2], to |-> 1]
           insert == [agent |-> r.agent, tool |-> r.tool, path |-> None, to |-> 0,
                      sql |-> [kind |-> "INSERT", where |-> "some", object |-> None,
                               tables |-> {r.resource[2]}]]
<1>7. plain \in CallsOn(r) /\ insert \in CallsOn(r)
    BY DEF CallsOn, DmlKinds
<1>8. \E c \in {plain, insert} : Evaluate(Policy, c) = [level |-> r.level, rule |-> r.rule]
    <2>1. CASE p.tool = "db__execute"
        <3>1. Evaluate(Policy, insert) =
                IF r.resource[2] \in ProdTables THEN [level |-> "HIGH", rule |-> "SQL-PROD-TABLE-HIGH"]
                ELSE [level |-> "MEDIUM", rule |-> "SQL-WRITE-MEDIUM"]
            BY <1>2, <2>1, InsertIsRated
        <3>2. \/ p.names = {"staging_old"} /\ p.level = "MEDIUM" /\ p.rule = "SQL-WRITE-MEDIUM"
              \/ p.names = {"customers"} /\ p.level = "HIGH" /\ p.rule = "SQL-PROD-TABLE-HIGH"
            BY <1>3, <2>1, ProfilesListed
        <3> HIDE DEF insert
        <3>3. \/ /\ r.resource[2] \notin ProdTables
                 /\ r.level = "MEDIUM" /\ r.rule = "SQL-WRITE-MEDIUM"
              \/ /\ r.resource[2] \in ProdTables
                 /\ r.level = "HIGH" /\ r.rule = "SQL-PROD-TABLE-HIGH"
            BY <1>2, <3>2, DeploymentAssumption
        <3> QED BY <3>1, <3>3
    <2>2. ASSUME NEW k \in {6, 9, 10, 12, 14}, Policy[k].tools = {{p.tool}},
                 p.tool = "fs__write" => p.names = {"daily-summary.md"},
                 p.level = Policy[k].level, p.rule = Policy[k].id
          PROVE  Evaluate(Policy, plain) = [level |-> r.level, rule |-> r.rule]
        <3>1. plain.sql = NoSql /\ plain.to = 1 /\ plain.tool = p.tool /\ plain.path = r.resource[2]
            BY <1>2
        <3> HIDE DEF plain
        <3>2. plain.tool = "fs__write" => plain.path \notin SensitivePaths
            BY <1>2, <2>2, <3>1, DeploymentAssumption
        <3>3. Evaluate(Policy, plain) = [level |-> Policy[k].level, rule |-> Policy[k].id]
            BY <2>2, <3>1, <3>2, PlainCallIsRated
        <3> QED BY <1>2, <2>2, <3>3
    <2>3. CASE p.tool # "db__execute"
        <3>1. \E k \in {6, 9, 10, 12, 14} :
                /\ Policy[k].tools = {{p.tool}} /\ p.level = Policy[k].level /\ p.rule = Policy[k].id
                /\ p.tool = "fs__write" => p.names = {"daily-summary.md"}
            <4>1. \/ p.tool = "db__query" /\ p.level = "LOW" /\ p.rule = "SQL-READ-LOW"
                  \/ p.tool = "fs__read" /\ p.level = "LOW" /\ p.rule = "FS-READ-LOW"
                  \/ /\ p.tool = "fs__write" /\ p.names = {"daily-summary.md"}
                     /\ p.level = "MEDIUM" /\ p.rule = "FS-WRITE-MEDIUM"
                  \/ p.tool = "git__push" /\ p.level = "MEDIUM" /\ p.rule = "GIT-PUSH-MEDIUM"
                  \/ p.tool = "email__send" /\ p.level = "LOW" /\ p.rule = "EMAIL-SEND-LOW"
                BY <1>3, <2>3, ProfilesListed
            <4> QED BY <4>1, PolicyTools, PolicySays
        <3> QED BY <2>2, <3>1
    <2> QED BY <2>1, <2>3
<1>9. \E c \in CallsOn(r) : Evaluate(Policy, c) = [level |-> r.level, rule |-> r.rule]
    BY <1>7, <1>8
<1> QED BY <1>2, <1>5, <1>6, <1>9

\* A step that writes no row and keeps the settings of the runs keeps the rows plausible.
LEMMA PlausibleStays ==
    ASSUME TypeOK, PlausibleInv, UNCHANGED <<team, rows>>,
           \A n \in 1 .. Run : runs'[n].days = runs[n].days
    PROVE  PlausibleInv'
<1>1. \A r \in rows : r.run \in 0 .. Run
    BY RowsAreOfARun DEF TypeOK
<1>2. \A r \in rows : Made(r)' /\ Named(r)
    BY DEF PlausibleInv, Made
<1>3. \A r \in rows \ LiveRows : r.run \in 1 .. Run
    BY <1>1 DEF LiveRows, NoRun, TypeOK, Run
<1>4. SeededRowsAreOld'
    BY <1>3 DEF PlausibleInv, SeededRowsAreOld, LiveRows
<1> QED BY <1>2, <1>4 DEF PlausibleInv

LEMMA PlausibleStep ==
    ASSUME TypeOK, RunsInv, PlausibleInv, [Next]_vars
    PROVE  PlausibleInv'
<1> USE DEF fileVars, liveVars
<1>0. /\ runs \in Seq(RunRecords) /\ Run \in Nat /\ rows \subseteq Rows
      /\ \A r \in rows : r.run \in 0 .. Run
      /\ \A n \in 1 .. Run : runs[n] \in RunRecords
    BY RowsAreOfARun DEF TypeOK, Run
<1>1. CASE InsertsAction
    <2>1. Run \in 1 .. Run /\ UNCHANGED team
        BY <1>0, <1>1 DEF InsertsAction, RunsInv
    <2>2. PICK i \in DOMAIN team :
            /\ \E p \in PersonaProfiles[team[i].persona] :
                \E name \in p.names, status \in Outcomes(p.level) :
                    rows' = rows \cup {Row(Run, Left[team[i].id], team[i].id, p, SeededName(name),
                                           status, Newest(runs[Run].days))}
            /\ runs' = [runs EXCEPT ![Run].left[team[i].id] = @ - 1]
        BY <1>1 DEF InsertsAction
    <2>3. PICK p \in PersonaProfiles[team[i].persona] :
            \E name \in p.names, status \in Outcomes(p.level) :
                rows' = rows \cup {Row(Run, Left[team[i].id], team[i].id, p, SeededName(name),
                                       status, Newest(runs[Run].days))}
        BY <2>2
    <2>4. PICK name \in p.names, status \in Outcomes(p.level) :
            rows' = rows \cup {Row(Run, Left[team[i].id], team[i].id, p, SeededName(name),
                                   status, Newest(runs[Run].days))}
        BY <2>3
    <2> DEFINE row == Row(Run, Left[team[i].id], team[i].id, p, SeededName(name), status,
                          Newest(runs[Run].days))
    <2>5. PICK new : /\ rows' = rows \cup {new} /\ new.run = Run /\ new.age = Newest(runs[Run].days)
                     /\ new.agent = team[i].id /\ new.tool = p.tool /\ new.level = p.level
                     /\ new.rule = p.rule /\ new.resource[2] = name /\ new.status = status
                     /\ new.resource[1] = "name"
        <3>1. /\ row.run = Run /\ row.age = Newest(runs[Run].days)
              /\ row.agent = team[i].id /\ row.tool = p.tool /\ row.level = p.level
              /\ row.rule = p.rule /\ row.resource[2] = name /\ row.status = status
              /\ row.resource[1] = "name"
            BY DEF Row, SeededName
        <3>2. rows' = rows \cup {row}
            BY <2>4
        <3> HIDE DEF row
        <3> QED BY <3>1, <3>2
    <2>6. \A n \in 1 .. Run : runs'[n].days = runs[n].days
        <3>1. runs' = [runs EXCEPT ![Run] = [runs[Run] EXCEPT !.left[team[i].id] = @ - 1]]
            BY <2>2
        <3>2. [runs[Run] EXCEPT !.left[team[i].id] = @ - 1].days = runs[Run].days
            BY <1>0, <2>1 DEF RunRecords
        <3> QED BY <1>0, <2>1, <3>1, <3>2 DEF Run
    <2>7. Made(new)' /\ Named(new)
        <3>1. Made(new)
            BY <2>5 DEF Made
        <3> QED BY <2>1, <2>5, <3>1 DEF Made, Named
    <2>8. \A r \in rows : Made(r)' /\ Named(r)
        BY <2>1 DEF PlausibleInv, Made
    <2>9. runs[Run].days > 0 => new.age >= 1
        <3>1. runs[Run].days \in Nat
            BY <1>0, <2>1 DEF RunRecords
        <3> QED BY <2>5, <3>1 DEF Newest
    <2>10. ASSUME NEW r \in rows' \ LiveRows', runs'[r.run].days > 0 PROVE r.age >= 1
        <3>1. CASE r = new
            BY <2>1, <2>5, <2>6, <2>9, <2>10, <3>1
        <3>2. CASE r # new
            <4>1. r \in rows \ LiveRows /\ r.run \in 1 .. Run
                BY <1>0, <2>5, <2>10, <3>2 DEF LiveRows, NoRun
            <4> QED BY <2>6, <2>10, <4>1 DEF PlausibleInv, SeededRowsAreOld
        <3> QED BY <3>1, <3>2
    <2> QED BY <2>5, <2>7, <2>8, <2>10 DEF PlausibleInv, SeededRowsAreOld
<1>2. CASE (\E i \in DOMAIN team : Calls(i)) \/ (\E r \in LiveRows : CreepCheck(r))
    <2>1. PICK row : /\ rows' \subseteq rows \cup {row} /\ row.run = NoRun
                     /\ Made(row) /\ Named(row)
        <3>1. CASE \E i \in DOMAIN team : Calls(i)
            <4>1. PICK i \in DOMAIN team : \E p \in PersonaProfiles[team[i].persona] :
                    /\ p.level = "LOW"
                    /\ \E name \in p.names :
                        rows' = rows \cup {Row(NoRun, Cardinality(LiveRows), team[i].id, p,
                                               LiveName(p, name), "AUTO_ALLOWED", 0)}
                BY <3>1 DEF Calls
            <4>2. PICK p \in PersonaProfiles[team[i].persona] :
                    /\ p.level = "LOW"
                    /\ \E name \in p.names :
                        rows' = rows \cup {Row(NoRun, Cardinality(LiveRows), team[i].id, p,
                                               LiveName(p, name), "AUTO_ALLOWED", 0)}
                BY <4>1
            <4>3. PICK name \in p.names :
                    rows' = rows \cup {Row(NoRun, Cardinality(LiveRows), team[i].id, p,
                                           LiveName(p, name), "AUTO_ALLOWED", 0)}
                BY <4>2
            <4> DEFINE new == Row(NoRun, Cardinality(LiveRows), team[i].id, p, LiveName(p, name),
                                  "AUTO_ALLOWED", 0)
            <4>4. /\ new.run = NoRun /\ new.agent = team[i].id /\ new.tool = p.tool
                  /\ new.level = p.level /\ new.rule = p.rule /\ new.resource[2] = name
                  /\ new.status = "AUTO_ALLOWED"
                  /\ new.resource[1] = IF Namespace[p.tool] = "db" THEN "statement on" ELSE "name"
                BY DEF Row, LiveName
            <4>5. rows' = rows \cup {new}
                BY <4>3
            <4> HIDE DEF new
            <4>6. "AUTO_ALLOWED" \in Outcomes(p.level)
                BY <4>2 DEF Outcomes
            <4>7. Made(new) /\ Named(new)
                BY <4>4, <4>6 DEF Made, Named
            <4> QED BY <4>4, <4>5, <4>7
        <3>2. CASE \E r \in LiveRows : CreepCheck(r)
            <4>1. PICK r \in LiveRows : CreepCheck(r)
                BY <3>2
            <4> DEFINE flagged == [r EXCEPT !.novel = TRUE]
            <4>2. r \in Rows /\ r \in rows /\ r.run = NoRun
                BY <1>0 DEF LiveRows
            <4>3. /\ flagged.run = r.run /\ flagged.agent = r.agent /\ flagged.tool = r.tool
                  /\ flagged.level = r.level /\ flagged.rule = r.rule
                  /\ flagged.resource = r.resource /\ flagged.status = r.status
                BY <4>2 DEF Rows
            <4>4. rows' = rows \/ rows' = (rows \ {r}) \cup {flagged}
                BY <4>1 DEF CreepCheck, FlagsNovel
            <4> HIDE DEF flagged
            <4>5. Made(flagged) /\ Named(flagged)
                BY <4>2, <4>3 DEF PlausibleInv, Made, Named
            <4>6. rows' \subseteq rows \cup {flagged}
                BY <4>4
            <4> QED BY <4>2, <4>3, <4>5, <4>6
        <3> QED BY <1>2, <3>1, <3>2
    <2>2. UNCHANGED <<team, runs>>
        BY <1>2 DEF Calls, CreepCheck
    <2>3. \A r \in rows' : Made(r)' /\ Named(r)
        <3>1. \A r \in rows' : Made(r) /\ Named(r)
            BY <2>1 DEF PlausibleInv
        <3> QED BY <2>2, <3>1 DEF Made
    <2>4. SeededRowsAreOld'
        <3>1. \A r \in rows' \ LiveRows' : r \in rows \ LiveRows
            BY <2>1 DEF LiveRows
        <3> QED BY <2>2, <3>1 DEF PlausibleInv, SeededRowsAreOld
    <2> QED BY <2>3, <2>4 DEF PlausibleInv
<1>3. CASE StartSeeder
    <2>1. /\ \A n \in 1 .. Run : runs'[n] = runs[n]
          /\ UNCHANGED <<team, rows>>
        BY <1>0, <1>3 DEF StartSeeder, Run
    <2> QED BY <2>1, PlausibleStays
<1>4. ASSUME NEW p \in Processes, Dies(p) PROVE PlausibleInv'
    <2>1. UNCHANGED <<team, rows>>
        BY <1>4 DEF Dies
    <2>2. \A n \in 1 .. Run : runs'[n].days = runs[n].days
        <3>1. CASE p = Seeder
            <4>1. Run \in 1 .. Run /\ runs' = [runs EXCEPT ![Run] = [runs[Run] EXCEPT !.died = TRUE]]
                BY <1>0, <1>4, <3>1 DEF Dies, RunsInv
            <4>2. [runs[Run] EXCEPT !.died = TRUE].days = runs[Run].days
                BY <1>0, <4>1 DEF RunRecords
            <4> QED BY <1>0, <4>1, <4>2 DEF Run
        <3>2. CASE p # Seeder
            BY <1>4, <3>2 DEF Dies
        <3> QED BY <3>1, <3>2
    <2> QED BY <2>1, <2>2, PlausibleStays
<1>5. CASE \/ StartCore \/ CoreStartup \/ ChecksMarker \/ RegistersAgents \/ EmitsSpans \/ SetsMarker
           \/ (\E p \in Processes : CreatesTables(p) \/ Migrates(p))
           \/ (\E id \in Ids : SetsQuarantine(id)) \/ UNCHANGED vars
    <2>1. UNCHANGED <<team, rows, runs>>
        BY <1>5 DEF StartCore, CoreStartup, ChecksMarker, RegistersAgents, LooksForAgent, EmitsSpans,
                    SetsMarker, RegistersAgent, CreatesTables, Migrates, SetsQuarantine, vars
    <2> QED BY <2>1, PlausibleStays
<1> QED BY <1>1, <1>2, <1>3, <1>4, <1>5 DEF Next
-----------------------------------------------------------------------------
(* The theorems.                                                           *)

LEMMA InitInv == Init => Inv
<1> SUFFICES ASSUME Init PROVE Inv
    OBVIOUS
<1>1. TypeOK
    BY InitTyped
<1>2. pc[Core] = "off" /\ pc[Seeder] = "off" /\ \A p \in Processes : pc[p] = "off"
    BY DEF Init, Processes
<1>3. SchemaInv
    BY <1>1, <1>2 DEF TypeOK, SchemaInv, SchemaIsReady
<1>4. QuarantineInv
    BY DEF Init, QuarantineInv, NoAgent
<1>5. Run = 0
    BY DEF Init, Run
<1>6. RunsInv
    BY <1>2, <1>5 DEF RunsInv, DuplicatesNeedADeath, Seeding, RowsOf, Init
<1> QED BY <1>1, <1>3, <1>4, <1>6 DEF Inv

\* Both processes, each dying anywhere, keep the inductive invariant of the file.
THEOREM BootstrapInvariant == Spec => []Inv
<1>1. Inv /\ [Next]_vars => Inv'
    BY StepTyped, SchemaStep, AgentsStep, RunsStep DEF Inv
<1> QED BY InitInv, <1>1, PTL DEF Spec

\* Every variable has its type: no process is past the end of its loop over the
\* registry or the migrations, and the marker names a run there was.
THEOREM BootstrapTyping == Spec => []TypeOK
<1>1. Inv => TypeOK
    BY DEF Inv
<1> QED BY BootstrapInvariant, <1>1, PTL

\* Store.connect() leaves every column there, whatever file it opens, however often
\* a migration was cut short, and although the other process migrates too.
THEOREM SchemaAlwaysReady == Spec => []SchemaIsReady
<1>1. Inv => SchemaIsReady
    BY DEF Inv, SchemaInv
<1> QED BY BootstrapInvariant, <1>1, PTL

\* Neither a startup nor a run of the seeder lifts a quarantine or takes an agent
\* from who registered it: upsert_agent() leaves those columns alone on conflict.
THEOREM LiveAgentsKept == Spec => KeepsLiveAgents
<1>1. Inv /\ [Next]_vars =>
        [\A id \in Ids : agents[id] # NoAgent =>
            /\ agents'[id].created_by = agents[id].created_by
            /\ agents'[id].quarantined <=> id \in ordered']_vars
    BY AgentsStep DEF Inv
<1> QED BY BootstrapInvariant, <1>1, PTL DEF Spec, KeepsLiveAgents

\* The seeder adds a second history unforced only where the earlier runs died before
\* they set their marker: the marker, set last, is the only guard there is.
THEOREM DuplicatesOnlyAfterDeaths == Spec => []DuplicatesNeedADeath
<1>1. Inv => DuplicatesNeedADeath
    BY DEF Inv, RunsInv
<1> QED BY BootstrapInvariant, <1>1, PTL

LEMMA InitHistory == Init => WholeInv /\ PlausibleInv
<1> SUFFICES ASSUME Init PROVE WholeInv /\ PlausibleInv
    OBVIOUS
<1>1. Run = 0 /\ rows = {} /\ marker = NoRun /\ pc[Seeder] = "off"
    BY DEF Init, Run, Processes
<1> QED BY <1>1 DEF WholeInv, PlausibleInv, SeededRowsAreOld

\* The invariants of the history, by itself.
LEMMA HistoryInvariant == Spec => [](Inv /\ WholeInv /\ PlausibleInv)
<1>1. Inv /\ (WholeInv /\ PlausibleInv) /\ [Next]_vars => (WholeInv /\ PlausibleInv)'
    BY WholeStep, PlausibleStep DEF Inv
<1> QED BY BootstrapInvariant, InitHistory, <1>1, PTL DEF Spec

\* A marked run has left as many rows as it was asked for, one for each agent and each
\* number, and its spans; and a second unforced history needs a death: the seeder
\* counts down as it inserts and sets the marker when nothing is left.
THEOREM MarkedHistoryIsWhole == Spec => []HistoryIsWhole
<1>1. Inv /\ WholeInv => HistoryIsWhole
    BY WholeIsCounted DEF Inv, RunsInv, HistoryIsWhole
<1> QED BY HistoryInvariant, <1>1, PTL

\* Every seeded row could be the gate's: the deployed policy rates some call of that
\* tool on that resource as the row says, the agent may make it, its status is a final
\* one of that level, and it is older than whatever is called after the seeding.
THEOREM SeededHistoryIsPlausible == Spec => []HistoryIsPlausible
<1>1. Inv /\ PlausibleInv => HistoryIsPlausible
    <2> SUFFICES ASSUME TypeOK, PlausibleInv PROVE CouldHaveHappened /\ SeededRowsAreOld
        BY DEF Inv, HistoryIsPlausible
    <2>1. CouldHaveHappened
        BY MadeCouldHaveHappened DEF PlausibleInv, CouldHaveHappened
    <2> QED BY <2>1 DEF PlausibleInv
<1> QED BY HistoryInvariant, <1>1, PTL

\* A live call on a file is flagged as a first touch only if the agent's seeded history
\* does not name that file, whichever process wrote last: the seeder and the gate
\* store the same name of a file, as they do not of a table.
THEOREM BaselineHolds == Spec => BaselineCoversFiles
<1>1. Inv /\ PlausibleInv /\ [Next]_vars =>
        [\A r \in LiveRows : Namespace[r.tool] # "db" /\ FlagsNovel(r) =>
            \A s \in rows \ LiveRows : ~(s.agent = r.agent /\ s.resource[2] = r.resource[2])]_vars
    <2> SUFFICES ASSUME TypeOK, PlausibleInv, Next,
                        NEW r \in LiveRows, Namespace[r.tool] # "db", FlagsNovel(r),
                        NEW s \in rows \ LiveRows, s.agent = r.agent, s.resource[2] = r.resource[2]
                 PROVE  FALSE
        BY DEF Inv
    <2> USE DEF fileVars, liveVars
    <2>1. /\ r \in Rows /\ r \in rows /\ r.run = NoRun /\ s \in Rows /\ s \in rows /\ s # r
          /\ r \notin rows'
        <3>1. /\ r \in rows /\ r \in Rows /\ r.run = NoRun /\ s \in Rows /\ s \in rows /\ s # r
            BY DEF LiveRows, TypeOK
        <3>2. [r EXCEPT !.novel = TRUE] # r
            BY <3>1 DEF FlagsNovel, Rows
        <3> QED BY <3>1, <3>2 DEF FlagsNovel
    <2>2. ~(rows \subseteq rows')
        BY <2>1
    <2>3. PICK q \in LiveRows : CreepCheck(q)
        <3>1. CASE InsertsAction \/ \E i \in DOMAIN team : Calls(i)
            BY <2>2, <3>1 DEF InsertsAction, Calls
        <3>2. CASE \/ StartCore \/ StartSeeder \/ CoreStartup \/ ChecksMarker \/ RegistersAgents
                   \/ EmitsSpans \/ SetsMarker
                   \/ (\E p \in Processes : CreatesTables(p) \/ Migrates(p) \/ Dies(p))
                   \/ (\E id \in Ids : SetsQuarantine(id))
            BY <2>2, <3>2
               DEF StartCore, StartSeeder, CoreStartup, ChecksMarker, RegistersAgents, LooksForAgent,
                   EmitsSpans, SetsMarker, RegistersAgent, CreatesTables, Migrates, Dies, SetsQuarantine
        <3> QED BY <3>1, <3>2 DEF Next
    <2>4. Touches(q) = {} /\ rows' = (rows \ {q}) \cup {[q EXCEPT !.novel = TRUE]}
        BY <2>2, <2>3 DEF CreepCheck, FlagsNovel
    <2>5. q = r
        BY <2>1, <2>4
    <2>6. s \notin Touches(r)
        BY <2>4, <2>5
    <2>7. s.resource # r.resource
        BY <2>1, <2>6 DEF Touches
    <2>8. r.resource[1] = "name" /\ s.resource[1] = "name"
        BY <2>1 DEF PlausibleInv, Named, LiveRows
    <2>9. PICK A, B : r.resource \in A \X B /\ s.resource \in A \X B
        BY <2>1 DEF Rows
    <2> QED BY <2>7, <2>8, <2>9
<1> QED BY HistoryInvariant, <1>1, PTL DEF Spec, BaselineCoversFiles
=============================================================================
