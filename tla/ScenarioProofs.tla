--------------------------- MODULE ScenarioProofs ----------------------------
(***************************************************************************)
(* Proofs about Scenario, for any runs and holds of the three scripts and   *)
(* any number of POSTs that fail or are answered with an error, and of      *)
(* restarts: what a script may have on its way, that nothing is approved    *)
(* before something was refused, and how often an agent is denied.          *)
(***************************************************************************)
EXTENDS Scenario, FiniteSetTheorems, TLAPS

\* The POSTs that nobody waits for.
Astray == IF doing = "waits" THEN posts \ {post} ELSE posts

\* A POST astray is one that failed, or that was under way when its run ended.
PostsInv ==
    /\ IsFiniteSet(posts)
    /\ Cardinality(Astray) <= lost + RunsOver

\* Where the script is: it paces between two runs of the scenario only.
StageInv ==
    /\ stage = "paces" => run < setting.runs /\ script = "scenario"
    /\ stage # "mission" => doing = "off"
    /\ doing \in {"waits", "answered", "erred"} => post \in Posts /\ post.run = run
    /\ doing = "erred" => erred # {}

\* A row appears when its mission is held for it, for a verdict, and a script only
\* knows rows that there are.
RowsInv ==
    /\ \A c \in CallIds : row[c] # "AUTO_ALLOWED"
    /\ \A c \in CallIds : c[1] \in Missions /\ holds[c[1]] < c[2] => row[c] = NoRow
    /\ \A c \in seen : row[c] # NoRow
    /\ \A p \in posts : row[p.call] # NoRow
    /\ doing \in {"waits", "answered", "erred"} => row[post.call] # NoRow

\* TypeOK, but for its count, which follows from PostsInv.
Typed ==
    /\ setting \in Settings
    /\ row \in [CallIds -> RowValues] /\ by \in [CallIds -> Missions \cup {0}]
    /\ posts \subseteq Posts
    /\ place \in [Missions -> Places]
    /\ holds \in [Missions -> 0 .. setting.holds]
    /\ log \in [Missions -> {"empty", "looked", "denied", "recovered", "failed"}]
    /\ stage \in {"mission", "paces", "reported", "raised"} /\ run \in 1 .. setting.runs
    /\ doing \in Doings
    /\ post \in Posts \cup {<< >>} /\ seen \subseteq CallIds
    /\ marked \subseteq {Coder, Comply} \cup CallIds
    /\ denials \in Nat
    /\ Len(results) = IF script = "scenario" THEN RunsOver ELSE 0
    /\ {lost, restarts} \subseteq 0 .. MaxFaults /\ erred \subseteq {Coder, Comply}
    /\ results \in Seq(BOOLEAN)

BaseInv == Typed /\ PostsInv /\ StageInv /\ RowsInv

\* What the settings come to.
LEMMA SettingsFacts ==
    ASSUME Typed
    PROVE  /\ setting.runs \in Nat \ {0} /\ setting.holds \in Nat /\ script \in Scripts
           /\ setting.stranger \in {Coder, Comply}
           /\ 1 .. setting.runs \subseteq Missions /\ {1, 2} \subseteq Missions
           /\ Missions \subseteq Nat \ {0}
           /\ \A m \in Missions, k \in 1 .. setting.holds : <<m, k>> \in CallIds
           /\ <<0, 1>> \in CallIds
           /\ run \in Missions /\ run \in Nat
<1>1. setting \in [script : Scripts, runs : Nat \ {0}, holds : Nat, stranger : {Coder, Comply}]
      /\ setting \in Settings
    BY ScenarioAssumption DEF Typed
<1>2. ASSUME NEW m \in Missions PROVE m \in Nat \ {0}
    <2>1. m \in {1, 2} \/ \E s \in Settings : m \in 1 .. s.runs
        BY DEF Missions
    <2>2. \A s \in Settings : s.runs \in Nat
        BY ScenarioAssumption
    <2> QED BY <2>1, <2>2
<1>3. 1 .. setting.runs \subseteq Missions /\ {1, 2} \subseteq Missions
    BY <1>1 DEF Missions
<1>4. \A m \in Missions, k \in 1 .. setting.holds : <<m, k>> \in CallIds
    BY <1>1 DEF CallIds
<1>5. <<0, 1>> \in CallIds
    BY DEF CallIds
<1>6. run \in Missions /\ run \in Nat
    <2>1. run \in 1 .. setting.runs
        BY DEF Typed
    <2> QED BY <1>1, <1>3, <2>1
<1> QED BY <1>1, <1>2, <1>3, <1>4, <1>5, <1>6 DEF script

\* A call is of a mission or somebody else's, and of one of the agents.
LEMMA CallFacts ==
    ASSUME Typed, NEW c \in CallIds
    PROVE  /\ c = <<c[1], c[2]>> /\ c[2] \in Nat /\ c[1] \in Missions \cup {0}
           /\ AgentOf(c) \in {Coder, Comply}
<1>1. c = <<0, 1>> \/ \E m \in Missions : \E s \in Settings : \E k \in 1 .. s.holds : c = <<m, k>>
    BY DEF CallIds
<1>2. \A s \in Settings : s.holds \in Nat
    BY ScenarioAssumption
<1>3. c = <<c[1], c[2]>> /\ c[2] \in Nat /\ c[1] \in Missions \cup {0}
    BY <1>1, <1>2
<1>4. AgentOf(c) \in {Coder, Comply}
    BY SettingsFacts DEF AgentOf
<1> QED BY <1>3, <1>4

\* Faults are counted up to the bound.
LEMMA FaultFacts ==
    ASSUME Typed
    PROVE  /\ lost \in Nat /\ restarts \in Nat /\ MaxFaults \in Nat
           /\ Faulty => lost + 1 \in 0 .. MaxFaults /\ restarts + 1 \in 0 .. MaxFaults
<1>1. lost \in Nat /\ restarts \in Nat /\ MaxFaults \in Nat
    BY ScenarioAssumption DEF Typed
<1>2. IsFiniteSet({Coder, Comply})
    <2>1. IsFiniteSet({Coder} \cup {Comply})
        BY FS_Singleton, FS_AddElement
    <2>2. {Coder, Comply} = {Coder} \cup {Comply}
        OBVIOUS
    <2> QED BY <2>1, <2>2
<1>3. IsFiniteSet(erred)
    BY <1>2, FS_Subset DEF Typed
<1>4. Cardinality(erred) \in Nat
    BY <1>3, FS_CardinalityType
<1> QED BY <1>1, <1>4 DEF Faulty

\* The runs that are over are as many as have results.
LEMMA RunsOverFacts ==
    ASSUME Typed
    PROVE  RunsOver \in Nat
BY SettingsFacts DEF RunsOver, Typed

LEMMA AgentsStay ==
    ASSUME setting' = setting
    PROVE  script' = script /\ \A c : AgentOf(c)' = AgentOf(c)
BY DEF script, AgentOf

\* The marks of a script are of agents or calls.
LEMMA MarkTyped ==
    ASSUME Typed, NEW c \in CallIds
    PROVE  Mark(c) \in {Coder, Comply} \cup CallIds
BY CallFacts, SettingsFacts DEF Mark, Scripts

-----------------------------------------------------------------------------
(* Types.                                                                  *)

LEMMA MissionsTyped ==
    ASSUME Typed,
           \/ \E m \in Missions : MissionRuns(m) \/ Breaks(m)
           \/ \E c \in CallIds : Expires(c)
           \/ StrangerHeld
           \/ Restart
    PROVE  Typed'
<1> USE DEF storeVars, missionVars, deciderVars, scriptVars, faultVars
<1>1. ASSUME NEW m \in Missions, NEW denied \in BOOLEAN, Result(m, denied) PROVE Typed'
    <2>1. UNCHANGED script /\ UNCHANGED RunsOver
        BY <1>1 DEF Result, script, RunsOver
    <2>2. \A l \in {"empty", "looked", "denied", "recovered", "failed"} :
            Tell(l, denied) \in {"empty", "looked", "denied", "recovered", "failed"}
        BY DEF Tell
    <2>3. log' \in [Missions -> {"empty", "looked", "denied", "recovered", "failed"}]
        BY <1>1, <2>2 DEF Result, Typed
    <2>4. place' \in [Missions -> Places]
        BY <1>1 DEF Result, Typed, Places
    <2> QED BY <1>1, <2>1, <2>3, <2>4 DEF Result, Typed
<1>2. ASSUME NEW m \in Missions, Held(m) PROVE Typed'
    <2>1. UNCHANGED script /\ UNCHANGED RunsOver
        BY <1>2 DEF Held, script, RunsOver
    <2>2. place' \in [Missions -> Places]
        BY <1>2 DEF Held, Typed, Places
    <2>3. holds[m] + 1 \in 1 .. setting.holds
        BY <1>2, SettingsFacts DEF Held, Typed
    <2>4. holds' \in [Missions -> 0 .. setting.holds]
        BY <1>2, <2>3 DEF Held, Typed
    <2>5. row' \in [CallIds -> RowValues]
        BY <1>2 DEF Held, Typed, RowValues, Statuses
    <2> QED BY <1>2, <2>1, <2>2, <2>4, <2>5 DEF Held, Typed
<1>3. ASSUME NEW m \in Missions, Finishes(m) PROVE Typed'
    <2>1. UNCHANGED script /\ UNCHANGED RunsOver
        BY <1>3 DEF Finishes, script, RunsOver
    <2> QED BY <1>3, <2>1 DEF Finishes, Typed, Places
<1>4. ASSUME NEW m \in Missions, Breaks(m) PROVE Typed'
    <2>1. UNCHANGED script /\ UNCHANGED RunsOver
        BY <1>4 DEF Breaks, script, RunsOver
    <2> QED BY <1>4, <2>1 DEF Breaks, Typed, Places
<1>5. CASE (\E c \in CallIds : Expires(c)) \/ StrangerHeld
    <2>1. UNCHANGED script /\ UNCHANGED RunsOver
        BY <1>5 DEF Expires, StrangerHeld, script, RunsOver
    <2>2. row' \in [CallIds -> RowValues]
        BY <1>5 DEF Expires, StrangerHeld, Typed, RowValues, Statuses, Resolutions
    <2> QED BY <1>5, <2>1, <2>2 DEF Expires, StrangerHeld, Typed
<1>6. CASE Restart
    <2>1. UNCHANGED script /\ UNCHANGED RunsOver
        BY <1>6 DEF Restart, script, RunsOver
    <2>2. row' \in [CallIds -> RowValues]
        BY <1>6 DEF Restart, Typed, RowValues, Statuses, Resolutions
    <2>3. restarts' \in 0 .. MaxFaults
        BY <1>6, FaultFacts DEF Restart
    <2>4. /\ place' \in [Missions -> Places]
          /\ log' = log
        BY <1>6 DEF Restart, Typed, Places
    <2> QED BY <1>6, <2>1, <2>2, <2>3, <2>4 DEF Restart, Typed
<1>7. ASSUME NEW m \in Missions, MissionRuns(m) PROVE Typed'
    <2>1. CASE Answered(m)
        BY <1>1, <2>1 DEF Answered
    <2>2. CASE Decided(m)
        <3>1. CASE row[<<m, holds[m]>>] \in Refused
            <4>1. Result(m, TRUE)
                BY <2>2, <3>1 DEF Decided, Result, Tell
            <4> QED BY <1>1, <4>1
        <3>2. CASE row[<<m, holds[m]>>] \notin Refused
            <4>1. Result(m, FALSE)
                BY <2>2, <3>2 DEF Decided, Result, Tell
            <4> QED BY <1>1, <4>1
        <3> QED BY <3>1, <3>2
    <2> QED BY <1>2, <1>3, <1>4, <1>7, <2>1, <2>2 DEF MissionRuns, GivesUp
<1> QED BY <1>4, <1>5, <1>6, <1>7

LEMMA PollerTyped ==
    ASSUME Typed, StageInv, PollerRuns
    PROVE  Typed'
<1> USE DEF storeVars, missionVars, deciderVars, scriptVars, faultVars
<1>1. CASE Polls \/ Sleeps
    <2>1. UNCHANGED script /\ UNCHANGED RunsOver
        BY <1>1 DEF Polls, Sleeps, script, RunsOver
    <2> QED BY <1>1, <2>1 DEF Polls, Sleeps, Typed, Doings
<1>2. ASSUME NEW c \in CallIds, Decides(c) PROVE Typed'
    <2>1. UNCHANGED script /\ UNCHANGED RunsOver
        BY <1>2 DEF Decides, script, RunsOver
    <2>2. [call |-> c, verdict |-> Verdict(c), run |-> run] \in Posts
        BY SettingsFacts DEF Posts, Verdict, Verdicts
    <2>3. MarkedBefore(c) \subseteq {Coder, Comply} \cup CallIds
        BY MarkTyped DEF MarkedBefore, Typed
    <2> QED BY <1>2, <2>1, <2>2, <2>3 DEF Decides, Typed, Doings
<1>3. CASE PostReturns
    <2>1. UNCHANGED script /\ UNCHANGED RunsOver
        BY <1>3 DEF PostReturns, script, RunsOver
    <2>2. post.call \in CallIds
        BY <1>3 DEF PostReturns, StageInv, Posts
    <2>3. marked' \subseteq {Coder, Comply} \cup CallIds /\ denials' \in Nat
        BY <1>3, <2>2, MarkTyped DEF PostReturns, Typed
    <2> QED BY <1>3, <2>1, <2>3 DEF PostReturns, Typed, Doings
<1>4. CASE DiesOfAnswer
    <2>1. UNCHANGED script /\ UNCHANGED RunsOver
        BY <1>4 DEF DiesOfAnswer, script, RunsOver
    <2> QED BY <1>4, <2>1 DEF DiesOfAnswer, Typed, Doings
<1> QED BY <1>1, <1>2, <1>3, <1>4 DEF PollerRuns

LEMMA HearsTyped ==
    ASSUME Typed, Hears
    PROVE  Typed'
<1> USE DEF storeVars, missionVars, deciderVars, scriptVars, faultVars
<1>1. ASSUME NEW p \in posts, Arrives(p) PROVE Typed'
    <2>1. UNCHANGED script /\ UNCHANGED RunsOver
        BY <1>1 DEF Arrives, script, RunsOver
    <2>2. p \in Posts /\ p.call \in CallIds /\ p.verdict \in Verdicts /\ p.run \in Missions
        BY DEF Typed, Posts
    <2>3. row' \in [CallIds -> RowValues] /\ by' \in [CallIds -> Missions \cup {0}]
        BY <1>1, <2>2 DEF Arrives, Typed, RowValues, Statuses, Resolutions
    <2>4. doing' \in Doings
        BY <1>1 DEF Arrives, Answers, Typed, Doings
    <2> QED BY <1>1, <2>1, <2>3, <2>4 DEF Arrives, Answers, Typed
<1>2. ASSUME NEW p \in posts, ServerErrs(p) PROVE Typed'
    <2>1. UNCHANGED script /\ UNCHANGED RunsOver
        BY <1>2 DEF ServerErrs, script, RunsOver
    <2>2. AgentOf(p.call) \in {Coder, Comply}
        BY CallFacts DEF Typed, Posts
    <2>3. doing' \in Doings
        BY <1>2 DEF ServerErrs, Answers, Typed, Doings
    <2> QED BY <1>2, <2>1, <2>2, <2>3 DEF ServerErrs, Answers, Typed
<1>3. CASE PostFails
    <2>1. UNCHANGED script /\ UNCHANGED RunsOver
        BY <1>3 DEF PostFails, script, RunsOver
    <2>2. lost' \in 0 .. MaxFaults /\ posts' \subseteq posts
        BY <1>3, FaultFacts DEF PostFails, Typed
    <2> QED BY <1>3, <2>1, <2>2 DEF PostFails, Typed, Doings
<1> QED BY <1>1, <1>2, <1>3 DEF Hears

LEMMA ScriptTyped ==
    ASSUME Typed, StageInv, Ends \/ NextRun
    PROVE  Typed'
<1> USE DEF storeVars, missionVars, deciderVars, scriptVars, faultVars
<1>0. run \in Missions /\ run \in Nat /\ setting.runs \in Nat /\ 1 .. setting.runs \subseteq Missions
    BY SettingsFacts
<1>1. CASE Ends
    <2>1. UNCHANGED script /\ stage = "mission" /\ RunsOver = run - 1
        BY <1>1 DEF Ends, script, RunsOver
    <2>2. stage' \in {"paces", "reported", "raised"} /\ RunsOver' = run
        BY <1>1 DEF Ends, RunsOver
    <2>3. /\ Len(results') = IF script = "scenario" THEN RunsOver' ELSE 0
          /\ results' \in Seq(BOOLEAN)
        <3>1. CASE script = "scenario"
            <4>1. results' = Append(results, Passed(run)) /\ Passed(run) \in BOOLEAN
                BY <1>1, <3>1 DEF Ends, Passed
            <4> QED BY <1>0, <2>1, <2>2, <3>1, <4>1 DEF Typed
        <3>2. CASE script # "scenario"
            BY <1>1, <3>2 DEF Ends, Typed
        <3> QED BY <3>1, <3>2
    <2>4. log' \in [Missions -> {"empty", "looked", "denied", "recovered", "failed"}]
        BY <1>1 DEF Ends, Typed
    <2> QED BY <1>1, <2>1, <2>2, <2>3, <2>4 DEF Ends, Typed, Doings
<1>2. CASE NextRun
    <2>1. UNCHANGED script /\ RunsOver' = RunsOver /\ run + 1 \in 1 .. setting.runs
        BY <1>0, <1>2 DEF NextRun, script, RunsOver, StageInv
    <2>2. place' \in [Missions -> Places]
        BY <1>2 DEF NextRun, Typed, Places
    <2> QED BY <1>2, <2>1, <2>2 DEF NextRun, Typed, Doings
<1> QED BY <1>1, <1>2

LEMMA StepTyped ==
    ASSUME Typed, StageInv, [Next]_vars
    PROVE  Typed'
<1>1. CASE UNCHANGED vars
    <2>1. UNCHANGED script /\ UNCHANGED RunsOver
        BY <1>1 DEF vars, scriptVars, script, RunsOver
    <2> QED BY <1>1, <2>1 DEF vars, storeVars, missionVars, deciderVars, scriptVars, faultVars,
                              Typed
<1> QED BY <1>1, MissionsTyped, PollerTyped, HearsTyped, ScriptTyped DEF Next
-----------------------------------------------------------------------------
(* The script and the rows it knows.                                       *)

LEMMA StageStep ==
    ASSUME Typed, StageInv, [Next]_vars
    PROVE  StageInv'
<1> USE DEF storeVars, missionVars, deciderVars, scriptVars, faultVars
<1>0. run \in Nat /\ setting.runs \in Nat
    BY SettingsFacts
<1>1. CASE UNCHANGED <<setting, stage, run, doing, post, erred>>
    BY <1>1 DEF StageInv, script
<1>2. ASSUME NEW m \in Missions, MissionRuns(m) \/ Breaks(m) PROVE StageInv'
    BY <1>1, <1>2 DEF MissionRuns, GivesUp, Breaks, Answered, Held, Decided, Finishes, Result
<1>3. CASE (\E c \in CallIds : Expires(c)) \/ StrangerHeld \/ Restart \/ UNCHANGED vars
    BY <1>1, <1>3 DEF Expires, StrangerHeld, Restart, vars
<1>4. CASE Polls \/ Sleeps \/ PostReturns \/ DiesOfAnswer
    BY <1>4 DEF Polls, Sleeps, PostReturns, DiesOfAnswer, StageInv, script
<1>5. ASSUME NEW c \in CallIds, Decides(c) PROVE StageInv'
    <2>1. [call |-> c, verdict |-> Verdict(c), run |-> run] \in Posts
        BY SettingsFacts DEF Posts, Verdict, Verdicts
    <2> QED BY <1>5, <2>1 DEF Decides, StageInv, script
<1>6. CASE Hears
    <2>1. UNCHANGED <<setting, stage, run, post>>
        BY <1>6 DEF Hears, Arrives, ServerErrs, Answers, PostFails
    <2>2. \/ doing' = doing
          \/ doing = "waits" /\ doing' = "answered"
          \/ doing = "waits" /\ doing' = "erred" /\ erred' # {}
          \/ doing \in {"waits", "answered", "erred"} /\ doing' \in {"decides", "dead"}
        BY <1>6 DEF Hears, Arrives, ServerErrs, Answers, PostFails
    <2>3. erred \subseteq erred'
        BY <1>6 DEF Hears, Arrives, ServerErrs, PostFails
    <2> QED BY <2>1, <2>2, <2>3 DEF StageInv, script
<1>7. CASE Ends
    BY <1>0, <1>7 DEF Ends, StageInv, script, MoreRuns, Typed
<1>8. CASE NextRun
    BY <1>8 DEF NextRun, StageInv, script
<1> QED BY <1>2, <1>3, <1>4, <1>5, <1>6, <1>7, <1>8 DEF Next, PollerRuns

\* A row that is decided stays, with who decided it, and none goes away.
LEMMA RowsAdvance ==
    ASSUME Typed, RowsInv, [Next]_vars, NEW c \in CallIds
    PROVE  /\ row[c] # NoRow => row'[c] # NoRow
           /\ row[c] \in Terminal => row'[c] = row[c] /\ by'[c] = by[c]
           /\ row'[c] # row[c] => row'[c] # NoRow
<1> USE DEF storeVars, missionVars, deciderVars, scriptVars, faultVars
<1>0. row \in [CallIds -> RowValues] /\ by \in [CallIds -> Missions \cup {0}]
    BY DEF Typed
<1>1. CASE UNCHANGED <<row, by>>
    BY <1>1
<1>2. ASSUME NEW m \in Missions, Held(m)
      PROVE  /\ row[c] # NoRow => row'[c] # NoRow
             /\ row[c] \in Terminal => row'[c] = row[c] /\ by'[c] = by[c]
             /\ row'[c] # row[c] => row'[c] # NoRow
    <2>1. holds' = [holds EXCEPT ![m] = holds[m] + 1] /\ holds[m] \in Nat /\ holds[m] < setting.holds
        BY <1>2, SettingsFacts DEF Held, Typed
    <2>2. holds'[m] = holds[m] + 1
        BY <2>1 DEF Typed
    <2> DEFINE d == <<m, holds[m] + 1>>
    <2>3. d \in CallIds /\ d[1] = m /\ d[2] = holds[m] + 1
        BY <2>1, SettingsFacts
    <2>4. row[d] = NoRow
        BY <2>1, <2>3 DEF RowsInv
    <2>5. row' = [row EXCEPT ![d] = "PENDING"] /\ by' = by
        BY <1>2, <2>2 DEF Held
    <2> HIDE DEF d
    <2> QED BY <1>0, <2>3, <2>4, <2>5 DEF NoRow, Terminal, Statuses, Resolutions, Verdicts
<1>3. ASSUME NEW m \in Missions, MissionRuns(m) \/ Breaks(m), ~Held(m)
      PROVE  UNCHANGED <<row, by>>
    BY <1>3 DEF MissionRuns, GivesUp, Breaks, Answered, Decided, Finishes, Result
<1>4. CASE (\E d \in CallIds : Expires(d)) \/ StrangerHeld \/ Restart
    <2>1. by' = by
        BY <1>4 DEF Expires, StrangerHeld, Restart
    <2>2. \/ row'[c] = row[c]
          \/ row[c] \in {"PENDING", NoRow} /\ row'[c] \in {"PENDING", "EXPIRED"}
        BY <1>0, <1>4 DEF Expires, StrangerHeld, Restart
    <2> QED BY <2>1, <2>2 DEF NoRow, Terminal, Statuses, Resolutions, Verdicts
<1>5. CASE PollerRuns \/ Ends \/ NextRun \/ UNCHANGED vars
    BY <1>1, <1>5 DEF PollerRuns, Polls, Decides, Sleeps, PostReturns, DiesOfAnswer, Ends,
                      NextRun, vars
<1>6. ASSUME NEW p \in posts, Arrives(p)
      PROVE  /\ row[c] # NoRow => row'[c] # NoRow
             /\ row[c] \in Terminal => row'[c] = row[c] /\ by'[c] = by[c]
             /\ row'[c] # row[c] => row'[c] # NoRow
    <2>1. p.verdict \in Verdicts /\ p.call \in CallIds
        BY DEF Typed, Posts
    <2> QED BY <1>0, <1>6, <2>1 DEF Arrives, NoRow, Terminal, Statuses, Resolutions, Verdicts
<1>7. CASE (\E p \in posts : ServerErrs(p)) \/ PostFails
    BY <1>1, <1>7 DEF ServerErrs, PostFails
<1> QED BY <1>1, <1>2, <1>3, <1>4, <1>5, <1>6, <1>7 DEF Next, Hears

\* Every row is of a hold.
LEMMA HoldsOnly ==
    ASSUME Typed, RowsInv, [Next]_vars, NEW c \in CallIds
    PROVE  row'[c] # "AUTO_ALLOWED"
<1> USE DEF storeVars, missionVars, deciderVars, scriptVars, faultVars
<1>0. row \in [CallIds -> RowValues] /\ row[c] # "AUTO_ALLOWED"
    BY DEF Typed, RowsInv
<1>1. ASSUME NEW m \in Missions, MissionRuns(m) \/ Breaks(m) PROVE row'[c] # "AUTO_ALLOWED"
    BY <1>0, <1>1 DEF MissionRuns, GivesUp, Breaks, Answered, Held, Decided, Finishes, Result
<1>2. CASE (\E d \in CallIds : Expires(d)) \/ StrangerHeld \/ Restart \/ UNCHANGED vars
    BY <1>0, <1>2 DEF Expires, StrangerHeld, Restart, vars
<1>3. CASE PollerRuns \/ Ends \/ NextRun
    BY <1>0, <1>3 DEF PollerRuns, Polls, Decides, Sleeps, PostReturns, DiesOfAnswer, Ends, NextRun
<1>4. ASSUME NEW p \in posts, Arrives(p) PROVE row'[c] # "AUTO_ALLOWED"
    <2>1. p.verdict \in Verdicts
        BY DEF Typed, Posts
    <2> QED BY <1>0, <1>4, <2>1 DEF Arrives, Verdicts
<1>5. CASE (\E p \in posts : ServerErrs(p)) \/ PostFails
    BY <1>0, <1>5 DEF ServerErrs, PostFails
<1> QED BY <1>1, <1>2, <1>3, <1>4, <1>5 DEF Next, Hears

\* A refusal is a decision.
LEMMA RefusedIsDecided == Refused \subseteq Terminal
BY DEF Refused, Terminal, Statuses, Resolutions, Verdicts

LEMMA RowsStep ==
    ASSUME Typed, StageInv, RowsInv, [Next]_vars
    PROVE  RowsInv'
<1> USE DEF storeVars, missionVars, deciderVars, scriptVars, faultVars
<1>0. /\ row \in [CallIds -> RowValues] /\ posts \subseteq Posts /\ seen \subseteq CallIds
      /\ \A p \in posts : p.call \in CallIds
      /\ doing \in {"waits", "answered", "erred"} => post.call \in CallIds
    BY DEF Typed, StageInv, Posts
<1>1. \A c \in CallIds : (row[c] # NoRow => row'[c] # NoRow) /\ row'[c] # "AUTO_ALLOWED"
    BY RowsAdvance, HoldsOnly
<1>2. ASSUME seen' \subseteq seen, posts' \subseteq posts,
             doing' \in {"waits", "answered", "erred"}
                => doing \in {"waits", "answered", "erred"} /\ post' = post
      PROVE  /\ \A c \in seen' : row'[c] # NoRow
             /\ \A p \in posts' : row'[p.call] # NoRow
             /\ doing' \in {"waits", "answered", "erred"} => row'[post'.call] # NoRow
    BY <1>0, <1>1, <1>2 DEF RowsInv
<1>3. ASSUME holds' = holds, \A c \in CallIds : row'[c] # row[c] => row[c] # NoRow \/ c[1] \notin Missions
      PROVE  \A c \in CallIds : c[1] \in Missions /\ holds'[c[1]] < c[2] => row'[c] = NoRow
    BY <1>3 DEF RowsInv
<1>4. ASSUME NEW m \in Missions, Held(m) PROVE RowsInv'
    <2>1. /\ holds' = [holds EXCEPT ![m] = holds[m] + 1] /\ holds \in [Missions -> Nat]
          /\ UNCHANGED <<seen, posts, doing, post>>
        BY <1>4, SettingsFacts DEF Held, Typed
    <2>2. holds'[m] = holds[m] + 1 /\ holds[m] \in Nat
        BY <2>1
    <2>3. row' = [row EXCEPT ![<<m, holds[m] + 1>>] = "PENDING"]
        BY <1>4, <2>2 DEF Held
    <2>4. ASSUME NEW c \in CallIds, c[1] \in Missions, holds'[c[1]] < c[2] PROVE row'[c] = NoRow
        <3>1. c[2] \in Nat
            BY CallFacts
        <3>2. holds[c[1]] < c[2] /\ c # <<m, holds[m] + 1>>
            BY <2>1, <2>2, <2>4, <3>1
        <3> QED BY <1>1, <1>0, <2>3, <2>4, <3>2 DEF RowsInv
    <2> QED BY <1>1, <1>2, <2>1, <2>4 DEF RowsInv
<1>5. ASSUME NEW m \in Missions, MissionRuns(m) \/ Breaks(m), ~Held(m) PROVE RowsInv'
    <2>1. UNCHANGED <<row, holds, seen, posts, doing, post>>
        BY <1>5 DEF MissionRuns, GivesUp, Breaks, Answered, Decided, Finishes, Result
    <2> QED BY <1>1, <2>1 DEF RowsInv
<1>6. CASE (\E d \in CallIds : Expires(d)) \/ StrangerHeld \/ Restart
    <2>1. UNCHANGED <<holds, seen, doing, post>> /\ posts' \subseteq posts
        BY <1>6 DEF Expires, StrangerHeld, Restart
    <2>2. \A c \in CallIds : row'[c] # row[c] => row[c] # NoRow \/ c[1] \notin Missions
        <3>1. <<0, 1>>[1] = 0 /\ 0 \notin Missions
            BY SettingsFacts
        <3> QED BY <1>0, <1>6, <3>1 DEF Expires, StrangerHeld, Restart, NoRow
    <2> QED BY <1>1, <1>2, <1>3, <2>1, <2>2 DEF RowsInv
<1>7. CASE Polls
    <2>1. UNCHANGED <<row, holds, posts>> /\ doing' = "decides" /\ \A c \in seen' : row[c] # NoRow
        BY <1>7 DEF Polls, NoRow
    <2> QED BY <1>1, <2>1 DEF RowsInv
<1>8. CASE Sleeps \/ PostReturns \/ DiesOfAnswer \/ Ends \/ NextRun \/ UNCHANGED vars
    <2>1. UNCHANGED <<row, holds, posts>> /\ seen' \subseteq seen
          /\ (doing' \in {"waits", "answered", "erred"}
                => doing \in {"waits", "answered", "erred"} /\ post' = post)
        BY <1>8 DEF Sleeps, PostReturns, DiesOfAnswer, Ends, NextRun, vars
    <2> QED BY <1>1, <1>2, <1>3, <2>1 DEF RowsInv
<1>9. ASSUME NEW c \in CallIds, Decides(c) PROVE RowsInv'
    <2>1. UNCHANGED <<row, holds>> /\ seen' \subseteq seen /\ row[c] # NoRow
        BY <1>9 DEF Decides, RowsInv
    <2>2. CASE UNCHANGED <<posts, doing, post>>
        BY <1>2, <1>3, <2>1, <2>2 DEF RowsInv
    <2>3. CASE ~UNCHANGED <<posts, doing, post>>
        <3>1. posts' = posts \cup {post'} /\ post'.call = c
            BY <1>9, <2>3 DEF Decides
        <3> QED BY <1>1, <2>1, <3>1 DEF RowsInv
    <2> QED BY <2>2, <2>3
<1>10. CASE Hears
    <2>1. UNCHANGED <<holds, seen, post>> /\ posts' \subseteq posts
        BY <1>10 DEF Hears, Arrives, ServerErrs, PostFails, Answers
    <2>2. doing' \in {"waits", "answered", "erred"} => doing \in {"waits", "answered", "erred"}
        BY <1>10 DEF Hears, Arrives, ServerErrs, PostFails, Answers
    <2>3. \A c \in CallIds : row'[c] # row[c] => row[c] # NoRow
        BY <1>0, <1>10 DEF Hears, Arrives, ServerErrs, PostFails, NoRow
    <2> QED BY <1>1, <1>2, <1>3, <2>1, <2>2, <2>3 DEF RowsInv
<1> QED BY <1>4, <1>5, <1>6, <1>7, <1>8, <1>9, <1>10 DEF Next, PollerRuns
-----------------------------------------------------------------------------
(* What is on its way and waited for by nobody.                            *)

\* What a step does to it: only a POST that fails, and the end of a run, leave one more.
LEMMA AstrayStep ==
    ASSUME StageInv, [Next]_vars
    PROVE  \/ Astray' \subseteq Astray
           \/ /\ Astray' \subseteq Astray \cup {post} /\ doing = "waits"
              /\ lost' = lost + 1 /\ UNCHANGED <<stage, run>>
           \/ Astray' \subseteq Astray \cup {post} /\ Ends
<1> USE DEF storeVars, missionVars, deciderVars, scriptVars, faultVars
<1>1. ASSUME NEW m \in Missions, MissionRuns(m) \/ Breaks(m) PROVE Astray' = Astray
    BY <1>1 DEF MissionRuns, GivesUp, Breaks, Answered, Held, Decided, Finishes, Result, Astray
<1>2. CASE (\E c \in CallIds : Expires(c)) \/ StrangerHeld \/ Restart \/ UNCHANGED vars
    BY <1>2 DEF Expires, StrangerHeld, Restart, vars, Astray
<1>3. CASE Polls \/ Sleeps \/ PostReturns \/ DiesOfAnswer \/ NextRun
    BY <1>3 DEF Polls, Sleeps, PostReturns, DiesOfAnswer, NextRun, StageInv, Astray
<1>4. ASSUME NEW c \in CallIds, Decides(c) PROVE Astray' \subseteq Astray
    BY <1>4 DEF Decides, Astray
<1>5. ASSUME NEW p \in posts, Arrives(p) \/ ServerErrs(p) PROVE Astray' \subseteq Astray
    BY <1>5 DEF Arrives, ServerErrs, Answers, Astray
<1>6. CASE PostFails
    BY <1>6 DEF PostFails, Astray
<1>7. CASE Ends
    BY <1>7 DEF Ends, Astray
<1> QED BY <1>1, <1>2, <1>3, <1>4, <1>5, <1>6, <1>7 DEF Next, PollerRuns, Hears

LEMMA PostsStep ==
    ASSUME Typed, StageInv, PostsInv, [Next]_vars
    PROVE  PostsInv'
<1> USE DEF storeVars, missionVars, deciderVars, scriptVars, faultVars
<1>1. Typed' /\ run \in Nat /\ RunsOver \in Nat /\ lost \in Nat
    BY StepTyped, SettingsFacts, RunsOverFacts, FaultFacts
<1>2. lost' \in Nat /\ lost' >= lost /\ RunsOver' \in Nat /\ RunsOver' >= RunsOver
      /\ (Ends => RunsOver' = RunsOver + 1)
    <2>1. lost' \in {lost, lost + 1}
        BY DEF Next, vars, MissionRuns, GivesUp, Breaks, Answered, Held, Decided, Finishes,
               Result, Expires, StrangerHeld, Restart, PollerRuns, Polls, Decides, Sleeps,
               PostReturns, DiesOfAnswer, Hears, Arrives, ServerErrs, PostFails, Ends, NextRun
    <2>2. \/ UNCHANGED <<stage, run>>
          \/ Ends
          \/ NextRun
        BY DEF Next, vars, MissionRuns, GivesUp, Breaks, Answered, Held, Decided, Finishes,
               Result, Expires, StrangerHeld, Restart, PollerRuns, Polls, Decides, Sleeps,
               PostReturns, DiesOfAnswer, Hears, Arrives, ServerErrs, PostFails
    <2>3. Ends => RunsOver' = RunsOver + 1
        BY <1>1 DEF Ends, RunsOver
    <2>4. NextRun => RunsOver' = RunsOver
        BY <1>1 DEF NextRun, RunsOver
    <2>5. UNCHANGED <<stage, run>> => RunsOver' = RunsOver
        BY DEF RunsOver
    <2> QED BY <1>1, <2>1, <2>2, <2>3, <2>4, <2>5
<1>3. IsFiniteSet(posts')
    <2>1. posts' \subseteq posts \/ \E p : posts' = posts \cup {p}
        BY DEF Next, vars, MissionRuns, GivesUp, Breaks, Answered, Held, Decided, Finishes,
               Result, Expires, StrangerHeld, Restart, PollerRuns, Polls, Decides, Sleeps,
               PostReturns, DiesOfAnswer, Hears, Arrives, ServerErrs, PostFails, Ends, NextRun
    <2>2. IsFiniteSet(posts)
        BY DEF PostsInv
    <2>3. ASSUME NEW p, posts' = posts \cup {p} PROVE IsFiniteSet(posts')
        BY <2>2, <2>3, FS_AddElement
    <2>4. ASSUME posts' \subseteq posts PROVE IsFiniteSet(posts')
        BY <2>2, <2>4, FS_Subset
    <2> QED BY <2>1, <2>3, <2>4
<1>4. IsFiniteSet(Astray) /\ Cardinality(Astray) \in Nat /\ Cardinality(Astray) <= lost + RunsOver
    <2>1. Astray \subseteq posts
        BY DEF Astray
    <2> QED BY <2>1, FS_Subset, FS_CardinalityType DEF PostsInv
<1>5. ASSUME Astray' \subseteq Astray PROVE Cardinality(Astray') <= Cardinality(Astray)
    BY <1>4, <1>5, FS_Subset
<1>6. ASSUME Astray' \subseteq Astray \cup {post}
      PROVE  Cardinality(Astray') <= Cardinality(Astray) + 1
    <2>1. IsFiniteSet(Astray \cup {post}) /\ Cardinality(Astray \cup {post}) <= Cardinality(Astray) + 1
        BY <1>4, FS_AddElement
    <2>2. Cardinality(Astray') <= Cardinality(Astray \cup {post}) /\ Cardinality(Astray') \in Nat
        BY <1>6, <2>1, FS_Subset, FS_CardinalityType
    <2>3. Cardinality(Astray \cup {post}) \in Nat
        BY <2>1, FS_CardinalityType
    <2> QED BY <1>4, <2>1, <2>2, <2>3
<1>7. IsFiniteSet(Astray') /\ Cardinality(Astray') \in Nat
    <2>1. Astray' \subseteq posts'
        BY DEF Astray
    <2> QED BY <1>3, <2>1, FS_Subset, FS_CardinalityType
<1>8. Cardinality(Astray') <= lost' + RunsOver'
    <2>1. CASE Astray' \subseteq Astray
        BY <1>1, <1>2, <1>4, <1>5, <1>7, <2>1
    <2>2. CASE Astray' \subseteq Astray \cup {post} /\ lost' = lost + 1
        BY <1>1, <1>2, <1>4, <1>6, <1>7, <2>2
    <2>3. CASE Astray' \subseteq Astray \cup {post} /\ Ends
        BY <1>1, <1>2, <1>4, <1>6, <1>7, <2>3
    <2> QED BY <2>1, <2>2, <2>3, AstrayStep
<1> QED BY <1>3, <1>8 DEF PostsInv

LEMMA BaseStep == BaseInv /\ [Next]_vars => BaseInv'
BY StepTyped, StageStep, RowsStep, PostsStep DEF BaseInv
-----------------------------------------------------------------------------
\* A hold was refused, of this agent if the script is one that knows its agents.
RefusalFor(a) ==
    \E d \in CallIds : row[d] \in Refused /\ (script = "scenario" => AgentOf(d) = a)

\* A denial that was answered is on a hold that is decided: refused, or approved after
\* a refusal.  So what is marked is refused, but for the flagship script's first
\* denial while it waits for the answer; nothing else is approved.
RefusalInv ==
    erred = {} =>
        /\ \A c \in CallIds : row[c] = "APPROVED" => RefusalFor(AgentOf(c))
        /\ \A p \in posts : p.verdict = "APPROVED" => RefusalFor(AgentOf(p.call))
        /\ doing = "answered" => RefusalFor(AgentOf(post.call))
        /\ script = "scenario" => \A a \in marked : RefusalFor(a)
        /\ script = "flagship" /\ marked # {} =>
                \/ RefusalFor(Coder)
                \/ doing = "waits" /\ post.verdict = "DENIED"
                \/ doing \in {"dead", "off"}
        /\ denials > 0 => RefusalFor(Coder) \/ RefusalFor(Comply)
        /\ \A i \in DOMAIN results : results[i] => \E c \in CallIds : row[c] \in Refused

\* A refusal stays one.
LEMMA RefusalStays ==
    ASSUME Typed, RowsInv, [Next]_vars, NEW a, RefusalFor(a)
    PROVE  RefusalFor(a)'
<1>1. setting' = setting
    BY DEF Next, vars, MissionRuns, GivesUp, Breaks, Answered, Held, Decided, Finishes, Result,
           Expires, StrangerHeld, Restart, PollerRuns, Polls, Decides, Sleeps, PostReturns,
           DiesOfAnswer, Hears, Arrives, ServerErrs, PostFails, Ends, NextRun, scriptVars
<1>2. PICK d \in CallIds : row[d] \in Refused /\ (script = "scenario" => AgentOf(d) = a)
    BY DEF RefusalFor
<1>3. row'[d] = row[d]
    BY <1>2, RowsAdvance, RefusedIsDecided
<1> QED BY <1>1, <1>2, <1>3, AgentsStay DEF RefusalFor

\* A step that approves nothing, and neither marks nor answers the script.
LEMMA RefusalQuiet ==
    ASSUME Typed, RowsInv, RefusalInv, [Next]_vars, setting' = setting,
           \A c \in CallIds : row'[c] = "APPROVED" => row[c] = "APPROVED",
           posts' \subseteq posts,
           doing' = "answered" => doing = "answered" /\ post' = post,
           marked' \subseteq marked,
           \/ script # "flagship"
           \/ doing' = doing /\ post' = post
           \/ doing' \in {"dead", "off"}
           \/ doing \notin {"waits", "dead", "off"},
           denials' > 0 => denials > 0,
           \A i \in DOMAIN results' : results'[i] =>
                (i \in DOMAIN results /\ results[i]) \/ denials > 0,
           erred' = {} => erred = {}
    PROVE  RefusalInv'
<1> SUFFICES ASSUME erred' = {} PROVE RefusalInv'
    BY DEF RefusalInv
<1>1. /\ \A c \in CallIds : row[c] = "APPROVED" => RefusalFor(AgentOf(c))
      /\ \A p \in posts : p.verdict = "APPROVED" => RefusalFor(AgentOf(p.call))
      /\ doing = "answered" => RefusalFor(AgentOf(post.call))
      /\ script = "scenario" => \A a \in marked : RefusalFor(a)
      /\ script = "flagship" /\ marked # {} =>
            \/ RefusalFor(Coder)
            \/ doing = "waits" /\ post.verdict = "DENIED"
            \/ doing \in {"dead", "off"}
      /\ denials > 0 => RefusalFor(Coder) \/ RefusalFor(Comply)
      /\ \A i \in DOMAIN results : results[i] => \E c \in CallIds : row[c] \in Refused
    BY DEF RefusalInv
<1>2. script' = script /\ \A c : AgentOf(c)' = AgentOf(c)
    BY AgentsStay
<1>3. \A a : RefusalFor(a) => RefusalFor(a)'
    BY RefusalStays
<1>4. \A a : RefusalFor(a) => \E c \in CallIds : row'[c] \in Refused
    BY <1>3 DEF RefusalFor
<1>5. \A c \in CallIds : row[c] \in Refused => row'[c] = row[c]
    BY RowsAdvance, RefusedIsDecided
<1>6. ASSUME NEW c \in CallIds, row'[c] = "APPROVED" PROVE RefusalFor(AgentOf(c))'
    BY <1>1, <1>2, <1>3, <1>6 DEF RefusalFor
<1>7. ASSUME NEW p \in posts', p.verdict = "APPROVED" PROVE RefusalFor(AgentOf(p.call))'
    BY <1>1, <1>2, <1>3, <1>7 DEF RefusalFor
<1>8. doing' = "answered" => RefusalFor(AgentOf(post.call))'
    BY <1>1, <1>2, <1>3 DEF RefusalFor
<1>9. script' = "scenario" => \A a \in marked' : RefusalFor(a)'
    BY <1>1, <1>2, <1>3
<1>10. script' = "flagship" /\ marked' # {} =>
            \/ RefusalFor(Coder)'
            \/ doing' = "waits" /\ post'.verdict = "DENIED"
            \/ doing' \in {"dead", "off"}
    BY <1>1, <1>2, <1>3
<1>11. denials' > 0 => RefusalFor(Coder)' \/ RefusalFor(Comply)'
    BY <1>1, <1>3
<1>12. \A i \in DOMAIN results' : results'[i] => \E c \in CallIds : row'[c] \in Refused
    BY <1>1, <1>4, <1>5
<1> QED BY <1>6, <1>7, <1>8, <1>9, <1>10, <1>11, <1>12 DEF RefusalInv

LEMMA RefusalStep ==
    ASSUME BaseInv, RefusalInv, [Next]_vars
    PROVE  RefusalInv'
<1> USE DEF storeVars, missionVars, deciderVars, scriptVars, faultVars
<1>0. /\ Typed /\ RowsInv /\ StageInv /\ row \in [CallIds -> RowValues] /\ script \in Scripts
      /\ posts \subseteq Posts /\ denials \in Nat
    BY SettingsFacts DEF BaseInv, Typed
<1>1. ASSUME NEW m \in Missions, MissionRuns(m) \/ Breaks(m) PROVE RefusalInv'
    <2>1. UNCHANGED <<setting, posts, doing, post, marked, denials, results, erred>>
        BY <1>1 DEF MissionRuns, GivesUp, Breaks, Answered, Held, Decided, Finishes, Result
    <2>2. \A c \in CallIds : row'[c] = "APPROVED" => row[c] = "APPROVED"
        BY <1>0, <1>1 DEF MissionRuns, GivesUp, Breaks, Answered, Held, Decided, Finishes, Result
    <2> QED BY <1>0, <2>1, <2>2, RefusalQuiet
<1>2. CASE (\E d \in CallIds : Expires(d)) \/ StrangerHeld \/ Restart \/ UNCHANGED vars
    <2>1. UNCHANGED <<setting, doing, post, marked, denials, results, erred>> /\ posts' \subseteq posts
        BY <1>2 DEF Expires, StrangerHeld, Restart, vars
    <2>2. \A c \in CallIds : row'[c] = "APPROVED" => row[c] = "APPROVED"
        BY <1>0, <1>2 DEF Expires, StrangerHeld, Restart, vars
    <2> QED BY <1>0, <2>1, <2>2, RefusalQuiet
<1>3. CASE Polls \/ Sleeps \/ NextRun \/ PostFails
    <2>1. /\ UNCHANGED <<setting, row, marked, denials, results, erred>> /\ posts' \subseteq posts
          /\ doing' # "answered"
          /\ \/ script # "flagship"
             \/ doing' \in {"dead", "off"}
             \/ doing \notin {"waits", "dead", "off"}
        BY <1>0, <1>3 DEF Polls, Sleeps, NextRun, PostFails, StageInv, Scripts
    <2> QED BY <1>0, <2>1, RefusalQuiet
<1>4. CASE Ends
    <2>1. /\ UNCHANGED <<setting, row, posts, erred>> /\ doing' = "off" /\ marked' = {} /\ denials' = 0
          /\ results' = results \/ results' = Append(results, Passed(run))
        BY <1>4 DEF Ends
    <2>2. results \in Seq(BOOLEAN) /\ Passed(run) \in BOOLEAN
        BY <1>0 DEF Typed, Passed
    <2>3. \A i \in DOMAIN results' : results'[i] =>
                (i \in DOMAIN results /\ results[i]) \/ denials > 0
        <3>1. CASE results' = results
            BY <3>1
        <3>2. CASE results' = Append(results, Passed(run))
            <4>1. \A i \in DOMAIN results' : \/ i \in DOMAIN results /\ results'[i] = results[i]
                                          \/ results'[i] = Passed(run)
                BY <2>2, <3>2
            <4> QED BY <4>1 DEF Passed
        <3> QED BY <2>1, <3>1, <3>2
    <2> QED BY <1>0, <2>1, <2>3, RefusalQuiet
<1>5. ASSUME NEW p \in posts, ServerErrs(p) PROVE RefusalInv'
    BY <1>5 DEF ServerErrs, RefusalInv
<1>6. ASSUME NEW p \in posts, Arrives(p), erred = {} PROVE RefusalInv'
    <2>1. p.call \in CallIds /\ p.verdict \in Verdicts
        BY <1>0 DEF Posts
    <2>2. /\ UNCHANGED <<setting, post, marked, denials, results, erred>> /\ posts' \subseteq posts
          /\ doing' = doing \/ (doing = "waits" /\ post = p /\ doing' = "answered")
        BY <1>6 DEF Arrives, Answers
    <2>3. script' = script /\ \A c : AgentOf(c)' = AgentOf(c)
        BY <2>2, AgentsStay
    <2>4. \A a : RefusalFor(a) => RefusalFor(a)'
        BY <1>0, RefusalStays
    <2>5. p.verdict = "APPROVED" => RefusalFor(AgentOf(p.call))
        BY <1>6 DEF RefusalInv
    <2>6. ASSUME NEW c \in CallIds, row'[c] = "APPROVED" PROVE RefusalFor(AgentOf(c))
        <3>1. row[c] = "APPROVED" \/ (c = p.call /\ p.verdict = "APPROVED")
            BY <1>0, <1>6, <2>1, <2>6 DEF Arrives
        <3> QED BY <1>6, <2>5, <3>1 DEF RefusalInv
    <2>7. RefusalFor(AgentOf(p.call))'
        <3>1. row'[p.call] \in {"APPROVED", "DENIED", "EXPIRED"}
            <4>1. row[p.call] \in RowValues /\ row[p.call] # NoRow /\ row[p.call] # "AUTO_ALLOWED"
                BY <1>0, <2>1 DEF RowsInv
            <4> QED BY <1>0, <1>6, <2>1, <4>1
                    DEF Arrives, RowValues, Statuses, Resolutions, Verdicts
        <3>2. CASE row'[p.call] = "APPROVED"
            <4>1. RefusalFor(AgentOf(p.call))
                BY <2>1, <2>6, <3>2
            <4> QED BY <2>3, <2>4, <4>1 DEF RefusalFor
        <3>3. CASE row'[p.call] \in Refused
            BY <2>1, <2>3, <3>3 DEF RefusalFor
        <3> QED BY <3>1, <3>2, <3>3 DEF Refused
    <2>8. ASSUME NEW c \in CallIds, row'[c] = "APPROVED" PROVE RefusalFor(AgentOf(c))'
        <3>1. RefusalFor(AgentOf(c))
            BY <2>6, <2>8
        <3> QED BY <2>3, <2>4, <3>1 DEF RefusalFor
    <2>9. ASSUME NEW q \in posts', q.verdict = "APPROVED" PROVE RefusalFor(AgentOf(q.call))'
        <3>1. RefusalFor(AgentOf(q.call))
            BY <1>6, <2>2, <2>9 DEF RefusalInv
        <3> QED BY <2>3, <2>4, <3>1 DEF RefusalFor
    <2>10. doing' = "answered" => RefusalFor(AgentOf(post.call))'
        <3>1. CASE post = p
            BY <2>2, <2>3, <2>7, <3>1 DEF RefusalFor
        <3>2. CASE post # p /\ doing' = "answered"
            <4>1. RefusalFor(AgentOf(post.call))
                BY <1>6, <2>2, <3>2 DEF RefusalInv
            <4> QED BY <2>2, <2>3, <2>4, <4>1 DEF RefusalFor
        <3> QED BY <3>1, <3>2
    <2>11. script' = "scenario" => \A a \in marked' : RefusalFor(a)'
        BY <1>6, <2>2, <2>3, <2>4 DEF RefusalInv
    <2>12. script' = "flagship" /\ marked' # {} =>
            \/ RefusalFor(Coder)'
            \/ doing' = "waits" /\ post'.verdict = "DENIED"
            \/ doing' \in {"dead", "off"}
        <3>1. CASE doing' = doing
            BY <1>6, <2>2, <2>3, <2>4, <3>1 DEF RefusalInv
        <3>2. CASE post = p /\ doing' = "answered"
            BY <2>3, <2>7 DEF RefusalFor
        <3> QED BY <2>2, <3>1, <3>2
    <2>13. denials' > 0 => RefusalFor(Coder)' \/ RefusalFor(Comply)'
        BY <1>6, <2>2, <2>4 DEF RefusalInv
    <2>14. \A i \in DOMAIN results' : results'[i] => \E c \in CallIds : row'[c] \in Refused
        <3>1. \A c \in CallIds : row[c] \in Refused => row'[c] = row[c]
            BY <1>0, RowsAdvance, RefusedIsDecided
        <3> QED BY <1>6, <2>2, <3>1 DEF RefusalInv
    <2> QED BY <2>8, <2>9, <2>10, <2>11, <2>12, <2>13, <2>14 DEF RefusalInv
<1>7. ASSUME NEW c \in CallIds, Decides(c), erred = {} PROVE RefusalInv'
    <2>1. UNCHANGED <<setting, row, denials, results, erred>> /\ doing = "decides"
        BY <1>7 DEF Decides
    <2>2. CASE UNCHANGED <<posts, doing, post, marked>>
        BY <1>0, <2>1, <2>2, RefusalQuiet
    <2>3. CASE ~UNCHANGED <<posts, doing, post, marked>>
        <3>1. /\ post' = [call |-> c, verdict |-> Verdict(c), run |-> run]
              /\ posts' = posts \cup {post'} /\ marked' = MarkedBefore(c) /\ doing' = "waits"
            BY <1>7, <2>3 DEF Decides
        <3>2. post'.call = c /\ post'.verdict = Verdict(c) /\ Verdict(c) \in Verdicts
            BY <3>1 DEF Verdict, Verdicts
        <3>3. script' = script /\ \A d : AgentOf(d)' = AgentOf(d)
            BY <2>1, AgentsStay
        <3>4. \A a : RefusalFor(a)' <=> RefusalFor(a)
            BY <2>1, <3>3 DEF RefusalFor
        <3>5. Verdict(c) = "APPROVED" => RefusalFor(AgentOf(c))
            <4>1. ASSUME Verdict(c) = "APPROVED" PROVE script # "queue" /\ Mark(c) \in marked
                BY <4>1 DEF Verdict
            <4>2. script = "scenario" => Mark(c) = AgentOf(c)
                BY DEF Mark
            <4>3. script = "flagship" /\ marked # {} => RefusalFor(Coder)
                BY <1>7, <2>1 DEF RefusalInv
            <4>4. script = "flagship" /\ RefusalFor(Coder) => RefusalFor(AgentOf(c))
                BY DEF RefusalFor
            <4> QED BY <1>0, <1>7, <4>1, <4>2, <4>3, <4>4 DEF RefusalInv, Scripts
        <3>6. ASSUME NEW p \in posts', p.verdict = "APPROVED" PROVE RefusalFor(AgentOf(p.call))'
            <4>1. RefusalFor(AgentOf(p.call))
                BY <1>7, <3>1, <3>2, <3>5, <3>6 DEF RefusalInv
            <4> QED BY <3>3, <3>4, <4>1 DEF RefusalFor
        <3>7. ASSUME NEW d \in CallIds, row'[d] = "APPROVED" PROVE RefusalFor(AgentOf(d))'
            <4>1. RefusalFor(AgentOf(d))
                BY <1>7, <2>1, <3>7 DEF RefusalInv
            <4> QED BY <3>3, <3>4, <4>1 DEF RefusalFor
        <3>8. script' = "scenario" => \A a \in marked' : RefusalFor(a)'
            BY <1>7, <3>1, <3>3, <3>4 DEF RefusalInv, MarkedBefore
        <3>9. script' = "flagship" /\ marked' # {} =>
                \/ RefusalFor(Coder)'
                \/ doing' = "waits" /\ post'.verdict = "DENIED"
            <4>1. script = "flagship" /\ Verdict(c) = "APPROVED" => RefusalFor(Coder)
                BY <3>5 DEF RefusalFor
            <4> QED BY <3>1, <3>2, <3>3, <3>4, <4>1 DEF Verdicts
        <3>10. /\ denials' > 0 => RefusalFor(Coder)' \/ RefusalFor(Comply)'
               /\ \A i \in DOMAIN results' : results'[i] => \E d \in CallIds : row'[d] \in Refused
            BY <1>7, <2>1, <3>4 DEF RefusalInv
        <3> QED BY <3>1, <3>6, <3>7, <3>8, <3>9, <3>10 DEF RefusalInv
    <2> QED BY <2>2, <2>3
<1>8. CASE DiesOfAnswer
    BY <1>0, <1>8 DEF DiesOfAnswer, StageInv, RefusalInv
<1>9. CASE PostReturns /\ erred = {}
    <2>1. /\ UNCHANGED <<setting, row, posts, post, results, erred>> /\ doing = "answered"
          /\ doing' = "decides" /\ RefusalFor(AgentOf(post.call))
        BY <1>0, <1>9 DEF PostReturns, StageInv, RefusalInv
    <2>2. CASE UNCHANGED <<marked, denials>>
        BY <1>0, <2>1, <2>2, RefusalQuiet
    <2>3. CASE ~UNCHANGED <<marked, denials>>
        <3>1. script = "scenario" /\ marked' = marked \cup {Mark(post.call)}
            BY <1>9, <2>3 DEF PostReturns
        <3>2. script' = script /\ \A d : AgentOf(d)' = AgentOf(d)
            BY <2>1, AgentsStay
        <3>3. \A a : RefusalFor(a)' <=> RefusalFor(a)
            BY <2>1, <3>2 DEF RefusalFor
        <3>4. Mark(post.call) = AgentOf(post.call)
            BY <3>1 DEF Mark
        <3>5. AgentOf(post.call) \in {Coder, Comply}
            <4>1. post.call \in CallIds
                BY <1>0, <2>1 DEF StageInv, Posts
            <4> QED BY <1>0, <4>1, CallFacts
        <3>6. RefusalFor(Coder)' \/ RefusalFor(Comply)'
            BY <2>1, <3>3, <3>5
        <3>7. script' = "scenario" => \A a \in marked' : RefusalFor(a)'
            BY <1>9, <2>1, <3>1, <3>3, <3>4 DEF RefusalInv
        <3>8. ASSUME NEW d \in CallIds, row'[d] = "APPROVED" PROVE RefusalFor(AgentOf(d))'
            <4>1. RefusalFor(AgentOf(d))
                BY <1>9, <2>1, <3>8 DEF RefusalInv
            <4> QED BY <3>2, <3>3, <4>1 DEF RefusalFor
        <3>9. ASSUME NEW p \in posts', p.verdict = "APPROVED" PROVE RefusalFor(AgentOf(p.call))'
            <4>1. RefusalFor(AgentOf(p.call))
                BY <1>9, <2>1, <3>9 DEF RefusalInv
            <4> QED BY <3>2, <3>3, <4>1 DEF RefusalFor
        <3>10. \A i \in DOMAIN results' : results'[i] => \E d \in CallIds : row'[d] \in Refused
            BY <1>9, <2>1 DEF RefusalInv
        <3> QED BY <2>1, <3>1, <3>2, <3>6, <3>7, <3>8, <3>9, <3>10 DEF RefusalInv
    <2> QED BY <2>2, <2>3
<1>10. erred' = {} => erred = {}
    BY DEF Next, vars, MissionRuns, GivesUp, Breaks, Answered, Held, Decided, Finishes, Result,
           Expires, StrangerHeld, Restart, PollerRuns, Polls, Decides, Sleeps, PostReturns,
           DiesOfAnswer, Hears, Arrives, ServerErrs, PostFails, Ends, NextRun
<1>11. erred' # {} => RefusalInv'
    BY DEF RefusalInv
<1> QED BY <1>1, <1>2, <1>3, <1>4, <1>5, <1>6, <1>7, <1>9, <1>10, <1>11, <1>8
        DEF Next, PollerRuns, Hears
-----------------------------------------------------------------------------
\* What the script keeps of a denial of agent a.
MarkOf(a) == IF script = "scenario" THEN a ELSE Coder

\* The holds of agent a that run i has denied, or that a POST of its may still deny,
\* though nobody waits for it.
DeniedBy(i, a) ==
    {c \in CallIds :
        /\ AgentOf(c) = a
        /\ \/ row[c] = "DENIED" /\ by[c] = i
           \/ \E p \in Astray : p.call = c /\ p.verdict = "DENIED" /\ p.run = i}

\* A denial is on its way, and waited for.
Denying(a) == doing = "waits" /\ post.verdict = "DENIED" /\ AgentOf(post.call) = a

\* The run has denied agent a and has its answer.
HasDenied(a) ==
    \/ doing = "answered" /\ post.verdict = "DENIED" /\ AgentOf(post.call) = a
    \/ MarkOf(a) \in marked /\ ~Denying(a)

\* What run i may have denied of agent a beside the answers that were lost.
Allowance(i, a) == IF i # run \/ stage # "mission" \/ HasDenied(a) THEN 1 ELSE 0

\* One denial of an agent in a run, and one for each answer that was lost.
OnceInv ==
    /\ \A p \in posts : p.run <= run
    /\ \A c \in CallIds : by[c] <= run
    /\ script = "flagship" /\ doing \in {"waits", "answered", "erred"} => Coder \in marked
    /\ script # "queue" => \A i \in Missions, a \in {Coder, Comply} :
            /\ IsFiniteSet(DeniedBy(i, a))
            /\ Cardinality(DeniedBy(i, a)) <= lost + Allowance(i, a)

\* The first three parts.
LEMMA OwnersStep ==
    ASSUME BaseInv, OnceInv, [Next]_vars
    PROVE  /\ \A p \in posts' : p.run <= run'
           /\ \A c \in CallIds : by'[c] <= run'
           /\ script' = "flagship" /\ doing' \in {"waits", "answered", "erred"} => Coder \in marked'
<1> USE DEF storeVars, missionVars, deciderVars, scriptVars, faultVars
<1>0. /\ Typed /\ run \in Nat /\ posts \subseteq Posts /\ Missions \subseteq Nat
      /\ by \in [CallIds -> Missions \cup {0}] /\ \A p \in posts : p.run \in Nat
    <2>1. Typed /\ run \in Nat /\ Missions \subseteq Nat \ {0} /\ posts \subseteq Posts
          /\ by \in [CallIds -> Missions \cup {0}]
        BY SettingsFacts DEF BaseInv, Typed
    <2> QED BY <2>1 DEF Posts
<1>1. setting' = setting /\ run' \in {run, run + 1} /\ script' = script
    BY DEF Next, vars, MissionRuns, GivesUp, Breaks, Answered, Held, Decided, Finishes, Result,
           Expires, StrangerHeld, Restart, PollerRuns, Polls, Decides, Sleeps, PostReturns,
           DiesOfAnswer, Hears, Arrives, ServerErrs, PostFails, Ends, NextRun, script
<1>2. ASSUME NEW p \in posts' PROVE p.run <= run'
    <2>1. p \in posts \/ p.run = run
        <3>1. ASSUME NEW c \in CallIds, Decides(c) PROVE p \in posts \/ p.run = run
            <4>1. CASE posts' = posts
                BY <1>2, <4>1
            <4>2. CASE posts' # posts
                <5>1. post' = [call |-> c, verdict |-> Verdict(c), run |-> run]
                      /\ posts' = posts \cup {post'}
                    BY <3>1, <4>2 DEF Decides
                <5>2. post'.run = run
                    BY <5>1
                <5> QED BY <1>2, <5>1, <5>2
            <4> QED BY <4>1, <4>2
        <3>2. (\E c \in CallIds : Decides(c)) \/ posts' \subseteq posts
            BY DEF Next, vars, MissionRuns, GivesUp, Breaks, Answered, Held, Decided, Finishes,
                   Result, Expires, StrangerHeld, Restart, PollerRuns, Polls, Sleeps, PostReturns,
                   DiesOfAnswer, Hears, Arrives, ServerErrs, PostFails, Ends, NextRun
        <3> QED BY <1>2, <3>1, <3>2
    <2>2. p \in posts => p.run <= run /\ p.run \in Nat
        BY <1>0 DEF OnceInv
    <2> QED BY <1>0, <1>1, <2>1, <2>2
<1>3. ASSUME NEW c \in CallIds PROVE by'[c] <= run'
    <2>1. by' = by \/ \E p \in posts : by' = [by EXCEPT ![p.call] = p.run]
        BY DEF Next, vars, MissionRuns, GivesUp, Breaks, Answered, Held, Decided, Finishes,
               Result, Expires, StrangerHeld, Restart, PollerRuns, Polls, Decides, Sleeps,
               PostReturns, DiesOfAnswer, Hears, Arrives, ServerErrs, PostFails, Ends, NextRun
    <2>2. by'[c] = by[c] \/ \E p \in posts : by'[c] = p.run
        BY <1>0, <2>1
    <2>3. by[c] \in Nat /\ by[c] <= run
        <3>1. by[c] \in Missions \cup {0} /\ by[c] <= run
            BY <1>0 DEF OnceInv
        <3>2. Missions \cup {0} \subseteq Nat
            BY <1>0
        <3> QED BY <3>1, <3>2
    <2>4. \A p \in posts : p.run \in Nat /\ p.run <= run
        BY <1>0 DEF OnceInv
    <2>5. by'[c] \in Nat /\ by'[c] <= run
        BY <2>2, <2>3, <2>4
    <2> QED BY <1>0, <1>1, <2>5
<1>4. script = "flagship" /\ doing' \in {"waits", "answered", "erred"} => Coder \in marked'
    <2>1. ASSUME NEW c \in CallIds, Decides(c), script = "flagship" PROVE Coder \in marked' \/ UNCHANGED <<doing, marked>>
        BY <2>1 DEF Decides, MarkedBefore, Mark
    <2>2. \/ UNCHANGED <<doing, marked>>
          \/ \E c \in CallIds : Decides(c)
          \/ doing' \notin {"waits", "answered", "erred"}
          \/ doing \in {"waits", "answered", "erred"} /\ marked' = marked
        BY DEF Next, vars, MissionRuns, GivesUp, Breaks, Answered, Held, Decided, Finishes,
               Result, Expires, StrangerHeld, Restart, PollerRuns, Polls, Sleeps, PostReturns,
               DiesOfAnswer, Hears, Arrives, Answers, ServerErrs, PostFails, Ends, NextRun
    <2> QED BY <2>1, <2>2 DEF OnceInv
<1> QED BY <1>1, <1>2, <1>3, <1>4

\* What a step adds to the denials of a run: at most the one it waits for.
LEMMA DeniedStep ==
    ASSUME BaseInv, [Next]_vars, NEW i \in Missions, NEW a
    PROVE  \/ DeniedBy(i, a)' \subseteq DeniedBy(i, a)
           \/ /\ DeniedBy(i, a)' \subseteq DeniedBy(i, a) \cup {post.call}
              /\ i = run /\ Denying(a)
              /\ lost' = lost + 1 \/ Ends \/ (doing' = "answered" /\ post' = post /\ lost' = lost)
<1> USE DEF storeVars, missionVars, deciderVars, scriptVars, faultVars
<1>0. /\ Typed /\ RowsInv /\ StageInv /\ row \in [CallIds -> RowValues] /\ posts \subseteq Posts
      /\ by \in [CallIds -> Missions \cup {0}]
    BY DEF BaseInv, Typed
<1>1. setting' = setting
    BY DEF Next, vars, MissionRuns, GivesUp, Breaks, Answered, Held, Decided, Finishes, Result,
           Expires, StrangerHeld, Restart, PollerRuns, Polls, Decides, Sleeps, PostReturns,
           DiesOfAnswer, Hears, Arrives, ServerErrs, PostFails, Ends, NextRun
<1>2. \A c : AgentOf(c)' = AgentOf(c)
    BY <1>1, AgentsStay
<1>3. ASSUME NEW c \in DeniedBy(i, a)', c \notin DeniedBy(i, a)
      PROVE  /\ c = post.call /\ i = run /\ Denying(a)
             /\ lost' = lost + 1 \/ Ends \/ (doing' = "answered" /\ post' = post /\ lost' = lost)
    <2>1. c \in CallIds /\ AgentOf(c) = a
        BY <1>2 DEF DeniedBy
    <2>2. CASE row'[c] = "DENIED" /\ by'[c] = i
        <3>1. row[c] # "DENIED"
            <4>1. row[c] = "DENIED" => by[c] = i
                BY <1>0, <2>1, <2>2, RowsAdvance DEF Terminal, Statuses, Resolutions, Verdicts
            <4> QED BY <1>3, <2>1, <4>1 DEF DeniedBy
        <3>2. \E p \in posts : Arrives(p) /\ p.call = c /\ p.verdict = "DENIED" /\ p.run = i
            <4>1. ASSUME NEW m \in Missions, MissionRuns(m) \/ Breaks(m) PROVE FALSE
                BY <1>0, <2>1, <2>2, <3>1, <4>1
                   DEF MissionRuns, GivesUp, Breaks, Answered, Held, Decided, Finishes, Result
            <4>2. ~((\E d \in CallIds : Expires(d)) \/ StrangerHeld \/ Restart \/ UNCHANGED vars)
                BY <1>0, <2>1, <2>2, <3>1 DEF Expires, StrangerHeld, Restart, vars
            <4>3. ~(PollerRuns \/ Ends \/ NextRun \/ PostFails \/ \E p \in posts : ServerErrs(p))
                BY <2>2, <3>1 DEF PollerRuns, Polls, Decides, Sleeps, PostReturns, DiesOfAnswer,
                                  Ends, NextRun, PostFails, ServerErrs
            <4>4. PICK p \in posts : Arrives(p)
                BY <4>1, <4>2, <4>3 DEF Next, Hears
            <4>5. p.call \in CallIds
                BY <1>0 DEF Posts
            <4>6. row'[c] # row[c]
                BY <2>2, <3>1
            <4>7. row' = [row EXCEPT ![p.call] = p.verdict] /\ by' = [by EXCEPT ![p.call] = p.run]
                BY <4>4, <4>6 DEF Arrives
            <4>8. c = p.call
                BY <1>0, <4>6, <4>7
            <4> QED BY <1>0, <2>1, <2>2, <4>4, <4>7, <4>8
        <3>3. PICK p \in posts : Arrives(p) /\ p.call = c /\ p.verdict = "DENIED" /\ p.run = i
            BY <3>2
        <3>4. p \notin Astray
            BY <1>3, <2>1, <3>3 DEF DeniedBy
        <3>5. doing = "waits" /\ p = post
            BY <3>4 DEF Astray
        <3>6. doing' = "answered" /\ post' = post /\ lost' = lost
            BY <3>3, <3>5 DEF Arrives, Answers
        <3> QED BY <1>0, <2>1, <3>3, <3>5, <3>6 DEF StageInv, Denying
    <2>3. CASE \E p \in Astray' : p.call = c /\ p.verdict = "DENIED" /\ p.run = i
        <3>1. PICK p \in Astray' : p.call = c /\ p.verdict = "DENIED" /\ p.run = i
            BY <2>3
        <3>2. p \notin Astray
            BY <1>3, <2>1, <3>1 DEF DeniedBy
        <3>3. p = post /\ (Ends \/ (doing = "waits" /\ lost' = lost + 1))
            BY <1>0, <3>1, <3>2, AstrayStep
        <3>4. Ends => doing = "waits"
            BY <3>1, <3>2 DEF Ends, Astray
        <3> QED BY <1>0, <2>1, <3>1, <3>3, <3>4 DEF StageInv, Denying
    <2> QED BY <1>3, <2>2, <2>3 DEF DeniedBy
<1>4. CASE DeniedBy(i, a)' \subseteq DeniedBy(i, a)
    BY <1>4
<1>5. CASE ~(DeniedBy(i, a)' \subseteq DeniedBy(i, a))
    <2>1. PICK c \in DeniedBy(i, a)' : c \notin DeniedBy(i, a)
        BY <1>5
    <2>2. DeniedBy(i, a)' \subseteq DeniedBy(i, a) \cup {post.call}
        BY <1>3
    <2> QED BY <1>3, <2>1, <2>2
<1> QED BY <1>4, <1>5

\* Who was denied stays denied, unless an answer is lost; only the next run begins anew.
LEMMA AllowanceStep ==
    ASSUME BaseInv, OnceInv, script # "queue", [Next]_vars,
           NEW i \in Missions, NEW a \in {Coder, Comply}, Allowance(i, a) = 1
    PROVE  \/ Allowance(i, a)' = 1
           \/ lost' = lost + 1
           \/ NextRun /\ i = run + 1
<1> USE DEF storeVars, missionVars, deciderVars, scriptVars, faultVars
<1>0. /\ Typed /\ StageInv /\ run \in Nat /\ i \in Nat /\ script \in Scripts
    BY SettingsFacts DEF BaseInv
<1>1. setting' = setting /\ script' = script
    BY DEF Next, vars, MissionRuns, GivesUp, Breaks, Answered, Held, Decided, Finishes, Result,
           Expires, StrangerHeld, Restart, PollerRuns, Polls, Decides, Sleeps, PostReturns,
           DiesOfAnswer, Hears, Arrives, ServerErrs, PostFails, Ends, NextRun, script
<1>2. MarkOf(a)' = MarkOf(a) /\ \A c : AgentOf(c)' = AgentOf(c)
    BY <1>1, AgentsStay DEF MarkOf
<1>3. CASE NextRun
    <2>1. run' = run + 1 /\ (i = run + 1 \/ i # run')
        BY <1>3 DEF NextRun
    <2> QED BY <1>3, <2>1 DEF Allowance
<1>4. CASE Ends
    BY <1>4 DEF Ends, Allowance
<1>5. CASE ~NextRun /\ ~Ends
    <2>1. UNCHANGED <<run, stage>>
        BY <1>5 DEF Next, vars, MissionRuns, GivesUp, Breaks, Answered, Held, Decided, Finishes,
                    Result, Expires, StrangerHeld, Restart, PollerRuns, Polls, Decides, Sleeps,
                    PostReturns, DiesOfAnswer, Hears, Arrives, ServerErrs, PostFails
    <2>2. CASE i # run \/ stage # "mission"
        BY <2>1, <2>2 DEF Allowance
    <2>3. CASE HasDenied(a)
        <3> SUFFICES HasDenied(a)' \/ lost' = lost + 1
            BY DEF Allowance
        <3>1. CASE UNCHANGED <<doing, post, marked>>
            BY <1>2, <2>3, <3>1 DEF HasDenied, Denying
        <3>2. CASE \E m \in Missions : MissionRuns(m) \/ Breaks(m)
            BY <3>1, <3>2 DEF MissionRuns, GivesUp, Breaks, Answered, Held, Decided, Finishes,
                              Result
        <3>3. CASE (\E d \in CallIds : Expires(d)) \/ StrangerHeld \/ Restart \/ UNCHANGED vars
            BY <3>1, <3>3 DEF Expires, StrangerHeld, Restart, vars
        <3>4. CASE Polls \/ Sleeps
            BY <1>2, <2>3, <3>4 DEF Polls, Sleeps, HasDenied, Denying
        <3>5. ASSUME NEW c \in CallIds, Decides(c) PROVE HasDenied(a)' \/ lost' = lost + 1
            <4>1. CASE UNCHANGED <<doing, post, marked>>
                BY <3>1, <4>1
            <4>2. CASE ~UNCHANGED <<doing, post, marked>>
                <5>1. /\ post' = [call |-> c, verdict |-> Verdict(c), run |-> run]
                      /\ marked \subseteq marked' /\ doing = "decides"
                    BY <3>5, <4>2 DEF Decides, MarkedBefore
                <5>2. MarkOf(a) \in marked
                    BY <2>3, <5>1 DEF HasDenied
                <5>3. ASSUME AgentOf(c) = a, Verdict(c) = "DENIED" PROVE FALSE
                    <6>1. Mark(c) = MarkOf(a)
                        BY <1>0, <5>3 DEF Mark, MarkOf, Scripts
                    <6> QED BY <5>2, <5>3, <6>1 DEF Verdict
                <5>4. post'.call = c /\ post'.verdict = Verdict(c)
                    BY <5>1
                <5>5. ~Denying(a)'
                    BY <1>2, <5>3, <5>4 DEF Denying
                <5> QED BY <1>2, <5>1, <5>2, <5>5 DEF HasDenied
            <4> QED BY <4>1, <4>2
        <3>6. CASE PostReturns
            <4>1. doing # "waits" /\ doing' = "decides" /\ marked \subseteq marked' /\ post' = post
                BY <3>6 DEF PostReturns
            <4>2. CASE MarkOf(a) \in marked
                BY <1>2, <4>1, <4>2 DEF HasDenied, Denying
            <4>3. CASE MarkOf(a) \notin marked
                <5>1. doing = "answered" /\ post.verdict = "DENIED" /\ AgentOf(post.call) = a
                    BY <2>3, <4>3 DEF HasDenied
                <5>2. script = "scenario"
                    BY <1>0, <4>3, <5>1 DEF OnceInv, MarkOf, Scripts
                <5>3. MarkOf(a) \in marked'
                    BY <3>6, <5>1, <5>2 DEF PostReturns, Mark, MarkOf
                <5> QED BY <1>2, <4>1, <5>3 DEF HasDenied, Denying
            <4> QED BY <4>2, <4>3
        <3>7. CASE Hears
            <4>1. UNCHANGED <<post, marked>>
                BY <3>7 DEF Hears, Arrives, ServerErrs, Answers, PostFails
            <4>2. \/ doing' = doing
                  \/ doing = "waits" /\ doing' \in {"answered", "erred", "decides", "dead"}
                  \/ lost' = lost + 1
                BY <3>7 DEF Hears, Arrives, ServerErrs, Answers, PostFails
            <4> QED BY <1>2, <2>3, <4>1, <4>2 DEF HasDenied, Denying
        <3>8. CASE DiesOfAnswer
            BY <1>2, <2>3, <3>8 DEF DiesOfAnswer, HasDenied, Denying
        <3> QED BY <1>5, <3>2, <3>3, <3>4, <3>5, <3>6, <3>7, <3>8 DEF Next, PollerRuns
    <2> QED BY <2>2, <2>3 DEF Allowance
<1> QED BY <1>3, <1>4, <1>5

\* A run that is yet to come has denied nobody.
LEMMA NobodyDeniedYet ==
    ASSUME BaseInv, OnceInv, NEW a
    PROVE  DeniedBy(run + 1, a) = {}
<1>1. /\ run \in Nat /\ Missions \subseteq Nat /\ by \in [CallIds -> Missions \cup {0}]
      /\ posts \subseteq Posts
    BY SettingsFacts DEF BaseInv, Typed
<1>2. \A c \in CallIds : by[c] # run + 1
    BY <1>1 DEF OnceInv
<1>3. \A p \in posts : p.run # run + 1
    BY <1>1 DEF OnceInv, Posts
<1>4. Astray \subseteq posts
    BY DEF Astray
<1> QED BY <1>2, <1>3, <1>4 DEF DeniedBy

LEMMA OnceStep ==
    ASSUME BaseInv, OnceInv, [Next]_vars
    PROVE  OnceInv'
<1> USE DEF storeVars, missionVars, deciderVars, scriptVars, faultVars
<1>0. /\ Typed /\ StageInv /\ run \in Nat /\ Missions \subseteq Nat /\ lost \in Nat
    BY SettingsFacts, FaultFacts DEF BaseInv
<1>1. script' = script
    BY DEF Next, vars, MissionRuns, GivesUp, Breaks, Answered, Held, Decided, Finishes, Result,
           Expires, StrangerHeld, Restart, PollerRuns, Polls, Decides, Sleeps, PostReturns,
           DiesOfAnswer, Hears, Arrives, ServerErrs, PostFails, Ends, NextRun, script
<1>2. lost' \in {lost, lost + 1}
    BY DEF Next, vars, MissionRuns, GivesUp, Breaks, Answered, Held, Decided, Finishes, Result,
           Expires, StrangerHeld, Restart, PollerRuns, Polls, Decides, Sleeps, PostReturns,
           DiesOfAnswer, Hears, Arrives, ServerErrs, PostFails, Ends, NextRun
<1>3. ASSUME script # "queue", NEW i \in Missions, NEW a \in {Coder, Comply}
      PROVE  /\ IsFiniteSet(DeniedBy(i, a)')
             /\ Cardinality(DeniedBy(i, a)') <= lost' + Allowance(i, a)'
    <2>1. IsFiniteSet(DeniedBy(i, a)) /\ Cardinality(DeniedBy(i, a)) <= lost + Allowance(i, a)
        BY <1>3 DEF OnceInv
    <2>2. Allowance(i, a) \in {0, 1} /\ Allowance(i, a)' \in {0, 1}
        BY DEF Allowance
    <2>3. Cardinality(DeniedBy(i, a)) \in Nat
        BY <2>1, FS_CardinalityType
    <2>4. CASE NextRun /\ i = run + 1
        <3>1. DeniedBy(i, a) = {}
            BY <2>4, NobodyDeniedYet
        <3>2. DeniedBy(i, a)' \subseteq DeniedBy(i, a)
            BY <1>0, <2>4, DeniedStep
        <3>3. DeniedBy(i, a)' = {}
            BY <3>1, <3>2
        <3>4. Cardinality({}) = 0 /\ IsFiniteSet({})
            BY FS_EmptySet
        <3> QED BY <1>0, <1>2, <2>2, <3>3, <3>4
    <2>5. CASE ~(NextRun /\ i = run + 1) /\ DeniedBy(i, a)' \subseteq DeniedBy(i, a)
        <3>1. IsFiniteSet(DeniedBy(i, a)') /\ Cardinality(DeniedBy(i, a)') <= Cardinality(DeniedBy(i, a))
            BY <2>1, <2>5, FS_Subset
        <3>2. Cardinality(DeniedBy(i, a)') \in Nat
            BY <3>1, FS_CardinalityType
        <3>3. Allowance(i, a) = 1 => Allowance(i, a)' = 1 \/ lost' = lost + 1
            BY <1>3, <2>5, AllowanceStep
        <3> QED BY <1>0, <1>2, <2>1, <2>2, <2>3, <3>1, <3>2, <3>3
    <2>6. CASE /\ DeniedBy(i, a)' \subseteq DeniedBy(i, a) \cup {post.call}
               /\ i = run /\ Denying(a)
               /\ lost' = lost + 1 \/ Ends \/ (doing' = "answered" /\ post' = post /\ lost' = lost)
        <3>1. Allowance(i, a) = 0
            BY <1>0, <2>6 DEF Allowance, HasDenied, Denying, StageInv
        <3>2. /\ IsFiniteSet(DeniedBy(i, a) \cup {post.call})
              /\ Cardinality(DeniedBy(i, a) \cup {post.call}) <= Cardinality(DeniedBy(i, a)) + 1
            <4> DEFINE Denials == DeniedBy(i, a)
            <4>1. IsFiniteSet(Denials) /\ Cardinality(Denials) \in Nat
                BY <2>1, <2>3
            <4> HIDE DEF Denials
            <4>2. \A x : /\ IsFiniteSet(Denials \cup {x})
                        /\ Cardinality(Denials \cup {x}) <= Cardinality(Denials) + 1
                BY <4>1, FS_AddElement
            <4>3. /\ IsFiniteSet(Denials \cup {post.call})
                  /\ Cardinality(Denials \cup {post.call}) <= Cardinality(Denials) + 1
                BY <4>2
            <4> QED BY <4>3 DEF Denials
        <3>3. Cardinality(DeniedBy(i, a) \cup {post.call}) \in Nat
            BY <3>2, FS_CardinalityType
        <3>4. /\ IsFiniteSet(DeniedBy(i, a)')
              /\ Cardinality(DeniedBy(i, a)') <= Cardinality(DeniedBy(i, a) \cup {post.call})
            BY <2>6, <3>2, FS_Subset
        <3>5. Cardinality(DeniedBy(i, a)') \in Nat
            BY <3>4, FS_CardinalityType
        <3>6. lost' = lost + 1 \/ Allowance(i, a)' = 1
            <4>1. Ends => Allowance(i, a)' = 1
                BY DEF Ends, Allowance
            <4>2. ASSUME doing' = "answered", post' = post PROVE Allowance(i, a)' = 1
                <5>1. AgentOf(post.call)' = a
                    <6>1. setting' = setting
                        BY DEF Next, vars, MissionRuns, GivesUp, Breaks, Answered, Held, Decided,
                               Finishes, Result, Expires, StrangerHeld, Restart, PollerRuns,
                               Polls, Decides, Sleeps, PostReturns, DiesOfAnswer, Hears, Arrives,
                               ServerErrs, PostFails, Ends, NextRun
                    <6> QED BY <2>6, <4>2, <6>1 DEF AgentOf, script, Denying
                <5> QED BY <2>6, <4>2, <5>1 DEF Allowance, HasDenied, Denying
            <4> QED BY <2>6, <4>1, <4>2
        <3> QED BY <1>0, <1>2, <2>1, <2>2, <2>3, <3>1, <3>2, <3>3, <3>4, <3>5, <3>6
    <2> QED BY <2>4, <2>5, <2>6, DeniedStep
<1> QED BY <1>1, <1>3, OwnersStep DEF OnceInv
-----------------------------------------------------------------------------
-----------------------------------------------------------------------------
(* What follows.                                                           *)

LEMMA InitInv == Init => BaseInv /\ RefusalInv /\ OnceInv
<1> SUFFICES ASSUME Init PROVE BaseInv /\ RefusalInv /\ OnceInv
    OBVIOUS
<1>1. Typed
    <2>1. setting.runs \in Nat \ {0} /\ setting.holds \in Nat /\ MaxFaults \in Nat
        BY ScenarioAssumption DEF Init
    <2>2. << >> \in Seq(BOOLEAN) /\ Len(<< >>) = 0 /\ RunsOver = 0
        BY DEF Init, RunsOver
    <2>3. place \in [Missions -> Places]
        BY DEF Init, Begun, Places
    <2>4. 1 \in 1 .. setting.runs /\ 0 \in 0 .. setting.holds /\ 0 \in 0 .. MaxFaults
        BY <2>1
    <2> QED BY <2>2, <2>3, <2>4 DEF Init, Typed, RowValues, Doings
<1>2. IsFiniteSet({}) /\ Cardinality({}) = 0
    BY FS_EmptySet
<1>3. PostsInv
    BY <1>2 DEF Init, PostsInv, Astray, RunsOver
<1>4. StageInv
    BY DEF Init, StageInv
<1>5. RowsInv
    BY DEF Init, RowsInv, NoRow
<1>6. RefusalInv
    BY DEF Init, RefusalInv, NoRow
<1>7. \A i, a : DeniedBy(i, a) = {}
    BY DEF Init, DeniedBy, Astray, NoRow
<1>8. \A i, a : Allowance(i, a) \in {0, 1}
    BY DEF Allowance
<1>9. OnceInv
    <2>1. posts = {} /\ lost = 0 /\ run = 1 /\ doing = "polls" /\ \A c \in CallIds : by[c] = 0
        BY DEF Init
    <2>2. \A i, a : /\ IsFiniteSet(DeniedBy(i, a))
                    /\ Cardinality(DeniedBy(i, a)) <= lost + Allowance(i, a)
        <3>1. \A n \in {0, 1} : 0 <= 0 + n
            OBVIOUS
        <3> QED BY <1>2, <1>7, <1>8, <2>1, <3>1
    <2> QED BY <2>1, <2>2 DEF OnceInv
<1> QED BY <1>1, <1>3, <1>4, <1>5, <1>6, <1>9 DEF BaseInv

\* The inductive invariant of the scripts, for any number of runs, holds and faults:
\* what is on its way to atc-core, what was refused before anything is approved, and
\* how many denials an agent can have had.
THEOREM ScenarioInvHolds == Spec => [](BaseInv /\ RefusalInv /\ OnceInv)
<1>1. (BaseInv /\ RefusalInv /\ OnceInv) /\ [Next]_vars => (BaseInv /\ RefusalInv /\ OnceInv)'
    BY BaseStep, RefusalStep, OnceStep
<1> QED BY InitInv, <1>1, PTL DEF Spec

\* Every variable keeps its type, and no more POSTs are on their way beside the one
\* that is waited for than answers were lost and runs ended: a script asks for one
\* thing at a time.
THEOREM ScenarioTyped == Spec => []TypeOK
<1>1. BaseInv => TypeOK
    <2> SUFFICES ASSUME BaseInv PROVE TypeOK
        OBVIOUS
    <2>1. IsFiniteSet(Astray) /\ posts \ {post} \subseteq Astray
        BY FS_Subset DEF BaseInv, PostsInv, Astray
    <2>2. IsFiniteSet(posts \ {post}) /\ Cardinality(posts \ {post}) <= Cardinality(Astray)
        BY <2>1, FS_Subset
    <2>3. Cardinality(Astray) \in Nat /\ Cardinality(posts \ {post}) \in Nat
        BY <2>1, <2>2, FS_CardinalityType
    <2>4. lost \in Nat /\ RunsOver \in Nat
        BY FaultFacts, RunsOverFacts DEF BaseInv
    <2>5. Cardinality(posts \ {post}) <= lost + RunsOver
        BY <2>2, <2>3, <2>4 DEF BaseInv, PostsInv
    <2> QED BY <2>5 DEF BaseInv, Typed, TypeOK
<1> QED BY <1>1, ScenarioInvHolds, PTL

\* What a script approves comes after a refusal, it denies an agent once per run and
\* once more for every answer that was lost, and a run that is reported as passed had
\* a refusal to recover from: however the missions, the hold timers, lost answers,
\* errors and restarts of atc-core fall between its polls.
THEOREM ScriptPlaysTheHuman == Spec => []PlaysTheHuman
<1>1. BaseInv /\ RefusalInv /\ OnceInv => PlaysTheHuman
    <2> SUFFICES ASSUME BaseInv, RefusalInv, OnceInv PROVE PlaysTheHuman
        OBVIOUS
    <2>1. FirstIsNotApproved
        BY DEF RefusalInv, RefusalFor, FirstIsNotApproved
    <2>2. OneDenialEach
        <3>1. ASSUME script # "queue", NEW i \in Missions, NEW a \in {Coder, Comply}
              PROVE  Cardinality({c \in CallIds : row[c] = "DENIED" /\ by[c] = i /\ AgentOf(c) = a})
                        <= 1 + lost
            <4> DEFINE Denied == {c \in CallIds : row[c] = "DENIED" /\ by[c] = i /\ AgentOf(c) = a}
            <4>1. /\ IsFiniteSet(DeniedBy(i, a))
                  /\ Cardinality(DeniedBy(i, a)) <= lost + Allowance(i, a)
                BY <3>1 DEF OnceInv
            <4>2. Denied \subseteq DeniedBy(i, a)
                BY DEF DeniedBy
            <4>3. IsFiniteSet(Denied) /\ Cardinality(Denied) <= Cardinality(DeniedBy(i, a))
                BY <4>1, <4>2, FS_Subset
            <4>4. Cardinality(Denied) \in Nat /\ Cardinality(DeniedBy(i, a)) \in Nat
                BY <4>1, <4>3, FS_CardinalityType
            <4>5. lost \in Nat /\ Allowance(i, a) \in {0, 1}
                BY FaultFacts DEF BaseInv, Allowance
            <4> QED BY <4>1, <4>3, <4>4, <4>5
        <3> QED BY <3>1 DEF OneDenialEach
    <2>3. PassNeedsARefusal
        BY DEF RefusalInv, PassNeedsARefusal
    <2> QED BY <2>1, <2>2, <2>3 DEF PlaysTheHuman
<1> QED BY <1>1, ScenarioInvHolds, PTL
=============================================================================
