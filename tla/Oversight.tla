----------------------------- MODULE Oversight ------------------------------
(***************************************************************************)
(* What the gateway makes of the history it writes: each call is scored    *)
(* and recorded, its record is read back by two background checks          *)
(* (gateway/creep.py, gateway/loops.py) that nobody awaits, and every      *)
(* heartbeat reads all of an agent's records into a risk score             *)
(* (risk/scorer.py).                                                       *)
(*                                                                         *)
(* The table is a sequence of rows in the order they were inserted.  All   *)
(* statements share one connection: they are seen at once, and any commit  *)
(* makes all earlier ones durable.  The hold is what ActionLifecycle       *)
(* promises.  Time is in half-lives of the score; it does not pass while   *)
(* a coroutine is ready to run, since an await takes milliseconds.         *)
(***************************************************************************)
EXTENDS RiskEngine, ActionStatus, FiniteSets, FiniteSetsExt

CONSTANTS
    Agents,
    Beating,     \* bound: the agents whose heartbeats are followed
    MaxCalls,    \* bound: the calls made
    Scripts,     \* bound: which calls they are, in the order they come
    Window,      \* window_seconds, in units of time
    Threshold,   \* repeat_threshold
    MaxTime,     \* bound: how long it goes on
    MaxCrashes,  \* bound: how often atc-core dies
    MaxUndos     \* bound: how many actions are undone

Calls == 1 .. MaxCalls

ASSUME OversightAssumption ==
    /\ {MaxCalls, Window, MaxTime, MaxCrashes, MaxUndos} \subseteq Nat
    /\ Beating \subseteq Agents
    /\ Threshold \in Nat \ {0}
    /\ \A s \in Scripts :
            /\ DOMAIN s \subseteq Calls
            /\ \A c \in DOMAIN s : s[c].agent \in Agents /\ WellFormed(s[c].sql)

VARIABLES
    phase,     \* atc-core is "serving" or "down"
    script,    \* the calls the agents make
    now,       \* the clock
    store,     \* the actions table as every statement sees it
    durable,   \* the actions table as of the last commit
    pc,        \* where each call is inside the gateway
    creep,     \* each call's creep check
    loop,      \* each call's loop check
    kept,      \* the calls whose pre-image is in the journal
    ran,       \* the calls whose tool has run
    beat,      \* each such agent's heartbeat: when compute_score() began, or Idle
    score,     \* the last score each agent's heartbeat has published
    crashes,
    alarms,    \* history: the calls whose check suspected a loop
    seen,      \* history: how many rows each creep check found in the table
    blind      \* history: the calls whose capture failed or found nothing

tableVars == <<store, durable>>
runVars == <<kept, blind, ran>>
checkVars == <<creep, loop, alarms, seen>>
scoreVars == <<beat, score>>
vars == <<phase, script, now, tableVars, pc, checkVars, runVars, scoreVars, crashes>>

Idle == -1

\* No heartbeat has been answered yet.
NoScore == [value |-> 0, at |-> Idle, firm |-> TRUE]

Init ==
    /\ phase = "serving"
    /\ script \in Scripts
    /\ now = 0
    /\ store = << >>
    /\ durable = << >>
    /\ pc = [c \in Calls |-> "idle"]
    /\ creep = [c \in Calls |-> "none"]
    /\ loop = [c \in Calls |-> "none"]
    /\ kept = {}
    /\ ran = {}
    /\ beat = [a \in Beating |-> Idle]
    /\ score = [a \in Beating |-> NoScore]
    /\ crashes = 0
    /\ alarms = {}
    /\ seen = [c \in Calls |-> 0]
    /\ blind = {}
-----------------------------------------------------------------------------
(* Rows.                                                                   *)

\* _resource_name(): the first of these arguments that is there.
ResourceName(call) ==
    CASE call.sql # NoSql -> <<"sql", call.sql>>
      [] call.sql = NoSql /\ call.path # None -> <<"path", call.path>>
      [] call.sql = NoSql /\ call.path = None /\ call.to > 0 -> <<"to", call.to>>
      [] OTHER -> <<None, None>>

HasResource(call) == ResourceName(call)[1] # None

\* _args_summary(), of a call short enough not to be cut.
ArgsSummary(call) == <<call.sql, call.path, call.to>>

\* The row of call c: what submit() inserts, or the undo endpoint for its undo.
Row(c, kind, status, counted) ==
    [of |-> c, kind |-> kind, status |-> status,
     level |-> Evaluate(Policy, script[c]).level, counted |-> counted,
     requested_at |-> now, resolved_at |-> now, novel |-> FALSE]

RowsOf(c) == {i \in DOMAIN store : store[i].of = c /\ store[i].kind = "call"}

\* Where call c's own row is.
RowOf(c) == CHOOSE i \in RowsOf(c) : TRUE

Status(c) == IF RowsOf(c) = {} THEN NoRow ELSE store[RowOf(c)].status

SameResource(c, d) ==
    /\ script[c].agent = script[d].agent
    /\ ResourceName(script[c]) = ResourceName(script[d])

\* The same agent, tool and arguments.  The undo of a call has a tool and a
\* summary of its own.
Repeats(c, d) ==
    /\ script[c].agent = script[d].agent
    /\ script[c].tool = script[d].tool
    /\ ArgsSummary(script[c]) = ArgsSummary(script[d])

\* Mutant: a call that is held has not touched anything yet.
TouchesUnheld(c) ==
    {i \in DOMAIN store : /\ i \notin RowsOf(c) /\ store[i].status # "PENDING"
                          /\ SameResource(c, store[i].of)}

\* The other rows of the agent and resource of call c.
Touches(c) ==
    {i \in DOMAIN store : i \notin RowsOf(c) /\ SameResource(c, store[i].of)}

\* The other calls like c inside the window.
RecentRepeats(c) ==
    {i \in DOMAIN store :
        /\ store[i].kind = "call" /\ store[i].of # c
        /\ Repeats(c, store[i].of)
        /\ store[i].requested_at >= now - Window}
-----------------------------------------------------------------------------
(* A call's way through the gate.                                          *)

\* Nobody catches the TokenError of evaluate(): the call fails before it has a row.
Fails(c) ==
    /\ phase = "serving"
    /\ c \in DOMAIN script
    /\ pc[c] = "idle"
    /\ c > 1 => pc[c - 1] # "idle"
    /\ script[c].sql = Unlexed
    /\ pc' = [pc EXCEPT ![c] = "failed"]
    /\ UNCHANGED <<phase, script, now, tableVars, checkVars, runVars, scoreVars, crashes>>

\* The INSERT of submit(), after the verdict and the estimate, which may fail.
Submit(c) ==
    /\ phase = "serving"
    /\ c \in DOMAIN script
    /\ pc[c] = "idle"
    /\ c > 1 => pc[c - 1] # "idle"
    /\ script[c].sql # Unlexed
    /\ LET level == Evaluate(Policy, script[c]).level
           status == IF level = "HIGH" THEN "PENDING" ELSE "AUTO_ALLOWED"
       IN  \E counted \in {Estimates(script[c], level), FALSE} :
               store' = Append(store, Row(c, "call", status, counted))
    /\ pc' = [pc EXCEPT ![c] = "submit"]
    /\ UNCHANGED <<phase, script, now, durable, checkVars, runVars, scoreVars, crashes>>

\* Its commit; both checks are scheduled, and the call waits or goes on.
Scheduled(c) ==
    /\ creep' = [creep EXCEPT ![c] = IF HasResource(script[c]) THEN "due" ELSE "done"]
    /\ loop' = [loop EXCEPT ![c] = "due"]
    /\ UNCHANGED <<alarms, seen>>

Recorded(c) ==
    /\ pc[c] = "submit"
    /\ durable' = store
    /\ Scheduled(c)
    /\ pc' = [pc EXCEPT ![c] = IF Status(c) = "PENDING" THEN "hold" ELSE "execute"]
    /\ UNCHANGED <<phase, script, now, store, runVars, scoreVars, crashes>>

\* Mutant: the row is written back as it was when the hold began.
ResolveRewrites(c, status) ==
    /\ pc[c] = "hold"
    /\ store' = [store EXCEPT ![RowOf(c)].status = status, ![RowOf(c)].resolved_at = now,
                              ![RowOf(c)].novel = FALSE]
    /\ durable' = store'
    /\ pc' = [pc EXCEPT ![c] = IF status = "APPROVED" THEN "execute" ELSE "refused"]
    /\ UNCHANGED <<phase, script, now, checkVars, runVars, scoreVars, crashes>>

\* The hold ends.  A decision may come before the call has begun to wait for it.
Resolve(c, status) ==
    /\ pc[c] = "hold"
    /\ store' = [store EXCEPT ![RowOf(c)].status = status, ![RowOf(c)].resolved_at = now]
    /\ durable' = store'
    /\ pc' = [pc EXCEPT ![c] = IF status = "APPROVED" THEN "execute" ELSE "refused"]
    /\ UNCHANGED <<phase, script, now, checkVars, runVars, scoreVars, crashes>>

\* The capture, which may fail, and the tool.
Execute(c) ==
    /\ pc[c] = "execute"
    /\ pc' = [pc EXCEPT ![c] = "ran"]
    /\ ran' = ran \cup {c}
    /\ CASE Classify(script[c]) = "COMPENSABLE" /\ Captures(script[c]) ->
                \/ kept' = kept \cup {c} /\ durable' = store /\ UNCHANGED blind
                \/ blind' = blind \cup {c} /\ UNCHANGED <<kept, durable>>
         [] OTHER -> UNCHANGED <<kept, durable, blind>>
    /\ UNCHANGED <<phase, script, now, store, checkVars, scoreVars, crashes>>

Undone(c) == \E i \in DOMAIN store : store[i].of = c /\ store[i].kind = "undo"

\* The undo of a call ends with a row of its own.
Undo(c) ==
    /\ phase = "serving"
    /\ c \in kept \cap ran
    /\ ~Undone(c)
    /\ Cardinality({i \in DOMAIN store : store[i].kind = "undo"}) < MaxUndos
    /\ store' = Append(store, Row(c, "undo", "APPROVED", FALSE))
    /\ durable' = store'
    /\ UNCHANGED <<phase, script, now, pc, checkVars, runVars, scoreVars, crashes>>
-----------------------------------------------------------------------------
(* The checks.                                                             *)

\* _is_novel(): no row but the call's own.
CreepReads(c) ==
    /\ creep[c] = "due"
    /\ creep' = [creep EXCEPT ![c] = IF Touches(c) = {} THEN "novel" ELSE "done"]
    /\ seen' = [seen EXCEPT ![c] = Len(store)]
    /\ UNCHANGED <<phase, script, now, tableVars, pc, loop, alarms, runVars, scoreVars, crashes>>

\* mark_novel(): the UPDATE, and its commit.
CreepMarks(c) ==
    /\ creep[c] = "novel"
    /\ store' = [store EXCEPT ![RowOf(c)].novel = TRUE]
    /\ creep' = [creep EXCEPT ![c] = "marked"]
    /\ UNCHANGED <<phase, script, now, durable, pc, loop, alarms, seen, runVars, scoreVars, crashes>>

CreepCommits(c) ==
    /\ creep[c] = "marked"
    /\ durable' = store
    /\ creep' = [creep EXCEPT ![c] = "done"]
    /\ UNCHANGED <<phase, script, now, store, pc, loop, alarms, seen, runVars, scoreVars, crashes>>

LoopReads(c) ==
    /\ loop[c] = "due"
    /\ loop' = [loop EXCEPT ![c] = "done"]
    /\ alarms' = IF Cardinality(RecentRepeats(c)) >= Threshold THEN alarms \cup {c} ELSE alarms
    /\ UNCHANGED <<phase, script, now, tableVars, pc, creep, seen, runVars, scoreVars, crashes>>
-----------------------------------------------------------------------------
(* The score.                                                              *)

Weight(row) ==
    (CASE row.level = "LOW" -> 1
       [] row.level = "MEDIUM" -> 5
       [] row.level = "HIGH" /\ row.status = "DENIED" -> 50
       [] OTHER -> 25)
    + (IF row.novel THEN 20 ELSE 0)

\* The weight times _decay_factor() of an age, and times 2^MaxTime to keep it whole.
Decayed(weight, age) == weight * 2 ^ (MaxTime - IF age > 0 THEN age ELSE 0)

\* What each row adds to a score at t.
Terms(t) == [i \in DOMAIN store |-> Decayed(Weight(store[i]), t - store[i].resolved_at)]

Scored(a) == {i \in DOMAIN store : script[store[i].of].agent = a /\ store[i].status # "PENDING"}

\* Mutant: what was undone is forgiven.
ScoreOfStanding(a, t) == SumFunctionOnSet(Terms(t), {i \in Scored(a) : ~Undone(store[i].of)})

\* compute_score(), for a heartbeat that began at t.
ScoreOf(a, t) == SumFunctionOnSet(Terms(t), Scored(a))

\* A heartbeat up to compute_score(): record_heartbeat() has committed.
Heartbeat(a) ==
    /\ phase = "serving"
    /\ beat[a] = Idle
    /\ beat' = [beat EXCEPT ![a] = now]
    /\ durable' = store
    /\ UNCHANGED <<phase, script, now, store, pc, checkVars, runVars, score, crashes>>

\* The rows are read and the score is published.
Scores(a) ==
    /\ beat[a] # Idle
    /\ score' = [score EXCEPT ![a] = [value |-> ScoreOf(a, beat[a]), at |-> beat[a],
                                      firm |-> store = durable]]
    /\ beat' = [beat EXCEPT ![a] = Idle]
    /\ UNCHANGED <<phase, script, now, tableVars, pc, checkVars, runVars, crashes>>
-----------------------------------------------------------------------------
(* Time, and the death of atc-core.                                        *)

\* The stages at which a coroutine is ready to go on.
Ready ==
    \/ \E c \in Calls : pc[c] \in {"submit", "execute"}
    \/ \E c \in Calls : creep[c] \in {"due", "novel", "marked"} \/ loop[c] = "due"
    \/ \E a \in Beating : beat[a] # Idle

Tick ==
    /\ ~Ready
    /\ now < MaxTime
    /\ now' = now + 1
    /\ UNCHANGED <<phase, script, tableVars, pc, checkVars, runVars, scoreVars, crashes>>

\* Mutant: the calls of the dead process stay.
CrashKeepsCalls ==
    /\ phase = "serving"
    /\ crashes < MaxCrashes
    /\ phase' = "down"
    /\ store' = durable
    /\ beat' = [a \in Beating |-> Idle]
    /\ crashes' = crashes + 1
    /\ UNCHANGED <<script, now, durable, pc, checkVars, runVars, score>>

\* What was under way is gone, and what no commit covered.
Crash ==
    /\ phase = "serving"
    /\ crashes < MaxCrashes
    /\ phase' = "down"
    /\ store' = durable
    /\ pc' = [c \in Calls |-> IF pc[c] \in {"submit", "hold", "execute"} THEN "lost" ELSE pc[c]]
    /\ creep' = [c \in Calls |-> IF creep[c] = "done" THEN "done" ELSE "none"]
    /\ loop' = [c \in Calls |-> IF loop[c] = "done" THEN "done" ELSE "none"]
    /\ beat' = [a \in Beating |-> Idle]
    /\ crashes' = crashes + 1
    /\ UNCHANGED <<script, now, durable, alarms, seen, runVars, score>>

\* startup(): resume_stale_holds() expires what the dead process held.
Boot ==
    /\ phase = "down"
    /\ phase' = "serving"
    /\ store' = [i \in DOMAIN store |->
                    IF store[i].status = "PENDING"
                    THEN [store[i] EXCEPT !.status = "EXPIRED", !.resolved_at = now]
                    ELSE store[i]]
    /\ durable' = store'
    /\ UNCHANGED <<script, now, pc, checkVars, runVars, scoreVars, crashes>>
-----------------------------------------------------------------------------
GateSteps(c) == Recorded(c) \/ Execute(c) \/ Resolve(c, "EXPIRED")

Checks(c) == CreepReads(c) \/ CreepMarks(c) \/ CreepCommits(c) \/ LoopReads(c)

Next ==
    \/ \E c \in Calls : Fails(c) \/ Submit(c) \/ GateSteps(c) \/ Undo(c) \/ Checks(c)
    \/ \E c \in Calls, status \in Verdicts : Resolve(c, status)
    \/ \E a \in Beating : Heartbeat(a) \/ Scores(a)
    \/ Tick \/ Crash \/ Boot

Spec == Init /\ [][Next]_vars
-----------------------------------------------------------------------------
(* Properties.                                                             *)

RowOK(row) ==
    /\ row.of \in Calls
    /\ row.kind \in {"call", "undo"}
    /\ row.status \in Statuses
    /\ row.level \in Levels
    /\ {row.counted, row.novel} \subseteq BOOLEAN
    /\ {row.requested_at, row.resolved_at} \subseteq Nat

\* The types of all but the sums; and no call or check outlives the process it runs in.
TypedButSums ==
    /\ phase \in {"serving", "down"}
    /\ script \in Scripts
    /\ now \in Nat
    /\ \A table \in {store, durable} :
            DOMAIN table = 1 .. Len(table) /\ \A i \in DOMAIN table : RowOK(table[i])
    /\ pc \in [Calls -> {"idle", "submit", "hold", "execute", "ran", "refused", "failed", "lost"}]
    /\ creep \in [Calls -> {"none", "due", "novel", "marked", "done"}]
    /\ loop \in [Calls -> {"none", "due", "done"}]
    /\ {kept, blind, ran, alarms} \subseteq SUBSET Calls
    /\ beat \in [Beating -> Nat \cup {Idle}]
    /\ \A a \in Beating : score[a].at \in Nat \cup {Idle}
    /\ crashes \in Nat
    /\ seen \in [Calls -> Nat]
    /\ phase = "down" => ~Ready

\* A score is a sum of weights.
TypeOK == TypedButSums /\ \A a \in Beating : score[a].value \in Nat

\* What cannot be bounded or taken back (a destructive or unreadable statement,
\* an unbounded write, a change of a production table, a deletion, a secret, a
\* force push, a broad email) reaches its tool only after a human approved it,
\* under the policy file as it is deployed (policies/risk_rules.yaml).
GraveRunsApproved == \A c \in ran : Grave(script[c]) => Status(c) = "APPROVED"

\* The order of the rules hides none that is more severe: a recorded action has at
\* least the level of every rule that matches it, though the first one decides
\* (engine.py, evaluate).
MostSevereRuleWins ==
    \A i \in DOMAIN store, r \in DOMAIN Policy :
        Matches(Policy[r], script[store[i].of])
            => Severity[Policy[r].level] <= Severity[store[i].level]

\* reversibility.py:11: "only that recovery data exists".  When a call has run that took
\* something away, and the operator was told that it can be compensated, or how many rows
\* it changes (blast_radius.py), the journal has what it took: unless the capture itself
\* failed, or the call is one that the three readers of a statement disagree about
\* (Overlooked), whatever its tool, its condition and its level.
RecoverableIsKept ==
    \A i \in DOMAIN store :
        LET c == store[i].of
            promised == store[i].counted \/ Classify(script[c]) = "COMPENSABLE"
        IN  c \in ran /\ Takes(script[c]) /\ promised
                => c \in kept \cup blind \/ Overlooked(script[c])

\* An action flagged as the agent's first touch of a resource is the first one in the
\* table (creep.py, _is_novel), whatever was inserted, resolved, undone or lost since.
NovelMeansFirst ==
    \A i \in DOMAIN store : store[i].novel =>
        \A j \in 1 .. i - 1 : ~SameResource(store[i].of, store[j].of)

\* A first touch is flagged when its check is over, and stays flagged, unless another
\* action on the resource was already in the table when the check read it.
FirstTouchFlagged ==
    \A c \in Calls :
        creep[c] = "done" /\ HasResource(script[c]) /\ crashes = 0 =>
            \/ store[RowOf(c)].novel
            \/ \E i \in Touches(c) : i <= seen[c]

\* More than Threshold calls like c in the window that ends with c.
Loops(c) ==
    LET end == store[RowOf(c)].requested_at
    IN  Cardinality({i \in DOMAIN store :
            /\ store[i].kind = "call" /\ Repeats(c, store[i].of)
            /\ store[i].requested_at \in end - Window .. end}) > Threshold

\* When the checks are over, an agent is suspected of a loop exactly if it made more
\* than Threshold like calls within the window (loops.py), in whatever order the
\* checks and the inserts came.
LoopsAreCaught ==
    LET made == {c \in Calls : RowsOf(c) # {}}
    IN  crashes = 0 /\ (\A c \in made : loop[c] = "done") =>
            \A c \in made :
                (\E d \in made : Repeats(c, d) /\ Loops(d)) <=> \E d \in alarms : Repeats(c, d)

\* What the two background detectors are for, in whatever order their reads run
\* beside the inserts, the resolutions and each other.
DetectorsCatch == FirstTouchFlagged /\ LoopsAreCaught

\* A score is lower than the one before only because its records are older: no
\* decision, flag, undo or restart lowers it (scorer.py: "a restarted atc-core process
\* picks the score back up correctly"), except that a crash loses what the earlier
\* score had read before it was committed.
ScoreFallsOnlyWithAge ==
    [][\A a \in Beating : score'[a].value < score[a].value =>
            score'[a].at > score[a].at \/ ~score[a].firm]_vars
=============================================================================
