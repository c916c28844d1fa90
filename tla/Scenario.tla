------------------------------ MODULE Scenario ------------------------------
(***************************************************************************)
(* The scripts that play the human: the scenario runner's AutoApprover, the *)
(* LiveDecider of flagship_near_miss and the Denier of                      *)
(* concurrent_hold_queue.  Each polls the held actions and decides them by  *)
(* POST while missions of its own run; all of it is outside atc-core.       *)
(*                                                                         *)
(* A POST is answered, answered with an error (no script looks at the       *)
(* status code, but the flagship's reads the body as JSON), or fails, and   *)
(* one that failed may still be on its way.                                 *)
(* Other agents use the gateway too: somebody else's call may be held.      *)
(***************************************************************************)
EXTENDS ActionStatus, Integers, Sequences, FiniteSets

CONSTANTS
    Coder, Comply,   \* the agents of the missions
    Settings,        \* which of Scripts, its runs (args.runs), as a bound how many calls
                     \* of a mission are held, and whose the call <<0, 1>> is
    MaxFaults        \* bound: POSTs that fail or are answered with an error, restarts

Scripts == {"scenario", "flagship", "queue"}

ASSUME ScenarioAssumption ==
    /\ Coder # Comply
    /\ Settings \subseteq [script : Scripts, runs : Nat \ {0}, holds : Nat,
                        stranger : {Coder, Comply}]
    /\ MaxFaults \in Nat

Missions == {1, 2} \cup UNION {1 .. s.runs : s \in Settings}

\* Call <<m, k>> is the k-th of mission m that is held, <<0, 1>> somebody else's.
CallIds == (Missions \X UNION {1 .. s.holds : s \in Settings}) \cup {<<0, 1>>}

VARIABLES
    setting,
    row,        \* the status of each held action
    by,         \* the run whose script decided it, 0 if none did
    posts,      \* the POSTs on their way to atc-core
    place,      \* where each mission is
    holds,      \* how many of its calls were held
    log,        \* what its log comes to, see Tell
    stage,      \* where the script is
    run,
    doing,      \* what the polling task does
    post,       \* the POST it waits for
    seen,       \* the list it works off
    marked,     \* _denied_once, _decided
    denials,
    results,    \* for each run of the scenario whether it passed
    lost, restarts,
    erred       \* history: the agents of POSTs answered with an error

storeVars == <<row, by>>
missionVars == <<place, holds, log>>
deciderVars == <<doing, post, seen, marked, denials>>
scriptVars == <<setting, stage, run, results>>
faultVars == <<lost, restarts, erred>>
vars == <<storeVars, posts, missionVars, deciderVars, scriptVars, faultVars>>

script == setting.script

AgentOf(c) ==
    IF c[1] = 0 THEN setting.stranger
    ELSE IF script = "queue" /\ c[1] = 2 THEN Comply ELSE Coder

\* The missions that run now.
Current == IF script = "queue" THEN {1, 2} ELSE {run}

Begun(ms) == [m \in Missions |-> IF m \in ms THEN "calls" ELSE "none"]

Init ==
    /\ setting \in Settings
    /\ row = [c \in CallIds |-> NoRow]
    /\ by = [c \in CallIds |-> 0]
    /\ posts = {}
    /\ place = Begun(IF script = "queue" THEN {1, 2} ELSE {1})
    /\ holds = [m \in Missions |-> 0]
    /\ log = [m \in Missions |-> "empty"]
    /\ stage = "mission"
    /\ run = 1
    /\ doing = "polls"
    /\ post = << >>
    /\ seen = {}
    /\ marked = {}
    /\ denials = 0
    /\ results = << >>
    /\ lost = 0
    /\ restarts = 0
    /\ erred = {}
-----------------------------------------------------------------------------
(* A mission: run_mission().                                               *)

\* The log of a mission, as far as its result depends on it: no call was denied yet
\* ("looked"), one was but not the first ("denied"), and something else has been
\* answered since ("recovered"); or it was the first, or the mission has failed.
\* The demonstrations only print it.
Tell(before, denied) ==
    CASE before = "empty"                -> IF denied THEN "failed" ELSE "looked"
      [] before = "looked" /\ denied     -> "denied"
      [] before = "denied" /\ ~denied    -> "recovered"
      [] OTHER                           -> before

Result(m, denied) ==
    /\ log' = [log EXCEPT ![m] = IF script = "scenario" THEN Tell(@, denied) ELSE @]
    /\ place' = [place EXCEPT ![m] = "calls"]
    /\ UNCHANGED <<storeVars, posts, holds, deciderVars, scriptVars, faultVars>>

\* A call that is not held: it is [ATC-DENIED] for its scope, or anything else: its
\* result, or a refusal in other words (quarantine, budget, unknown tool).
Answered(m) == place[m] = "calls" /\ \E denied \in BOOLEAN : Result(m, denied)

Held(m) ==
    /\ place[m] = "calls"
    /\ holds[m] < setting.holds
    /\ holds' = [holds EXCEPT ![m] = @ + 1]
    /\ place' = [place EXCEPT ![m] = "held"]
    /\ row' = [row EXCEPT ![<<m, holds'[m]>>] = "PENDING"]
    /\ UNCHANGED <<by, posts, log, deciderVars, scriptVars, faultVars>>

\* Mutant: the caller is not woken by the timeout.
DecidedByHuman(m) ==
    /\ place[m] = "held"
    /\ row[<<m, holds[m]>>] \in Verdicts
    /\ Result(m, row[<<m, holds[m]>>] = "DENIED")

\* [ATC-DENIED] says a verdict and the timeout alike.
Decided(m) ==
    /\ place[m] = "held"
    /\ row[<<m, holds[m]>>] \in Terminal
    /\ Result(m, row[<<m, holds[m]>>] \in Refused)

\* The model asks for no more calls, or has had its MAX_TURNS: also when the session
\* is gone, which only the next call would find out.
Finishes(m) ==
    /\ place[m] \in {"calls", "cut"}
    /\ place' = [place EXCEPT ![m] = "over"]
    /\ UNCHANGED <<storeVars, posts, holds, log, deciderVars, scriptVars, faultVars>>

\* The model's errors, a lost session, the client timeout: the mission ends, and a
\* call that is held stays so, with nobody left to take its answer or expire it.
Breaks(m) ==
    /\ place[m] \in {"calls", "held", "cut", "unanswered"}
    /\ log' = [log EXCEPT ![m] = "failed"]
    /\ place' = [place EXCEPT ![m] = "over"]
    /\ UNCHANGED <<storeVars, posts, holds, deciderVars, scriptVars, faultVars>>

\* A call whose answer is lost is given up after AGENT_CLIENT_TIMEOUT.
GivesUp(m) == place[m] = "unanswered" /\ Breaks(m)

MissionRuns(m) == Answered(m) \/ Held(m) \/ Decided(m) \/ Finishes(m) \/ GivesUp(m)
-----------------------------------------------------------------------------
(* atc-core.                                                               *)

\* The hold timer of a call that still waits.
Expires(c) ==
    /\ row[c] = "PENDING"
    /\ c[1] \in Missions => place[c[1]] = "held" /\ c[2] = holds[c[1]]
    /\ row' = [row EXCEPT ![c] = "EXPIRED"]
    /\ UNCHANGED <<by, posts, missionVars, deciderVars, scriptVars, faultVars>>

StrangerHeld ==
    /\ row[<<0, 1>>] = NoRow
    /\ row' = [row EXCEPT ![<<0, 1>>] = "PENDING"]
    /\ UNCHANGED <<by, posts, missionVars, deciderVars, scriptVars, faultVars>>

Faulty == lost + restarts + Cardinality(erred) < MaxFaults

\* The one who waits for p has its answer, a row or an error.
Answers(p, answer) ==
    /\ doing' = IF doing = "waits" /\ post = p THEN answer ELSE doing
    /\ UNCHANGED <<post, seen, marked, denials>>

\* decide(): the first verdict stands, any later one is answered alike.
Arrives(p) ==
    /\ posts' = posts \ {p}
    /\ IF row[p.call] = "PENDING"
       THEN /\ row' = [row EXCEPT ![p.call] = p.verdict]
            /\ by' = [by EXCEPT ![p.call] = p.run]
       ELSE UNCHANGED storeVars
    /\ Answers(p, "answered")
    /\ UNCHANGED <<missionVars, scriptVars, faultVars>>

\* The handler raises (the database is locked by another process): a 500, whose body
\* is plain text.
ServerErrs(p) ==
    /\ Faulty
    /\ posts' = posts \ {p}
    /\ erred' = erred \cup {AgentOf(p.call)}
    /\ Answers(p, "erred")
    /\ UNCHANGED <<storeVars, missionVars, scriptVars, lost, restarts>>

\* Every hold is expired, every request and every session is gone: the call of a
\* mission that is held will not be answered.
Restart ==
    /\ Faulty
    /\ restarts' = restarts + 1
    /\ row' = [c \in CallIds |-> IF row[c] = "PENDING" THEN "EXPIRED" ELSE row[c]]
    /\ posts' = {}
    /\ place' = [m \in Missions |-> CASE place[m] = "calls" -> "cut"
                                     [] place[m] = "held"  -> "unanswered"
                                     [] OTHER              -> place[m]]
    /\ UNCHANGED <<by, holds, log, deciderVars, scriptVars, lost, erred>>
-----------------------------------------------------------------------------
(* The task that plays the human: run() and _decide().                     *)

\* A list that is empty or cannot be had is one more sleep.
Polls ==
    /\ doing = "polls"
    /\ seen' = {c \in CallIds : row[c] = "PENDING"}
    /\ seen' # {}
    /\ doing' = "decides"
    /\ UNCHANGED <<storeVars, posts, missionVars, post, marked, denials, scriptVars, faultVars>>

\* What a script remembers of a call that it decides: the agent, once and for all,
\* or the call.
Mark(c) ==
    CASE script = "scenario" -> AgentOf(c)
      [] script = "flagship" -> Coder
      [] script = "queue"    -> c

Verdict(c) == IF script # "queue" /\ Mark(c) \in marked THEN "APPROVED" ELSE "DENIED"

\* Mutant: the agent is marked as the request is made.
MarkedEarly(c) == marked \cup {Mark(c)}

\* AutoApprover marks when it is answered, the others when they ask.
MarkedBefore(c) == IF script = "scenario" THEN marked ELSE marked \cup {Mark(c)}

\* The next of the list is decided.
Decides(c) ==
    /\ doing = "decides"
    /\ c \in seen
    /\ seen' = seen \ {c}
    /\ IF script = "queue" /\ c \in marked
       THEN UNCHANGED <<posts, doing, post, marked>>
       ELSE /\ post' = [call |-> c, verdict |-> Verdict(c), run |-> run]
            /\ posts' = posts \cup {post'}
            /\ marked' = MarkedBefore(c)
            /\ doing' = "waits"
    /\ UNCHANGED <<storeVars, missionVars, denials, scriptVars, faultVars>>

Sleeps ==
    /\ doing = "decides"
    /\ seen = {}
    /\ doing' = "polls"
    /\ UNCHANGED <<storeVars, posts, missionVars, post, seen, marked, denials, scriptVars, faultVars>>

\* Whatever the status of the answer, but for the flagship's script.
PostReturns ==
    /\ doing = "answered" \/ (doing = "erred" /\ script # "flagship")
    /\ doing' = "decides"
    /\ IF script = "scenario" /\ post.verdict = "DENIED"
       THEN /\ marked' = marked \cup {Mark(post.call)}
            /\ denials' = denials + 1
       ELSE UNCHANGED <<marked, denials>>
    /\ UNCHANGED <<storeVars, posts, missionVars, post, seen, scriptVars, faultVars>>

\* It prints resp.json() of the answer, and the text of a 500 is none: the task dies.
DiesOfAnswer ==
    /\ doing = "erred"
    /\ script = "flagship"
    /\ doing' = "dead"
    /\ UNCHANGED <<storeVars, posts, missionVars, post, seen, marked, denials, scriptVars, faultVars>>

\* No answer within 10 s, though the request may have arrived or still arrive.
\* AutoApprover goes on to the next; the others have no handler and die of it.
PostFails ==
    /\ doing \in {"waits", "answered", "erred"}
    /\ \/ Faulty /\ lost' = lost + 1 /\ posts' \in {posts, posts \ {post}}
       \/ doing = "waits" /\ post \notin posts /\ UNCHANGED <<lost, posts>>
    /\ doing' = IF script = "scenario" THEN "decides" ELSE "dead"
    /\ UNCHANGED <<storeVars, missionVars, post, seen, marked, denials, scriptVars, restarts, erred>>
-----------------------------------------------------------------------------
(* The script.                                                             *)

\* It looked first, it recovered, and somebody was denied.
Passed(m) == log[m] = "recovered" /\ denials > 0

\* Mutant: range(args.runs + 1).
MoreRunsThanAsked == run <= setting.runs

MoreRuns == run < setting.runs

\* The missions are over, and the polling task is cancelled where it is.  One that
\* died raises now, in the script.  All that a run leaves behind is its result, and
\* in atc-core its rows and a POST that was under way.
Ends ==
    /\ stage = "mission"
    /\ \A m \in Current : place[m] = "over"
    /\ IF script = "scenario"
       THEN /\ results' = Append(results, Passed(run))
            /\ stage' = IF MoreRuns THEN "paces" ELSE "reported"
       ELSE /\ stage' = IF doing = "dead" THEN "raised" ELSE "reported"
            /\ UNCHANGED results
    /\ doing' = "off"
    /\ post' = << >>
    /\ seen' = {}
    /\ marked' = {}
    /\ denials' = 0
    /\ log' = [log EXCEPT ![run] = "empty"]
    /\ UNCHANGED <<storeVars, posts, place, holds, setting, run, faultVars>>

\* The next run, with an AutoApprover that has denied nobody.
NextRun ==
    /\ stage = "paces"
    /\ stage' = "mission"
    /\ run' = run + 1
    /\ place' = [place EXCEPT ![run + 1] = "calls"]
    /\ doing' = "polls"
    /\ UNCHANGED <<storeVars, posts, holds, log, post, seen, marked, denials,
                   setting, results, faultVars>>

PollerRuns ==
    Polls \/ (\E c \in CallIds : Decides(c)) \/ Sleeps \/ PostReturns \/ DiesOfAnswer

Hears == (\E p \in posts : Arrives(p) \/ ServerErrs(p)) \/ PostFails

Next ==
    \/ \E m \in Missions : MissionRuns(m) \/ Breaks(m)
    \/ \E c \in CallIds : Expires(c)
    \/ StrangerHeld \/ Restart \/ PollerRuns \/ Hears \/ Ends \/ NextRun

Spec == Init /\ [][Next]_vars

\* The chat model and the gateway answer or fail, within MAX_TURNS turns, and so does
\* every POST; the timer of a call that waits fires; the script's own loop runs.
FairSpec ==
    /\ Spec
    /\ \A m \in Missions : WF_vars(MissionRuns(m))
    /\ \A c \in CallIds : WF_vars(Expires(c))
    /\ WF_vars(PollerRuns)
    /\ WF_vars(Hears)
    /\ WF_vars(Ends \/ NextRun)
-----------------------------------------------------------------------------
Posts == [call : CallIds, verdict : Verdicts, run : Missions]

RunsOver == IF stage = "mission" THEN run - 1 ELSE run

Doings == {"polls", "decides", "waits", "answered", "erred", "dead", "off"}
Places == {"none", "calls", "held", "cut", "unanswered", "over"}

\* Every variable has its type, and only what waits, has failed or was cancelled is on its way.
TypeOK ==
    /\ setting \in Settings
    /\ row \in [CallIds -> RowValues] /\ by \in [CallIds -> Missions \cup {0}]
    /\ posts \subseteq Posts
    /\ place \in [Missions -> Places]
    /\ holds \in [Missions -> 0 .. setting.holds]
    /\ log \in [Missions -> {"empty", "looked", "denied", "recovered", "failed"}]
    /\ stage \in {"mission", "paces", "reported", "raised"} /\ run \in 1 .. setting.runs
    /\ doing \in Doings
    /\ post \in Posts \cup {<< >>} /\ seen \subseteq CallIds
    /\ marked \subseteq {Coder, Comply} \cup CallIds
    /\ denials \in Nat
    /\ Len(results) = IF script = "scenario" THEN RunsOver ELSE 0
    /\ Cardinality(posts \ {post}) <= lost + RunsOver
    /\ {lost, restarts} \subseteq 0 .. MaxFaults /\ erred \subseteq {Coder, Comply}

\* "Deny the first destructive attempt": what a script approves is never the first
\* hold of its agent, also when a denial was lost, overtaken by the timer or by a
\* restart, or still under way when its run ended.  The flagship script keeps one
\* mark for everybody, so there it may be another agent's hold that was refused; and
\* a denial answered with an error counts as made.
FirstIsNotApproved ==
    \A c \in CallIds : row[c] = "APPROVED" =>
        \/ erred # {}
        \/ \E d \in CallIds : /\ row[d] \in Refused
                              /\ script = "scenario" => AgentOf(d) = AgentOf(c)

\* The approver denies an agent once per run, and once more for every POST whose
\* answer was lost: a recovery has "a real chance to be genuinely approved".
OneDenialEach ==
    script # "queue" => \A i \in Missions, a \in {Coder, Comply} :
        Cardinality({c \in CallIds : row[c] = "DENIED" /\ by[c] = i /\ AgentOf(c) = a}) <= 1 + lost

\* A run counts as passed only if a hold was refused while there were runs (not
\* necessarily one of its own agent's), or atc-core failed at it.
PassNeedsARefusal ==
    \A i \in DOMAIN results : results[i] => erred # {} \/ \E c \in CallIds : row[c] \in Refused

\* The script plays the human as the scenario wants it: it denies first and approves
\* the recovery, and what it reports as a pass had a refusal in it.
PlaysTheHuman == FirstIsNotApproved /\ OneDenialEach /\ PassNeedsARefusal

\* Every script comes to its report, however the missions, the POSTs and atc-core
\* fail; only one whose polling task died of a POST raises instead: of a lost answer,
\* and the flagship's of an error as well.
ScriptEnds ==
    <>(\/ stage = "reported"
       \/ /\ stage = "raised"
          /\ script # "scenario"
          /\ lost + restarts > 0 \/ (script = "flagship" /\ erred # {}))
=============================================================================
