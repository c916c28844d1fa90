------------------------------ MODULE Gateway -------------------------------
(***************************************************************************)
(* Admission: what the gateway (gateway/server.py) lets an agent do, on    *)
(* the word of the agents table, and who writes that table: the operator's *)
(* quarantine switch and the agent runner's heartbeats (api/routes.py).    *)
(* The runner (agent_runner/main.py, mission.py) is the other end: its     *)
(* missions make the calls and spend the tokens that its beats report.     *)
(*                                                                         *)
(* All statements share one SQLite connection: an UPDATE is seen by every  *)
(* reader at once, and any commit makes every earlier UPDATE durable.      *)
(* The hold is what ActionLifecycle promises: it ends in a resolution.     *)
(***************************************************************************)
EXTENDS ActionStatus, Integers, FiniteSets

CONSTANTS
    Agents,     \* the registered agents, each with a persona in the runner
    Tools,      \* what a call may name
    Scope,      \* the tools in each agent's scope
    Known,      \* the tools that some upstream server has
    Held,       \* the tools whose calls are held for approval
    Budget,     \* ATC_TOKEN_BUDGET
    Costs,      \* the tokens one completion may take
    MaxTurns,   \* completions in a mission
    MaxTokens,  \* bound: the tokens each agent spends
    Calls,      \* bound: the calls that reach the gateway
    Posts,      \* bound: the operator's quarantine requests
    Slots,      \* bound: heartbeats inside atc-core at once
    MaxRequests,\* bound: calls and quarantine requests together
    Mortal,     \* bound: the processes that may die, of "atc-core" and "runner"
    MaxFaults   \* bound: how often they die, together

ASSUME AdmissionAssumption ==
    /\ Scope \in [Agents -> SUBSET Tools]
    /\ Known \subseteq Tools
    /\ Held \subseteq Tools
    /\ Budget \in Nat \ {0}
    /\ Costs \subseteq Nat
    /\ MaxTurns \in Nat \ {0}
    /\ {MaxTokens, MaxRequests, MaxFaults} \subseteq Nat

NoOne == "none"

ASSUME NamesAssumption == NoOne \notin Agents \cup Tools \cup Calls

VARIABLES
    phase,      \* atc-core is "serving" or "down"
    store,      \* the agents table as every statement sees it
    durable,    \* the agents table as of the last commit
    calls,      \* the tool calls inside the gateway
    posts,      \* the quarantine requests inside the API
    beats,      \* the heartbeats inside the API
    missions,   \* each persona's mission
    usage,      \* usage_totals, in the runner's memory
    round,      \* the agents this heartbeat round has still to report
    crashes,    \* crashes of atc-core so far
    restarts,   \* restarts of the runner so far
    spent,      \* history: the tokens each agent really used
    barred      \* history: the agents whose quarantine was confirmed, no lift asked since

coreVars == <<calls, posts, beats>>
runnerVars == <<missions, usage, round, spent>>
faultVars == <<crashes, restarts>>
vars == <<phase, store, durable, coreVars, runnerVars, faultVars, barred>>

\* A row as startup() inserts it.
NewRow == [quarantined |-> FALSE, tokens_used |-> 0]

IdleCall == [stage |-> "idle", agent |-> NoOne, tool |-> NoOne]

IdlePost == [stage |-> "idle", agent |-> NoOne, flag |-> FALSE, alone |-> FALSE]

IdleBeat == [stage |-> "idle", agent |-> NoOne, tokens |-> 0, awaited |-> FALSE]

Asleep == [stage |-> "asleep", tokens |-> 0, turns |-> 0, call |-> NoOne, session |-> FALSE]

Begun == [stage |-> "chat", tokens |-> 0, turns |-> 0, call |-> NoOne, session |-> TRUE]

\* A new database, and a runner that has just started.
Init ==
    /\ phase = "down"
    /\ durable = [a \in {} |-> NewRow]
    /\ store = durable
    /\ calls = [c \in Calls |-> IdleCall]
    /\ posts = [p \in Posts |-> IdlePost]
    /\ beats = [s \in Slots |-> IdleBeat]
    /\ missions = [a \in Agents |-> Asleep]
    /\ usage = [a \in Agents |-> 0]
    /\ round = Agents
    /\ crashes = 0
    /\ restarts = 0
    /\ spent = [a \in Agents |-> 0]
    /\ barred = {}

\* Identities are handed out in a fixed order: which is whose shows nowhere.
Unused(table) == CHOOSE x \in DOMAIN table : table[x].stage = "idle"

HasUnused(table) == \E x \in DOMAIN table : table[x].stage = "idle"

\* The bound on requests leaves room for another one.
Room ==
    Cardinality({c \in Calls : calls[c].stage # "idle"})
        + Cardinality({p \in Posts : posts[p].stage # "idle"}) < MaxRequests
-----------------------------------------------------------------------------
(* A tool call, one step for each stretch of _handle_call_tool between two *)
(* awaits.                                                                 *)

\* What the row, the scope and the catalogue say of a call, in the code's order.
Admission(row, a, tool) ==
    CASE row.quarantined -> "quarantined"
      [] row.tokens_used >= Budget -> "overBudget"
      [] tool \notin Scope[a] \cap Known -> "refused"
      [] OTHER -> "submit"

\* Where a call is suspended inside the gateway.
Inside == {"gate", "submit", "hold", "execute"}

\* How a call is answered; a refusal is an ordinary result too.
Answers == {"ran", "quarantined", "overBudget", "refused"}

CallGoes(c, from, to) ==
    /\ calls[c].stage = from
    /\ calls' = [calls EXCEPT ![c].stage = to]

\* get_agent() answers, and everything up to the next await follows.
Admit(c) ==
    /\ CallGoes(c, "gate", Admission(store[calls[c].agent], calls[c].agent, calls[c].tool))
    /\ UNCHANGED <<phase, store, durable, posts, beats, runnerVars, faultVars, barred>>

\* The blast radius, a read, has been estimated for what is not of LOW risk, and
\* submit() has inserted the action and committed.
Submitted(c) ==
    /\ CallGoes(c, "submit", IF calls[c].tool \in Held THEN "hold" ELSE "execute")
    /\ durable' = store
    /\ UNCHANGED <<phase, store, posts, beats, runnerVars, faultVars, barred>>

\* wait_for_decision() returns the resolution, which is committed.
Decided(c) ==
    /\ \E status \in Resolutions :
            CallGoes(c, "hold", IF status \in Allowed THEN "execute" ELSE "refused")
    /\ durable' = store
    /\ UNCHANGED <<phase, store, posts, beats, runnerVars, faultVars, barred>>

\* The upstream server runs the tool; the capture before it is JournalUndo's.
Executed(c) ==
    /\ CallGoes(c, "execute", "ran")
    /\ UNCHANGED <<phase, store, durable, posts, beats, runnerVars, faultVars, barred>>

\* A call nobody waits for any more may be cancelled at any of its awaits.
Cancelled(c) ==
    /\ \A a \in Agents : missions[a].call # c
    /\ \E from \in Inside : CallGoes(c, from, "lost")
    /\ UNCHANGED <<phase, store, durable, posts, beats, runnerVars, faultVars, barred>>
-----------------------------------------------------------------------------
(* The operator's switch.                                                  *)

Answering == {"update", "commit"}

\* The request arrives; alone says that no lift of the same agent overlaps it.
Quarantine(a, flag) ==
    LET p == Unused(posts)
        lifts == {q \in Posts : posts[q].stage \in Answering /\ posts[q].agent = a /\ ~posts[q].flag}
    IN
    /\ phase = "serving"
    /\ Room
    /\ HasUnused(posts)
    /\ posts' = [q \in Posts |->
            IF q = p
            THEN [stage |-> "update", agent |-> a, flag |-> flag, alone |-> flag /\ lifts = {}]
            ELSE [posts[q] EXCEPT !.alone = @ /\ (flag \/ posts[q].agent # a)]]
    /\ barred' = IF flag THEN barred ELSE barred \ {a}
    /\ UNCHANGED <<phase, store, durable, calls, beats, runnerVars, faultVars>>

SetQuarantined(p) ==
    /\ posts[p].stage = "update"
    /\ posts' = [posts EXCEPT ![p].stage = "commit"]
    /\ store' = [store EXCEPT ![posts[p].agent].quarantined = posts[p].flag]
    /\ UNCHANGED <<phase, durable, calls, beats, runnerVars, faultVars, barred>>

\* The commit; the operator is then shown the new row.
QuarantineCommits(p) ==
    /\ posts[p].stage = "commit"
    /\ posts' = [posts EXCEPT ![p].stage = "answered"]
    /\ durable' = store
    /\ barred' = IF posts[p].alone THEN barred \cup {posts[p].agent} ELSE barred
    /\ UNCHANGED <<phase, store, calls, beats, runnerVars, faultVars>>
-----------------------------------------------------------------------------
(* A heartbeat inside the API.                                             *)

BeatGoes(s, from, to) ==
    /\ beats[s].stage = from
    /\ beats' = [beats EXCEPT ![s].stage = to]

\* record_heartbeat() writes a timestamp, and commits whatever else is pending.
RecordHeartbeat(s) ==
    /\ BeatGoes(s, "record", "update")
    /\ durable' = store
    /\ UNCHANGED <<phase, store, calls, posts, runnerVars, faultVars, barred>>

\* Mutant: an increment where the code overwrites.
SetTokensUsedAdding(s) ==
    /\ BeatGoes(s, "update", "commit")
    /\ store' = [store EXCEPT ![beats[s].agent].tokens_used = @ + beats[s].tokens]
    /\ UNCHANGED <<phase, durable, calls, posts, runnerVars, faultVars, barred>>

\* set_tokens_used() overwrites the total with the reported one.
SetTokensUsed(s) ==
    /\ BeatGoes(s, "update", "commit")
    /\ store' = [store EXCEPT ![beats[s].agent].tokens_used = beats[s].tokens]
    /\ UNCHANGED <<phase, durable, calls, posts, runnerVars, faultVars, barred>>

\* The commit; a runner that still waits is answered, and goes on to the next agent.
BeatCommits(s) ==
    /\ beats[s].stage = "commit"
    /\ beats' = [beats EXCEPT ![s] = IdleBeat]
    /\ durable' = store
    /\ round' = IF beats[s].awaited THEN round \ {beats[s].agent} ELSE round
    /\ UNCHANGED <<phase, store, calls, posts, missions, usage, spent, faultVars, barred>>
-----------------------------------------------------------------------------
(* The runner's heartbeat loop: one POST at a time, round after round.     *)

Waiting == \E s \in Slots : beats[s].awaited

\* The POST reaches atc-core, or finds nobody there and is skipped.
SendBeat(a) ==
    /\ a \in round
    /\ ~Waiting
    /\ \/ /\ phase = "serving"
          /\ HasUnused(beats)
          /\ beats' = [beats EXCEPT ![Unused(beats)] =
                [stage |-> "record", agent |-> a, tokens |-> usage[a], awaited |-> TRUE]]
          /\ UNCHANGED round
       \/ /\ phase = "down"
          /\ round' = round \ {a}
          /\ UNCHANGED beats
    /\ UNCHANGED <<phase, store, durable, calls, posts, missions, usage, spent, faultVars, barred>>

\* The client's timeout: the POST is given up, and goes on inside atc-core.
BeatTimesOut(s) ==
    /\ beats[s].awaited
    /\ beats' = [beats EXCEPT ![s].awaited = FALSE]
    /\ round' = round \ {beats[s].agent}
    /\ UNCHANGED <<phase, store, durable, calls, posts, missions, usage, spent, faultVars, barred>>

\* Mutant: a single round.
SleepsForGood ==
    /\ round = {}
    /\ UNCHANGED vars

\* The sleep between two rounds.
Sleeps ==
    /\ round = {}
    /\ round' = Agents
    /\ UNCHANGED <<phase, store, durable, coreVars, missions, usage, spent, faultVars, barred>>
-----------------------------------------------------------------------------
(* A mission: completions, and the calls that each of them asks for.       *)

\* run_mission() returns its log and the loop adds it up.
Ends(a, tokens) ==
    /\ missions' = [missions EXCEPT ![a] = Asleep]
    /\ usage' = [usage EXCEPT ![a] = @ + tokens]

\* session.call_tool() reaches the gateway.
SendCall(a, tokens, turns) ==
    LET c == Unused(calls) IN
    \E tool \in Tools :
        /\ phase = "serving"
        /\ Room
        /\ HasUnused(calls)
        /\ calls' = [calls EXCEPT ![c] =
                [stage |-> "gate", agent |-> a, tool |-> tool]]
        /\ missions' = [missions EXCEPT ![a] =
                [stage |-> "call", tokens |-> tokens, turns |-> turns, call |-> c, session |-> TRUE]]
        /\ UNCHANGED usage

\* The session is set up; when it cannot be, the mission ends with nothing spent.
Begins(a) ==
    /\ missions[a].stage = "asleep"
    /\ phase = "serving"
    /\ missions' = [missions EXCEPT ![a] = Begun]
    /\ UNCHANGED <<phase, store, durable, coreVars, usage, round, spent, faultVars, barred>>

\* A completion: the mission's last word, which is also how a mission ends that
\* can no longer reach its session, or a request for tools.
Completes(a) ==
    /\ missions[a].stage = "chat"
    /\ \E n \in Costs :
        LET tokens == missions[a].tokens + n IN
        /\ spent[a] + n <= MaxTokens
        /\ spent' = [spent EXCEPT ![a] = @ + n]
        /\ \/ Ends(a, tokens) /\ UNCHANGED calls
           \/ missions[a].session /\ SendCall(a, tokens, missions[a].turns + 1)
    /\ UNCHANGED <<phase, store, durable, posts, beats, round, faultVars, barred>>

\* The completion itself fails; what earlier ones took still counts.
ChatFails(a) ==
    /\ missions[a].stage = "chat"
    /\ Ends(a, missions[a].tokens)
    /\ UNCHANGED <<phase, store, durable, coreVars, round, spent, faultVars, barred>>

\* The result is read: the message's next call, the next turn, or the last turn's end.
ReadsResult(a) ==
    LET m == missions[a] IN
    /\ m.stage = "call"
    /\ calls[m.call].stage \in Answers
    /\ \/ m.session /\ SendCall(a, m.tokens, m.turns)
       \/ /\ m.turns < MaxTurns
          /\ missions' = [missions EXCEPT ![a] =
                [stage |-> "chat", tokens |-> m.tokens, turns |-> m.turns, call |-> NoOne,
                 session |-> m.session]]
          /\ UNCHANGED <<calls, usage>>
       \/ m.turns = MaxTurns /\ Ends(a, m.tokens) /\ UNCHANGED calls
    /\ UNCHANGED <<phase, store, durable, posts, beats, round, spent, faultVars, barred>>

\* call_tool() raises: the connection broke, or the client timeout came first.
CallRaises(a) ==
    /\ missions[a].stage = "call"
    /\ calls[missions[a].call].stage \notin Answers
    /\ Ends(a, missions[a].tokens)
    /\ UNCHANGED <<phase, store, durable, coreVars, round, spent, faultVars, barred>>
-----------------------------------------------------------------------------
(* Processes that die and start again.                                     *)

\* Mutant: startup() upserts every agent, quarantined = excluded.quarantined.
SeededAfresh(rows) ==
    [a \in Agents |-> IF a \in DOMAIN rows THEN [rows[a] EXCEPT !.quarantined = FALSE] ELSE NewRow]

\* Mutant: startup() forgets the agents.
SeededNever(rows) == rows

\* startup() inserts the agents that have no row, and no others.
Seeded(rows) == [a \in Agents |-> IF a \in DOMAIN rows THEN rows[a] ELSE NewRow]

Boot ==
    /\ phase = "down"
    /\ phase' = "serving"
    /\ durable' = Seeded(durable)
    /\ store' = durable'
    /\ UNCHANGED <<coreVars, runnerVars, faultVars, barred>>

\* Whatever was not committed is gone, and so is every request and session.
Crash ==
    /\ phase = "serving"
    /\ "atc-core" \in Mortal
    /\ crashes + restarts < MaxFaults
    /\ phase' = "down"
    /\ crashes' = crashes + 1
    /\ store' = durable
    /\ calls' = [c \in Calls |->
            IF calls[c].stage \in Inside THEN [calls[c] EXCEPT !.stage = "lost"] ELSE calls[c]]
    /\ posts' = [p \in Posts |->
            IF posts[p].stage \in Answering THEN [posts[p] EXCEPT !.stage = "lost"] ELSE posts[p]]
    /\ beats' = [s \in Slots |-> IdleBeat]
    /\ round' = {a \in round : \A s \in Slots : beats[s].awaited => beats[s].agent # a}
    /\ missions' = [a \in Agents |-> [missions[a] EXCEPT !.session = FALSE]]
    /\ UNCHANGED <<durable, usage, spent, restarts, barred>>

\* usage_totals = {}: a new runner knows nothing of what the old one spent.
RunnerRestarts ==
    /\ "runner" \in Mortal
    /\ crashes + restarts < MaxFaults
    /\ restarts' = restarts + 1
    /\ missions' = [a \in Agents |-> Asleep]
    /\ usage' = [a \in Agents |-> 0]
    /\ round' = Agents
    /\ beats' = [s \in Slots |-> [beats[s] EXCEPT !.awaited = FALSE]]
    /\ UNCHANGED <<phase, store, durable, calls, posts, spent, crashes, barred>>
-----------------------------------------------------------------------------
CallSteps(c) == Admit(c) \/ Submitted(c) \/ Decided(c) \/ Executed(c)

PostSteps(p) == SetQuarantined(p) \/ QuarantineCommits(p)

BeatSteps(s) == RecordHeartbeat(s) \/ SetTokensUsed(s) \/ BeatCommits(s)

HeartbeatLoop == Sleeps \/ (\E a \in Agents : SendBeat(a))

MissionSteps(a) == Completes(a) \/ ChatFails(a) \/ ReadsResult(a) \/ CallRaises(a)

Next ==
    \/ \E c \in Calls : CallSteps(c) \/ Cancelled(c)
    \/ \E p \in Posts : PostSteps(p)
    \/ \E a \in Agents, flag \in BOOLEAN : Quarantine(a, flag)
    \/ \E s \in Slots : BeatSteps(s) \/ BeatTimesOut(s)
    \/ \E a \in Agents : Begins(a) \/ MissionSteps(a)
    \/ HeartbeatLoop \/ Boot \/ Crash \/ RunnerRestarts

Spec == Init /\ [][Next]_vars

\* The event loops of both processes run what is ready.  Nobody has to switch a
\* quarantine, restart atc-core, or start a mission.
Fairness ==
    /\ \A c \in Calls : WF_vars(CallSteps(c))
    /\ \A p \in Posts : WF_vars(PostSteps(p))
    /\ \A s \in Slots : WF_vars(BeatSteps(s))
    /\ \A a \in Agents : WF_vars(MissionSteps(a))
    /\ WF_vars(HeartbeatLoop)

FairSpec == Spec /\ Fairness
-----------------------------------------------------------------------------
(* Properties.                                                             *)

Rows == [quarantined : BOOLEAN, tokens_used : Nat]

CallStages == Inside \cup Answers \cup {"idle", "lost"}

CallRecords == [stage : CallStages, agent : Agents \cup {NoOne}, tool : Tools \cup {NoOne}]

PostRecords ==
    [stage : Answering \cup {"idle", "answered", "lost"}, agent : Agents \cup {NoOne},
     flag : BOOLEAN, alone : BOOLEAN]

BeatRecords ==
    [stage : {"idle", "record", "update", "commit"}, agent : Agents \cup {NoOne},
     tokens : Nat, awaited : BOOLEAN]

MissionRecords ==
    [stage : {"asleep", "chat", "call"}, tokens : Nat, turns : 0..MaxTurns,
     call : Calls \cup {NoOne}, session : BOOLEAN]

\* Every variable has its type: a table has no row or one for every agent, and
\* atc-core serves only when it has them all.
TypeOK ==
    /\ phase \in {"down", "serving"}
    /\ \/ store \in [Agents -> Rows] /\ durable \in [Agents -> Rows]
       \/ phase = "down" /\ store \in [{} -> Rows] /\ durable \in [{} -> Rows]
    /\ calls \in [Calls -> CallRecords]
    /\ posts \in [Posts -> PostRecords]
    /\ beats \in [Slots -> BeatRecords]
    /\ missions \in [Agents -> MissionRecords]
    /\ usage \in [Agents -> Nat]
    /\ round \subseteq Agents
    /\ {crashes, restarts} \subseteq 0..MaxFaults
    /\ spent \in [Agents -> Nat]
    /\ barred \subseteq Agents

\* The kill switch: once the operator has seen the quarantine confirmed, the gate
\* reads it, now and after any crash, until somebody asks for the lift.
ConfirmedQuarantineHolds ==
    \A a \in barred : durable[a].quarantined /\ store[a].quarantined

\* db.py: "a redelivered heartbeat can't double-count".  No agent is ever charged
\* with more than it spent, through timeouts, late beats and restarts.
NeverOverBilled ==
    \A a \in DOMAIN store : store[a].tokens_used <= spent[a] /\ durable[a].tokens_used <= spent[a]

\* The budget breaker sees the spend: what a runner's missions have used up reaches
\* the gate, unless the runner restarts or atc-core stays down.
SpendIsReported ==
    \A a \in Agents :
        usage[a] >= Budget ~> (phase = "down" \/ usage[a] < Budget
                                \/ store[a].tokens_used >= Budget)

\* server.py:43: "All tool calls are blocked until the quarantine is lifted."  A
\* call that is still held when the quarantine is confirmed is not let go either.
QuarantineBlocksHeldCalls ==
    [][\A c \in Calls :
        (calls[c].agent \in barred /\ Decided(c)) => calls'[c].stage # "execute"]_vars
-----------------------------------------------------------------------------
(* The inductive invariant behind the two of them: what each request inside *)
(* atc-core carries, and what no request may be about to do.               *)

NoLift(a) ==
    \A q \in Posts : posts[q].stage \in Answering /\ posts[q].agent = a => posts[q].flag

\* A request in progress belongs to a serving process and a registered agent.
RequestInv ==
    /\ \A p \in Posts : posts[p].stage \in Answering =>
            phase = "serving" /\ posts[p].agent \in Agents
    /\ \A s \in Slots : beats[s].stage # "idle" =>
            phase = "serving" /\ beats[s].agent \in Agents
    /\ \A a \in Agents : missions[a].stage = "chat" => missions[a].turns < MaxTurns

\* Nothing that is on its way to the agents table exceeds what was spent.
BillingInv ==
    /\ NeverOverBilled
    /\ \A s \in Slots : beats[s].stage # "idle" => beats[s].tokens <= spent[beats[s].agent]
    /\ \A a \in Agents : usage[a] + missions[a].tokens <= spent[a]

\* A quarantine that will be confirmed has been written, and no lift is on its way.
QuarantineInv ==
    /\ barred # {} => DOMAIN store = Agents
    /\ ConfirmedQuarantineHolds
    /\ \A a \in barred : NoLift(a)
    /\ \A p \in Posts :
            (posts[p].stage \in Answering /\ posts[p].alone) =>
                /\ NoLift(posts[p].agent)
                /\ posts[p].stage = "commit" => store[posts[p].agent].quarantined

Inv == TypeOK /\ RequestInv /\ BillingInv /\ QuarantineInv
=============================================================================
