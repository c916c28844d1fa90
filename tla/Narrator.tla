------------------------------ MODULE Narrator ------------------------------
(***************************************************************************)
(* The Narrator of atc-core: POST /api/narrate for one trace, while the     *)
(* calls of that trace still run.  A request looks into the narrations      *)
(* table, else fetches a timeline (SigNoz's Trace API first, the actions    *)
(* table if that yields nothing), condenses it, has the chat model tell it, *)
(* stores the text and answers.  All of it shares the connection, its       *)
(* queue and its transaction with the gate that writes the actions.         *)
(*                                                                         *)
(* A timeline is a set of facts, a text the facts it was told from and the  *)
(* request that had it told: two tellings of the same facts differ.         *)
(***************************************************************************)
EXTENDS EventLoop, ActionStatus, Integers, FiniteSets

CONSTANTS
    Requests,    \* bound: the narrate requests
    Calls,       \* bound: the tool calls of the trace
    MaxRetries,  \* max_retries
    MaxFacts,    \* the facts that fit into max_chars
    MaxCrashes   \* bound: how often atc-core dies

\* Who may have written a text, other than a request.
Scribes == {"nobody", "narrator", "timeline"}

ASSUME NarratorAssumption ==
    /\ Requests \cap (Calls \cup Scribes) = {}
    /\ IsFiniteSet(Calls)
    /\ MaxRetries \in Nat \ {0}
    /\ {MaxFacts, MaxCrashes} \subseteq Nat

VARIABLES
    held,       \* the calls that the gate holds
    phase,      \* atc-core is "serving" or "down"
    log,        \* the trace's facts as every statement sees them, in their order
    text,       \* the narration as every statement sees it
    durable,    \* both, as of the last commit
    exported,   \* the facts that SigNoz has received
    got,        \* what each request has read: a text, and then a timeline
    attempts,   \* how often each request has asked the chat model
    told,       \* the text each request was answered
    crashes,
    settled     \* history: the text that was settled when each request began

tableVars == <<log, text, durable>>
requestVars == <<got, attempts, told>>
vars == <<loopVars, held, phase, tableVars, exported, requestVars, crashes, settled>>

Tasks == Requests \cup Calls

NoText == [by |-> "nobody", facts |-> {}]

\* NO_ACTIVITY_TEXT, which is the same whoever stores it.
NoActivity == [by |-> "narrator", facts |-> {}]

\* What the actions table says of call c.
StatusIn(table, c) ==
    LET said == {i \in DOMAIN table : table[i].call = c}
    IN  IF said = {} THEN NoRow ELSE table[CHOOSE i \in said : \A j \in said : i >= j].status

Status(c) == StatusIn(log, c)

\* ActionStoreSpanFetcher: each row's request, and its decision once it has one.
\* An auto-allowed row is resolved at its request.
FactsOf(table) == {[call |-> table[i].call, status |-> table[i].status, nth |-> i] : i \in DOMAIN table}

\* condense_timeline(): the timeline's beginning, as far as it fits.
Condense(facts) ==
    {f \in facts : Cardinality({g \in facts : g.nth <= f.nth}) <= MaxFacts}

Init ==
    /\ pc = [t \in Tasks |-> "idle"]
    /\ io = [t \in Tasks |-> "none"]
    /\ dbq = << >>
    /\ ready = << >>
    /\ held \in SUBSET Calls
    /\ phase = "serving"
    /\ log = << >>
    /\ text = NoText
    /\ durable = [log |-> << >>, text |-> NoText]
    /\ exported = {}
    /\ got = [r \in Requests |-> NoText]
    /\ attempts = [r \in Requests |-> 0]
    /\ told = [r \in Requests |-> NoText]
    /\ crashes = 0
    /\ settled = [r \in Requests |-> NoText]
-----------------------------------------------------------------------------
(* The database thread.                                                    *)

OperationIs(ops) == dbq # << >> /\ Head(dbq).op \in ops

Writes(c, status) == log' = Append(log, [call |-> c, status |-> status])

InsertAction ==
    /\ OperationIs({"insert"})
    /\ Writes(Head(dbq).task, IF Head(dbq).task \in held THEN "PENDING" ELSE "AUTO_ALLOWED")
    /\ Complete
    /\ UNCHANGED <<held, phase, text, durable, exported, requestVars, crashes, settled>>

\* A verdict or the timeout, whichever comes first.
ResolveAction ==
    /\ OperationIs({"resolve"})
    /\ \E status \in Resolutions : Writes(Head(dbq).task, status)
    /\ Complete
    /\ UNCHANGED <<held, phase, text, durable, exported, requestVars, crashes, settled>>

\* The last text stored stands.
UpsertNarration ==
    /\ OperationIs({"store"})
    /\ text' = got[Head(dbq).task]
    /\ Complete
    /\ UNCHANGED <<held, phase, log, durable, exported, requestVars, crashes, settled>>

Commit ==
    /\ OperationIs({"insertCommit", "resolveCommit", "storeCommit"})
    /\ durable' = [log |-> log, text |-> text]
    /\ Complete
    /\ UNCHANGED <<held, phase, log, text, exported, requestVars, crashes, settled>>

GetNarration ==
    /\ OperationIs({"cached"})
    /\ got' = [got EXCEPT ![Head(dbq).task] = text]
    /\ Complete
    /\ UNCHANGED <<held, phase, tableVars, exported, attempts, told, crashes, settled>>

ListActions ==
    /\ OperationIs({"list"})
    /\ got' = [got EXCEPT ![Head(dbq).task] = [by |-> "timeline", facts |-> FactsOf(log)]]
    /\ Complete
    /\ UNCHANGED <<held, phase, tableVars, exported, attempts, told, crashes, settled>>

Fetch ==
    /\ OperationIs({"cachedFetch", "listFetch"})
    /\ Complete
    /\ UNCHANGED <<held, phase, tableVars, exported, requestVars, crashes, settled>>

DbThread ==
    InsertAction \/ ResolveAction \/ UpsertNarration \/ Commit \/ GetNarration \/ ListActions \/ Fetch

\* The second await of a store method, its commit or its fetch.
NextAwait ==
    [insert |-> "insertCommit", resolve |-> "resolveCommit", store |-> "storeCommit",
     cached |-> "cachedFetch", list |-> "listFetch"]

SecondAwait(t) ==
    /\ \E op \in DOMAIN NextAwait : Continue(t, op, NextAwait[op])
    /\ UNCHANGED <<held, phase, tableVars, exported, requestVars, crashes, settled>>
-----------------------------------------------------------------------------
(* The gate, as far as the trace's rows go.                                *)

Submit(c) ==
    /\ phase = "serving"
    /\ pc[c] = "idle"
    /\ Start(c, "insert")
    /\ UNCHANGED <<held, phase, tableVars, exported, requestVars, crashes, settled>>

Submitted(c) ==
    /\ Leave(c, "insertCommit", IF c \in held THEN "wait" ELSE "done")
    /\ UNCHANGED <<held, phase, tableVars, exported, requestVars, crashes, settled>>

Resolve(c) ==
    /\ pc[c] = "wait"
    /\ Start(c, "resolve")
    /\ UNCHANGED <<held, phase, tableVars, exported, requestVars, crashes, settled>>

Resolved(c) ==
    /\ Leave(c, "resolveCommit", "done")
    /\ UNCHANGED <<held, phase, tableVars, exported, requestVars, crashes, settled>>

\* The span of a call is exported at some time after the call is over.
Export(c) ==
    /\ pc[c] = "done"
    /\ exported' = exported \cup {f \in FactsOf(log) : f.call = c}
    /\ exported' # exported
    /\ UNCHANGED <<loopVars, held, phase, tableVars, requestVars, crashes, settled>>
-----------------------------------------------------------------------------
(* A request: Narrator.narrate().                                          *)

Over == {"idle", "answered", "failed", "done", "lost"}

Narrate(r) ==
    /\ phase = "serving"
    /\ pc[r] = "idle"
    /\ Start(r, "cached")
    /\ settled' = IF \A s \in Requests : pc[s] \in Over THEN [settled EXCEPT ![r] = durable.text]
                                                    ELSE settled
    /\ UNCHANGED <<held, phase, tableVars, exported, requestVars, crashes>>

Answers(r, t) == told' = [told EXCEPT ![r] = t]

\* Mutant: the row is there as soon as it is selected.
CachedUnfetched(r) ==
    /\ got[r] # NoText
    /\ Leave(r, "cached", "answered")
    /\ Answers(r, got[r])
    /\ UNCHANGED <<held, phase, tableVars, exported, got, attempts, crashes, settled>>

Cached(r) ==
    /\ got[r] # NoText
    /\ Leave(r, "cachedFetch", "answered")
    /\ Answers(r, got[r])
    /\ UNCHANGED <<held, phase, tableVars, exported, got, attempts, crashes, settled>>

\* Mutant: what is cached is told anew.
MissedAnyway(r) ==
    /\ Leave(r, "cachedFetch", "primary")
    /\ UNCHANGED <<held, phase, tableVars, exported, requestVars, crashes, settled>>

Missed(r) ==
    /\ got[r] = NoText
    /\ Leave(r, "cachedFetch", "primary")
    /\ UNCHANGED <<held, phase, tableVars, exported, requestVars, crashes, settled>>

\* The loop learns of an answer from outside.
Wakes(r) ==
    /\ io' = [io EXCEPT ![r] = "returned"]
    /\ ready' = Append(ready, r)
    /\ UNCHANGED <<pc, dbq>>

\* The Trace API answers with what it has, or fails or answers no JSON, which is
\* no spans: a configuration without SigNoz is one whose answers always fail.
TraceApi(r) ==
    /\ pc[r] = "primary"
    /\ io[r] = "none"
    /\ \E facts \in {exported, {}} :
        got' = [got EXCEPT ![r] = [by |-> "timeline", facts |-> facts]]
    /\ Wakes(r)
    /\ UNCHANGED <<held, phase, tableVars, exported, attempts, told, crashes, settled>>

\* Its JSON has another shape than expected, which is read outside of the try: the
\* request fails.
Misread(r) ==
    /\ pc[r] = "primary"
    /\ io[r] = "none"
    /\ pc' = [pc EXCEPT ![r] = "failed"]
    /\ UNCHANGED <<io, dbq, ready, held, phase, tableVars, exported, requestVars, crashes, settled>>

FallsBack(r) ==
    /\ got[r].facts = {}
    /\ Continue(r, "primary", "list")
    /\ UNCHANGED <<held, phase, tableVars, exported, requestVars, crashes, settled>>

\* The timeline is condensed and the chat model is asked.
Asks(r) ==
    /\ got[r].facts # {}
    /\ \/ Leave(r, "primary", "chat")
       \/ Leave(r, "listFetch", "chat")
    /\ got' = [got EXCEPT ![r].facts = Condense(@)]
    /\ attempts' = [attempts EXCEPT ![r] = 1]
    /\ UNCHANGED <<held, phase, tableVars, exported, told, crashes, settled>>

\* Nothing was found of the trace, and that is what is stored.
FindsNothing(r) ==
    /\ got[r].facts = {}
    /\ Continue(r, "listFetch", "store")
    /\ got' = [got EXCEPT ![r] = NoActivity]
    /\ UNCHANGED <<held, phase, tableVars, exported, attempts, told, crashes, settled>>

\* The model answers.
Tells(r) ==
    /\ pc[r] = "chat"
    /\ io[r] = "none"
    /\ got' = [got EXCEPT ![r].by = r]
    /\ Wakes(r)
    /\ UNCHANGED <<held, phase, tableVars, exported, attempts, told, crashes, settled>>

Stores(r) ==
    /\ Continue(r, "chat", "store")
    /\ UNCHANGED <<held, phase, tableVars, exported, requestVars, crashes, settled>>

\* Mutant: a refused attempt is not counted.
RefusedUncounted(r) ==
    /\ pc[r] = "chat"
    /\ io[r] = "none"
    /\ pc' = [pc EXCEPT ![r] = "backoff"]
    /\ UNCHANGED <<io, dbq, ready, held, phase, tableVars, exported, requestVars, crashes, settled>>

\* 429, at most MaxRetries times: the request sleeps.
Refused429(r) ==
    /\ pc[r] = "chat"
    /\ io[r] = "none"
    /\ attempts[r] < MaxRetries
    /\ attempts' = [attempts EXCEPT ![r] = @ + 1]
    /\ pc' = [pc EXCEPT ![r] = "backoff"]
    /\ UNCHANGED <<io, dbq, ready, held, phase, tableVars, exported, got, told, crashes, settled>>

AsksAgain(r) ==
    /\ pc[r] = "backoff"
    /\ pc' = [pc EXCEPT ![r] = "chat"]
    /\ UNCHANGED <<io, dbq, ready, held, phase, tableVars, exported, requestVars, crashes, settled>>

\* The last 429, or any other error: the request fails and nothing is stored.
Fails(r) ==
    /\ pc[r] = "chat"
    /\ io[r] = "none"
    /\ pc' = [pc EXCEPT ![r] = "failed"]
    /\ UNCHANGED <<io, dbq, ready, held, phase, tableVars, exported, requestVars, crashes, settled>>

Answered(r) ==
    /\ Leave(r, "storeCommit", "answered")
    /\ Answers(r, got[r])
    /\ UNCHANGED <<held, phase, tableVars, exported, got, attempts, crashes, settled>>
-----------------------------------------------------------------------------
\* The transaction that is open is rolled back; every task is lost.
Crash ==
    /\ phase = "serving"
    /\ crashes < MaxCrashes
    /\ crashes' = crashes + 1
    /\ phase' = "down"
    /\ pc' = [t \in Tasks |-> IF pc[t] \in Over THEN pc[t] ELSE "lost"]
    /\ io' = [t \in Tasks |-> "none"]
    /\ dbq' = << >>
    /\ ready' = << >>
    /\ log' = durable.log
    /\ text' = durable.text
    /\ UNCHANGED <<held, durable, exported, requestVars, settled>>

\* Mutant: every row is swept, the decided ones too.
PendingOrNot == {c \in Calls : Status(c) # NoRow}

Pending == {c \in Calls : Status(c) = "PENDING"}

\* The orders in which the members of a set can be listed.
Orders(S) ==
    {f \in [1 .. Cardinality(S) -> S] : \A i, j \in DOMAIN f : f[i] = f[j] => i = j}

\* Startup: the holds of the dead process are expired before anything is served.
Boot ==
    /\ phase = "down"
    /\ phase' = "serving"
    /\ \E sweep \in Orders(Pending) :
            log' = log \o [i \in DOMAIN sweep |-> [call |-> sweep[i], status |-> "EXPIRED"]]
    /\ durable' = [durable EXCEPT !.log = log']
    /\ UNCHANGED <<loopVars, held, text, exported, requestVars, crashes, settled>>

LoopRuns ==
    \/ \E t \in Tasks : SecondAwait(t)
    \/ \E c \in Calls : Submitted(c) \/ Resolved(c)
    \/ \E r \in Requests : \/ Cached(r) \/ Missed(r) \/ FallsBack(r) \/ Asks(r)
                           \/ FindsNothing(r) \/ Stores(r) \/ Answered(r)

Outside(r) == TraceApi(r) \/ Misread(r) \/ Tells(r) \/ Refused429(r) \/ Fails(r)

Next ==
    \/ DbThread \/ LoopRuns \/ Crash \/ Boot
    \/ \E c \in Calls : Submit(c) \/ Resolve(c) \/ Export(c)
    \/ \E r \in Requests : Narrate(r) \/ Outside(r) \/ AsksAgain(r)

Spec == Init /\ [][Next]_vars

\* The thread and the loop run, the Trace API and the chat model answer something
\* or time out, and a sleep ends.
FairSpec ==
    /\ Spec
    /\ WF_vars(DbThread)
    /\ WF_vars(LoopRuns)
    /\ \A r \in Requests : WF_vars(Outside(r)) /\ WF_vars(AsksAgain(r))
-----------------------------------------------------------------------------
Texts == [by : Requests \cup Scribes,
          facts : SUBSET [call : Calls, status : Statuses, nth : Nat \ {0}]]

Places == {"idle", "wait", "primary", "chat", "backoff", "answered", "failed", "done", "lost"}
              \cup DOMAIN NextAwait \cup {NextAwait[op] : op \in DOMAIN NextAwait}

\* Every variable has its type, and a row is decided at most once.
TypeOK ==
    /\ pc \in [Tasks -> Places]
    /\ io \in [Tasks -> IoStates]
    /\ \A t \in Tasks : io[t] = "queued" <=> \E i \in DOMAIN dbq : dbq[i] = [task |-> t, op |-> pc[t]]
    /\ held \subseteq Calls
    /\ phase \in {"serving", "down"}
    /\ \A i, j \in DOMAIN log :
            i < j /\ log[i].call = log[j].call => <<log[i].status, log[j].status>> \in Moves
    /\ {text, durable.text} \subseteq Texts
    /\ got \in [Requests -> Texts]
    /\ told \in [Requests -> Texts]
    /\ exported \subseteq FactsOf(log)
    /\ attempts \in [Requests -> 0 .. MaxRetries]
    /\ crashes \in 0 .. MaxCrashes

\* What a request is answered is told from committed actions only, and a narration
\* is committed by then, so that no crash makes the console's text one about
\* actions that never were; also when the text was read from the cache while the
\* request that stored it was still waiting for its own commit.
ToldIsKept ==
    /\ durable.text.facts \subseteq FactsOf(durable.log)
    /\ \A r \in Requests : told[r] # NoText =>
            durable.text # NoText /\ told[r].facts \subseteq FactsOf(durable.log)

\* A narration is told once: who asks when one is committed and nobody is about
\* to replace it is told that one, by any later request and after any restart.
\* (This is also why a narration of a trace that still runs is never completed.)
SettledNarrationStays ==
    \A r \in Requests : settled[r] # NoText /\ told[r] # NoText => told[r] = settled[r]

\* A request ends, however often the model is out of quota.
NarrationsEnd == \A r \in Requests : pc[r] = "cached" ~> pc[r] \in Over
=============================================================================
