-------------------------- MODULE ApprovalManager --------------------------
(***************************************************************************)
(* approval/manager.py with the store it writes through (store/db.py), the *)
(* gateway coroutine that calls it (gateway/server.py) and the REST        *)
(* handlers that resolve and list actions (api/routes.py).                 *)
(*                                                                         *)
(* A task is one coroutine: a tool call, one approve or deny request, or   *)
(* one GET /api/actions.  `row' is the actions table as the one connection *)
(* sees it, `durable' the table as last committed: a crash falls back to   *)
(* it.                                                                     *)
(***************************************************************************)
EXTENDS ActionStatus, EventLoop, Integers

CONSTANTS
    Calls,       \* tool calls, each with its own action_id
    Held,        \* the calls whose risk level is held
    Decisions,   \* approve and deny requests
    Target,      \* the action a decision is about
    Verdict,     \* what it decides
    Polls,       \* GET /api/actions requests
    MaxCrashes,  \* bound on process crashes
    MaxCancels   \* bound on cancelled tool calls

Tasks == Calls \cup Decisions \cup Polls

ASSUME TasksAssumption ==
    /\ Held \subseteq Calls
    /\ Calls \cap Decisions = {}
    /\ Calls \cap Polls = {}
    /\ Decisions \cap Polls = {}

ASSUME DecisionsAssumption ==
    /\ Target \in [Decisions -> Calls]
    /\ Verdict \in [Decisions -> Verdicts]

ASSUME BoundsAssumption == MaxCrashes \in Nat /\ MaxCancels \in Nat

VARIABLES
    row,        \* the actions table as the connection sees it
    durable,    \* the actions table as last committed
    events,     \* _pending_events: the calls with an Event in the dict
    timedOut,   \* the calls whose hold timer has fired
    seen,       \* the status a task's last SELECT returned
    listed,     \* the action_ids a poll's SELECT returned
    known,      \* the action_ids operators have been shown
    announced,  \* the "action.resolved" events, with the path that published
    executed,   \* the calls whose tool has run upstream
    phase,      \* the process: "down", "starting" or "serving"
    stale,      \* the PENDING rows the startup sweep has still to finish
    crashes,
    cancels

storeVars == <<row, durable>>
taskVars == <<timedOut, seen, listed>>
outsideVars == <<known, announced, executed>>
processVars == <<phase, stale, crashes, cancels>>
vars == <<loopVars, storeVars, events, taskVars, outsideVars, processVars>>

\* The row an operation of task t is about.
ActionOf(t) == IF t \in Decisions THEN Target[t] ELSE t

\* Every store method is two awaits, the second one the commit or the fetch;
\* list_actions is followed by list_journaled_action_ids.
NextAwait ==
    [insert  |-> "insertCommit",  expire |-> "expireCommit",
     resolve |-> "resolveCommit", read   |-> "readFetch",
     check   |-> "checkFetch",    reread |-> "rereadFetch",
     list    |-> "listFetch",     listFetch |-> "journal",
     journal |-> "journalFetch"]

CallOps == {"insert", "insertCommit", "expire", "expireCommit", "read", "readFetch"}
DecisionOps == {"check", "checkFetch", "resolve", "resolveCommit", "reread", "rereadFetch"}
PollOps == {"list", "listFetch", "journal", "journalFetch"}

Operations ==
    [task : Calls, op : CallOps] \cup [task : Decisions, op : DecisionOps]
                                 \cup [task : Polls, op : PollOps]

Commits == {"insertCommit", "expireCommit", "resolveCommit"}
RowSelects == {"read", "check", "reread"}
Fetches == {"readFetch", "checkFetch", "rereadFetch", "listFetch", "journal", "journalFetch"}

Init ==
    /\ pc = [t \in Tasks |-> "idle"]
    /\ io = [t \in Tasks |-> "none"]
    /\ dbq = <<>>
    /\ ready = <<>>
    /\ row = [c \in Calls |-> NoRow]
    /\ durable = row
    /\ events = {}
    /\ timedOut = {}
    /\ seen = [t \in Tasks |-> NoRow]
    /\ listed = [p \in Polls |-> {}]
    /\ known = {}
    /\ announced = {}
    /\ executed = {}
    /\ phase = "down"
    /\ stale = {}
    /\ crashes = 0
    /\ cancels = 0
-----------------------------------------------------------------------------
(* The database thread.                                                    *)

OperationIs(ops) == dbq # <<>> /\ Head(dbq).op \in ops

\* Mutant: the row is stored under the plan's word for it, not the enum's.
InsertRowAsHeld ==
    /\ OperationIs({"insert"})
    /\ LET c == Head(dbq).task IN
       row' = [row EXCEPT ![c] = IF c \in Held THEN "HELD" ELSE "AUTO_ALLOWED"]
    /\ Complete
    /\ UNCHANGED <<durable, events, taskVars, outsideVars, processVars>>

\* INSERT under the primary key, with the status submit() chose.
InsertRow ==
    /\ OperationIs({"insert"})
    /\ LET c == Head(dbq).task IN
       row' = IF row[c] = NoRow
              THEN [row EXCEPT ![c] = IF c \in Held THEN "PENDING" ELSE "AUTO_ALLOWED"]
              ELSE row
    /\ Complete
    /\ UNCHANGED <<durable, events, taskVars, outsideVars, processVars>>

\* Mutant: the UPDATE without AND status = 'PENDING'.
CasUnguarded(c, status) == [row EXCEPT ![c] = status]

\* UPDATE ... WHERE action_id = ? AND status = 'PENDING'
Cas(c, status) == IF row[c] = "PENDING" THEN [row EXCEPT ![c] = status] ELSE row

ResolveRow ==
    /\ OperationIs({"expire", "resolve"})
    /\ LET t == Head(dbq).task IN
       row' = Cas(ActionOf(t), IF Head(dbq).op = "expire" THEN "EXPIRED" ELSE Verdict[t])
    /\ Complete
    /\ UNCHANGED <<durable, events, taskVars, outsideVars, processVars>>

\* One connection, one transaction: whoever commits commits for everybody.
Commit ==
    /\ OperationIs(Commits)
    /\ durable' = row
    /\ Complete
    /\ UNCHANGED <<row, events, taskVars, outsideVars, processVars>>

\* A SELECT finds its rows when it is executed, not when they are fetched.
SelectRow ==
    /\ OperationIs(RowSelects)
    /\ LET t == Head(dbq).task IN
       seen' = IF Awaited THEN [seen EXCEPT ![t] = row[ActionOf(t)]] ELSE seen
    /\ Complete
    /\ UNCHANGED <<storeVars, events, timedOut, listed, outsideVars, processVars>>

SelectAll ==
    /\ OperationIs({"list"})
    /\ LET p == Head(dbq).task IN
       listed' = [listed EXCEPT ![p] = {c \in Calls : row[c] # NoRow}]
    /\ Complete
    /\ UNCHANGED <<storeVars, events, timedOut, seen, outsideVars, processVars>>

Fetch ==
    /\ OperationIs(Fetches)
    /\ Complete
    /\ UNCHANGED <<storeVars, events, taskVars, outsideVars, processVars>>

DbThread == InsertRow \/ ResolveRow \/ Commit \/ SelectRow \/ SelectAll \/ Fetch

\* The segment between the two awaits of a store method.
SecondAwait(t) ==
    /\ \E op \in DOMAIN NextAwait : Continue(t, op, NextAwait[op])
    /\ UNCHANGED <<storeVars, events, taskVars, outsideVars, processVars>>
-----------------------------------------------------------------------------
(* A tool call: submit(), wait_for_decision(), then the tool or a denial.  *)

Submit(c) ==
    /\ phase = "serving"
    /\ pc[c] = "idle"
    /\ Start(c, "insert")
    /\ UNCHANGED <<storeVars, events, taskVars, outsideVars, processVars>>

\* submit() returns AUTO_ALLOWED and the gateway goes on to the tool.
SubmitAllowed(c) ==
    /\ c \notin Held
    /\ Leave(c, "insertCommit", "execute")
    /\ UNCHANGED <<storeVars, events, taskVars, outsideVars, processVars>>

\* One segment: the Event enters the dict, "action.pending" is published,
\* submit() returns, and wait_for_decision() blocks on the Event.
SubmitHeld(c) ==
    /\ c \in Held
    /\ Leave(c, "insertCommit", "wait")
    /\ events' = events \cup {c}
    /\ known' = known \cup {c}
    /\ UNCHANGED <<storeVars, taskVars, announced, executed, processVars>>

\* Mutant: the timer fires but does not wake the waiter.
HoldTimeoutUnheard(c) ==
    /\ pc[c] = "wait"
    /\ c \notin timedOut
    /\ timedOut' = timedOut \cup {c}
    /\ UNCHANGED <<loopVars, storeVars, events, seen, listed, outsideVars, processVars>>

\* wait_for's timer cancels the wait.  A waiter the Event has already woken,
\* but that has not run yet, is cancelled too.
HoldTimeout(c) ==
    /\ pc[c] = "wait"
    /\ c \notin timedOut
    /\ timedOut' = timedOut \cup {c}
    /\ io' = [io EXCEPT ![c] = "returned"]
    /\ ready' = IF io[c] = "none" THEN Append(ready, c) ELSE ready
    /\ UNCHANGED <<pc, dbq, storeVars, events, seen, listed, outsideVars, processVars>>

WaitDecided(c) ==
    /\ c \notin timedOut
    /\ Continue(c, "wait", "read")
    /\ events' = events \ {c}
    /\ UNCHANGED <<storeVars, taskVars, outsideVars, processVars>>

\* Mutant: a waiter that timed out goes back to waiting.
WaitExpiredRetries(c) ==
    /\ c \in timedOut
    /\ Leave(c, "wait", "wait")
    /\ UNCHANGED <<storeVars, events, taskVars, outsideVars, processVars>>

\* except TimeoutError: the Event stays in the dict until the row is resolved.
WaitExpired(c) ==
    /\ c \in timedOut
    /\ Continue(c, "wait", "expire")
    /\ UNCHANGED <<storeVars, events, taskVars, outsideVars, processVars>>

ExpiryStored(c) ==
    /\ Continue(c, "expireCommit", "read")
    /\ events' = events \ {c}
    /\ UNCHANGED <<storeVars, taskVars, outsideVars, processVars>>

\* Mutant: only DENIED is refused, an expired hold runs the tool.
WaitReturnsOnExpiry(c) ==
    /\ Leave(c, "readFetch", IF seen[c] = "DENIED" THEN "refused" ELSE "execute")
    /\ announced' = IF c \in timedOut
                    THEN announced \cup {[call |-> c, status |-> seen[c], by |-> "timeout"]}
                    ELSE announced
    /\ UNCHANGED <<storeVars, events, taskVars, known, executed, processVars>>

\* wait_for_decision() returns the row, and the gateway refuses on DENIED and
\* EXPIRED and runs the tool on everything else.
WaitReturns(c) ==
    /\ Leave(c, "readFetch", IF seen[c] \in Refused THEN "refused" ELSE "execute")
    /\ announced' = IF c \in timedOut
                    THEN announced \cup {[call |-> c, status |-> seen[c], by |-> "timeout"]}
                    ELSE announced
    /\ UNCHANGED <<storeVars, events, taskVars, known, executed, processVars>>

\* The tool server runs the call.
Execute(c) ==
    /\ phase = "serving"
    /\ pc[c] = "execute"
    /\ pc' = [pc EXCEPT ![c] = "done"]
    /\ executed' = executed \cup {c}
    /\ UNCHANGED <<io, dbq, ready, storeVars, events, taskVars, known, announced, processVars>>

\* The awaits at which a tool call may be suspended.
Suspended == CallOps \cup {"wait", "execute"}

\* The MCP client cancels the call: CancelledError is raised at its await.  An
\* operation it already issued still runs.
CancelCall(c) ==
    /\ phase = "serving"
    /\ cancels < MaxCancels
    /\ pc[c] \in Suspended
    /\ cancels' = cancels + 1
    /\ pc' = [pc EXCEPT ![c] = "cancelled"]
    /\ io' = [io EXCEPT ![c] = "none"]
    /\ events' = events \ {c}
    /\ UNCHANGED <<dbq, ready, storeVars, taskVars, outsideVars, phase, stale, crashes>>
-----------------------------------------------------------------------------
(* An approve or deny request, and GET /api/actions.                       *)

\* An operator can only name an action they have been shown.
Decide(d) ==
    /\ phase = "serving"
    /\ pc[d] = "idle"
    /\ Target[d] \in known
    /\ Start(d, "check")
    /\ UNCHANGED <<storeVars, events, taskVars, outsideVars, processVars>>

DecideUnknown(d) ==
    /\ seen[d] = NoRow
    /\ Leave(d, "checkFetch", "notFound")
    /\ UNCHANGED <<storeVars, events, taskVars, outsideVars, processVars>>

DecideResolves(d) ==
    /\ seen[d] # NoRow
    /\ Continue(d, "checkFetch", "resolve")
    /\ UNCHANGED <<storeVars, events, taskVars, outsideVars, processVars>>

\* The waiter blocked on c's Event: one that timed out no longer is.
Blocked(c) == pc[c] = "wait" /\ io[c] = "none"

\* pop() and set(), in the segment that issues the second read.
DecideWakes(d) ==
    LET c == Target[d]
        wakes == c \in events /\ Blocked(c)
    IN  /\ Runnable(d, "resolveCommit")
        /\ events' = events \ {c}
        /\ ready' = IF wakes THEN Append(Tail(ready), c) ELSE Tail(ready)
        /\ pc' = [pc EXCEPT ![d] = "reread"]
        /\ io' = [t \in Tasks |-> IF t = d THEN "queued"
                                  ELSE IF t = c /\ wakes THEN "returned" ELSE io[t]]
        /\ dbq' = Append(dbq, [task |-> d, op |-> "reread"])
        /\ UNCHANGED <<storeVars, taskVars, outsideVars, processVars>>

\* Mutant: the request announces its own verdict instead of the row it reads.
DecideAnnouncesVerdict(d) ==
    /\ Leave(d, "rereadFetch", "answered")
    /\ announced' = announced \cup {[call |-> Target[d], status |-> Verdict[d], by |-> "decide"]}
    /\ UNCHANGED <<storeVars, events, taskVars, known, executed, processVars>>

\* "action.resolved" is published whether or not this request resolved it.
DecideReturns(d) ==
    /\ Leave(d, "rereadFetch", "answered")
    /\ announced' = announced \cup {[call |-> Target[d], status |-> seen[d], by |-> "decide"]}
    /\ UNCHANGED <<storeVars, events, taskVars, known, executed, processVars>>

Poll(p) ==
    /\ phase = "serving"
    /\ pc[p] = "idle"
    /\ Start(p, "list")
    /\ UNCHANGED <<storeVars, events, taskVars, outsideVars, processVars>>

\* Mutant: the list is answered after one await (execute_fetchall).
PollReturnsAtOnce(p) ==
    /\ Leave(p, "list", "answered")
    /\ known' = known \cup listed[p]
    /\ UNCHANGED <<storeVars, events, taskVars, announced, executed, processVars>>

PollReturns(p) ==
    /\ Leave(p, "journalFetch", "answered")
    /\ known' = known \cup listed[p]
    /\ UNCHANGED <<storeVars, events, taskVars, announced, executed, processVars>>

LoopSkips ==
    /\ Skip
    /\ UNCHANGED <<storeVars, events, taskVars, outsideVars, processVars>>
-----------------------------------------------------------------------------
(* The process.                                                            *)

Finished == {"done", "refused", "cancelled", "notFound", "answered", "lost"}

\* Everything in memory goes, and so does what was not committed.
Crash ==
    /\ phase \in {"starting", "serving"}
    /\ crashes < MaxCrashes
    /\ crashes' = crashes + 1
    /\ phase' = "down"
    /\ row' = durable
    /\ pc' = [t \in Tasks |-> IF pc[t] \in Finished \cup {"idle"} THEN pc[t] ELSE "lost"]
    /\ io' = [t \in Tasks |-> "none"]
    /\ dbq' = <<>>
    /\ ready' = <<>>
    /\ events' = {}
    /\ stale' = {}
    /\ UNCHANGED <<durable, taskVars, outsideVars, cancels>>

\* Gateway.startup() runs resume_stale_holds() before anything is served.
Boot ==
    /\ phase = "down"
    /\ phase' = "starting"
    /\ stale' = {c \in Calls : row[c] = "PENDING"}
    /\ UNCHANGED <<loopVars, storeVars, events, taskVars, outsideVars, crashes, cancels>>

\* The sweep takes one row at a time: update, commit, read back and publish.
SweepExpires(c) ==
    /\ phase = "starting"
    /\ c \in stale
    /\ row[c] = "PENDING"
    /\ \A other \in stale : row[other] = "PENDING"
    /\ row' = Cas(c, "EXPIRED")
    /\ UNCHANGED <<loopVars, durable, events, taskVars, outsideVars, processVars>>

SweepCommits(c) ==
    /\ phase = "starting"
    /\ c \in stale
    /\ row[c] # durable[c]
    /\ durable' = row
    /\ UNCHANGED <<loopVars, row, events, taskVars, outsideVars, processVars>>

SweepAnnounces(c) ==
    /\ phase = "starting"
    /\ c \in stale
    /\ row[c] = durable[c]
    /\ row[c] # "PENDING"
    /\ announced' = announced \cup {[call |-> c, status |-> row[c], by |-> "sweep"]}
    /\ stale' = stale \ {c}
    /\ UNCHANGED <<loopVars, storeVars, events, taskVars, known, executed, phase, crashes, cancels>>

Serve ==
    /\ phase = "starting"
    /\ stale = {}
    /\ phase' = "serving"
    /\ UNCHANGED <<loopVars, storeVars, events, taskVars, outsideVars, stale, crashes, cancels>>

Startup ==
    \/ Boot \/ Serve
    \/ \E c \in Calls : SweepExpires(c) \/ SweepCommits(c) \/ SweepAnnounces(c)

\* Segments of the loop: a task that is runnable does run.
LoopRuns ==
    \/ LoopSkips
    \/ \E t \in Tasks : SecondAwait(t)
    \/ \E c \in Calls : \/ SubmitAllowed(c) \/ SubmitHeld(c) \/ WaitDecided(c)
                        \/ WaitExpired(c) \/ ExpiryStored(c) \/ WaitReturns(c)
    \/ \E d \in Decisions : \/ DecideUnknown(d) \/ DecideResolves(d)
                            \/ DecideWakes(d) \/ DecideReturns(d)
    \/ \E p \in Polls : PollReturns(p)

Requests ==
    \/ \E c \in Calls : Submit(c) \/ CancelCall(c)
    \/ \E d \in Decisions : Decide(d)
    \/ \E p \in Polls : Poll(p)

Next ==
    \/ DbThread \/ LoopRuns \/ Startup \/ Crash \/ Requests
    \/ \E c \in Calls : HoldTimeout(c) \/ Execute(c)

Spec == Init /\ [][Next]_vars

\* The thread and the loop are always running, a timer that is armed fires,
\* a tool server answers, and whoever operates the service starts it again after
\* a crash.  Nothing obliges an agent or a human to act, or a crash to happen.
FairSpec ==
    /\ Spec
    /\ WF_vars(DbThread)
    /\ WF_vars(LoopRuns)
    /\ WF_vars(Startup)
    /\ \A c \in Calls : WF_vars(HoldTimeout(c)) /\ WF_vars(Execute(c))
-----------------------------------------------------------------------------
(* Properties.                                                             *)

CallPlaces ==
    {"idle"} \cup Suspended \cup {"done", "refused", "cancelled", "lost"}

DecisionPlaces == {"idle"} \cup DecisionOps \cup {"notFound", "answered", "lost"}

PollPlaces == {"idle"} \cup PollOps \cup {"answered", "lost"}

PlacesOf(t) == IF t \in Calls THEN CallPlaces
               ELSE IF t \in Decisions THEN DecisionPlaces ELSE PollPlaces

\* Every variable has its type, each task is at a place of its own program, and
\* the database queue holds only operations that such a task issues.
TypeOK ==
    /\ pc \in [Tasks -> CallPlaces \cup DecisionPlaces \cup PollPlaces]
    /\ \A t \in Tasks : pc[t] \in PlacesOf(t)
    /\ io \in [Tasks -> IoStates]
    /\ dbq \in Seq(Operations)
    /\ ready \in Seq(Tasks)
    /\ row \in [Calls -> RowValues]
    /\ durable \in [Calls -> RowValues]
    /\ events \subseteq Calls
    /\ timedOut \subseteq Calls
    /\ seen \in [Tasks -> RowValues]
    /\ listed \in [Polls -> SUBSET Calls]
    /\ known \subseteq Calls
    /\ announced \subseteq [call : Calls, status : RowValues, by : {"timeout", "decide", "sweep"}]
    /\ executed \subseteq Calls
    /\ phase \in {"down", "starting", "serving"}
    /\ stale \subseteq Calls
    /\ crashes \in Nat
    /\ cancels \in Nat

\* What the agent is answered is what the record says for good: a call whose
\* tool runs is durably approved or auto-allowed, and a call that was refused
\* is durably denied or expired, whoever won the race for the row.
CallerObeysRecord ==
    \A c \in Calls :
        /\ pc[c] \in {"execute", "done"} => durable[c] \in Allowed
        /\ pc[c] = "refused" => durable[c] \in Refused

\* An "action.resolved" event states the committed status of the row, so the
\* timeout, a late decision and the startup sweep never contradict each other.
AnnouncedIsRecorded ==
    \A a \in announced : a.status # "PENDING" /\ durable[a.call] = a.status

\* The committed record of an action never leaves its first terminal status,
\* through decisions, timeouts, crashes and restarts (db.py, resolve_action).
RecordIsFinal ==
    [][\A c \in Calls : durable[c] \in Terminal => durable'[c] = durable[c]]_vars

\* A blocked waiter can always be woken: its Event is in the dict, and either
\* the row is undecided or the request that decided it has still to set it.
NoLostWakeup ==
    \A c \in Calls : Blocked(c) =>
        /\ c \in events
        /\ \/ row[c] = "PENDING"
           \/ \E d \in Decisions : Target[d] = c /\ pc[d] \in {"resolve", "resolveCommit"}

\* An operator is never shown a held call before its Event exists: a decision
\* made between the INSERT and the Event would resolve the row and wake nobody.
\* The order of the connection's queue is what rules it out for GET /api/actions.
ShownOnlyWithEvent ==
    \A c \in known : (row[c] = "PENDING" /\ pc[c] \in Suspended) => c \in events

\* Once the process serves again, no hold of an earlier process is PENDING.
NoHoldSurvivesRestart ==
    phase = "serving" => \A c \in Calls : pc[c] = "lost" => row[c] # "PENDING"

\* No hold is stranded: whoever waits can be woken, what an operator is shown can be
\* decided so that its waiter learns it, and nothing is shown that nobody waits for
\* because its process died.
NoHoldStranded == NoLostWakeup /\ ShownOnlyWithEvent /\ NoHoldSurvivesRestart

\* PROJECT_PLAN S5: "auto-deny on timeout".  A held action does not stay held.
EveryHoldEnds ==
    \A c \in Calls : row[c] = "PENDING" ~> row[c] # "PENDING"

\* A submitted call is eventually answered, executed or lost with its process.
EveryCallIsAnswered ==
    \A c \in Calls : pc[c] = "insert" ~> pc[c] \in Finished

\* The code implements the abstract gate, read off the committed table.
Lifecycle == INSTANCE ActionLifecycle WITH
    status <- durable,
    told <- {<<a.call, a.status>> : a \in announced}

ImplementsLifecycle == Lifecycle!Spec
-----------------------------------------------------------------------------
(* The inductive invariant behind CallerObeysRecord, AnnouncedIsRecorded,  *)
(* RecordIsFinal and ImplementsLifecycle: what each task knows about the   *)
(* row at each of its awaits.                                              *)

\* The operation op of task t has been run by the database thread, or t is
\* already past it, at one of the given later places.
Past(t, op, later) == (pc[t] = op /\ io[t] = "returned") \/ pc[t] \in later

RowsInv ==
    \A c \in Calls :
        /\ durable[c] = row[c] \/ <<durable[c], row[c]>> \in Moves
        /\ c \notin Held => row[c] \in {NoRow, "AUTO_ALLOWED"}

CallFacts(c) ==
    /\ Past(c, "insert", {"insertCommit", "wait", "expire", "expireCommit"}) => row[c] # NoRow
    /\ Past(c, "insertCommit", {}) => durable[c] # NoRow
    /\ pc[c] = "wait" /\ io[c] = "returned" /\ c \notin timedOut => durable[c] \in Terminal
    /\ Past(c, "expire", {"expireCommit"}) => row[c] \in Terminal
    /\ Past(c, "expireCommit", {"read", "readFetch"}) => durable[c] \in Terminal
    /\ Past(c, "read", {"readFetch"}) => seen[c] = durable[c]

CallInv == \A c \in Calls : CallFacts(c)

DecisionFacts(d) ==
    LET c == Target[d] IN
    /\ Past(d, "check", {"checkFetch"}) /\ seen[d] # NoRow => row[c] # NoRow
    /\ pc[d] \in {"resolve", "resolveCommit"} => row[c] # NoRow
    /\ Past(d, "resolve", {"resolveCommit"}) => row[c] \in Terminal
    /\ Past(d, "resolveCommit", {"reread", "rereadFetch"}) => durable[c] \in Terminal
    /\ Past(d, "reread", {"rereadFetch"}) => seen[d] = durable[c]

DecisionInv == \A d \in Decisions : DecisionFacts(d)

OutcomeInv ==
    /\ CallerObeysRecord
    /\ \A a \in announced : a.status \in Terminal /\ durable[a.call] = a.status
    /\ \A c \in stale : row[c] # NoRow

Inv == TypeOK /\ RowsInv /\ CallInv /\ DecisionInv /\ OutcomeInv
=============================================================================
