# Verification of agent-atc

agent-atc is a control tower for AI agents. An agent's tool calls go through a
gateway that scores their risk, holds the risky ones until a human approves or
denies them (or two minutes pass), records what happened, and can put back what
an approved mutation destroyed. This directory holds TLA+ modules of that
program, the TLC runs that check them on small instances, and TLAPS proofs about
them. Paths below are relative to the repository; `atc_core/` stands for
`services/atc-core/src/atc_core/`.

Start with `ApprovalManager.tla` (the heart of the system), then
`ActionLifecycle.tla` (what it promises), then `JournalUndo.tla` and
`Recovery.tla`, then `Gateway.tla`, `RiskEngine.tla` with `Oversight.tla`,
`ApprovalConsole.tla`, and last what surrounds the gate: `Bootstrap.tla`,
`Narrator.tla` and `Scenario.tla`.

## 1. Inventory

### Approval manager (`atc_core/approval/manager.py`)

*State*: `_pending_events`, one `asyncio.Event` per held action; the `status` of
each row of the `actions` table.
*Operations*: `submit` (insert the row as `AUTO_ALLOWED` or `PENDING`),
`wait_for_decision` (block on the Event or expire), `decide`,
`resume_stale_holds` (startup sweep).
*Interactions*: the gateway awaits `submit` and `wait_for_decision`; the REST
handlers await `decide`; all of them share one event loop and, through the
store, one database connection; it publishes `action.pending` and
`action.resolved` on the event bus.
*Hard*: every method is a chain of awaits; decision, timer, cancellation and
crash can fall between any two.
*Correct when*: the caller, the committed row and the announcements agree; the
first resolution is final; no waiter is left unwakeable; no hold stays held.

### Store (`atc_core/store/`)

*State*: one SQLite file and one `aiosqlite` connection shared by all handlers.
*Operations*: each is an `execute` followed by a `commit` or a `fetch`, two
awaits. `resolve_action` and `mark_undone` are compare-and-set updates.
*Hard*: the connection has one transaction, so whoever commits commits for
everybody, and a crash loses what nobody has committed.
The file itself is opened by two processes, atc-core and the history seeder,
each of which creates or migrates the schema first.
*Correct when*: a compare-and-set has one winner, a committed terminal status
never changes, and whoever is connected finds every column it names.

### Gateway (`atc_core/gateway/server.py`, `registry.py`, `upstream.py`, `blast_radius.py`)

*State*: the registry of agents (static), the upstream sessions; per call, local
variables that live across awaits.
*Operations*: `startup` (seeding, sweep), `_handle_call_tool`: authentication,
quarantine, budget, scope, unknown tool, risk, blast radius, `submit`,
detectors, `wait_for_decision`, refusal or capture and execution.
*Hard*: quarantine, budget and blast radius are read before a hold of up to two
minutes and used after it.
*Correct when*: nothing runs on a refused record; the pre-image is journaled
before its mutation; a confirmed quarantine is what every later call meets.

### Journal and undo (`gateway/journal.py`, `gateway/undo.py`, `POST /actions/{id}/undo`)

*State*: the `journal` table; the files and tables of the tool servers.
*Operations*: `capture` (one or two reads upstream, one insert),
`undo_action` (checks, claim, compensating calls, audit row).
*Hard*: the tool servers' state moves between capture, mutation and undo;
requests and answers get lost; the process dies between claim and restore; undo
requests race.
*Correct when*: recovery data exists before the mutation; one undo per action;
an undo on record restored what the mutation found, as far as the tool servers'
text can say what that was.

### Risk engine (`risk/engine.py`, `sql_facts.py`, `reversibility.py`)

No state; ordered rules, first match wins, fail-closed defaults. *Hard*: the
order of the rules; three places parse a statement on their own (the engine, the
row count on the approval card, the journal). *Correct when*
what is grave is HIGH, the deployed order hides no rule behind a milder one, and
what the card says can be taken back is in the journal.

### Risk scorer (`risk/scorer.py`)

No state; a decayed sum over an agent's actions, recomputed at each heartbeat.
*Hard*: the rows it reads change under it: they are resolved, flagged, undone,
or lost with a crash. *Correct when* a score falls only because its rows age.

### Creep and loop detectors (`gateway/creep.py`, `loops.py`)

*State*: a set of background tasks, the `novel` column.
*Operations*: `check_async` (fire and forget), `_check`.
*Hard*: a check reads the table some awaits after its own row was inserted, when
rows of concurrent calls may be there too. *Correct when* a first touch is
flagged and a repeated call is counted against the documented threshold.

### REST API, event bus, WebSocket, console (`api/`, `events.py`, `static/app.js`)

*State*: unbounded queues, one per socket; the console's `pending` map.
*Operations*: publish, subscribe, send; poll `GET /api/actions`, apply events,
approve, deny, undo, quarantine, heartbeat.
*Hard*: list answers and events are applied in an order that is not the order in
which they were read; events are lost while the socket is down. *Correct when*
the console ends up showing what is pending.

### Agent runner (`services/agent-runner/`)

*State*: `usage_totals` in memory. *Operations*: heartbeat loop, mission loop.
*Hard*: totals overwrite, a restart forgets them, a timed-out heartbeat may
still be applied.

### Scenarios and demonstration scripts (`agent_runner/scenario_runner.py`, `scripts/flagship_near_miss.py`, `scripts/concurrent_hold_queue.py`)

*State*: whom, or which call, the script has denied; its counts.
*Operations*: poll the held actions, deny the first and approve the others (or
deny all) by POST, run missions, report.
*Hard*: the task that polls runs beside the mission that is held; a POST may
fail, be answered with an error, or be cancelled on its way; other agents' calls
are held too. *Correct when* no agent's first hold is approved, no agent is
denied for ever, a reported pass had a refusal in it, and the script comes to its
report.

### Narrator (`atc_core/narrator/`)

*State*: the `narrations` cache. *Operations*: look it up; fetch a timeline from
SigNoz or else from the actions table, condense it, have the chat model tell it
with retries, store it. *Hard*: it runs while the calls it tells of run, on the
connection and in the transaction they write through; a narration made too early
is kept. *Correct when* nothing is told that a crash takes back, a narration once
settled is the one everybody is told, and every request ends.

### Tool servers (`services/tools-fs`, `tools-db`, `tools-git`)

*State*: the files of a volume; an SQLite file. Each tool is one request.

### History seeder (`services/history-seeder/`)

*State*: a marker row in the shared file. *Operations*: connect and migrate,
check the marker, register the agents, insert the generated actions, emit their
spans, set the marker. *Hard*: it commits row by row beside a serving atc-core;
killed half way, it starts over; what it makes up mirrors the policy by hand.
*Correct when* a marked history is whole, a second one needs a reason, live
agents are left alone, and what is seeded could have happened.

### Telemetry, spikes

Output and experiments only; not modelled.

### How the parts interact

```
 agent --MCP--> Gateway --submit/wait--> ApprovalManager --> Store (SQLite)
                  |                         ^    |                ^
                  | capture, call           |    v                |
                  v                       decide  EventBus --> WebSocket --> console
            upstream pool                   ^                             |
                  |                         +------- REST API <-----------+
                  v                                     | undo
        tools-fs / tools-db  <--------------------------+

 history-seeder --> Store          Narrator --> Store, SigNoz, chat model
 scenario runner, scripts --HTTP--> REST API (they play the human)
```

## 2. Plan

In the order of what matters most for the system:

| # | Module | Composes | Abstract specification | State |
|---|---|---|---|---|
| 1 | `ActionStatus`, `EventLoop` | | | written |
| 2 | `ApprovalManager` | both | `ActionLifecycle` | written, checked, safety proved |
| 3 | `JournalUndo` | `ActionStatus` | `Recovery`, `ActionLifecycle` | written, checked, safety proved |
| 4 | `Gateway`, with the runner's heartbeats and missions | `ActionStatus`; the hold is what `ActionLifecycle` promises | | written, checked, safety proved |
| 5 | `ApprovalConsole`: bus, socket, poll, card list | | the held actions of the table, eventually | written, checked, safety proved |
| 6 | `RiskEngine`: rules, statement facts and the deployed policy as operators | | what is grave; the most severe rule | written, checked, proved |
| 7 | `Oversight`: the gate's record, the creep and loop checks beside it, the risk score | `RiskEngine`, `ActionStatus`; the hold is what `ActionLifecycle` promises | first touch and repeat count over the history | written, checked, safety proved |
| 8 | `Bootstrap`: the seeder and atc-core on one file, from no schema to a served history | `RiskEngine`, `ActionStatus` | what the gate could have written (`Evaluate`) | written, checked, safety proved |
| 9 | `Narrator`: cache, fetchers, chat model, beside the calls they tell of | `EventLoop`, `ActionStatus` | one story for everybody | written, checked, safety proved |
| 10 | `Scenario`: the scripts that play the human | `ActionStatus`; the hold is what `ActionLifecycle` promises | | written, checked, safety proved |

Every invariant and every action property that a passing run checks is also a
theorem of its specification, and so are the refinements. What remains with TLC
is liveness (section 5, "Only model-checked").

## 3. The modules

### `EventLoop`

The scheduling everything in atc-core runs under, external to the repository:
one asyncio loop that runs a coroutine from one await to the next without
interruption, and one aiosqlite thread that runs the operations awaited on the
connection in the order they were issued and wakes the coroutines in that order.
`pc[t]` is the await at which task `t` hangs; `dbq` and `ready` are the two
queues. A coroutine that is cancelled does not take its operation back.

### `ApprovalManager`

One action per segment between two awaits. A store method is two operations,
`insert` and `insertCommit`, `expire` and `expireCommit`, and so on; the
database thread executes the head of the queue.

| Code | Actions |
|---|---|
| `Store.insert_action`, `resolve_action`, `get_action`, `list_actions` | `InsertRow`, `ResolveRow`, `SelectRow`, `SelectAll`, `Commit`, `Fetch`, `SecondAwait` |
| `submit` | `Submit`, `SubmitAllowed`, `SubmitHeld` |
| `wait_for_decision` | `HoldTimeout`, `WaitDecided`, `WaitExpired`, `ExpiryStored`, `WaitReturns` |
| MCP cancellation of the call | `CancelCall` |
| `_handle_call_tool` after the gate | `Execute`, the `refused` branch of `WaitReturns` |
| `_decide` and `decide` | `Decide`, `DecideUnknown`, `DecideResolves`, `DecideWakes`, `DecideReturns` |
| `list_actions` endpoint | `Poll`, `PollReturns` |
| `startup`, `resume_stale_holds` | `Boot`, `SweepExpires`, `SweepCommits`, `SweepAnnounces`, `Serve` |
| death of the process | `Crash` |

`row` is the table as the connection sees it and `durable` as last committed; a
crash falls back to `durable`. `known` holds the action ids an operator has been
shown by an event or a list, since nobody can decide an id they have not seen.

### `ActionLifecycle`

What the gate promises, without loops or queues: a durable record only moves
forward and stops at its first terminal status, a tool runs once and only on an
allowing record, an announcement states the record. `ApprovalManager` implements
it under `status <- durable` and `told <- announced` without the path.

### `JournalUndo`

A tool call from its row to its answer and an undo request, with each request to
a tool server split into being sent, being run, and being answered. Other tasks
run between the three, and a request that was sent survives the process that
sent it. Approval is abstract here (`Resolve`): `ApprovalManager` covers it.

| Code | Actions |
|---|---|
| MCP cancellation of the call | `CancelCall` |
| `capture`, `_capture_fs`, `_capture_db` | `Capture`, `SchemaRead`, `ImageRead`, `CaptureFails` |
| `insert_journal` | `InsertJournal` |
| `call_tool` of the mutation | `Executed` |
| `undo_action` | `Undo`, `UndoReadsAction`, `UndoReadsJournal`, `UndoConflicts`, `UndoClaims`, `UndoAccepts`, `UndoFails`, `UndoRecords` |
| `build_compensation` | `Captured`, `Foremost` |
| tools-fs, tools-db | `ReadsSchema`, `ReadsImage`, `Mutates`, `RestoresPlace`, `RefusesToRestore` with `Accepts`, `Hits`, `Image`, `Restorable` |
| connection and tool failures | `LosesRequest`, `LosesAnswer`, `Raises` |
| death of the process | `Crash` |

The world of the tool servers is a function from places (files, primary keys, the
table's definition, its indexes and triggers) to contents. `AsRead` is what the
journal makes of the text it is answered. A file whose content begins with `error:`
is taken for absent, and one that is not UTF-8 for the text of the tool error; of any
other, `FileText` is what `read_text()` (tools-fs `server.py:37`) returns, in which
CRLF and CR have become LF. `RowText` is what `json.dumps(rows, default=str)`
(tools-db `server.py:82`) makes of a row, in which a BLOB has become text. An undo
writes what was read. A mutation has places `at`, which its capture reads, and places
`beyond`, which it changes too: the new key of an UPDATE of a primary key (`rekey`),
the indexes and triggers of a dropped table. `dropAlias` is a DROP that writes the
table's name otherwise than `sqlite_master` has it, quoted or in another case: its
schema read finds nothing and `capture` gives up (`journal.py:104`). The history
variables (`mutated`, `before`, `disturbed`, `restored`, `blind`) are
read by properties, by each other's updates and by `Recovery`, and guard nothing.

A store method is one step in this module. Its two awaits can be told apart by
another task only through the rows, which change at the first of them, and by a
crash between them, which is the same as a crash before both.

### `Recovery`

What the journal promises: a pre-image is kept before its mutation or never, a
mutation runs once, one undo request claims an entry for good, and only that one
restores anything or goes on record.

### `Gateway`

Who decides whether a call is let in, and who writes what that decision reads.
Three kinds of request meet inside atc-core, each split at its awaits: a tool
call, the operator's quarantine switch, and a heartbeat. The other end is the
agent runner, with its heartbeat loop and one mission at a time for each agent.

| Code | Actions |
|---|---|
| `Gateway._handle_call_tool` up to its checks | `Admit` with `Admission` |
| blast radius, `submit`, `wait_for_decision`, execution | `Submitted`, `Decided`, `Executed` |
| MCP cancellation of the call | `Cancelled` |
| `POST /agents/{id}/quarantine`, `set_quarantined` | `Quarantine`, `SetQuarantined`, `QuarantineCommits` |
| `POST /agents/{id}/heartbeat`, `record_heartbeat`, `set_tokens_used` | `RecordHeartbeat`, `SetTokensUsed`, `BeatCommits` |
| runner `_heartbeat_loop` | `SendBeat`, `BeatTimesOut`, `Sleeps` |
| runner `_mission_loop`, `run_mission` | `Begins`, `Completes`, `ReadsResult`, `CallRaises`, `ChatFails`, `Ends`, `SendCall` |
| `Gateway.startup` | `Boot` with `Seeded` |
| death of a process | `Crash`, `RunnerRestarts` |

`store` is the `agents` table as every statement sees it, `durable` as of the
last commit; the commit of any request makes all updates durable, those of a
tool call's `submit` included. `spent` and `barred` are history: what an agent
really used, and whose quarantine was confirmed with no lift asked for since.
`posts[p].alone` says that no lift of the same agent overlapped request `p`;
when a quarantine and a lift overlap, nobody is promised which one stays. None
of the three guards an action, except that `spent` carries the bound
`MaxTokens`.

What is abstracted: what the approval and the journal do during a call, which
have modules of their own; the refusals that read and write nothing (a missing
token, an unknown agent's 404) and `list_tools`; the order of the agents within
one heartbeat round, which is any; the read back of the row after a commit,
which changes nothing; the risk score and the spans a heartbeat also writes. A
mission's last completion may always be its last word, whatever the model
would really answer.

### `RiskEngine` and `Oversight`

`RiskEngine` is a module of operators. A statement is the class sqlglot parses it
into, whether its condition is missing, always true or neither, and its tables;
the object of a DROP is a table under its own name, a table under another way of
writing it, or no table, and an INSERT replaces a row or does not; a path is a
member of the sensitive ones or not; an email has a number of recipients. `Garbage`
is text on which sqlglot raises `ParseError`, which `evaluate` catches, and `Unlexed`
text on which it raises `TokenError`, which nobody does. `Policy` is `policies/risk_rules.yaml` rule by rule, `Matches`,
`Evaluate` and `Classify` are the engine, `CountsRows` and `Captures` the two other
readers of a statement. `Grave`, `Takes` and `Overlooked` are not code: they are the
effects that the properties say a human must have approved, the calls that overwrite
or remove something, and those of them that the readers of a statement disagree about.

`Oversight` is what the gateway makes of the history it writes.

| Code | Actions |
|---|---|
| `_handle_call_tool`, from the verdict to `submit` | `Submit`, `Recorded`; `Fails` of a statement without tokens |
| the hold, from the outside | `Resolve` |
| capture and tool | `Execute` |
| the undo endpoint's own row | `Undo` |
| `CreepDetector._check` | `CreepReads`, `CreepMarks`, `CreepCommits` |
| `LoopDetector._check` | `LoopReads` |
| `heartbeat`, `compute_score` | `Heartbeat`, `Scores` |
| the clock, death of the process, startup sweep | `Tick`, `Crash`, `Boot` |

`store` is the actions table in the order of its inserts, `durable` what a crash
leaves of it. `creep` and `loop` say where a call's two background checks are;
`beat` is when a heartbeat under way took its `now`. `alarms`, `seen` and `blind`
are history variables: what the loop check reported, how long the table was when a
creep check read it, whose capture failed.

What is abstracted: the hold is one step, as `ActionLifecycle` allows; capture and
tool are one step, and so is the startup sweep, which `JournalUndo` and
`ApprovalManager` have in detail; resource names and argument summaries are not
cut at 200 characters, so two long statements with the same beginning, which the
code takes for the same resource, are not in the model; a statement has one
condition, and is "always true" if `_is_tautological` sees that it is.

### `ApprovalConsole`

What the operator sees, and so what can be decided at all within two minutes.
The page keeps two lists, and changes them by two kinds of message that no order
binds: events, on one socket, and lists, each on a request of its own.

| Code | Actions |
|---|---|
| approval, journal and undo, as far as a list or an event shows them | `Submit`, `AnnounceHeld`, `Resolve`, `AnnounceResolved`, `Journal`, `UndoClaims`, `UndoEnds` |
| `EventBus.publish`, `websocket_endpoint` | `Publish`, `Connect` |
| `loadInitialState` | `StartLoad`, `Read`, `Apply` |
| `handleEvent` | `Receive` |
| the WebSocket's `open` and `close` handlers | `Opens`, `Drop` |
| `setInterval` | `Poll` |
| `undoAction` | `ClickUndo`, `UndoReturns` |
| death of the process and startup sweep | `Crash`, `Boot` |

`row` is what a list says of an action: held, allowed, refused, undoable or
undone. `news` is the last announcement of it, which comes after the change is
visible. `wire` is the subscriber's queue and the socket together, since both
are first in, first out. `overtaken` is history: the last list applied was
outdated and overwrote something newer.

What is abstracted: the statuses behind "allowed" and "refused"; a second
announcement of the same resolution; the undo's own audit row; a list's two
reads, rows first and journal second, are one moment; an insert other than a
hold's, and the journal's, are modelled at their commits; the backoff delays.
`Connect` accepts and subscribes in one step, because uvicorn answers the accept
without giving up the loop. The fleet list is loaded and overwritten in the same
way and is left out.

### `Bootstrap`

How the shared file comes to hold a schema, the agents and a history: the startup
of atc-core and the run of the history seeder, side by side.

| Code | Actions |
|---|---|
| `Store.connect`, `_init_schema`, by either process | `StartCore`, `StartSeeder`, `CreatesTables`, `Migrates` |
| `Gateway.startup` and the seeder's loop over the registry | `LooksForAgent`, `RegistersAgent` with `UpsertAgent`; `CoreStartup`, `RegistersAgents` |
| `history_seeder.runner.run` | `ChecksMarker`, `InsertsAction`, `EmitsSpans`, `SetsMarker` |
| `generate_history`, `_resolve_outcome`, `PERSONA_PROFILES` | `PersonaProfiles`, `Outcomes`, `CountFor`, `Newest`, `Row` |
| the quarantine switch, a call that is not held, its creep check | `SetsQuarantine`, `Calls`, `CreepCheck` |
| death of either process | `Dies` |

A method of `Store` is one step: between two processes the transaction of each is
isolated by SQLite, and the other sees it when it commits. A wait for SQLite's
lock that is too long raises and ends the process, which `Dies` covers. The
random history is chosen row by row as the rows are inserted; nobody reads it
before. `columns` are those of the migrated columns that the file has; `rows` keeps of a
row what the policy, the gate and the creep check tell apart. `ordered`, whom the
operator has in quarantine, is history.

### `Narrator`

`POST /api/narrate` for one trace, beside the calls of that trace, at the same
granularity as `ApprovalManager` and on the same `EventLoop`.

| Code | Actions |
|---|---|
| `Store.get_narration`, `list_actions`, `upsert_narration` and the gate's inserts | `GetNarration`, `ListActions`, `UpsertNarration`, `InsertAction`, `ResolveAction`, `Commit`, `Fetch`, `SecondAwait` |
| `Narrator.narrate` | `Narrate`, `Cached`, `Missed`, `FallsBack`, `FindsNothing`, `Asks`, `Stores`, `Answered` |
| `TraceApiSpanFetcher`, `ActionStoreSpanFetcher` | `TraceApi`, `Misread`, `FactsOf` |
| `condense_timeline` | `Condense` |
| `make_groq_chat_fn` | `Tells`, `Refused429`, `AsksAgain`, `Fails` |
| the gate, the span exporter | `Submit`, `Submitted`, `Resolve`, `Resolved`, `Export` |
| death of the process, startup sweep | `Crash`, `Boot` |

A narration is the set of facts it was told from and who had it told, since two
tellings of the same facts differ; a timeline is a set of facts. The wording, the
prompt and the spans a narration emits are left out. Events stored after the
first answer do not change it: that a narration of a trace that still runs is
never completed is what the code does, and `SettledNarrationStays` includes it.

### `Scenario`

The scripts that stand in for the human: `AutoApprover` of the scenario runner,
`LiveDecider` of the flagship script, `Denier` of the queue script. Everything
they do to atc-core is a POST, and it has its own fate.

| Code | Actions |
|---|---|
| `run_mission`, as far as a result depends on it | `Answered`, `Held`, `Decided`, `Finishes`, `Breaks`, `GivesUp` with `Tell` |
| `run`, `_decide` of the three classes | `Polls`, `Decides`, `Sleeps`, `PostReturns`, `DiesOfAnswer`, `PostFails` with `Mark`, `MarkedBefore`, `Verdict` |
| `ScenarioResult.passed`, `_run_one`, `main` | `Passed`, `Ends`, `NextRun` |
| the endpoints, the hold's timer, a restart | `Arrives`, `ServerErrs`, `Expires`, `Restart` |
| another agent's call | `StrangerHeld` |

A POST is a record in `posts` from when it is sent until it is handled or lost; a
client that gives up, or a task that is cancelled, does not take it back. `log`
is a mission's log as a small automaton: what `ScenarioResult` computes from the
list of results depends on nothing else. A restart of atc-core takes the session of
every running mission (`place` is "cut"): the next call fails the mission
(`Breaks`), but one whose model asks for no further call finishes, and may be passed.
A mission whose call was held then waits ("unanswered") until its client gives up.
The body of an answer 500 is no JSON. The flagship script parses the answer whatever
its status, so its polling task dies of it (`DiesOfAnswer`); the other two scripts
do not look at an answer. `by` and `erred` are history.

## 4. The runs

| Run | Question | Result |
|---|---|---|
| `approval_races` | Do record, caller, announcements and waiters agree, at every interleaving of an approve, a deny, the timer, a list request, a cancellation and a crash? | holds |
| `approval_liveness` | Does every hold end and is every call answered? | holds |
| `approval_cancelled_hold` | Is a hold always ended by its timeout, as `PROJECT_PLAN.md:93` says? | violated by a cancelled call |
| `journal_undo` | Is what was captured in the journal before its mutation, is there one undo per action, and does an undo on record put back what the mutation found, as far as that could be read? | holds |
| `journal_preimage` | Does the journal see exactly the state the mutation will hit, as `journal.py:6` says? | violated by a concurrent mutation |
| `gateway` | Does a confirmed quarantine hold, is what is charged never more than what was spent, and does spending reach the gate, with late heartbeats, cancelled calls, and a crash of atc-core or a restart of the runner? | holds |
| `held_quarantine` | Are all calls of a quarantined agent blocked, as `server.py:43` says? | violated by a call already held |
| `oversight` | Under the deployed policy, does nothing grave run unapproved, is what the card calls recoverable in the journal, and are first touches, loops and scores right whatever the order of calls, checks, undos, heartbeats and a crash? | holds |
| `console` | Does the page show the held actions, whatever is late, lost or outdated? | holds |
| `bootstrap` | Do atc-core and the seeder find a whole schema and leave a whole and plausible history and the live agents alone, in any overlap and with a death anywhere? | holds |
| `narrator` | Is what a narration says on record, is it one story for everybody, and does every request end, with calls under way, an exhausted model and a crash? | holds |
| `scenario` | Do the scripts play the human as they say, and do they come to an end, with POSTs that fail, are answered with errors or arrive late, a restart, and others' calls? | holds |

### Properties

`ApprovalManager`:

- `CallerObeysRecord`: a call whose tool runs is durably allowed, a call that was
  refused is durably refused.
- `AnnouncedIsRecorded`: each `action.resolved` states the committed status.
- `NoHoldStranded`, in three parts. `NoLostWakeup`: a blocked waiter has its Event
  in the dict, and an undecided row or a decision still on its way to set it.
  `ShownOnlyWithEvent`: no operator sees a held action before its Event exists;
  only the FIFO order of the connection rules this out for the list endpoint,
  which needs four operations to the committing call's one.
  `NoHoldSurvivesRestart`: a serving process shows no PENDING row of a dead one.
- `EveryHoldEnds`, `EveryCallIsAnswered`: liveness.
- `ImplementsLifecycle`: the refinement. That a committed terminal status never
  changes (`RecordIsFinal`) is part of it, and a theorem of its own.

`JournalUndo`:

- `CaptureBeforeMutation`: when a mutation has run, what had been captured for it
  is in the journal, whatever crashed.
- `RecordedIsRestored`: an undo on record had all its calls accepted, unless a
  tool raised.
- `UndoRestores`: end to end. If nobody else writes what a mutation wrote, from
  its capture to the end of its undo, the undo leaves each place that the capture
  read as the mutation found it. It excepts a tool that raises, a mutation its own
  undo overtook (`routes.py:136` asks whether the action was allowed, not whether it
  ran), and what is not `Legible`: a file that begins with `error:`, is not UTF-8 or
  has other line ends than LF, and a row with a BLOB. It says nothing of the places
  beyond the capture. Each exception is a divergence that section 7 names; without
  it TLC finds a counterexample.
- `ImplementsRecovery`: the refinement. That only the request an entry names
  restores or is recorded (`OneUndoPerAction`) is part of it, and a theorem of its
  own.

`Gateway`:

- `ConfirmedQuarantineHolds`: after the operator has seen the quarantine
  confirmed, the gate reads it and the disk has it until a lift is asked for.
  Violated by a lift that was under way, an upsert at startup, a commit that
  does not cover the update, a heartbeat that writes the whole row.
- `NeverOverBilled`: `db.py:97`'s "a redelivered heartbeat can't double-count",
  for heartbeats that are late, given up or from a runner that is gone.
- `SpendIsReported`: what finished missions used reaches the gate.

`Oversight`:

- `GraveRunsApproved`: a tool does nothing unbounded or irrecoverable before a
  human approved it. It ties the statement facts, the order of the rules, the
  hold and the record together.
- `MostSevereRuleWins`: a recorded action has at least the level of each rule that
  matches it, though the first one decides.
- `RecoverableIsKept`: `reversibility.py:13`'s "recovery data exists". A call that took
  something away, and was shown to the operator as compensable or with a row count,
  has a pre-image in the journal once it ran, unless its capture failed. It ties
  the three readers together (`Classify`, `CountsRows`, `Captures`) and to what the
  tools do, over every tool, condition and level. The exceptions (`Overlooked`) are real, and
  section 7 names them: an INSERT that replaces a row, and a DROP of a table under
  another way of writing its name or of something that is no table.
- `NovelMeansFirst`: what is flagged as a first touch is the first row of its agent
  and resource, after any commits, holds, undos and crashes.
- `DetectorsCatch`, in two parts. `FirstTouchFlagged`: a first touch gets and keeps
  its flag unless another row was in the table when the check read it. The
  exception is real: of two concurrent first touches neither may be flagged, since
  the code asks for no *other* row, where `creep.py` speaks of no *prior* one.
  `LoopsAreCaught`: the alarms of the checks, each of which counts in its own
  window, together say what the whole history says.
- `ScoreFallsOnlyWithAge`: two published scores of an agent compare as their rows'
  ages do. The exception for a crash is real too: a heartbeat may read a row
  whose commit has not happened.

`ApprovalConsole`:

- `LiveWhenQuiet`: when everything has arrived, the cards are the held actions,
  after missed events, a reconnection or a restart, except when the last list to
  arrive was outdated and overwrote newer news. The exception is real: a hold
  whose event comes between the reading and the arrival of a list disappears
  from the page, with the socket up and no event missed, until the next poll.
- `CardsLeaveForAReason`: a card of a held action disappears in no other way.
- `ConsoleSettles`: the poll repairs everything.

`Bootstrap`:

- `SchemaIsReady`: a process that has connected finds every column, in a file that
  is new, old, half migrated, or being migrated by the other at that moment.
- `HistoryIsWhole`: a marked history is complete with its spans, and a run that was
  not forced adds only to what a run left that died before its marker.
- `HistoryIsPlausible`: each row's level and rule are what the deployed policy gives
  some call on that resource, its tool is in the agent's scope, its status is a
  final one that the gate gives that level; and it is an hour old. This ties the
  seeder's hand-made copy of the policy to the policy.
- `KeepsLiveAgents`: neither the registration by the other process nor a startup
  lifts a quarantine or takes a row over.
- `BaselineCoversFiles`: what the seeder is for, as far as it goes: a live call on a
  file (or to a recipient, or a push) that the history names is no first touch.

`Narrator`:

- `ToldIsKept`: what anybody is answered comes from committed actions and is itself
  committed by then. A request that finds in the table a narration whose own commit
  is still queued would break it, if the connection's order did not help.
- `SettledNarrationStays`: once a narration is committed and nobody is at work on
  it, everybody is told that one, through restarts.
- `NarrationsEnd`: liveness.

`Scenario`:

- `PlaysTheHuman`, in three parts: no script approves an agent's first hold
  (`FirstIsNotApproved`), the approver denies an agent once per run and once more
  per lost answer (`OneDenialEach`), and a run reported as passed had a refused
  hold (`PassNeedsARefusal`). The exceptions in them are real; section 7 names
  them.
- `ScriptEnds`: liveness. A script ends with its report, or raises: after a lost POST
  or a restart, and the flagship's after an answer 500 too. The scenario runner's
  catches what its POSTs raise, and always reports.

### Bounds

- `approval_races`: one held call, one approve and one deny of it, one list
  request, one crash, one cancellation. The rows of different actions meet only
  in the shared transaction and in the queues. The decisions, the timer and the
  sweep of one action meet at its row, and two decisions with opposite verdicts
  are the smallest set in which a loser exists beside the timer.
- `approval_liveness`: adds an auto-allowed call, whose commits make the other's
  updates durable, and leaves out the list request and the cancellation, which
  resolve nothing.
- `journal_undo`: two mutations that can meet at the same file or table, one of
  them held, so two captures, two mutations and an undo can interleave; two undo
  requests, so that a claim can be lost; one crash, cancellation or failed request
  at any point, which reaches each failure branch. One row besides the table's
  definition makes the restore of a dropped table two calls, so that the second
  can fail after the first; a second key is free, for the UPDATE of a primary key.
  The mutations are a write and a deletion of the file, a DELETE, an INSERT, that
  UPDATE, and a DROP under either way of writing the name. The initial worlds have
  the file absent, ordinary, with CRLF, with `error:` and not UTF-8, and the row
  ordinary and with a BLOB. Undo requests are interchangeable, and no property
  of the run is a liveness property, so they are declared symmetric.
- The violation run of `JournalUndo` uses the smallest instance that shows the
  violation, and so does that of `ApprovalManager`.

- `gateway`: one agent, since agents share nothing but the commits, which the
  requests of one agent already issue to each other. One completion may spend
  the whole budget or nothing, so calls both before and after its exhaustion
  occur, and the latter are refused. Two requests that are a call and a quarantine, two
  overlapping quarantines, or a quarantine and a lift; two heartbeats at once,
  so that a late one can overtake its successor; one crash or restart. Every
  tool is held, which includes every step of a call that is not.
  Identities of requests are given out in a fixed order.
- The violation run of `Gateway` uses the smallest instance that shows the
  violation.

- `oversight`: every shape of call on its own (each tool, each statement class with
  each condition, on a production table and on another, DROPs of a table, of one
  under another way of writing its name and of an index, INSERTs that replace a row
  and that do not, text that does not parse or has no tokens, sensitive and other
  paths, 1, 9 and 10 recipients), and four pairs of calls that meet in the table: the same
  call twice, a held call and one that is not on the same file in both orders, and
  two agents on one file. A loop is two like calls (`Threshold` 1), a window
  lasts no half-life, as the deployed three minutes are less than ten; time passes
  once, and not while a coroutine is ready to run, so that the age of a row and the
  window of a check are never stretched by a pause no event loop makes. One crash and
  one undo. The heartbeats of one agent are followed; they never stop, so the model
  has no deadlock.

- `console`: one held action and one that is allowed at once and can be undone,
  whose events and lists cross those of the first; two lists in flight, the
  least with which one can overtake another; two events on the wire, a hold's and
  its resolution; one drop or crash. A page that has used both slots starts no
  further list until one is free, which a browser would.

- `bootstrap`: one agent whose profiles are the most varied, and two others
  together, so that a process can die between two registrations; a file without
  tables or with the first 0 to 4 of the migrations; two runs of the seeder, the
  least that can add to each other, each as composed or forced over no days; one
  action per day; one death, at any await of either process; one live call, which
  is enough to meet the history.
- `narrator`: two requests, so that one can read what the other stores; one call,
  held or not, whose two facts come before, between and after the reads, of which
  one fits the prompt; two attempts at the model; one crash.
- `scenario`: a run held twice, so that the second hold can be approved; two runs
  held once each, so that what the first leaves behind meets the second; the two
  demonstrations; somebody else's hold, of the same agent or another; one POST
  that fails or errs, or one restart. `OneDenialEach` and `FirstIsNotApproved`
  speak of one such fault at a time.

`MaxCrashes`, `MaxCancels`, `MaxFaults`, `MaxRequests`, `MaxTokens`, `MaxCalls`,
`MaxTime`, `MaxUndos`, `MaxRuns`, `MaxDeaths` and `MaxLive` bound the faults, the requests, the tokens, the calls, the
clock and the undos in the guards. All
other data is finite.

Deadlock is not checked for `ApprovalManager`, `JournalUndo`, `Narrator` and
`Scenario`. A server whose requests are all answered waits for the next one, the
instances have finitely many of them, and a script that has reported is over. `Gateway` and `ApprovalConsole` have timers and never stop.

### Fairness

`FairSpec` assumes weak fairness of the database thread, of the loop's
segments, of the startup sequence, and, for each call, of its hold timer and of
its tool. The thread and the loop run whatever is queued and both queues are
FIFO, so nothing that is ready is passed over for ever. `asyncio.wait_for` arms
its timer when the wait begins. A tool server answers or its connection fails.
Startup follows a crash because whoever operates the service starts it again.
There is no fairness for requests: no agent must submit, no human must decide,
and nothing must crash. `JournalUndo` states safety only.

`Gateway`'s `FairSpec` assumes weak fairness of each request's next step inside
atc-core, of the heartbeat loop (`while True` around a sleep) and of each
mission's steps: both processes run what is ready, a completion returns or
raises, and so does a call, by the client's timeout or the broken connection.
A hold ends, which `EveryHoldEnds` of `ApprovalManager` shows. `Boot` has no
fairness, because nothing in `docker-compose.yml` restarts atc-core (only the
agent runner has `restart: unless-stopped`), so `SpendIsReported` excepts an
atc-core that stays down. Nobody must begin a mission or press the switch.

`Oversight` and `Bootstrap` state safety only.

`Narrator`'s `FairSpec` assumes weak fairness of the database thread and of the loop,
as `ApprovalManager`'s does, and for each request of what it waits for outside: the
Trace API and the chat model answer something or their clients time out, and a
sleep ends. Nobody must submit, decide, export, narrate or restart.

`Scenario`'s `FairSpec` assumes weak fairness of each mission (the model and the
gateway answer or fail, for at most `MAX_TURNS` turns), of the hold's timer, of the
scripts' own loops, and of what becomes of a POST. Nothing must fail.

`ApprovalConsole`'s `FairSpec` assumes weak fairness of the announcements, of a
list's reading and arrival, of the socket (the page reconnects for ever and
handles what comes) and of the poll (`setInterval`). `ConsoleSettles` asks
nothing while atc-core is down. Nobody must submit, decide or click.

## 5. What is proved

`ApprovalManagerProofs.tla` proves, for any sets of calls, held calls, decisions
and list requests and any bounds on crashes and cancellations:

| Theorem | States |
|---|---|
| `Typing` | `Spec => []TypeOK` |
| `InvHolds` | `Spec => []Inv`, the inductive invariant |
| `CallersObeyTheRecord` | `Spec => []CallerObeysRecord` |
| `AnnouncementsAreRecorded` | `Spec => []AnnouncedIsRecorded` |
| `RecordsAreFinal` | `Spec => RecordIsFinal` |
| `ManagerImplementsLifecycle` | `Spec => ImplementsLifecycle` |
| `HoldInvHolds` | `Spec => []HoldInv`, the inductive invariant of the queues |
| `NoHoldIsStranded` | `Spec => []NoHoldStranded` |

They rest on the named assumptions of the module and nothing else: the task sets
are disjoint, `Held` is a set of calls, each decision has a target and a
verdict, and the bounds are natural numbers.

*The argument.* None of the properties is inductive. `CallerObeysRecord` speaks
of the end of a call, and says nothing of a caller that has read its row and not
yet acted on it. `Inv` adds what each task knows at each of its awaits:

- `RowsInv`: the connection's table is the committed one or one legal move ahead
  of it. A commit can therefore only move a record forward, whoever issues it.
- `CallInv`: once a call's insert has run its row exists; once its expiry has
  run the row is terminal, once that is committed it is durably terminal; and
  what it read at `read` *is* the durable status from then on, because a
  terminal status is final. That is the fact that makes it safe to act on a
  value read two awaits ago. A waiter the Event woke has a durably terminal row.
- `DecisionInv`: the same for a decision's check, update, commit and second read.
- `OutcomeInv`: the callers' and the announcements' agreement itself.

The proof goes by groups of actions. `MovesForward` says what all steps but a
crash do to the two tables; `CallStable`, `DecisionStable` and `OutcomeStable`
say that a task's facts survive every step that moves the tables forward and is
not its own, so only a task's own steps need an argument. A crash resets the
table and loses every task, which makes their facts vacuous. `RecordsAreFinal`
and the refinement follow from the invariant step by step.

`NoHoldStranded` is about order, and needs an invariant of its own. `QueueInv`: each
task stands in exactly the queue that its `io` names, once, and each operation in the
database thread's queue is the one its task hangs at; only a cancelled call is found
where nobody waits. `OrderInv`: a list request that has read the row of a call
whose Event does not exist yet stays behind that call, first in the thread's
queue and then in the loop's, so that the Event exists when the list is answered.
`EnteringInv` draws the conclusion: a call on its way into the hold has been shown
to nobody, so nobody decides it before there is an Event to set. `PhaseInv` says
the same of a restart: no task and no operation of the dead process is left, and
every PENDING row is on the sweep's list until atc-core serves.

`JournalUndoProofs.tla` proves, for any calls and undo requests, any files, keys
and contents, any mutations and initial worlds, and any bound on faults:

| Theorem | States |
|---|---|
| `JournalInvariant` | `Spec => []Inv` |
| `JournalTyping` | `Spec => []TypeOK` |
| `CapturedBeforeMutation` | `Spec => []CaptureBeforeMutation` |
| `OneUndoRestores` | `Spec => []OneUndoPerAction` |
| `RecordedUndoIsComplete` | `Spec => []RecordedIsRestored` |
| `JournalImplementsRecovery` | `Spec => ImplementsRecovery` |
| `ExactInvHolds` | `Spec => []ExactInv`, what is known of undisturbed calls |
| `UndoneIsRestored` | `Spec => []UndoRestores` |
| `JournalKeepsTheGate` | `Spec => Gate!Spec`, which is `ActionLifecycle` |
| `OnlyAllowedIsRestored` | what an undo has restored was allowed |

They assume what `JournalUndo` names: the places are distinct, each mutation
touches the places its tool can touch, those beyond its capture included, and a
deletion leaves nothing there; what a file or a row is read as is any function of
its content; calls and undo requests are different things, and the words that stand
for "no request" are not requests.

*The argument.* `Inv` again says what each task knows. A call (`CallFacts`) has
captured nothing before its capture; the entry in the journal appears only on
the way to the mutation and holds exactly what was captured; a mutation whose
request is under way has not run. A request that undoes (`UndoFacts`) is named
by the entry from its claim on and by no entry before; the place in flight is one
it has still to restore; and, unless a tool raised, what was captured is
contained in what it has restored and what it has left. That last fact is the
loop invariant of the compensating calls, and `RecordedIsRestored` is what it
says when nothing is left. Types need the invariant too: what is written to a
place is a value, and not the mark for "not captured", only because the places
left are captured ones. `CallStable` and `UndoStable` carry the facts of all
tasks that do not move, so each action is argued for its own task alone. In the
refinement, inserting the entry, running the mutation, claiming, restoring a
place and recording are the abstract steps, and all else stutters.

`UndoRestores` relates the tool servers' world at three moments: when it was read,
when the mutation hit it, and when the undo is on record. `ExactInv` bridges them
for a call whose places nobody else writes: what it has read is, until its
mutation runs, the image of the world *now*; and from then on each of its places
holds what the undo has put back there or else what the mutation left. That an
undo finds something to put back in every place is then `RecordedIsRestored` and the
shape of an image; that it is what was there is true of what is read as it is
(`LegibleIsRead`), and only of that. `ExactInv` is also what remains
true of the sentence that `journal_preimage` refutes.

`JournalKeepsTheGate` puts the two abstract specifications together. `ApprovalManager`
implements `ActionLifecycle` up to the moment atc-core decides to run a tool.
`JournalUndo` takes that hold as one step (`Resolve`) and follows the call to the
tool server; it implements `ActionLifecycle` too, with the mutations that have really
run there for `executed`. So between the decision and its effect nothing lets a
mutation run twice, or without a record that allows it: no capture that fails, no
request that is lost or outlives its process, no undo. The invariant is small
(`GateInv`: whoever is past the gate has an allowing record, and records do not go
back). This one refinement is proved and not in a run.

`GatewayProofs.tla` proves, for any agents, tools, scopes, costs and budget, and
any number of requests, heartbeats at once, crashes and restarts:

| Theorem | States |
|---|---|
| `GatewayInvariant` | `Spec => []Inv` |
| `GatewayTyping` | `Spec => []TypeOK` |
| `QuarantineHolds` | `Spec => []ConfirmedQuarantineHolds` |
| `TotalsAreHonest` | `Spec => []NeverOverBilled` |

*The argument.* Both properties speak of the table, and a request may be about
to overwrite it; the invariant therefore speaks of the requests. `QuarantineInv`:
no lift of an agent whose quarantine was confirmed is on its way (`NoLift`), nor
of one whose quarantine is on its way alone; and between the update and its
commit the table has the flag. `BillingInv`: a heartbeat carries at most what its
agent had spent, so applying it late, or for a runner that is gone, is harmless;
and the runner's total with the current mission's tokens is at most that too, so
the next heartbeat is honest. `RequestInv`: an unfinished request belongs to a
serving process, so no request of a dead one writes to the table. Types need the
last fact: a table without rows cannot be updated.

`OversightProofs.tla` proves about the deployed policy, for every call, any set of
production tables and any set of sensitive paths:

| Theorem | States |
|---|---|
| `OrderHidesNothing` | no call is below a rule that matches it |
| `GraveIsHigh` | every grave call is HIGH, unless its statement has no tokens, and then it fails |

and about `Oversight`, for any agents and scripts of calls, any window, threshold
and duration, and any number of calls, undos and crashes:

| Theorem | States |
|---|---|
| `OversightInvariant` | `Spec => []OversightInv` |
| `GraveRunsAreApproved` | `Spec => []GraveRunsApproved` |
| `MostSevereRuleAlwaysWins` | `Spec => []MostSevereRuleWins` |
| `NovelRowsAreFirst` | `Spec => []NovelMeansFirst` |
| `RecoverableRowsAreKept` | `Spec => []RecoverableIsKept` |
| `DetectorsAlwaysCatch` | `Spec => []DetectorsCatch` |
| `OversightTyped` | `Spec => []TypeOK` |
| `ScoreInvHolds` | `Spec => []ScoreInv` |
| `ScoresFallOnlyWithAge` | `Spec => ScoreFallsOnlyWithAge` |

They assume `OversightAssumption`: the bounds are natural numbers, the threshold is
positive, and a script's calls are of known agents and have well-formed statements.

*The argument.* `OrderHidesNothing` holds because in the deployed file each rule
below HIGH is the last one for its tool (`LaterRules`), so a rule that matches after
the first one comes after a HIGH one. `GraveIsHigh` names, for each kind of grave
call, a rule that matches it and before which none of another level does.
`OversightInv` carries this through the table. `DurableIsPrefix`: what is durable is
the beginning of the table with the same calls, levels and statuses, and perhaps
fewer flags; a crash, which makes it the table, therefore keeps everything said
about rows. `OneRow` and `CallFacts`: a call in the gate or in its creep check has
exactly one row, durable from its commit on, and none of that outlives the process.
`RowFacts`: a HIGH call's row is never let through by itself and the row of
what runs was let through, so it was approved. `FlagFacts`: a check that has found
no other row has found its own to be the first, and later inserts come after it; the
flag it sets some steps later is true although the table has changed since.

`CountInv` ties the readers of a statement together: only the rows that the estimate
counts are marked as counted, and a compensable call that the journal captures is
kept once it has run, or its capture failed. `RecoverableIsCaptured` is the part
about the statement alone: what takes something away and is called compensable or
counted is captured, but for what is `Overlooked`.

`DetectInv` follows the two checks. `TouchFacts`: a check that is over has flagged
the call's row, or a row it must have read came before. `LoopFacts` has to relate
counts that different checks make at different times to one count over the whole
history. A check counts the like rows of its window as it reads, later ones included;
the argument is that a check which has not read belongs to a call of this very unit
of time (`UnreadFacts`: the clock does not pass while a coroutine is ready), so a row
that completes a loop brings along a check, its own, that will still see all of it
(`CaughtFacts`), and a check that raised an alarm counted rows of its own window
(`AlarmFacts`). The cardinalities are compared by set inclusion
(`FS_Subset`, `FS_AddElement`), since rows come and never go without a crash.

`ScoreInv` says what a score is worth: in every state the rows that it was read from
are still in the table, and in what a crash leaves of it unless the score had read
what was not committed (`firm`), and add up to no less at the moment it was read for. So a
later score for that moment is no lower; one for a later moment may be. That a step
lowers no sum (`SumOfGrows`) rests on what steps do to rows (`TableStep`): they add
rows, resolve pending ones, which did not count, and set flags, which add weight;
and resolved rows stay as they are, since a hold resolves a row that is pending
(`HoldFacts`). The sum itself is the community modules' `SumFunctionOnSet`, a fold whose
recursion chooses one element after the other. What it does for any number of rows
does need induction. The library's induction theorems cannot be used, so
`OversightProofs` has its own, stated of a set of natural numbers and not of an
operator: a set that has 0, and n + 1 with n, has them all (`UpTo`, from the least
element that it would miss, `Least`). With it, by the cardinality of the set:
the fold's function exists and is the one the library chooses (`SumsExist`,
`SumsAgree`, `SumIs`), a sum of natural numbers is one (`SumTyped`), and a sum over a
larger set of larger terms is larger (`SumGrows`).

`BootstrapProofs.tla` proves, for any registries and settings of the seeder, and any
number of its runs, of deaths and of live calls:

| Theorem | States |
|---|---|
| `BootstrapInvariant` | `Spec => []Inv` |
| `BootstrapTyping` | `Spec => []TypeOK` |
| `SchemaAlwaysReady` | `Spec => []SchemaIsReady` |
| `LiveAgentsKept` | `Spec => KeepsLiveAgents` |
| `DuplicatesOnlyAfterDeaths` | `Spec => []DuplicatesNeedADeath` |
| `MarkedHistoryIsWhole` | `Spec => []HistoryIsWhole` |
| `SeededHistoryIsPlausible` | `Spec => []HistoryIsPlausible` |
| `BaselineHolds` | `Spec => BaselineCoversFiles` |

They assume `BootstrapAssumption`: the two processes differ, a registry lists at least
one identity, of a known persona and no id twice (it is a dictionary by id), and the
bounds are natural numbers. `SeededHistoryIsPlausible` assumes `DeploymentAssumption`
too, which is about the files as they are deployed and no code checks: the
registry gives each persona the namespaces that its profile in the seeder uses,
`customers` is a production table, `staging_old` is not, and the daily summary is not a
sensitive path. TLC evaluates both on the deployed values.

*The argument.* `SchemaInv`: a process at the i-th migration has the columns before it,
whoever added them, and nobody drops one, so that it may die or be overtaken anywhere.
`QuarantineInv`: the flag in the table is what the operator last said, for a registration
writes it only where there was no agent. `RunsInv`: an unforced run has found no
marker before it inserts, and as long as there is none each earlier run with rows is
dead; so what it finds are remains, and stays so although it sets the marker itself.
Types need the last one too: a run that is written to is one there is.

`WholeInv` says that the rows of a run are exactly one for each number it no longer
owes to an agent, which holds after each insert, and after a death; a run that comes to its
marker owes none. So a marked history is whole without any counting. `PlausibleInv`
says what each row was made from: a profile of its agent, a final status of the
profile's level, an age within the window. That a profile is plausible is then
a question about the policy only, and is answered profile by profile with `Evaluate`
expanded. Its part `Named`, that seeder and gate store the name of what a row
touches unless the gate stores a statement, gives `BaselineHolds`.

`ApprovalConsoleProofs.tla` proves, for at most eight actions (`RECENT_LIMIT`), any
number of lists in flight, any length of the wire and any number of drops and crashes:

| Theorem | States |
|---|---|
| `ConsoleTyped` | `Spec => []TypeOK` |
| `PageIsAccountedFor` | `Spec => []PageInv`, the inductive invariant |
| `PageIsLive` | `Spec => []LiveWhenQuiet` |
| `CardsLeaveOnlyForAReason` | `Spec => CardsLeaveForAReason` |

*The argument.* `LiveWhenQuiet` speaks of quiet states only. `PageInv` says at every
moment what each difference between the cards and the held actions is still waiting
for (`Accounted`): a card too many for the announcement of its decision, a card too few
for the announcement of its hold, which is to be made or is on the wire. Otherwise a
list is in flight, an event that asks for one is on the wire (`Coming`), or the last
list was outdated (`overtaken`). A list that has been read is right but for the same
differences until something newer reaches the page (`FreshInv`). When nothing is in
flight, no difference has anything to wait for.

`NarratorProofs.tla` proves, for any requests, any finite set of calls, and any number
of attempts, of facts that fit and of crashes:

| Theorem | States |
|---|---|
| `NarratorTyped` | `Spec => []TypeOK` |
| `NarratorInvHolds` | `Spec => []NarratorInv`, the inductive invariant |
| `WhatIsToldIsKept` | `Spec => []ToldIsKept` |
| `SettledTextStays` | `Spec => []SettledNarrationStays` |

*The argument.* A request may find in the table a text that is not committed. Its
commit is then on its way (`TextInv`), and the request is behind it: in the loop's
queue while the storing request has yet to issue its commit, then in the thread's
queue, where the commit comes before the fetch that the answer waits for
(`OrderInv`). The facts of a text are committed because its own are read by
operations that come after theirs (`LogInv`, `FactInv`), and the same commit covers
both. `SettledInv`: once a text is committed and nobody is at work on it, whoever
looks finds it, so nobody writes another.

`ScenarioProofs.tla` proves, for any runs and holds of the three scripts and any number
of failed POSTs and restarts:

| Theorem | States |
|---|---|
| `ScenarioInvHolds` | `Spec => [](BaseInv /\ RefusalInv /\ OnceInv)`, the inductive invariant |
| `ScenarioTyped` | `Spec => []TypeOK` |
| `ScriptPlaysTheHuman` | `Spec => []PlaysTheHuman` |

*The argument.* `PostsInv`: each POST that nobody waits for is one that failed or one
that was under way when its run ended, so there are at most that many. `RefusalInv`
follows the belief of a script to the fact: a denial that was answered found its hold
undecided, and refused it, or decided, and then it was refused, or approved after an
earlier refusal; so what a script has marked was refused, but for the flagship's first
denial, which it marks before the answer. `OnceInv` counts an agent's denials in a
run, handled or on their way: one for each lost answer, and one more once the agent
is marked (`Allowance`).

### Only model-checked

- Liveness under fairness: `EveryHoldEnds`, `EveryCallIsAnswered`, `SpendIsReported`,
  `ConsoleSettles`, `NarrationsEnd`, `ScriptEnds`. Liveness and `ENABLED` are out of
  this prover's reach.
- The three properties that are violated.

Every named assumption is evaluated by TLC in the runs of its module. No module
of this project has a `RECURSIVE` operator. The only facts that need induction, those
about sums, have it from `UpTo`.

## 6. Not modelled

- Telemetry: exporter configuration and attribute names, read back by nothing in
  the program. The spikes: experiments with mocked tools and a gateway of their
  own. `QueueWatcher`, which prints, and the scripts that trigger one refusal or
  one alarm with a single call, which the gate's own modules cover.
- Parsing of SQL and matching of regular expressions, which are sqlglot's and
  Python's. The wording of a narration and the prompt it is made from.
- The console's fleet list, and subscriptions that outlive their peer.
  Authentication, `list_tools`, the read of the agents, and the
  number the blast radius estimate shows: they keep no state.
- The connection of the upstream pool is made once, at startup, before anything is
  served; no code makes it again. A lost connection is a call that raises.
- Ages that are no whole number of half-lives: with whole ones the scorer's decay
  is exact.
- Contents of messages, rows and files beyond what a property tells apart; SQL
  text; paths; traces and metrics.
- In `JournalUndo`: tables without a primary key and changed columns
  (`undo.py:11` names them as limits of the design); a BLOB as the primary key
  itself; a statement that changes two tables, or a table whose other rows depend on
  it by a cascade; a write that fails half way
  and leaves a truncated file; a `SELECT` of several rows is one moment.
- Disk failure of the store's own file, and exceptions of the store: no handler
  catches them. `Bootstrap` and `Scenario` have the one that a second process can
  cause, a wait for SQLite's lock that is too long, as a death and as an answer 500.

## 7. Divergences found

Three statements of the code's own comments or plan do not hold, and a run shows a
counterexample of each.

1. `PROJECT_PLAN.md:93`: "auto-deny on timeout". A held call whose client
   cancels it has no timer any more and stays PENDING until somebody decides it
   or the process restarts.
2. `journal.py:6`: "guarantees the journal sees exactly the state the mutation
   will hit". A concurrent mutation between capture and execution breaks it, and
   the undo of one then reverts the other.
3. `gateway/server.py:43`: "All tool calls are blocked until the quarantine is
   lifted." The flag is read when a call arrives; a call that is held when the
   quarantine is confirmed can be approved afterwards, and runs.

Others can be read off the actions of the models, and the properties except
exactly them.

4. `manager.py:120`: "only the timeout path resolves here and needs to announce
   it itself". The timeout path announces also when a decision's update went
   first, with that decision's status; the event is true but sent twice
   (`ExpiryStored` of `ApprovalManager`, `AnnouncedIsRecorded`).
5. `undo.py:14`: "the journal entry records exactly what was restored either
   way". A tool that raises answers a text the endpoint takes for a success: the
   undo is on record and nothing was restored (`Raises` of `JournalUndo`; `blind`
   in `RecordedIsRestored`).
6. `gateway/server.py:52`: "This agent's token budget is spent; an operator must
   raise it before further tool calls are allowed." A restart of the runner,
   which Compose does by itself, reports a total of zero and the calls go on
   (`RunnerRestarts` and `SetTokensUsed` of `Gateway`).
7. `docker-compose.yml:141`: the seeder is "idempotent [...] so re-running is always
   safe". It commits row by row and marks last; killed half way, the next run adds a
   whole history to what is there (`DuplicatesNeedADeath`).
8. `seed.py:3` and `:66`: a history for the "creep baseline" that "references the
   same tables/paths the live demo touches". It names tables, and the gate stores
   the text of the statement (`server.py:298`), so the first live call on a seeded
   table is flagged as novel all the same (`BaselineCoversFiles` is for the rest).
9. `seed.py:112`: "always at least an hour before `now`". With a window of no days
   the window's beginning is `now` and lies after its end, and a row may be
   younger (`SeededRowsAreOld`).
10. `scenario_runner.py:12`: "deny the first destructive attempt". No status is
    looked at, so a denial that was answered 500 counts as made, and the next poll
    approves the hold (`erred` in `FirstIsNotApproved`).
11. `scenario_runner.py:15` and `:70`: a pass "hit a real HIGH-risk denial" and
    then had a call "executed for real". A refusal for the scope or the timeout is a
    denial too, any later result that does not say `[ATC-DENIED]` counts as the
    recovery, a quarantine or an exhausted budget among them, and the counted denial
    may have been another agent's (`Tell`, `Answered`, `PassNeedsARefusal`).
    A hold that a broken mission leaves behind takes the next run's one denial, so
    that run's own first hold is approved.
12. `docs/PRODUCT_STRATEGY.md:131`: "Approve, regret, undo". What comes back has been
    through text. Line ends other than LF come back as LF, a BLOB comes back as the
    text of its representation, a file that begins with `error:` is deleted, and one
    that is not UTF-8 is overwritten with an error message (`AsRead`, `Legible`).
    After an UPDATE of a primary key the changed row stays beside the restored one,
    and a restored table has no indexes or triggers (`beyond`). The undo is on record
    all the same, and `undo.py:11` names none of these among its limits.
13. `reversibility.py:11`: "COMPENSABLE means ATC's gateway journal can capture a
    pre-image [...] recovery data exists". An INSERT that replaces a row is
    COMPENSABLE and not captured. So is a DROP of a view, index or trigger, and a DROP
    of a table whose name is quoted or in another case than in `sqlite_master`, of
    which the approval card even counts the rows: `journal.py:104` finds no schema
    and leaves without an entry (`Overlooked` in `RecoverableIsKept`).
14. `risk/engine.py:6`: "unparseable SQL -> HIGH". A text that has no tokens, such as
    one with a quote that does not end, raises `TokenError`, which `engine.py:66`
    does not catch: the call fails without a row in the table and is held by nobody.
    Nothing runs (`Fails` of `Oversight`).
15. `trace_api_fetcher.py:30`: "any failure (network, auth, malformed response) returns
    an empty list rather than raising". JSON of another shape than expected is read
    outside the `try` and fails the request (`Misread` of `Narrator`).
16. `flagship_near_miss.py:105` prints the status of an answer and takes its body for
    JSON. An answer 500 ends the polling task, whose exception the script raises at
    its end, so that the holds that follow are left to their timer (`DiesOfAnswer`, the
    last exception in `ScriptEnds`).
