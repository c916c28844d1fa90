---------------------------- MODULE JournalUndo -----------------------------
(***************************************************************************)
(* Recovery: the pre-image that gateway/journal.py captures between the    *)
(* approval of a mutation and its execution, and the undo endpoint         *)
(* (api/routes.py, gateway/undo.py) that plays it back through the tool    *)
(* servers.                                                                *)
(*                                                                         *)
(* A task is one tool call or one undo request.  Its requests to the tool  *)
(* servers are messages: a request runs at some moment after it is sent,   *)
(* its answer is seen at some moment after that, and other tasks run in    *)
(* between.  A request that was sent survives the process that sent it.    *)
(* A store method is one step: its UPDATE and its commit can be told apart *)
(* only by a crash between them, which is a crash before the step.         *)
(***************************************************************************)
EXTENDS ActionStatus, Integers

CONSTANTS
    Calls,          \* tool calls that mutate something
    Held,           \* those whose risk level is held
    Undos,          \* undo requests
    Files,          \* the files of tools-fs
    Keys,           \* the primary keys of a table of tools-db, numbers or text
    Contents,       \* what a file or a row may hold
    ErrorLike,      \* the file contents that begin with "error:"
    Undecodable,    \* the file contents that are not UTF-8
    ToolError,      \* the text of the tool error that reading one of those gives
    FileText,       \* what read_text() makes of the other files: CRLF and CR become LF
    RowText,        \* what a row is after json.dumps(default=str): a BLOB becomes text
    Effects,        \* the mutations that each call may ask for
    InitialWorlds,  \* what the tool servers hold before
    MaxFaults       \* bound on crashes, cancellations and failed requests together

Schema == "schema"  \* the place of the table's definition

Indexes == "indexes"  \* the place of its indexes and triggers, which no capture reads

Absent == "absent"  \* no such file, row or table

Unread == "unread"  \* not part of a pre-image

Places == Files \cup Keys \cup {Schema, Indexes}

Values == Contents \cup {Absent}

\* "rekey" is an UPDATE of a primary key; "dropAlias" a DROP TABLE that writes the
\* name otherwise than sqlite_master has it: quoted, in another case.
Tools == {"fs__write", "fs__delete", "rows", "rekey", "insert", "drop", "dropAlias"}

Drops == {"drop", "dropAlias"}

ASSUME PlacesAssumption ==
    /\ Files \cap Keys = {}
    /\ {Schema, Indexes} \cap (Files \cup Keys) = {}
    /\ Absent \notin Contents
    /\ Unread \notin Values

ASSUME ContentsAssumption ==
    /\ ErrorLike \subseteq Contents
    /\ Undecodable \subseteq Contents
    /\ ErrorLike \cap Undecodable = {}
    /\ ToolError \in Contents
    /\ FileText \in [Contents -> Contents]
    /\ RowText \in [Contents -> Contents]

\* A mutation gives the places at its value, and those beyond too, which its capture
\* does not read.  What is deleted or dropped is gone; what an UPDATE gives another
\* key is gone from the one and has its value at the other.
ASSUME EffectsAssumption ==
    /\ Effects \in [Calls -> SUBSET [tool : Tools, at : SUBSET Places,
                                      beyond : SUBSET Places, value : Values]]
    /\ \A c \in Calls : \A e \in Effects[c] :
        /\ CASE e.tool \in {"fs__write", "fs__delete"} -> \E f \in Files : e.at = {f}
             [] e.tool \in Drops -> e.at = Keys \cup {Schema}
             [] OTHER -> e.at \subseteq Keys
        /\ CASE e.tool \in Drops -> e.beyond = {Indexes}
             [] e.tool = "rekey" -> e.beyond \subseteq Keys \ e.at
             [] OTHER -> e.beyond = {}
        /\ e.tool \in {"fs__delete"} \cup Drops => e.value = Absent

ASSUME WorldsAssumption == InitialWorlds \subseteq [Places -> Values]

ASSUME TasksAssumption ==
    /\ Held \subseteq Calls
    /\ Calls \cap Undos = {}
    /\ Undos \cap {"none", "missing", "kept"} = {}
    /\ MaxFaults \in Nat

Tasks == Calls \cup Undos

VARIABLES
    world,      \* what the tool servers hold at each place
    status,     \* the status of each action
    journal,    \* the journal table
    recorded,   \* the undo requests that inserted their UNDO-COMPENSATION row
    pc,         \* where each task is suspended
    wire,       \* its request to a tool server: "none", "sent" or the answer
    effect,     \* the mutation each call asks for
    got,        \* the pre-image each call has read so far
    target,     \* the action each undo request is about
    at,         \* the place its compensating call in flight restores
    left,       \* the places it has still to restore
    lost,       \* the tasks whose process died, and the cancelled calls
    faults,     \* the crashes, cancellations and failed requests so far
    mutated,    \* history: the calls whose mutation has run
    before,     \* history: the world a mutation ran on
    disturbed,  \* history: the calls whose places somebody else wrote
    restored,   \* history: the places each undo request really restored
    blind       \* history: the undo requests one of whose calls raised

storeVars == <<status, journal, recorded>>
callVars == <<effect, got>>
undoVars == <<target, at, left>>
faultVars == <<lost, faults>>
historyVars == <<mutated, before, disturbed, restored, blind>>
vars == <<world, storeVars, pc, wire, callVars, undoVars, faultVars, historyVars>>

NoEffect == [tool |-> "none", at |-> {}, beyond |-> {}, value |-> Absent]

NoEntry == [image |-> [p \in Places |-> Unread], undoneBy |-> "none", kept |-> FALSE]

Blank == [p \in Places |-> Unread]

Init ==
    /\ world \in InitialWorlds
    /\ status = [c \in Calls |-> NoRow]
    /\ journal = [c \in Calls |-> NoEntry]
    /\ recorded = {}
    /\ pc = [t \in Tasks |-> "idle"]
    /\ wire = [t \in Tasks |-> "none"]
    /\ effect = [c \in Calls |-> NoEffect]
    /\ got = [c \in Calls |-> Blank]
    /\ target = [u \in Undos |-> "none"]
    /\ at = [u \in Undos |-> "none"]
    /\ left = [u \in Undos |-> {}]
    /\ lost = {}
    /\ faults = 0
    /\ mutated = {}
    /\ before = [c \in Calls |-> Blank]
    /\ disturbed = {}
    /\ restored = [u \in Undos |-> {}]
    /\ blind = {}
-----------------------------------------------------------------------------
(* The tool servers.                                                       *)

\* A mutation the server refuses answers "error: ..." and changes nothing.
Accepts(e, w) ==
    CASE e.tool = "fs__write" -> TRUE
      [] e.tool = "fs__delete" -> \A p \in e.at : w[p] # Absent
      [] e.tool = "insert" -> w[Schema] # Absent /\ \A p \in e.at : w[p] = Absent
      [] e.tool = "rekey" -> w[Schema] # Absent /\ \A p \in e.beyond : w[p] = Absent
      [] OTHER -> w[Schema] # Absent

\* UPDATE and DELETE change the rows they match, and only those.
Hits(e, w) == IF e.tool \in {"rows", "rekey"} THEN {p \in e.at : w[p] # Absent} ELSE e.at

Mutation(e, w) ==
    LET hits == Hits(e, w) IN
    IF Accepts(e, w) /\ hits # {}
    THEN [p \in Places |-> CASE p \in hits -> IF e.tool = "rekey" THEN Absent ELSE e.value
                             [] p \in e.beyond -> e.value
                             [] OTHER -> w[p]]
    ELSE w

\* Mutant: the answer for an absent file is taken for its content.
TextAsReadLiterally(v) ==
    IF v \in Undecodable \cup {Absent} THEN ToolError ELSE FileText[v]

\* What the journal makes of the text fs__read answers for a file holding v.
TextAsRead(v) ==
    CASE v \in Undecodable -> ToolError
      [] v \in ErrorLike \cup {Absent} -> Absent
      [] OTHER -> FileText[v]

\* What it makes of the answer about any place: a row is read as JSON, and the text in
\* sqlite_master is its own.
AsRead(p, v) ==
    CASE p \in Files -> TextAsRead(v)
      [] p \in Keys -> RowText[v]
      [] OTHER -> v

\* The pre-image of e: the file, the matching rows, or the rows of the table.
Image(e, w) ==
    [p \in Places |->
        IF p \notin e.at \/ (p \notin Files /\ w[p] = Absent) THEN Unread
        ELSE AsRead(p, w[p])]

\* One compensating call: fs__write or fs__delete, CREATE TABLE, or INSERT OR REPLACE.
Restorable(p, v, w) ==
    CASE p \in Files -> v # Absent \/ w[p] # Absent
      [] p = Schema -> w[Schema] = Absent
      [] OTHER -> w[Schema] # Absent

\* The calls that began to capture a place that changes when the servers go to
\* w on behalf of action a.
Disturbs(a, w) ==
    {c \in Calls \ {a} : /\ pc[c] \notin {"idle", "gate"}
                         /\ \E p \in effect[c].at : w[p] # world[p]}

\* SELECT sql FROM sqlite_master WHERE name = ..., as the DROP writes the name.
ReadsSchema(c) ==
    LET found == effect[c].tool = "drop" /\ world[Schema] # Absent
    IN  /\ pc[c] = "schema"
        /\ wire[c] = "sent"
        /\ wire' = [wire EXCEPT ![c] = "ok"]
        /\ got' = [got EXCEPT ![c] = [Blank EXCEPT ![Schema] = IF found THEN world[Schema]
                                                               ELSE Unread]]
        /\ UNCHANGED <<world, storeVars, pc, effect, undoVars, faultVars, historyVars>>

\* The schema of a DROP was read by the request before.
ReadsImage(c) ==
    LET e == effect[c]
        image == Image(e, world)
    IN  /\ pc[c] = "image"
        /\ wire[c] = "sent"
        /\ IF e.at \subseteq Files \/ world[Schema] # Absent
           THEN /\ wire' = [wire EXCEPT ![c] = "ok"]
                /\ got' = [got EXCEPT ![c] = [image EXCEPT ![Schema] = got[c][Schema]]]
           ELSE /\ wire' = [wire EXCEPT ![c] = "error"]
                /\ UNCHANGED got
        /\ UNCHANGED <<world, storeVars, pc, effect, undoVars, faultVars, historyVars>>

\* A mutation whose own undo has begun is disturbed too: it comes last.
Mutates(c) ==
    LET w == Mutation(effect[c], world)
        overtaken == \E u \in Undos : target[u] = c /\ restored[u] # {}
    IN  /\ pc[c] = "mutate"
        /\ wire[c] = "sent"
        /\ wire' = [wire EXCEPT ![c] = "ok"]
        /\ world' = w
        /\ mutated' = mutated \cup {c}
        /\ before' = [before EXCEPT ![c] = world]
        /\ disturbed' = disturbed \cup Disturbs(c, w) \cup (IF overtaken THEN {c} ELSE {})
        /\ UNCHANGED <<storeVars, pc, callVars, undoVars, faultVars, restored, blind>>

RestoresPlace(u) ==
    LET p == at[u]
        v == journal[target[u]].image[p]
        w == [world EXCEPT ![p] = v]
    IN  /\ pc[u] = "restore"
        /\ wire[u] = "sent"
        /\ Restorable(p, v, world)
        /\ wire' = [wire EXCEPT ![u] = "ok"]
        /\ world' = w
        /\ restored' = [restored EXCEPT ![u] = @ \cup {p}]
        /\ disturbed' = disturbed \cup Disturbs(target[u], w)
        /\ UNCHANGED <<storeVars, pc, callVars, undoVars, faultVars, mutated, before, blind>>

\* "error: ...": nothing changed.  An INSERT may also meet a constraint, a trigger, or a
\* value that its literal cannot write.
RefusesToRestore(u) ==
    /\ pc[u] = "restore"
    /\ wire[u] = "sent"
    /\ at[u] \in Keys \/ ~Restorable(at[u], journal[target[u]].image[at[u]], world)
    /\ wire' = [wire EXCEPT ![u] = "error"]
    /\ UNCHANGED <<world, storeVars, pc, callVars, undoVars, faultVars, historyVars>>

\* The connection fails, after the request has run or instead of it: the caller
\* gets an exception.
LosesAnswer(t) ==
    /\ wire[t] \in {"ok", "error"}
    /\ faults < MaxFaults
    /\ faults' = faults + 1
    /\ wire' = [wire EXCEPT ![t] = "lost"]
    /\ UNCHANGED <<world, storeVars, pc, callVars, undoVars, lost, historyVars>>

LosesRequest(t) ==
    /\ wire[t] = "sent"
    /\ faults < MaxFaults
    /\ faults' = faults + 1
    /\ wire' = [wire EXCEPT ![t] = "lost"]
    /\ UNCHANGED <<world, storeVars, pc, callVars, undoVars, lost, historyVars>>

\* tools-fs catches nothing (a directory in the way, no permission): the answer is
\* a tool error whose text begins with "Error executing tool".
Raises(t) ==
    /\ wire[t] = "sent"
    /\ \/ t \in Undos /\ pc[t] = "restore" /\ at[t] \in Files
       \/ t \in Calls /\ pc[t] = "mutate" /\ effect[t].at \subseteq Files
    /\ faults < MaxFaults
    /\ faults' = faults + 1
    /\ wire' = [wire EXCEPT ![t] = "raised"]
    /\ blind' = blind \cup ({t} \cap Undos)
    /\ UNCHANGED <<world, storeVars, pc, callVars, undoVars, lost,
                   mutated, before, disturbed, restored>>

Upstream ==
    \/ \E c \in Calls : ReadsSchema(c) \/ ReadsImage(c) \/ Mutates(c)
    \/ \E u \in Undos : RestoresPlace(u) \/ RefusesToRestore(u)
    \/ \E t \in Tasks : LosesAnswer(t) \/ LosesRequest(t) \/ Raises(t)
-----------------------------------------------------------------------------
(* A tool call, from its row in the table to the answer of the tool.       *)

\* Task t, still running, goes from place to next and sends nothing.
Goes(t, place, next) ==
    /\ t \notin lost
    /\ pc[t] = place
    /\ pc' = [pc EXCEPT ![t] = next]
    /\ wire' = [wire EXCEPT ![t] = "none"]

\* As before, and the next place awaits the answer to a request.
Sends(t, place, next) ==
    /\ t \notin lost
    /\ pc[t] = place
    /\ pc' = [pc EXCEPT ![t] = next]
    /\ wire' = [wire EXCEPT ![t] = "sent"]

Submit(c) ==
    /\ Goes(c, "idle", "gate")
    /\ \E e \in Effects[c] : effect' = [effect EXCEPT ![c] = e]
    /\ status' = [status EXCEPT ![c] = IF c \in Held THEN "PENDING" ELSE "AUTO_ALLOWED"]
    /\ UNCHANGED <<world, journal, recorded, got, undoVars, faultVars, historyVars>>

\* ApprovalManager, abstractly: a cancelled call leaves its hold to be resolved.
Resolve(c) ==
    /\ status[c] = "PENDING"
    /\ \E s \in Resolutions : status' = [status EXCEPT ![c] = s]
    /\ UNCHANGED <<world, journal, recorded, pc, wire, callVars, undoVars, faultVars, historyVars>>

Refuse(c) ==
    /\ status[c] \in Refused
    /\ Goes(c, "gate", "refused")
    /\ UNCHANGED <<world, storeVars, callVars, undoVars, faultVars, historyVars>>

\* Mutant: the capture is left to the background, the call goes ahead.
CaptureUnawaited(c) ==
    /\ status[c] \in Allowed
    /\ Sends(c, "gate", "mutate")
    /\ got' = [got EXCEPT ![c] = Image(effect[c], world)]
    /\ UNCHANGED <<world, storeVars, effect, undoVars, faultVars, historyVars>>

\* A DROP reads the schema first, an INSERT is not journaled.
FirstRequest(e) ==
    CASE e.tool \in Drops -> "schema"
      [] e.tool = "insert" -> "mutate"
      [] OTHER -> "image"

\* capture() begins, or the tool is called at once.
Capture(c) ==
    /\ status[c] \in Allowed
    /\ Sends(c, "gate", FirstRequest(effect[c]))
    /\ UNCHANGED <<world, storeVars, callVars, undoVars, faultVars, historyVars>>

\* No row of sqlite_master has that name: there is nothing to capture.
SchemaRead(c) ==
    /\ wire[c] = "ok"
    /\ Sends(c, "schema", IF got[c][Schema] = Unread THEN "mutate" ELSE "image")
    /\ UNCHANGED <<world, storeVars, callVars, undoVars, faultVars, historyVars>>

ImageRead(c) ==
    /\ wire[c] = "ok"
    /\ Goes(c, "image", "journal")
    /\ UNCHANGED <<world, storeVars, callVars, undoVars, faultVars, historyVars>>

\* capture() fails open.
CaptureFails(c) ==
    /\ wire[c] \in {"error", "lost"}
    /\ \/ Sends(c, "schema", "mutate")
       \/ Sends(c, "image", "mutate")
    /\ got' = [got EXCEPT ![c] = Blank]
    /\ UNCHANGED <<world, storeVars, effect, undoVars, faultVars, historyVars>>

\* Mutant: the new entry points at its own action.
InsertJournalPointed(c) ==
    /\ Sends(c, "journal", "mutate")
    /\ journal' = [journal EXCEPT ![c] = [image |-> got[c], undoneBy |-> c, kept |-> TRUE]]
    /\ UNCHANGED <<world, status, recorded, callVars, undoVars, faultVars, historyVars>>

\* INSERT ... ON CONFLICT (action_id) DO NOTHING
InsertJournal(c) ==
    /\ Sends(c, "journal", "mutate")
    /\ journal' = IF journal[c].kept THEN journal
                  ELSE [journal EXCEPT ![c] =
                           [image |-> got[c], undoneBy |-> "none", kept |-> TRUE]]
    /\ UNCHANGED <<world, status, recorded, callVars, undoVars, faultVars, historyVars>>

\* Whatever the tool answers is the agent's answer.
Executed(c) ==
    /\ wire[c] \in {"ok", "raised", "lost"}
    /\ Goes(c, "mutate", "done")
    /\ UNCHANGED <<world, storeVars, callVars, undoVars, faultVars, historyVars>>
\* The MCP client cancels the call: CancelledError is raised at its await, and
\* what it has sent may still run.
CancelCall(c) ==
    /\ pc[c] \in {"gate", "schema", "image", "journal", "mutate"}
    /\ c \notin lost
    /\ faults < MaxFaults
    /\ faults' = faults + 1
    /\ lost' = lost \cup {c}
    /\ UNCHANGED <<world, storeVars, pc, wire, callVars, undoVars, historyVars>>
-----------------------------------------------------------------------------
(* POST /api/actions/{action_id}/undo.                                     *)

\* An action_id is known once its row is there.
Undo(u) ==
    /\ Goes(u, "idle", "action")
    /\ \E c \in Calls : status[c] # NoRow /\ target' = [target EXCEPT ![u] = c]
    /\ UNCHANGED <<world, storeVars, callVars, at, left, faultVars, historyVars>>

UndoReadsAction(u) ==
    LET s == status[target[u]] IN
    /\ Goes(u, "action", IF s = NoRow THEN "notFound"
                         ELSE IF s \notin Allowed THEN "conflict" ELSE "entry")
    /\ UNCHANGED <<world, storeVars, callVars, undoVars, faultVars, historyVars>>

UndoReadsJournal(u) ==
    LET entry == journal[target[u]] IN
    /\ Goes(u, "entry", IF ~entry.kept THEN "notFound"
                        ELSE IF entry.undoneBy # "none" THEN "conflict" ELSE "claim")
    /\ UNCHANGED <<world, storeVars, callVars, undoVars, faultVars, historyVars>>

UndoConflicts(u) ==
    /\ Goes(u, "claim", "conflict")
    /\ journal[target[u]].undoneBy # "none"
    /\ UNCHANGED <<world, storeVars, callVars, undoVars, faultVars, historyVars>>

\* The places whose compensating call comes next: the table before its rows.
Foremost(places) == IF Schema \in places THEN {Schema} ELSE places

\* The next compensating call, or the audit row when there is none.
Compensates(u, place, rest) ==
    IF rest = {}
    THEN Goes(u, place, "record") /\ left' = [left EXCEPT ![u] = {}] /\ UNCHANGED at
    ELSE /\ Sends(u, place, "restore")
         /\ left' = [left EXCEPT ![u] = rest]
         /\ \E p \in Foremost(rest) : at' = [at EXCEPT ![u] = p]

Captured(image) == {p \in Places : image[p] # Unread}

\* Mutant: the UPDATE without AND undone_at IS NULL.
UndoClaimsAnyway(u) ==
    LET c == target[u] IN
    /\ pc[u] = "claim"
    /\ Compensates(u, "claim", Captured(journal[c].image))
    /\ journal' = [journal EXCEPT ![c].undoneBy = u]
    /\ UNCHANGED <<world, status, recorded, callVars, target, faultVars, historyVars>>

\* UPDATE ... WHERE action_id = ? AND undone_at IS NULL, then the first call.
UndoClaims(u) ==
    LET c == target[u] IN
    /\ pc[u] = "claim"
    /\ journal[c].undoneBy = "none"
    /\ Compensates(u, "claim", Captured(journal[c].image))
    /\ journal' = [journal EXCEPT ![c].undoneBy = u]
    /\ UNCHANGED <<world, status, recorded, callVars, target, faultVars, historyVars>>

\* Mutant: the text of the answer is not looked at.
UndoAcceptsAll(u) ==
    /\ wire[u] \in {"ok", "raised", "error"}
    /\ Compensates(u, "restore", left[u] \ {at[u]})
    /\ UNCHANGED <<world, storeVars, callVars, target, faultVars, historyVars>>

\* Every text but "error:..." counts as done, that of a tool error too.
UndoAccepts(u) ==
    /\ wire[u] \in {"ok", "raised"}
    /\ Compensates(u, "restore", left[u] \ {at[u]})
    /\ UNCHANGED <<world, storeVars, callVars, target, faultVars, historyVars>>

\* 502, or the exception of the connection: the claim stands, the rest is not
\* restored, and no row is inserted.
UndoFails(u) ==
    /\ wire[u] \in {"error", "lost"}
    /\ Goes(u, "restore", "failed")
    /\ UNCHANGED <<world, storeVars, callVars, undoVars, faultVars, historyVars>>

UndoRecords(u) ==
    /\ Goes(u, "record", "undone")
    /\ recorded' = recorded \cup {u}
    /\ UNCHANGED <<world, status, journal, callVars, undoVars, faultVars, historyVars>>
-----------------------------------------------------------------------------
Finished == {"done", "refused", "notFound", "conflict", "failed", "undone"}

\* The process dies with its tasks and is started again; requests already sent
\* may still run.
Crash ==
    /\ faults < MaxFaults
    /\ faults' = faults + 1
    /\ lost' = lost \cup {t \in Tasks : pc[t] \notin Finished \cup {"idle"}}
    /\ UNCHANGED <<world, storeVars, pc, wire, callVars, undoVars, historyVars>>

CallSteps(c) ==
    \/ Submit(c) \/ Resolve(c) \/ Refuse(c) \/ Capture(c) \/ SchemaRead(c)
    \/ ImageRead(c) \/ CaptureFails(c) \/ InsertJournal(c) \/ Executed(c)
    \/ CancelCall(c)

UndoSteps(u) ==
    \/ Undo(u) \/ UndoReadsAction(u) \/ UndoReadsJournal(u) \/ UndoConflicts(u)
    \/ UndoClaims(u) \/ UndoAccepts(u) \/ UndoFails(u) \/ UndoRecords(u)

Next ==
    \/ Upstream \/ Crash
    \/ \E c \in Calls : CallSteps(c)
    \/ \E u \in Undos : UndoSteps(u)

Spec == Init /\ [][Next]_vars
-----------------------------------------------------------------------------
(* Properties.                                                             *)

Images == [Places -> Values \cup {Unread}]

\* Every variable has its type.
TypeOK ==
    /\ world \in [Places -> Values]
    /\ status \in [Calls -> RowValues]
    /\ journal \in [Calls -> [image : Images, undoneBy : Undos \cup {"none"}, kept : BOOLEAN]]
    /\ recorded \subseteq Undos
    /\ pc \in [Tasks -> Finished \cup {"idle", "gate", "schema", "image", "journal", "mutate",
                                      "action", "entry", "claim", "restore", "record"}]
    /\ wire \in [Tasks -> {"none", "sent", "ok", "error", "raised", "lost"}]
    /\ DOMAIN effect = Calls /\ \A c \in Calls : effect[c] \in Effects[c] \cup {NoEffect}
    /\ got \in [Calls -> Images]
    /\ target \in [Undos -> Calls \cup {"none"}]
    /\ at \in [Undos -> Places \cup {"none"}]
    /\ left \in [Undos -> SUBSET Places]
    /\ lost \subseteq Tasks
    /\ faults \in 0..MaxFaults
    /\ mutated \subseteq Calls
    /\ before \in [Calls -> Images]
    /\ disturbed \subseteq Calls
    /\ restored \in [Undos -> SUBSET Places]
    /\ blind \subseteq Undos

\* journal.py: "recovery data must exist before the mutation".  Whatever was
\* captured for a mutation that has run is in the journal, through any crash.
CaptureBeforeMutation ==
    \A c \in mutated : got[c] # Blank => journal[c].kept /\ journal[c].image = got[c]

\* Of concurrent undo requests for one action only one ever restores anything or
\* writes the audit row: the one the journal names (db.py, mark_undone).
OneUndoPerAction ==
    \A u \in Undos : restored[u] # {} \/ u \in recorded => journal[target[u]].undoneBy = u

\* An undo on record has had every one of its compensating calls accepted, unless
\* a tool raised.
RecordedIsRestored ==
    \A u \in recorded \ blind : restored[u] = Captured(journal[target[u]].image)

\* A value that survives its way into the journal and back: no file that begins with
\* "error:", is not UTF-8 or has other line ends than LF, and no row with a BLOB.
Legible(p, v) ==
    \/ p = Schema \/ v = Absent
    \/ p \in Files /\ v \notin ErrorLike \cup Undecodable /\ FileText[v] = v
    \/ p \in Keys /\ RowText[v] = v

\* "Approve, regret, undo": when nobody else writes what a mutation wrote, from its
\* capture to the end of its undo, the undo leaves each place that was captured as the
\* mutation found it, whatever was lost, raised or crashed meanwhile.  Two limits are
\* the code's: what the journal cannot read comes back changed, and what a mutation
\* changes beyond its capture stays (the row under its new key, the indexes and
\* triggers of a dropped table).
UndoRestores ==
    \A u \in recorded \ blind :
        LET c == target[u] IN
        c \in mutated \ disturbed =>
            \A p \in effect[c].at : Legible(p, before[c][p]) => world[p] = before[c][p]

\* journal.py:6: "guarantees the journal sees exactly the state the mutation will
\* hit (same connection pool, same instant)".
PreImageIsExact ==
    \A c \in mutated : journal[c].kept => journal[c].image = Image(effect[c], before[c])

\* The journal and the endpoint implement the abstract promise of recovery.
Promise == INSTANCE Recovery WITH
    entry <- [c \in Calls |-> IF ~journal[c].kept THEN "missing"
                              ELSE IF journal[c].undoneBy = "none" THEN "kept"
                              ELSE journal[c].undoneBy],
    ran <- mutated,
    touched <- {u \in Undos : restored[u] # {}}

ImplementsRecovery == Promise!Spec
-----------------------------------------------------------------------------
(* The inductive invariant behind them: what each task knows at each of its *)
(* awaits.                                                                 *)

CallFacts(c) ==
    /\ pc[c] \in {"idle", "gate"} => got[c] = Blank
    /\ pc[c] = "schema" => \A p \in Places \ {Schema} : got[c][p] = Unread
    /\ journal[c].kept => pc[c] \in {"mutate", "done"}
    /\ pc[c] \in {"mutate", "done"} /\ got[c] # Blank =>
            journal[c].kept /\ journal[c].image = got[c]
    /\ journal[c].undoneBy # "none" => journal[c].kept
    /\ c \in mutated => pc[c] \in {"mutate", "done"}
    /\ pc[c] = "mutate" /\ wire[c] = "sent" => c \notin mutated

CallInv == \A c \in Calls : CallFacts(c)

\* The places of an undo request from its claim on.
Claimant == {"restore", "record", "failed", "undone"}

UndoFacts(u) ==
    LET entry == journal[target[u]] IN
    /\ pc[u] # "idle" => target[u] \in Calls
    /\ pc[u] = "claim" => entry.kept
    /\ pc[u] \in Claimant => entry.undoneBy = u
    /\ pc[u] \notin Claimant =>
            restored[u] = {} /\ \A c \in Calls : journal[c].undoneBy # u
    /\ pc[u] = "restore" => at[u] \in left[u] /\ left[u] \subseteq Captured(entry.image)
    /\ u \in recorded => pc[u] = "undone"
    /\ wire[u] = "raised" => u \in blind
    /\ pc[u] = "restore" /\ wire[u] = "ok" => at[u] \in restored[u]
    /\ pc[u] \in Claimant => restored[u] \subseteq Captured(entry.image)
    /\ pc[u] = "restore" /\ u \notin blind =>
            Captured(entry.image) \subseteq restored[u] \cup left[u]
    /\ pc[u] \in {"record", "undone"} /\ u \notin blind =>
            Captured(entry.image) \subseteq restored[u]

UndoInv == \A u \in Undos : UndoFacts(u)

Inv == TypeOK /\ CallInv /\ UndoInv
=============================================================================
