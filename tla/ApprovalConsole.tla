--------------------------- MODULE ApprovalConsole ---------------------------
(***************************************************************************)
(* What an operator is shown: the console (static/app.js), which lists the *)
(* held actions and the recent decisions, and how it is kept up to date: a *)
(* socket that carries the event bus (events.py, websocket.py), and lists  *)
(* it fetches at start, at each connection, after each decision it hears   *)
(* of and every ten seconds.                                               *)
(*                                                                         *)
(* The actions come from ApprovalManager and JournalUndo, of which only    *)
(* two facts are used: a hold is announced before it is decided, and each   *)
(* change is visible to a list before it is announced.                     *)
(***************************************************************************)
EXTENDS Integers, Sequences, FiniteSets

CONSTANTS
    Actions,    \* the actions that agents submit
    Held,       \* those whose risk holds them for approval
    Mutations,  \* those of which the journal captures a pre-image
    Loads,      \* bound: the loads in flight at once
    MaxWire,    \* bound: the events on their way
    MaxFaults   \* bound: dropped connections and crashes, together

ASSUME BoundsAssumption == {MaxWire, MaxFaults} \subseteq Nat

\* No row yet; RECENT_LIMIT, 8, is never exceeded.
None == "none"

ASSUME KindsAssumption == Held \subseteq Actions /\ Mutations \subseteq Actions

ASSUME RecentAssumption == IsFiniteSet(Actions) /\ Cardinality(Actions) <= 8

VARIABLES
    phase,      \* atc-core is "serving" or "down"
    row,        \* what a list says of each action
    news,       \* the last announcement of each action
    undos,      \* the undo requests of this console
    conn,       \* the socket: "closed", "accepted", "open"
    wire,       \* the subscriber's queue and what is on the socket
    loads,      \* the calls of loadInitialState in progress
    cards,      \* pendingActions
    recent,     \* recentActions, as the row of each
    faults,     \* drops and crashes so far
    overtaken   \* history: the last list applied was outdated, and overwrote later news

serverVars == <<phase, row, news>>
socketVars == <<conn, wire>>
viewVars == <<cards, recent, overtaken>>
vars == <<serverVars, undos, socketVars, loads, viewVars, faults>>

\* A row is held, decided, journaled and undone; one whose insert a crash undoes is
\* lost, and its id is not used again.
Decided == {"allowed", "refused", "undoable", "undone"}

NoLoad == [stage |-> "idle", rows |-> [a \in Actions |-> None], fresh |-> FALSE]

NewLoad == [NoLoad EXCEPT !.stage = "sent"]

\* loadInitialState() is called, and sends its requests.
StartLoad(pending) ==
    /\ \E l \in Loads : pending[l].stage = "idle"
    /\ loads' = [pending EXCEPT ![CHOOSE l \in Loads : pending[l].stage = "idle"] = NewLoad]

\* History: the lists that have been read are no longer the page's latest news.
Overtake(pending) == [l \in Loads |-> [pending[l] EXCEPT !.fresh = FALSE]]

\* A console opened on an empty database.
Init ==
    /\ phase = "serving"
    /\ row = [a \in Actions |-> None]
    /\ news = [a \in Actions |-> None]
    /\ undos = [a \in Actions |-> "idle"]
    /\ conn = "closed"
    /\ wire = <<>>
    /\ loads = [l \in Loads |-> IF l = CHOOSE m \in Loads : TRUE THEN NewLoad ELSE NoLoad]
    /\ cards = {}
    /\ recent = [a \in Actions |-> None]
    /\ faults = 0
    /\ overtaken = FALSE
-----------------------------------------------------------------------------
(* The server: rows change, and then the bus is told.                      *)

RowGoes(a, from, to) ==
    /\ phase = "serving"
    /\ row[a] \in from
    /\ row' = [row EXCEPT ![a] = to]

\* publish(): to the queue of the one subscriber, or to nobody.
Publish(event) ==
    /\ phase = "serving"
    /\ conn # "closed" => Len(wire) < MaxWire
    /\ wire' = IF conn = "closed" THEN wire ELSE Append(wire, event)
    /\ loads' = IF conn = "closed" THEN Overtake(loads) ELSE loads

\* A call's row is inserted: held, or allowed, which nobody is told of.
Submit(a) ==
    /\ IF a \in Held
       THEN RowGoes(a, {None}, "held") /\ UNCHANGED news
       ELSE RowGoes(a, {None}, "allowed") /\ news' = [news EXCEPT ![a] = "resolved"]
    /\ UNCHANGED <<phase, undos, socketVars, loads, viewVars, faults>>

AnnounceHeld(a) ==
    /\ row[a] = "held" /\ news[a] = None
    /\ news' = [news EXCEPT ![a] = "pending"]
    /\ Publish([type |-> "action.pending", of |-> a])
    /\ UNCHANGED <<phase, row, undos, conn, viewVars, faults>>

\* A decision, of whoever's, or the hold timeout.
Resolve(a) ==
    /\ news[a] = "pending"
    /\ \E end \in {"allowed", "refused"} : RowGoes(a, {"held"}, end)
    /\ UNCHANGED <<phase, news, undos, socketVars, loads, viewVars, faults>>

\* Mutant: the decision is announced before the row is updated.
AnnounceResolvedEarly(a) ==
    /\ news[a] = "pending"
    /\ news' = [news EXCEPT ![a] = "resolved"]
    /\ Publish([type |-> "action.resolved", of |-> a])
    /\ UNCHANGED <<phase, row, undos, conn, viewVars, faults>>

AnnounceResolved(a) ==
    /\ row[a] \in Decided /\ news[a] = "pending"
    /\ news' = [news EXCEPT ![a] = "resolved"]
    /\ Publish([type |-> "action.resolved", of |-> a])
    /\ UNCHANGED <<phase, row, undos, conn, viewVars, faults>>

\* The call goes on and journals what it captured.
Journal(a) ==
    /\ a \in Mutations
    /\ news[a] # "over"
    /\ RowGoes(a, {"allowed"}, "undoable")
    /\ UNCHANGED <<phase, news, undos, socketVars, loads, viewVars, faults>>
-----------------------------------------------------------------------------
(* The console's own requests.                                             *)

ClickUndo(a) ==
    /\ recent[a] = "undoable"
    /\ undos[a] = "idle"
    /\ phase = "serving"
    /\ undos' = [undos EXCEPT ![a] = "sent"]
    /\ UNCHANGED <<serverVars, socketVars, loads, viewVars, faults>>

\* The endpoint claims the entry, or answers that it is already undone.
UndoClaims(a) ==
    /\ phase = "serving"
    /\ undos[a] = "sent"
    /\ IF row[a] = "undoable"
       THEN /\ RowGoes(a, {"undoable"}, "undone")
            /\ undos' = [undos EXCEPT ![a] = "claimed"]
       ELSE /\ undos' = [undos EXCEPT ![a] = "idle"]
            /\ UNCHANGED row
    /\ UNCHANGED <<phase, news, socketVars, loads, viewVars, faults>>

\* The compensation is done and announced under the undo's own id, or it failed.
UndoEnds(a) ==
    /\ phase = "serving"
    /\ undos[a] = "claimed"
    /\ \/ /\ undos' = [undos EXCEPT ![a] = "answered"]
          /\ Publish([type |-> "action.undone"])
       \/ /\ undos' = [undos EXCEPT ![a] = "idle"]
          /\ UNCHANGED <<wire, loads>>
    /\ UNCHANGED <<serverVars, conn, viewVars, faults>>

\* The page is answered and loads the lists again, which fails when atc-core is down.
UndoReturns(a) ==
    /\ undos[a] = "answered"
    /\ undos' = [undos EXCEPT ![a] = "idle"]
    /\ IF phase = "serving" THEN StartLoad(loads) ELSE UNCHANGED loads
    /\ UNCHANGED <<serverVars, socketVars, viewVars, faults>>
-----------------------------------------------------------------------------
(* Loads: a list is answered with what the table says when it is read, and *)
(* applied when the answer arrives.                                        *)

Read(l) ==
    /\ phase = "serving"
    /\ loads[l].stage = "sent"
    /\ loads' = [loads EXCEPT ![l] = [stage |-> "read", rows |-> row, fresh |-> TRUE]]
    /\ UNCHANGED <<serverVars, undos, socketVars, viewVars, faults>>

\* Mutant: no filter on the status.
ListedAll(rows) == rows

\* What the two lists become.
Listed(rows) == [a \in Actions |-> IF rows[a] \in Decided THEN rows[a] ELSE None]

PendingIn(rows) == {a \in Actions : rows[a] = "held"}

Apply(l) ==
    /\ loads[l].stage = "read"
    /\ cards' = PendingIn(loads[l].rows)
    /\ recent' = Listed(loads[l].rows)
    /\ overtaken' = (~loads[l].fresh /\ PendingIn(loads[l].rows) # PendingIn(row))
    /\ loads' = [Overtake(loads) EXCEPT ![l] = NoLoad]
    /\ UNCHANGED <<serverVars, undos, socketVars, faults>>

\* Mutant: the poll stops while the socket is connected.
PollOffline ==
    /\ phase = "serving"
    /\ conn = "closed"
    /\ StartLoad(loads)
    /\ UNCHANGED <<serverVars, undos, socketVars, viewVars, faults>>

\* The interval timer; while atc-core is down the requests fail at once.
Poll ==
    /\ phase = "serving"
    /\ StartLoad(loads)
    /\ UNCHANGED <<serverVars, undos, socketVars, viewVars, faults>>
-----------------------------------------------------------------------------
(* The socket.                                                             *)

\* The server accepts and subscribes, which uvicorn lets it do in one breath.
Connect ==
    /\ phase = "serving"
    /\ conn = "closed"
    /\ conn' = "accepted"
    /\ UNCHANGED <<serverVars, undos, wire, loads, viewVars, faults>>

\* Mutant: a new connection does not load the lists.
OpensUnloaded ==
    /\ conn = "accepted"
    /\ conn' = "open"
    /\ UNCHANGED <<serverVars, undos, wire, loads, viewVars, faults>>

\* The browser sees the connection open.
Opens ==
    /\ conn = "accepted"
    /\ conn' = "open"
    /\ StartLoad(loads)
    /\ UNCHANGED <<serverVars, undos, wire, viewVars, faults>>

\* handleEvent().
Receive ==
    /\ conn = "open"
    /\ wire # <<>>
    /\ wire' = Tail(wire)
    /\ LET event == Head(wire) IN
       \/ /\ event.type = "action.pending"
          /\ cards' = cards \cup {event.of}
          /\ loads' = Overtake(loads)
       \/ /\ event.type = "action.resolved"
          /\ cards' = cards \ {event.of}
          /\ StartLoad(Overtake(loads))
       \/ /\ event.type = "action.undone"
          /\ StartLoad(loads)
          /\ UNCHANGED cards
    /\ UNCHANGED <<serverVars, undos, conn, recent, overtaken, faults>>

\* The connection is lost, and with it what was on it.
Drop ==
    /\ conn # "closed"
    /\ faults < MaxFaults
    /\ faults' = faults + 1
    /\ conn' = "closed"
    /\ wire' = <<>>
    /\ loads' = Overtake(loads)
    /\ UNCHANGED <<serverVars, undos, viewVars>>
-----------------------------------------------------------------------------
(* atc-core dies and starts again.                                         *)

\* The row of an action whose last change may not be committed yet.
Before(a) ==
    CASE row[a] = "held" /\ news[a] = None -> "lost"
      [] row[a] \in {"allowed", "refused"} /\ news[a] = "pending" -> "held"
      [] row[a] = "undone" /\ undos[a] = "claimed" -> "undoable"
      [] OTHER -> row[a]

\* Requests that are not answered fail; what was read may still arrive.
Crash ==
    /\ phase = "serving"
    /\ faults < MaxFaults
    /\ faults' = faults + 1
    /\ phase' = "down"
    /\ \E kept \in SUBSET Actions :
            row' = [a \in Actions |-> IF a \in kept THEN row[a] ELSE Before(a)]
    /\ news' = [a \in Actions |-> IF row[a] = None THEN None ELSE "over"]
    /\ undos' = [a \in Actions |-> IF undos[a] = "answered" THEN "answered" ELSE "idle"]
    /\ conn' = "closed"
    /\ wire' = <<>>
    /\ loads' = [l \in Loads |->
            IF loads[l].stage = "read" THEN [loads[l] EXCEPT !.fresh = FALSE]
            ELSE NoLoad]
    /\ UNCHANGED viewVars

\* resume_stale_holds() runs before anything is served: its announcements reach nobody.
Boot ==
    /\ phase = "down"
    /\ phase' = "serving"
    /\ row' = [a \in Actions |-> IF row[a] = "held" THEN "refused" ELSE row[a]]
    /\ UNCHANGED <<news, undos, socketVars, loads, viewVars, faults>>
-----------------------------------------------------------------------------
ActionSteps(a) == AnnounceHeld(a) \/ AnnounceResolved(a)

RequestSteps(a) == UndoClaims(a) \/ UndoEnds(a) \/ UndoReturns(a)

LoadSteps(l) == Read(l) \/ Apply(l)

Socket == Connect \/ Opens \/ Receive

Next ==
    \/ \E a \in Actions :
            ActionSteps(a) \/ Submit(a) \/ Resolve(a) \/ Journal(a)
                \/ ClickUndo(a) \/ RequestSteps(a)
    \/ \E l \in Loads : LoadSteps(l)
    \/ Poll \/ Socket \/ Drop \/ Crash \/ Boot

Spec == Init /\ [][Next]_vars

\* The event loops of the server and of the page run what is ready, and the page's
\* timers fire.  Nobody has to submit, decide, click or restart.
Fairness ==
    /\ \A a \in Actions : WF_vars(ActionSteps(a)) /\ WF_vars(RequestSteps(a))
    /\ \A l \in Loads : WF_vars(LoadSteps(l))
    /\ WF_vars(Poll) /\ WF_vars(Socket)

FairSpec == Spec /\ Fairness
-----------------------------------------------------------------------------
(* Properties.                                                             *)

Rows == Decided \cup {None, "held", "lost"}

Events ==
    [type : {"action.pending", "action.resolved"}, of : Actions]
        \cup [type : {"action.undone"}]

LoadRecords ==
    [stage : {"idle", "sent", "read"}, rows : [Actions -> Rows], fresh : BOOLEAN]

\* Every variable has its type.
TypeOK ==
    /\ phase \in {"serving", "down"}
    /\ row \in [Actions -> Rows]
    /\ news \in [Actions -> {None, "pending", "resolved", "over"}]
    /\ undos \in [Actions -> {"idle", "sent", "claimed", "answered"}]
    /\ conn \in {"closed", "accepted", "open"}
    /\ wire \in Seq(Events)
    /\ loads \in [Loads -> LoadRecords]
    /\ cards \subseteq Actions
    /\ recent \in [Actions -> Decided \cup {None}]
    /\ faults \in 0..MaxFaults
    /\ overtaken \in BOOLEAN

\* Nothing is left to be announced, delivered or loaded.
Quiet ==
    /\ phase = "serving"
    /\ conn = "open"
    /\ wire = <<>>
    /\ \A l \in Loads : loads[l].stage = "idle"
    /\ \A a \in Actions :
            /\ row[a] = "held" => news[a] = "pending"
            /\ row[a] \in Decided => news[a] # "pending"

\* app.js:2: the console "stays live via WebSocket".  Once everything has arrived,
\* the cards are the held actions, after any missed events, reconnection or restart,
\* unless the last list to arrive was outdated and overwrote news that came before it.
LiveWhenQuiet == (Quiet /\ ~overtaken) => cards = PendingIn(row)

\* A card leaves when its action is no longer held, or because a list arrives that was
\* read before other news did; never because of the other cards' events.
CardsLeaveForAReason ==
    [][\A a \in cards \ cards' :
            row[a] # "held" \/ \E l \in Loads : Apply(l) /\ ~loads[l].fresh]_vars

\* The fallback poll repairs everything, whatever was lost, late or overtaken: with a
\* server that stays up, the page settles on what the server has.
ConsoleSettles ==
    <>[](phase = "serving")
        => <>[](cards = PendingIn(row) /\ recent = Listed(row))
=============================================================================
