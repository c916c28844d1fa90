------------------------ MODULE ApprovalConsoleProofs ------------------------
(***************************************************************************)
(* Theorems about ApprovalConsole, for any actions, any number of lists in *)
(* flight, any queue and any number of dropped connections and crashes:    *)
(* its types, that what the page shows is what the server has once it is   *)
(* quiet (LiveWhenQuiet), and why a card may leave the page.               *)
(***************************************************************************)
EXTENDS ApprovalConsole, TLAPS

USE DEF Decided, None

-----------------------------------------------------------------------------
(* The loads.                                                              *)

\* News make every list that has been read outdated, and change nothing else of it.
LEMMA OvertakeFacts ==
    ASSUME loads \in [Loads -> LoadRecords]
    PROVE  /\ Overtake(loads) \in [Loads -> LoadRecords]
           /\ \A l \in Loads : /\ Overtake(loads)[l].stage = loads[l].stage
                               /\ Overtake(loads)[l].rows = loads[l].rows
                               /\ ~Overtake(loads)[l].fresh
BY DEF Overtake, LoadRecords

\* A load of which nothing is known yet.
LEMMA NewLoadFacts ==
    /\ NoLoad \in LoadRecords /\ NoLoad.stage = "idle" /\ ~NoLoad.fresh
    /\ NewLoad \in LoadRecords /\ NewLoad.stage = "sent" /\ ~NewLoad.fresh
BY DEF NewLoad, NoLoad, LoadRecords, Rows

\* StartLoad takes an idle load and leaves the others as they are.
LEMMA StartFacts ==
    ASSUME NEW pending \in [Loads -> LoadRecords], StartLoad(pending)
    PROVE  /\ loads' \in [Loads -> LoadRecords]
           /\ \E m \in Loads :
                  /\ loads'[m] = NewLoad
                  /\ \A l \in Loads \ {m} : loads'[l] = pending[l]
<1> DEFINE m == CHOOSE l \in Loads : pending[l].stage = "idle"
<1>1. m \in Loads
  BY DEF StartLoad
<1>2. loads' = [pending EXCEPT ![m] = NewLoad]
  BY DEF StartLoad
<1> QED
  BY <1>1, <1>2, NewLoadFacts

\* Publishing reaches the open socket, or makes the lists outdated.
LEMMA PublishFacts ==
    ASSUME TypeOK, NEW event \in Events, Publish(event)
    PROVE  /\ loads' \in [Loads -> LoadRecords]
           /\ wire' \in Seq(Events)
           /\ conn = "closed" => wire' = wire /\ loads' = Overtake(loads)
           /\ conn # "closed" => wire' = Append(wire, event) /\ loads' = loads
BY OvertakeFacts DEF Publish, TypeOK
-----------------------------------------------------------------------------
(* Types.                                                                  *)

\* A page that has just been opened has every variable of its type.
LEMMA TypeInit == Init => TypeOK
<1> SUFFICES ASSUME Init PROVE TypeOK
  OBVIOUS
<1>1. loads \in [Loads -> LoadRecords]
  <2> DEFINE first == CHOOSE m \in Loads : TRUE
  <2>1. loads = [l \in Loads |-> IF l = first THEN NewLoad ELSE NoLoad]
    BY DEF Init
  <2> HIDE DEF first
  <2> QED
    BY <2>1, NewLoadFacts
<1>2. faults \in 0..MaxFaults
  BY BoundsAssumption DEF Init
<1>3. /\ row \in [Actions -> Rows]
      /\ news \in [Actions -> {None, "pending", "resolved", "over"}]
      /\ undos \in [Actions -> {"idle", "sent", "claimed", "answered"}]
      /\ recent \in [Actions -> Decided \cup {None}]
  BY DEF Init, Rows
<1>4. /\ phase \in {"serving", "down"} /\ conn \in {"closed", "accepted", "open"}
      /\ cards \subseteq Actions /\ overtaken \in BOOLEAN
  BY DEF Init
<1>5. wire = << >>
  BY DEF Init
<1>6. wire \in Seq(Events)
  BY <1>5
<1> QED
  BY <1>1, <1>2, <1>3, <1>4, <1>6 DEF TypeOK

LEMMA TypeActions ==
    ASSUME TypeOK, NEW a \in Actions,
           ActionSteps(a) \/ Submit(a) \/ Resolve(a) \/ Journal(a)
    PROVE  TypeOK'
<1>1. CASE AnnounceHeld(a)
  <2>1. [type |-> "action.pending", of |-> a] \in Events
    BY DEF Events
  <2> QED
    BY <1>1, <2>1, PublishFacts DEF AnnounceHeld, TypeOK, viewVars
<1>2. CASE AnnounceResolved(a)
  <2>1. [type |-> "action.resolved", of |-> a] \in Events
    BY DEF Events
  <2> QED
    BY <1>2, <2>1, PublishFacts DEF AnnounceResolved, TypeOK, viewVars
<1>3. CASE Submit(a)
  BY <1>3 DEF Submit, RowGoes, TypeOK, Rows, viewVars, socketVars
<1>4. CASE Resolve(a)
  BY <1>4 DEF Resolve, RowGoes, TypeOK, Rows, viewVars, socketVars
<1>5. CASE Journal(a)
  BY <1>5 DEF Journal, RowGoes, TypeOK, Rows, viewVars, socketVars
<1> QED
  BY <1>1, <1>2, <1>3, <1>4, <1>5 DEF ActionSteps

LEMMA TypeRequests ==
    ASSUME TypeOK, NEW a \in Actions, ClickUndo(a) \/ RequestSteps(a)
    PROVE  TypeOK'
<1>1. CASE ClickUndo(a)
  BY <1>1 DEF ClickUndo, TypeOK, viewVars, socketVars, serverVars
<1>2. CASE UndoClaims(a)
  BY <1>2 DEF UndoClaims, RowGoes, TypeOK, Rows, viewVars, socketVars
<1>3. CASE UndoEnds(a)
  <2>1. [type |-> "action.undone"] \in Events
    BY DEF Events
  <2> QED
    BY <1>3, <2>1, PublishFacts DEF UndoEnds, TypeOK, viewVars, serverVars
<1>4. CASE UndoReturns(a)
  BY <1>4, StartFacts DEF UndoReturns, TypeOK, viewVars, socketVars, serverVars
<1> QED
  BY <1>1, <1>2, <1>3, <1>4 DEF RequestSteps

LEMMA TypeLoads ==
    ASSUME TypeOK, (\E l \in Loads : LoadSteps(l)) \/ Poll
    PROVE  TypeOK'
<1>1. ASSUME NEW l \in Loads, Read(l) PROVE TypeOK'
  BY <1>1 DEF Read, TypeOK, LoadRecords, viewVars, socketVars, serverVars
<1>2. ASSUME NEW l \in Loads, Apply(l) PROVE TypeOK'
  <2>1. loads' \in [Loads -> LoadRecords]
    BY <1>2, OvertakeFacts, NewLoadFacts DEF Apply, TypeOK
  <2>2. Listed(loads[l].rows) \in [Actions -> Decided \cup {None}]
    BY DEF Listed
  <2>3. PendingIn(loads[l].rows) \subseteq Actions
    BY DEF PendingIn
  <2>4. loads[l].fresh \in BOOLEAN
    BY DEF TypeOK, LoadRecords
  <2>5. overtaken' \in BOOLEAN
    BY <1>2, <2>4 DEF Apply
  <2> QED
    BY <1>2, <2>1, <2>2, <2>3, <2>5 DEF Apply, TypeOK, socketVars, serverVars
<1>3. CASE Poll
  BY <1>3, StartFacts DEF Poll, TypeOK, viewVars, socketVars, serverVars
<1> QED
  BY <1>1, <1>2, <1>3 DEF LoadSteps

LEMMA TypeSocket ==
    ASSUME TypeOK, Socket \/ Drop
    PROVE  TypeOK'
<1>1. CASE Connect
  BY <1>1 DEF Connect, TypeOK, viewVars, serverVars
<1>2. CASE Opens
  BY <1>2, StartFacts DEF Opens, TypeOK, viewVars, serverVars
<1>3. CASE Receive
  <2>1. /\ Head(wire) \in Events
        /\ Tail(wire) \in Seq(Events)
    BY <1>3 DEF Receive, TypeOK
  <2>2. loads' \in [Loads -> LoadRecords]
    BY <1>3, StartFacts, OvertakeFacts DEF Receive, TypeOK
  <2>3. cards' \subseteq Actions
    BY <1>3, <2>1 DEF Receive, TypeOK, Events
  <2> QED
    BY <1>3, <2>1, <2>2, <2>3 DEF Receive, TypeOK, serverVars
<1>4. CASE Drop
  BY <1>4, OvertakeFacts, BoundsAssumption DEF Drop, TypeOK, viewVars, serverVars
<1> QED
  BY <1>1, <1>2, <1>3, <1>4 DEF Socket

LEMMA TypeRestarts ==
    ASSUME TypeOK, Crash \/ Boot
    PROVE  TypeOK'
<1>1. CASE Crash
  <2>1. \A a \in Actions : Before(a) \in Rows
    BY DEF Before, TypeOK, Rows
  <2>2. row' \in [Actions -> Rows]
    BY <1>1, <2>1 DEF Crash, TypeOK
  <2>3. loads' \in [Loads -> LoadRecords]
    BY <1>1, NewLoadFacts DEF Crash, TypeOK, LoadRecords
  <2> QED
    BY <1>1, <2>2, <2>3, BoundsAssumption DEF Crash, TypeOK, viewVars
<1>2. CASE Boot
  BY <1>2 DEF Boot, TypeOK, Rows, viewVars, socketVars
<1> QED
  BY <1>1, <1>2

LEMMA TypeStep == TypeOK /\ [Next]_vars => TypeOK'
<1> SUFFICES ASSUME TypeOK, [Next]_vars PROVE TypeOK'
  OBVIOUS
<1>1. CASE UNCHANGED vars
  BY <1>1 DEF vars, serverVars, socketVars, viewVars, TypeOK
<1> QED
  BY <1>1, TypeActions, TypeRequests, TypeLoads, TypeSocket, TypeRestarts DEF Next

\* Every variable always has its type.
THEOREM ConsoleTyped == Spec => []TypeOK
BY TypeInit, TypeStep, PTL DEF Spec
-----------------------------------------------------------------------------
(* What the page shows, when something is still under way.  TLC cannot see  *)
(* the argument in LiveWhenQuiet, which speaks of quiet states only: the    *)
(* invariant says what each difference between the cards and the held       *)
(* actions still waits for.                                                 *)

\* The i-th event on the wire makes the page load its lists.
Reloads(i) == wire[i].type # "action.pending"

Coming == \E i \in DOMAIN wire : Reloads(i)

Announced(a) == \E i \in DOMAIN wire : ~Reloads(i) /\ wire[i].of = a

\* The card of an action that is not held is one whose decision is to be announced, and
\* a held action without a card is to be announced, or its announcement is on the wire.
AccountedFor(a, S) ==
    /\ a \in S => row[a] = "held" \/ (row[a] \in Decided /\ news[a] = "pending")
    /\ a \notin S /\ row[a] = "held" => news[a] = None \/ Announced(a)

Accounted(S) == \A a \in Actions : AccountedFor(a, S)

Busy(l) == loads[l].stage # "idle"

ServerInv ==
    /\ phase = "down" => conn = "closed"
    /\ conn = "closed" => wire = <<>>
    /\ \A a \in Actions :
           /\ row[a] = None => news[a] = None
           /\ news[a] = "pending" => row[a] \in {"held"} \cup Decided

\* An announced hold is not decided, or the event of its decision is still to come; an
\* announced decision has been taken.
EventInv(i) ==
    /\ wire[i].type = "action.pending" =>
           /\ row[wire[i].of] # None
           /\ \/ news[wire[i].of] = "pending"
              \/ \E j \in DOMAIN wire : i < j /\ Reloads(j)
    /\ wire[i].type = "action.resolved" => row[wire[i].of] \in Decided

WireInv == \A i \in DOMAIN wire : EventInv(i)

\* A list that is not outdated is right but for what is still to be heard, or another
\* one follows; and it has every card of a held action.
FreshInv(l) ==
    /\ loads[l].stage = "read"
    /\ phase = "serving"
    /\ \/ Accounted(PendingIn(loads[l].rows))
       \/ Coming
       \/ \E m \in Loads \ {l} : Busy(m)
    /\ \A a \in cards : row[a] = "held" => loads[l].rows[a] = "held"

LoadInv ==
    \A l \in Loads :
        /\ loads[l].fresh => FreshInv(l)
        /\ \A a \in Actions : loads[l].stage = "read" /\ loads[l].rows[a] = "held" => row[a] # None

CardsInv ==
    /\ \A a \in cards : row[a] # None
    /\ conn = "open" =>
           overtaken \/ Coming \/ (\E l \in Loads : Busy(l)) \/ Accounted(cards)

PageInv == ServerInv /\ WireInv /\ LoadInv /\ CardsInv

USE DEF Busy

LEMMA PageInit == Init => PageInv
<1> SUFFICES ASSUME Init PROVE PageInv
  OBVIOUS
<1>1. phase = "serving" /\ conn = "closed" /\ wire = <<>> /\ cards = {}
  BY DEF Init
<1>2. DOMAIN wire = {}
  BY <1>1
<1>3. \A a \in Actions : row[a] = None /\ news[a] = None
  BY DEF Init
<1>4. \A l \in Loads : ~loads[l].fresh /\ loads[l].stage # "read"
  <2> DEFINE first == CHOOSE m \in Loads : TRUE
  <2>1. loads = [l \in Loads |-> IF l = first THEN NewLoad ELSE NoLoad]
    BY DEF Init
  <2> HIDE DEF first
  <2> QED
    BY <2>1, NewLoadFacts
<1> QED
  BY <1>1, <1>2, <1>3, <1>4 DEF PageInv, ServerInv, WireInv, LoadInv, CardsInv

\* How a row may change while atc-core serves, before anybody is told.
RowMoves(a) ==
    \/ row[a] = None /\ row'[a] = "held" /\ news'[a] = news[a]
    \/ row[a] = None /\ row'[a] = "allowed" /\ news'[a] = "resolved"
    \/ row[a] = "held" /\ news[a] = "pending" /\ row'[a] \in Decided /\ news'[a] = news[a]
    \/ row[a] \in Decided /\ row'[a] \in Decided /\ news'[a] = news[a]
    \/ row'[a] = row[a] /\ news'[a] = news[a]

\* A row that changes leaves each card as well accounted for as it was.
LEMMA MovesAreAccounted ==
    ASSUME TypeOK, ServerInv, NEW a \in Actions, NEW S,
           RowMoves(a), wire' = wire, row[a] = None => a \notin S, AccountedFor(a, S)
    PROVE  AccountedFor(a, S)'
<1>1. Announced(a)' <=> Announced(a)
  BY DEF Announced, Reloads
<1>2. row[a] = None => news[a] = None
  BY DEF ServerInv
<1> QED
  BY <1>1, <1>2 DEF RowMoves, AccountedFor

LEMMA PageRows ==
    ASSUME TypeOK, PageInv, phase = "serving", UNCHANGED <<phase, conn, wire, loads, cards, overtaken>>,
           \A a \in Actions : RowMoves(a)
    PROVE  PageInv'
<1>1. \A a \in Actions : /\ row[a] \in Decided => row'[a] \in Decided
                         /\ row[a] # None => row'[a] # None
                         /\ news[a] = "pending" => news'[a] = "pending"
                         /\ row'[a] = None => news'[a] = None
                         /\ news'[a] = "pending" => row'[a] \in {"held"} \cup Decided
                         /\ row'[a] = "held" => row[a] \in {None, "held"}
  BY DEF RowMoves, PageInv, ServerInv
<1>2. ServerInv'
  BY <1>1 DEF PageInv, ServerInv
<1>3. WireInv'
  <2> SUFFICES ASSUME NEW i \in DOMAIN wire PROVE EventInv(i)'
    BY DEF WireInv
  <2>1. EventInv(i) /\ wire[i] \in Events
    BY DEF PageInv, WireInv, TypeOK
  <2> QED
    BY <2>1, <1>1 DEF EventInv, Events, Reloads
<1>4. \A a \in cards : row[a] # None
  BY DEF PageInv, CardsInv
<1>5. ASSUME NEW l \in Loads, loads[l].fresh PROVE FreshInv(l)'
  <2>1. FreshInv(l)
    BY <1>5 DEF PageInv, LoadInv
  <2>2. Coming' <=> Coming
    BY DEF Coming, Reloads
  <2>3. ASSUME NEW S, S = PendingIn(loads[l].rows), Accounted(S) PROVE Accounted(S)'
    <3>1. \A a \in Actions : row[a] = None => a \notin S
      BY <2>1, <2>3 DEF FreshInv, PageInv, LoadInv, PendingIn
    <3> QED
      BY <2>3, <3>1, MovesAreAccounted DEF Accounted, PageInv
  <2>4. PendingIn(loads'[l].rows) = PendingIn(loads[l].rows)
    OBVIOUS
  <2>5. \A a \in cards : row'[a] = "held" => loads[l].rows[a] = "held"
    BY <2>1, <1>1, <1>4 DEF FreshInv, TypeOK
  <2> QED
    BY <2>1, <2>2, <2>3, <2>4, <2>5 DEF FreshInv
<1>6. LoadInv'
  BY <1>5, <1>1 DEF LoadInv, PageInv
<1>7. CardsInv'
  <2>1. \A a \in cards' : row'[a] # None
    BY <1>4, <1>1 DEF TypeOK
  <2>2. Coming' <=> Coming
    BY DEF Coming, Reloads
  <2>3. Accounted(cards) => Accounted(cards)'
    BY <1>4, MovesAreAccounted DEF Accounted, PageInv
  <2> QED
    BY <2>1, <2>2, <2>3 DEF CardsInv, PageInv
<1> QED
  BY <1>2, <1>3, <1>6, <1>7 DEF PageInv

\* The steps that change rows and tell nobody.
LEMMA PageUntold ==
    ASSUME TypeOK, PageInv, NEW a \in Actions,
           \/ Submit(a) \/ Resolve(a) \/ Journal(a) \/ ClickUndo(a) \/ UndoClaims(a)
    PROVE  PageInv'
<1>1. phase = "serving" /\ UNCHANGED <<phase, conn, wire, loads, cards, overtaken>>
  BY DEF Submit, Resolve, Journal, ClickUndo, UndoClaims, RowGoes, socketVars, viewVars, serverVars
<1>2. \A b \in Actions : RowMoves(b)
  BY DEF Submit, Resolve, Journal, ClickUndo, UndoClaims, RowGoes, RowMoves, TypeOK, serverVars
<1> QED
  BY <1>1, <1>2, PageRows

\* An event that joins the wire.
LEMMA AppendFacts ==
    ASSUME TypeOK, NEW event, wire' = Append(wire, event)
    PROVE  \E n \in DOMAIN wire' :
               /\ wire'[n] = event
               /\ \A i \in DOMAIN wire : i \in DOMAIN wire' /\ wire'[i] = wire[i] /\ i < n
               /\ \A i \in DOMAIN wire' : i \in DOMAIN wire \/ i = n
<1>1. Len(wire) + 1 \in DOMAIN wire'
  BY DEF TypeOK
<1>2. WITNESS Len(wire) + 1 \in DOMAIN wire'
<1> QED
  BY <1>1 DEF TypeOK

\* Lists that news have just made outdated are no one's concern.
LEMMA PageOvertaken ==
    ASSUME TypeOK, PageInv, loads' = Overtake(loads), \A a \in Actions : row'[a] = row[a]
    PROVE  LoadInv'
BY OvertakeFacts DEF LoadInv, PageInv, TypeOK

LEMMA PageAnnounceHeld ==
    ASSUME TypeOK, PageInv, NEW a \in Actions, AnnounceHeld(a)
    PROVE  PageInv'
<1> DEFINE event == [type |-> "action.pending", of |-> a]
<1>1. /\ phase = "serving" /\ UNCHANGED <<phase, row, conn, cards, overtaken>>
      /\ row[a] = "held" /\ news'[a] = "pending"
      /\ \A b \in Actions \ {a} : news'[b] = news[b]
  BY DEF AnnounceHeld, Publish, viewVars, TypeOK
<1>2. /\ conn = "closed" => wire' = wire /\ loads' = Overtake(loads)
      /\ conn # "closed" => wire' = Append(wire, event) /\ loads' = loads
  BY DEF AnnounceHeld, Publish
<1>3. ServerInv'
  BY <1>1, <1>2 DEF PageInv, ServerInv
<1>4. CASE conn = "closed"
  <2>1. DOMAIN wire' = {}
    BY <1>1, <1>2, <1>4 DEF PageInv, ServerInv
  <2>2. WireInv'
    BY <2>1 DEF WireInv
  <2>3. CardsInv'
    BY <1>1, <1>4 DEF CardsInv, PageInv
  <2> QED
    BY <1>1, <1>2, <1>3, <1>4, <2>2, <2>3, PageOvertaken DEF PageInv
<1>5. CASE conn # "closed"
  <2>1. PICK n \in DOMAIN wire' :
            /\ wire'[n] = event
            /\ \A i \in DOMAIN wire : i \in DOMAIN wire' /\ wire'[i] = wire[i] /\ i < n
            /\ \A i \in DOMAIN wire' : i \in DOMAIN wire \/ i = n
    BY <1>2, <1>5, AppendFacts
  <2>2. Coming => Coming'
    BY <2>1 DEF Coming, Reloads
  <2>3. Announced(a)' /\ \A b \in Actions : Announced(b) => Announced(b)'
    BY <2>1 DEF Announced, Reloads
  <2>4. ASSUME NEW S, Accounted(S) PROVE Accounted(S)'
    BY <2>3, <2>4, <1>1 DEF Accounted, AccountedFor
  <2>5. WireInv'
    <3>1. \A i \in DOMAIN wire : wire[i] \in Events
      BY DEF TypeOK
    <3> SUFFICES ASSUME NEW i \in DOMAIN wire' PROVE EventInv(i)'
      BY DEF WireInv
    <3>2. CASE i = n
      BY <3>2, <2>1, <1>1 DEF EventInv
    <3>3. CASE i \in DOMAIN wire
      <4>1. EventInv(i)
        BY <3>3 DEF PageInv, WireInv
      <4> QED
        BY <4>1, <3>1, <3>3, <2>1, <1>1 DEF EventInv, Reloads, Events
    <3> QED
      BY <3>2, <3>3, <2>1
  <2>6. LoadInv'
    <3>1. ASSUME NEW l \in Loads, loads[l].fresh PROVE FreshInv(l)'
      <4>1. FreshInv(l)
        BY <3>1 DEF PageInv, LoadInv
      <4>2. Accounted(PendingIn(loads[l].rows)) => Accounted(PendingIn(loads[l].rows))'
        <5>1. PICK S : S = PendingIn(loads[l].rows)
          OBVIOUS
        <5>2. PendingIn(loads'[l].rows) = S
          BY <5>1, <1>2, <1>5
        <5> QED
          BY <5>1, <5>2, <2>4
      <4> QED
        BY <4>1, <4>2, <2>2, <1>1, <1>2, <1>5 DEF FreshInv
    <3> QED
      BY <3>1, <1>1, <1>2, <1>5 DEF LoadInv, PageInv
  <2>7. CardsInv'
    <3>1. Accounted(cards) => Accounted(cards)'
      BY <2>4, <1>1
    <3> QED
      BY <3>1, <2>2, <1>1, <1>2, <1>5 DEF CardsInv, PageInv
  <2> QED
    BY <1>3, <2>5, <2>6, <2>7 DEF PageInv
<1> QED
  BY <1>4, <1>5

\* The event of a decision or an undo: from now on the lists are about to be loaded.
LEMMA PageAnnounces ==
    ASSUME TypeOK, PageInv, NEW event \in Events, Publish(event),
           event.type \in {"action.resolved", "action.undone"},
           event.type = "action.resolved" => row[event.of] \in Decided,
           UNCHANGED <<phase, row, conn, cards, overtaken>>,
           \A b \in Actions :
              \/ news'[b] = news[b]
              \/ event.type = "action.resolved" /\ event.of = b /\ news'[b] = "resolved"
    PROVE  PageInv'
<1>1. ServerInv'
  BY PublishFacts DEF PageInv, ServerInv, Events
<1>2. CASE conn = "closed"
  <2>1. DOMAIN wire' = {}
    BY <1>2, PublishFacts DEF PageInv, ServerInv
  <2>2. WireInv'
    BY <2>1 DEF WireInv
  <2>3. CardsInv'
    BY <1>2 DEF CardsInv, PageInv
  <2> QED
    BY <1>1, <1>2, <2>2, <2>3, PublishFacts, PageOvertaken DEF PageInv
<1>3. CASE conn # "closed"
  <2>1. PICK n \in DOMAIN wire' :
            /\ wire'[n] = event
            /\ \A i \in DOMAIN wire : i \in DOMAIN wire' /\ wire'[i] = wire[i] /\ i < n
            /\ \A i \in DOMAIN wire' : i \in DOMAIN wire \/ i = n
    BY <1>3, PublishFacts, AppendFacts
  <2>2. Coming'
    BY <2>1 DEF Coming, Reloads
  <2>3. WireInv'
    <3>1. \A i \in DOMAIN wire : wire[i] \in Events
      BY DEF TypeOK
    <3> SUFFICES ASSUME NEW i \in DOMAIN wire' PROVE EventInv(i)'
      BY DEF WireInv
    <3>2. CASE i = n
      BY <3>2, <2>1 DEF EventInv
    <3>3. CASE i \in DOMAIN wire
      <4>1. EventInv(i)
        BY <3>3 DEF PageInv, WireInv
      <4> QED
        BY <4>1, <3>1, <3>3, <2>1 DEF EventInv, Reloads, Events
    <3> QED
      BY <3>2, <3>3, <2>1
  <2>4. LoadInv'
    BY <1>3, <2>2, PublishFacts DEF LoadInv, FreshInv, PageInv
  <2>5. CardsInv'
    BY <2>2 DEF CardsInv, PageInv
  <2> QED
    BY <1>1, <2>3, <2>4, <2>5 DEF PageInv
<1> QED
  BY <1>2, <1>3

LEMMA PageTold ==
    ASSUME TypeOK, PageInv, NEW a \in Actions, AnnounceResolved(a) \/ UndoEnds(a)
    PROVE  PageInv'
<1>1. CASE AnnounceResolved(a)
  <2>1. PICK event : event = [type |-> "action.resolved", of |-> a]
    OBVIOUS
  <2>2. event \in Events /\ event.type = "action.resolved" /\ event.of = a
    BY <2>1 DEF Events
  <2>3. /\ Publish(event) /\ row[a] \in Decided
        /\ UNCHANGED <<phase, row, conn, cards, overtaken>>
    BY <1>1, <2>1 DEF AnnounceResolved, viewVars
  <2>4. \A b \in Actions : news'[b] = news[b] \/ (b = a /\ news'[b] = "resolved")
    BY <1>1 DEF AnnounceResolved, TypeOK
  <2> QED
    BY <2>2, <2>3, <2>4, PageAnnounces
<1>2. CASE UndoEnds(a)
  <2>1. UNCHANGED <<phase, row, news, conn, cards, overtaken>> /\ phase = "serving"
    BY <1>2 DEF UndoEnds, viewVars, serverVars
  <2>2. CASE UNCHANGED <<wire, loads>>
    BY <2>1, <2>2, PageRows DEF RowMoves
  <2>3. CASE Publish([type |-> "action.undone"])
    <3>1. PICK event : event = [type |-> "action.undone"]
      OBVIOUS
    <3>2. event \in Events /\ event.type = "action.undone"
      BY <3>1 DEF Events
    <3> QED
      BY <2>1, <2>3, <3>1, <3>2, PageAnnounces
  <2> QED
    BY <1>2, <2>2, <2>3 DEF UndoEnds
<1> QED
  BY <1>1, <1>2

\* A load of which nothing is known yet, or that has been read just now.
LEMMA PageLoads ==
    ASSUME TypeOK, PageInv, UNCHANGED <<phase, row, news, wire, cards, overtaken>>,
           conn' = conn \/ (conn = "accepted" /\ conn' = "open"),
           StartLoad(loads) \/ \E l \in Loads : Read(l)
    PROVE  PageInv'
<1>1. /\ ServerInv'
      /\ WireInv'
      /\ Coming' <=> Coming
      /\ \A S : Accounted(S)' <=> Accounted(S)
      /\ \A a \in cards : row[a] # None
  BY DEF PageInv, ServerInv, WireInv, EventInv, Reloads, Coming, Accounted, AccountedFor,
         Announced, CardsInv
<1>2. PICK m \in Loads :
          /\ Busy(m)'
          /\ \A l \in Loads \ {m} : loads'[l] = loads[l]
          /\ loads'[m].fresh => loads'[m].rows = row /\ phase = "serving" /\ loads'[m].stage = "read"
          /\ loads'[m].stage = "read" => loads'[m].rows = row
  <2>1. CASE StartLoad(loads)
    BY <2>1, StartFacts, NewLoadFacts DEF TypeOK
  <2>2. CASE \E l \in Loads : Read(l)
    BY <2>2 DEF Read, TypeOK
  <2> QED
    BY <2>1, <2>2
<1>3. ASSUME NEW l \in Loads, loads'[l].fresh PROVE FreshInv(l)'
  <2>1. CASE l = m
    <3>1. Accounted(PendingIn(row))
      BY DEF Accounted, AccountedFor, PendingIn
    <3>2. loads'[l].rows = row
      BY <2>1, <1>2, <1>3
    <3>3. Accounted(PendingIn(loads[l].rows))'
      <4>1. PICK S : S = PendingIn(row)
        OBVIOUS
      <4>2. PendingIn(loads'[l].rows) = S
        BY <4>1, <3>2
      <4> QED
        BY <4>1, <4>2, <3>1, <1>1
    <3> QED
      BY <3>2, <3>3, <2>1, <1>2, <1>3 DEF FreshInv
  <2>2. CASE l # m
    <3>1. FreshInv(l) /\ loads'[l] = loads[l]
      BY <2>2, <1>2, <1>3 DEF PageInv, LoadInv
    <3>2. \E k \in Loads \ {l} : Busy(k)'
      BY <2>2, <1>2
    <3> QED
      BY <3>1, <3>2 DEF FreshInv
  <2> QED
    BY <2>1, <2>2
<1>4. LoadInv'
  <2>1. ASSUME NEW l \in Loads, NEW a \in Actions,
               loads'[l].stage = "read", loads'[l].rows[a] = "held"
        PROVE  row[a] # None
    BY <2>1, <1>2 DEF PageInv, LoadInv
  <2> QED
    BY <2>1, <1>3 DEF LoadInv
<1>5. CardsInv'
  BY <1>1, <1>2 DEF CardsInv
<1> QED
  BY <1>1, <1>4, <1>5 DEF PageInv

\* A list is applied: it was right but for what is still to be heard, or another one
\* follows, or it was outdated and either right nonetheless or on record as overtaking.
LEMMA PageApply ==
    ASSUME TypeOK, PageInv, NEW l \in Loads, Apply(l)
    PROVE  PageInv'
<1>1. UNCHANGED <<phase, row, news, wire, conn>>
  BY DEF Apply, serverVars, socketVars
<1>2. PICK S : S = PendingIn(loads[l].rows)
  OBVIOUS
<1>3. /\ cards' = S
      /\ overtaken' = (~loads[l].fresh /\ S # PendingIn(row))
      /\ loads[l].stage = "read"
  BY <1>2 DEF Apply
<1>4. /\ ServerInv'
      /\ WireInv'
      /\ Coming' <=> Coming
      /\ \A T : Accounted(T)' <=> Accounted(T)
  BY <1>1 DEF PageInv, ServerInv, WireInv, EventInv, Reloads, Coming, Accounted, AccountedFor,
              Announced
<1>5. \A m \in Loads : /\ ~loads'[m].fresh
                       /\ m # l => loads'[m].stage = loads[m].stage /\ loads'[m].rows = loads[m].rows
                       /\ m = l => loads'[m].stage = "idle"
  BY OvertakeFacts, NewLoadFacts DEF Apply, TypeOK
<1>6. LoadInv'
  BY <1>1, <1>5 DEF LoadInv, PageInv
<1>7. \A a \in S : row[a] # None
  BY <1>2, <1>3 DEF PageInv, LoadInv, PendingIn
<1>8. overtaken' \/ Coming \/ (\E m \in Loads : Busy(m)') \/ Accounted(S)
  <2>1. CASE loads[l].fresh
    <3>1. FreshInv(l)
      BY <2>1 DEF PageInv, LoadInv
    <3> QED
      BY <3>1, <1>2, <1>5 DEF FreshInv
  <2>2. CASE ~loads[l].fresh /\ S = PendingIn(row)
    BY <2>2 DEF Accounted, AccountedFor, PendingIn
  <2>3. CASE ~loads[l].fresh /\ S # PendingIn(row)
    BY <2>3, <1>3
  <2> QED
    BY <2>1, <2>2, <2>3
<1>9. Accounted(S) <=> Accounted(cards)'
  BY <1>3, <1>4
<1>10. CardsInv'
  BY <1>1, <1>3, <1>4, <1>7, <1>8, <1>9 DEF CardsInv
<1> QED
  BY <1>4, <1>6, <1>10 DEF PageInv

LEMMA PageReloads ==
    ASSUME TypeOK, PageInv, (\E l \in Loads : LoadSteps(l)) \/ Poll \/ (\E a \in Actions : UndoReturns(a))
    PROVE  PageInv'
<1>1. ASSUME NEW l \in Loads, Read(l) PROVE PageInv'
  BY <1>1, PageLoads DEF Read, serverVars, socketVars, viewVars
<1>2. CASE Poll
  BY <1>2, PageLoads DEF Poll, serverVars, socketVars, viewVars
<1>3. ASSUME NEW a \in Actions, UndoReturns(a) PROVE PageInv'
  <2>1. UNCHANGED <<phase, row, news, wire, conn, cards, overtaken>>
    BY <1>3 DEF UndoReturns, serverVars, socketVars, viewVars
  <2>2. CASE UNCHANGED loads
    BY <2>1, <2>2 DEF PageInv, ServerInv, WireInv, EventInv, LoadInv, FreshInv, CardsInv, Coming,
                      Reloads, Accounted, AccountedFor, Announced
  <2> QED
    BY <2>1, <2>2, <1>3, PageLoads DEF UndoReturns
<1> QED
  BY <1>1, <1>2, <1>3, PageApply DEF LoadSteps

\* What the wire becomes when its first event is received.
LEMMA TailFacts ==
    ASSUME TypeOK, wire # << >>, wire' = Tail(wire)
    PROVE  /\ 1 \in DOMAIN wire /\ wire[1] = Head(wire) /\ wire[1] \in Events
           /\ \A i \in DOMAIN wire' : i + 1 \in DOMAIN wire /\ wire'[i] = wire[i + 1]
           /\ \A i \in DOMAIN wire : i # 1 => /\ i - 1 \in DOMAIN wire'
                                              /\ wire'[i - 1] = wire[i]
BY DEF TypeOK

LEMMA PageReceive ==
    ASSUME TypeOK, PageInv, Receive
    PROVE  PageInv'
<1> DEFINE event == wire[1]
<1>1. /\ UNCHANGED <<phase, row, news, conn, overtaken>>
      /\ conn = "open" /\ wire # << >> /\ wire' = Tail(wire)
  BY DEF Receive, serverVars
<1>2. /\ 1 \in DOMAIN wire /\ event = Head(wire) /\ event \in Events
      /\ \A i \in DOMAIN wire' : i + 1 \in DOMAIN wire /\ wire'[i] = wire[i + 1]
      /\ \A i \in DOMAIN wire : i # 1 => i - 1 \in DOMAIN wire' /\ wire'[i - 1] = wire[i]
      /\ DOMAIN wire \subseteq Int /\ DOMAIN wire' \subseteq Int /\ \A i \in DOMAIN wire : i >= 1
  BY <1>1, TailFacts DEF TypeOK
<1>3. ServerInv'
  BY <1>1 DEF PageInv, ServerInv
<1>4. WireInv'
  <2> SUFFICES ASSUME NEW i \in DOMAIN wire' PROVE EventInv(i)'
    BY DEF WireInv
  <2>1. i + 1 \in DOMAIN wire /\ EventInv(i + 1) /\ wire'[i] = wire[i + 1]
    BY <1>2 DEF PageInv, WireInv
  <2>2. ASSUME NEW j \in DOMAIN wire, i + 1 < j, Reloads(j)
        PROVE  \E k \in DOMAIN wire' : i < k /\ Reloads(k)'
    <3>1. j - 1 \in DOMAIN wire' /\ i < j - 1 /\ wire'[j - 1] = wire[j]
      BY <1>2, <2>1, <2>2
    <3> QED
      BY <3>1, <2>2 DEF Reloads
  <2> QED
    BY <2>1, <2>2, <1>1 DEF EventInv
<1>5. EventInv(1)
  BY <1>2 DEF PageInv, WireInv
<1>6. CASE event.type = "action.pending"
  <2>1. /\ cards' = cards \cup {event.of}
        /\ loads' = Overtake(loads)
    BY <1>6, <1>2 DEF Receive
  <2>2. event.of \in Actions
    BY <1>2, <1>6 DEF Events
  <2>3. Coming => Coming'
    <3>1. ASSUME NEW j \in DOMAIN wire, Reloads(j) PROVE Coming'
      <4>1. j # 1
        BY <1>6, <3>1 DEF Reloads
      <4>2. j - 1 \in DOMAIN wire' /\ wire'[j - 1] = wire[j]
        BY <4>1, <1>2
      <4> QED
        BY <4>2, <3>1 DEF Coming, Reloads
    <3> QED
      BY <3>1 DEF Coming
  <2>4. ASSUME NEW b \in Actions, b # event.of, Announced(b) PROVE Announced(b)'
    <3>1. PICK j \in DOMAIN wire : ~Reloads(j) /\ wire[j].of = b
      BY <2>4 DEF Announced
    <3>2. j - 1 \in DOMAIN wire' /\ wire'[j - 1] = wire[j]
      BY <3>1, <2>4, <1>2
    <3> QED
      BY <3>1, <3>2 DEF Announced, Reloads
  <2>5. Accounted(cards) => Coming' \/ Accounted(cards)'
    <3>1. CASE news[event.of] = "pending"
      <4>1. row[event.of] \in {"held"} \cup Decided
        BY <3>1, <2>2 DEF PageInv, ServerInv
      <4> QED
        BY <4>1, <3>1, <2>1, <2>2, <2>4, <1>1 DEF Accounted, AccountedFor
    <3>2. CASE \E j \in DOMAIN wire : 1 < j /\ Reloads(j)
      BY <3>2, <2>3 DEF Coming
    <3> QED
      BY <3>1, <3>2, <1>5, <1>6 DEF EventInv
  <2>6. \A l \in Loads : Busy(l)' <=> Busy(l)
    BY <2>1, OvertakeFacts DEF TypeOK
  <2>7. row[event.of] # None
    BY <1>5, <1>6 DEF EventInv
  <2>8. CardsInv'
    BY <2>1, <2>3, <2>5, <2>6, <2>7, <1>1 DEF CardsInv, PageInv
  <2>9. LoadInv'
    BY <2>1, <1>1, PageOvertaken
  <2> QED
    BY <1>3, <1>4, <2>8, <2>9 DEF PageInv
<1>7. CASE event.type = "action.resolved"
  <2>1. /\ cards' = cards \ {event.of}
        /\ StartLoad(Overtake(loads))
    BY <1>7, <1>2 DEF Receive
  <2>2. PICK m \in Loads :
            /\ loads'[m] = NewLoad
            /\ \A l \in Loads \ {m} : loads'[l] = Overtake(loads)[l]
    BY <2>1, OvertakeFacts, StartFacts DEF TypeOK
  <2>3. LoadInv'
    BY <2>2, <1>1, OvertakeFacts, NewLoadFacts DEF LoadInv, PageInv, TypeOK
  <2>4. CardsInv'
    BY <2>1, <2>2, <1>1, NewLoadFacts DEF CardsInv, PageInv
  <2> QED
    BY <1>3, <1>4, <2>3, <2>4 DEF PageInv
<1>8. CASE event.type = "action.undone"
  <2>1. cards' = cards /\ StartLoad(loads)
    BY <1>8, <1>2 DEF Receive
  <2>2. PICK m \in Loads :
            /\ loads'[m] = NewLoad
            /\ \A l \in Loads \ {m} : loads'[l] = loads[l]
    BY <2>1, StartFacts DEF TypeOK
  <2>3. ASSUME NEW l \in Loads, loads'[l].fresh PROVE FreshInv(l)'
    <3>1. l # m /\ Busy(m)' /\ loads'[l] = loads[l]
      BY <2>2, <2>3, NewLoadFacts
    <3>2. FreshInv(l)
      BY <3>1, <2>3 DEF PageInv, LoadInv
    <3> QED
      BY <3>1, <3>2, <2>1, <1>1 DEF FreshInv
  <2>4. LoadInv'
    BY <2>2, <2>3, <1>1, NewLoadFacts DEF LoadInv, PageInv
  <2>5. CardsInv'
    BY <2>1, <2>2, <1>1, NewLoadFacts DEF CardsInv, PageInv
  <2> QED
    BY <1>3, <1>4, <2>4, <2>5 DEF PageInv
<1> QED
  BY <1>6, <1>7, <1>8, <1>2 DEF Receive

\* The socket is gone, and with it the wire, and every list is outdated.
LEMMA PageLost ==
    ASSUME TypeOK, PageInv, wire' = << >>, conn' = "closed", cards' = cards,
           \A a \in Actions : row'[a] = None <=> row[a] = None,
           \A a \in Actions : /\ row'[a] = None => news'[a] = None
                              /\ news'[a] = "pending" => row'[a] \in {"held"} \cup Decided,
           \A l \in Loads : /\ ~loads'[l].fresh
                            /\ loads'[l].stage = "read" =>
                                  loads[l].stage = "read" /\ loads'[l].rows = loads[l].rows
    PROVE  PageInv'
<1>1. DOMAIN wire' = {}
  OBVIOUS
<1> QED
  BY <1>1 DEF PageInv, ServerInv, WireInv, LoadInv, CardsInv, TypeOK

LEMMA PageFaults ==
    ASSUME TypeOK, PageInv, Drop \/ Crash \/ Boot
    PROVE  PageInv'
<1>1. CASE Drop
  <2>1. \A l \in Loads : ~loads'[l].fresh /\ loads'[l].stage = loads[l].stage
                            /\ loads'[l].rows = loads[l].rows
    BY <1>1, OvertakeFacts DEF Drop, TypeOK
  <2>2. wire' = << >> /\ conn' = "closed" /\ UNCHANGED <<cards, row, news>>
    BY <1>1 DEF Drop, serverVars, viewVars
  <2> QED
    BY <2>1, <2>2, PageLost DEF PageInv, ServerInv
<1>2. CASE Crash
  <2>1. \A l \in Loads : /\ ~loads'[l].fresh
                         /\ loads'[l].stage = "read" =>
                               loads[l].stage = "read" /\ loads'[l].rows = loads[l].rows
    BY <1>2, NewLoadFacts DEF Crash, TypeOK, LoadRecords
  <2>2. \A a \in Actions : Before(a) = None <=> row[a] = None
    BY DEF Before
  <2>3. \A a \in Actions : /\ row'[a] = None <=> row[a] = None
                           /\ news'[a] = IF row[a] = None THEN None ELSE "over"
    BY <1>2, <2>2 DEF Crash
  <2>4. wire' = << >> /\ conn' = "closed" /\ cards' = cards
    BY <1>2 DEF Crash, viewVars
  <2> QED
    BY <2>1, <2>3, <2>4, PageLost
<1>3. CASE Boot
  <2>1. wire' = << >> /\ conn' = "closed" /\ UNCHANGED <<loads, cards, news>>
    BY <1>3 DEF Boot, socketVars, viewVars, PageInv, ServerInv
  <2>2. \A l \in Loads : ~loads[l].fresh
    BY <1>3 DEF Boot, PageInv, LoadInv, FreshInv
  <2>3. \A a \in Actions : row'[a] = IF row[a] = "held" THEN "refused" ELSE row[a]
    BY <1>3 DEF Boot
  <2> QED
    BY <2>1, <2>2, <2>3, PageLost DEF PageInv, ServerInv
<1> QED
  BY <1>1, <1>2, <1>3

LEMMA PageSocket ==
    ASSUME TypeOK, PageInv, Connect \/ Opens
    PROVE  PageInv'
<1>1. CASE Connect
  BY <1>1 DEF Connect, serverVars, viewVars, PageInv, ServerInv, WireInv, EventInv, LoadInv, FreshInv,
              CardsInv, Coming, Reloads, Accounted, AccountedFor, Announced
<1>2. CASE Opens
  BY <1>2, PageLoads DEF Opens, serverVars, viewVars
<1> QED
  BY <1>1, <1>2

LEMMA PageStep == TypeOK /\ PageInv /\ [Next]_vars => PageInv'
<1> SUFFICES ASSUME TypeOK, PageInv, [Next]_vars PROVE PageInv'
  OBVIOUS
<1>1. CASE UNCHANGED vars
  BY <1>1 DEF vars, serverVars, socketVars, viewVars, PageInv, ServerInv, WireInv, EventInv, LoadInv,
              FreshInv, CardsInv, Coming, Reloads, Accounted, AccountedFor, Announced
<1>2. CASE Next
  <2>1. ASSUME NEW a \in Actions,
               ActionSteps(a) \/ Submit(a) \/ Resolve(a) \/ Journal(a) \/ ClickUndo(a) \/ RequestSteps(a)
        PROVE  PageInv'
    BY <2>1, PageUntold, PageAnnounceHeld, PageTold, PageReloads DEF ActionSteps, RequestSteps
  <2> QED
    BY <1>2, <2>1, PageReloads, PageReceive, PageFaults, PageSocket DEF Next, Socket
<1> QED
  BY <1>1, <1>2

\* What the page shows is always right but for what is still under way.
THEOREM PageIsAccountedFor == Spec => [](TypeOK /\ PageInv)
<1>1. Init => TypeOK /\ PageInv
  BY TypeInit, PageInit
<1>2. TypeOK /\ PageInv /\ [Next]_vars => (TypeOK /\ PageInv)'
  BY TypeStep, PageStep
<1> QED
  BY <1>1, <1>2, PTL DEF Spec

\* app.js:2: the page "stays live": once nothing is under way its cards are the held
\* actions, after whatever was missed, dropped or restarted, unless a list that came
\* late overwrote later news.
THEOREM PageIsLive == Spec => []LiveWhenQuiet
<1>1. TypeOK /\ PageInv => LiveWhenQuiet
  <2> SUFFICES ASSUME TypeOK, PageInv, Quiet, ~overtaken PROVE cards = PendingIn(row)
    BY DEF LiveWhenQuiet
  <2>1. DOMAIN wire = {} /\ conn = "open" /\ \A l \in Loads : ~Busy(l)
    BY DEF Quiet
  <2>2. Accounted(cards)
    BY <2>1 DEF PageInv, CardsInv, Coming
  <2>3. \A a \in Actions : a \in cards <=> row[a] = "held"
    BY <2>1, <2>2 DEF Accounted, AccountedFor, Announced, Quiet
  <2> QED
    BY <2>3 DEF PendingIn, TypeOK
<1> QED
  BY <1>1, PageIsAccountedFor, PTL

\* A card leaves the page when its action is no longer held, or with an outdated list.
THEOREM CardsLeaveOnlyForAReason == Spec => CardsLeaveForAReason
<1> DEFINE Reason ==
    \A a \in cards \ cards' :
        row[a] # "held" \/ \E l \in Loads : Apply(l) /\ ~loads[l].fresh
<1>1. TypeOK /\ PageInv /\ [Next]_vars => [Reason]_vars
  <2> SUFFICES ASSUME TypeOK, PageInv, Next, NEW a \in cards \ cards', row[a] = "held"
               PROVE  \E l \in Loads : Apply(l) /\ ~loads[l].fresh
    OBVIOUS
  <2>1. Receive \/ \E l \in Loads : Apply(l)
    BY DEF Next, ActionSteps, AnnounceHeld, AnnounceResolved, Submit, Resolve, Journal, ClickUndo,
           RequestSteps, UndoClaims, UndoEnds, UndoReturns, LoadSteps, Read, Poll, Socket, Connect,
           Opens, Drop, Crash, Boot, viewVars
  <2>2. CASE Receive
    <3>1. 1 \in DOMAIN wire /\ wire[1] = Head(wire)
      BY <2>2, TailFacts DEF Receive
    <3>2. EventInv(1)
      BY <3>1 DEF PageInv, WireInv
    <3> QED
      BY <2>2, <3>1, <3>2 DEF Receive, EventInv
  <2>3. ASSUME NEW l \in Loads, Apply(l), loads[l].fresh PROVE FALSE
    <3>1. loads[l].rows[a] = "held"
      BY <2>3 DEF PageInv, LoadInv, FreshInv
    <3>2. a \in Actions
      BY DEF TypeOK
    <3> QED
      BY <2>3, <3>1, <3>2 DEF Apply, PendingIn
  <2> QED
    BY <2>1, <2>2, <2>3
<1> QED
  BY <1>1, PageIsAccountedFor, PTL DEF Spec, CardsLeaveForAReason
=============================================================================
