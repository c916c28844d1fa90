----------------------- MODULE ApprovalManagerProofs ------------------------
(***************************************************************************)
(* Proofs about ApprovalManager, for every set of calls, decisions and     *)
(* polls and every bound on crashes and cancellations.                     *)
(***************************************************************************)
EXTENDS ApprovalManager, TLAPS

-----------------------------------------------------------------------------
(* Typing.                                                                 *)

\* TypeOK in two halves: what EventLoop's operators move, and the rest.
LoopTypeOK ==
    /\ pc \in [Tasks -> CallPlaces \cup DecisionPlaces \cup PollPlaces]
    /\ \A t \in Tasks : pc[t] \in PlacesOf(t)
    /\ io \in [Tasks -> IoStates]
    /\ dbq \in Seq(Operations)
    /\ ready \in Seq(Tasks)

\* What task t may issue.
OpsOf(t) == IF t \in Calls THEN CallOps
            ELSE IF t \in Decisions THEN DecisionOps ELSE PollOps

USE DEF IoStates

LEMMA OperationTyped ==
    ASSUME NEW t \in Tasks, NEW op \in OpsOf(t)
    PROVE  /\ [task |-> t, op |-> op] \in Operations
           /\ op \in PlacesOf(t)
           /\ op \in CallPlaces \cup DecisionPlaces \cup PollPlaces
BY DEF Tasks, OpsOf, Operations, PlacesOf, CallPlaces, DecisionPlaces, PollPlaces, Suspended

LEMMA AwaitTyped ==
    ASSUME LoopTypeOK, NEW t \in Tasks, NEW op \in OpsOf(t), Await(t, op),
           ready' \in Seq(Tasks)
    PROVE  LoopTypeOK'
BY OperationTyped DEF LoopTypeOK, Await

LEMMA ContinueTyped ==
    ASSUME LoopTypeOK, NEW t \in Tasks, NEW op, NEW next \in OpsOf(t), Continue(t, op, next)
    PROVE  LoopTypeOK'
<1>1. ready' \in Seq(Tasks)
  BY DEF LoopTypeOK, Continue, Runnable
<1> QED
  BY <1>1, AwaitTyped DEF Continue

LEMMA LeaveTyped ==
    ASSUME LoopTypeOK, NEW t \in Tasks, NEW op, NEW place \in PlacesOf(t), Leave(t, op, place)
    PROVE  LoopTypeOK'
<1>1. place \in CallPlaces \cup DecisionPlaces \cup PollPlaces
  BY DEF PlacesOf
<1>2. ready' \in Seq(Tasks)
  BY DEF LoopTypeOK, Leave, Runnable
<1> QED
  BY <1>1, <1>2 DEF LoopTypeOK, Leave

LEMMA HeadTyped ==
    ASSUME LoopTypeOK, dbq # <<>>
    PROVE  /\ Head(dbq) \in Operations
           /\ Head(dbq).task \in Tasks
           /\ Head(dbq).op \in OpsOf(Head(dbq).task)
           /\ Tail(dbq) \in Seq(Operations)
<1>1. Head(dbq) \in Operations /\ Tail(dbq) \in Seq(Operations)
  BY DEF LoopTypeOK
<1> QED
  BY <1>1, TasksAssumption DEF Operations, OpsOf, Tasks

LEMMA CompleteTyped ==
    ASSUME LoopTypeOK, dbq # <<>>, Complete
    PROVE  LoopTypeOK'
<1>1. Head(dbq).task \in Tasks /\ Tail(dbq) \in Seq(Operations)
  BY HeadTyped
<1>2. dbq' \in Seq(Operations) /\ pc' = pc
  BY <1>1 DEF Complete
<1>3. io' \in [Tasks -> IoStates] /\ ready' \in Seq(Tasks)
  <2>1. CASE Awaited
    <3>1. /\ io' = [io EXCEPT ![Head(dbq).task] = "returned"]
          /\ ready' = Append(ready, Head(dbq).task)
      BY <2>1 DEF Complete
    <3> QED
      BY <1>1, <3>1 DEF LoopTypeOK
  <2>2. CASE ~Awaited
    BY <2>2 DEF LoopTypeOK, Complete
  <2> QED
    BY <2>1, <2>2
<1> QED
  BY <1>2, <1>3 DEF LoopTypeOK

DataTypeOK ==
    /\ row \in [Calls -> RowValues]
    /\ durable \in [Calls -> RowValues]
    /\ events \subseteq Calls
    /\ timedOut \subseteq Calls
    /\ seen \in [Tasks -> RowValues]
    /\ listed \in [Polls -> SUBSET Calls]
    /\ known \subseteq Calls
    /\ announced \subseteq [call : Calls, status : RowValues, by : {"timeout", "decide", "sweep"}]
    /\ executed \subseteq Calls
    /\ phase \in {"down", "starting", "serving"}
    /\ stale \subseteq Calls
    /\ crashes \in Nat
    /\ cancels \in Nat

LEMMA TypeOKSplit == TypeOK <=> LoopTypeOK /\ DataTypeOK
BY DEF TypeOK, LoopTypeOK, DataTypeOK

LEMMA InitTyped == Init => TypeOK
BY BoundsAssumption DEF Init, TypeOK, Tasks, PlacesOf, CallPlaces, DecisionPlaces, PollPlaces,
   RowValues, NoRow

\* One sentence per group of actions: the step keeps every variable's type.
LEMMA DbThreadTyped ==
    ASSUME TypeOK, DbThread
    PROVE  TypeOK'
<1> USE TypeOKSplit
<1>1. dbq # <<>> /\ Complete
  BY DEF DbThread, InsertRow, ResolveRow, Commit, SelectRow, SelectAll, Fetch, OperationIs
<1>2. LoopTypeOK'
  BY <1>1, CompleteTyped
<1>3. /\ Head(dbq) \in Operations
      /\ Head(dbq).task \in Tasks
  BY <1>1, HeadTyped
<1>4. DataTypeOK'
  <2>1. CASE InsertRow
    BY <1>3, <2>1, TasksAssumption DEF InsertRow, DataTypeOK, taskVars, outsideVars, processVars,
       RowValues, Statuses, Resolutions, Verdicts, NoRow
  <2>2. CASE ResolveRow
    BY <1>3, <2>2, TasksAssumption, DecisionsAssumption
       DEF ResolveRow, DataTypeOK, taskVars, outsideVars, processVars,
       RowValues, Statuses, Resolutions, Verdicts, NoRow, Cas, ActionOf, OperationIs, Operations,
       DecisionOps, CallOps, PollOps
  <2>3. CASE Commit
    BY <2>3 DEF Commit, DataTypeOK, taskVars, outsideVars, processVars
  <2>4. CASE SelectRow
    BY <1>3, <2>4, TasksAssumption, DecisionsAssumption
       DEF SelectRow, DataTypeOK, storeVars, outsideVars, processVars, ActionOf, OperationIs,
       RowSelects, Operations, DecisionOps, CallOps, PollOps
  <2>5. CASE SelectAll
    BY <1>3, <2>5 DEF SelectAll, DataTypeOK, storeVars, outsideVars, processVars
  <2>6. CASE Fetch
    BY <2>6 DEF Fetch, DataTypeOK, storeVars, taskVars, outsideVars, processVars
  <2> QED
    BY <2>1, <2>2, <2>3, <2>4, <2>5, <2>6 DEF DbThread
<1> QED
  BY <1>2, <1>4 DEF TypeOK, LoopTypeOK, DataTypeOK

USE DEF taskVars, outsideVars, processVars, storeVars

LEMMA SecondAwaitTyped ==
    ASSUME TypeOK, NEW t \in Tasks, SecondAwait(t)
    PROVE  TypeOK'
<1>1. PICK op \in DOMAIN NextAwait : Continue(t, op, NextAwait[op])
  BY DEF SecondAwait
<1>2. pc[t] = op /\ pc[t] \in PlacesOf(t)
  BY <1>1 DEF Continue, Runnable, TypeOK
<1>3. NextAwait[op] \in OpsOf(t)
  BY <1>1, <1>2 DEF NextAwait, PlacesOf, OpsOf, CallPlaces, DecisionPlaces, PollPlaces,
     Suspended, CallOps, DecisionOps, PollOps
<1>4. LoopTypeOK'
  BY <1>1, <1>3, ContinueTyped, TypeOKSplit
<1>5. DataTypeOK'
  BY TypeOKSplit DEF SecondAwait, DataTypeOK
<1> QED
  BY <1>4, <1>5 DEF TypeOK, LoopTypeOK, DataTypeOK

LEMMA CallTyped ==
    ASSUME TypeOK, NEW c \in Calls,
           \/ Submit(c) \/ SubmitAllowed(c) \/ SubmitHeld(c) \/ HoldTimeout(c)
           \/ WaitDecided(c) \/ WaitExpired(c) \/ ExpiryStored(c) \/ WaitReturns(c)
           \/ Execute(c) \/ CancelCall(c)
    PROVE  TypeOK'
<1>1. LoopTypeOK /\ DataTypeOK /\ c \in Tasks
  BY TypeOKSplit DEF Tasks
<1>2. /\ {"insert", "expire", "read"} \subseteq OpsOf(c)
      /\ {"execute", "wait", "refused", "done", "cancelled"} \subseteq PlacesOf(c)
      /\ PlacesOf(c) \subseteq CallPlaces \cup DecisionPlaces \cup PollPlaces
  BY DEF OpsOf, PlacesOf, CallOps, CallPlaces, Suspended
<1>3. LoopTypeOK'
  <2>1. CASE Submit(c)
    <3>1. ready' \in Seq(Tasks)
      BY <1>1, <2>1 DEF Submit, Start, LoopTypeOK
    <3> QED
      BY <1>1, <1>2, <2>1, <3>1, AwaitTyped DEF Submit, Start
  <2>2. CASE SubmitAllowed(c)
    BY <1>1, <1>2, <2>2, LeaveTyped DEF SubmitAllowed
  <2>3. CASE SubmitHeld(c)
    BY <1>1, <1>2, <2>3, LeaveTyped DEF SubmitHeld
  <2>4. CASE HoldTimeout(c)
    BY <1>1, <2>4 DEF HoldTimeout, LoopTypeOK
  <2>5. CASE WaitDecided(c) \/ WaitExpired(c) \/ ExpiryStored(c)
    BY <1>1, <1>2, <2>5, ContinueTyped DEF WaitDecided, WaitExpired, ExpiryStored
  <2>6. CASE WaitReturns(c)
    BY <1>1, <1>2, <2>6, LeaveTyped DEF WaitReturns
  <2>7. CASE Execute(c) \/ CancelCall(c)
    BY <1>1, <1>2, <2>7 DEF Execute, CancelCall, LoopTypeOK
  <2> QED
    BY <2>1, <2>2, <2>3, <2>4, <2>5, <2>6, <2>7
<1>4. DataTypeOK'
  BY <1>1 DEF DataTypeOK, Submit, SubmitAllowed, SubmitHeld, HoldTimeout, WaitDecided,
     WaitExpired, ExpiryStored, WaitReturns, Execute, CancelCall
<1> QED
  BY <1>3, <1>4 DEF TypeOK, LoopTypeOK, DataTypeOK

LEMMA DecisionTyped ==
    ASSUME TypeOK, NEW d \in Decisions,
           Decide(d) \/ DecideUnknown(d) \/ DecideResolves(d) \/ DecideWakes(d) \/ DecideReturns(d)
    PROVE  TypeOK'
<1>1. LoopTypeOK /\ DataTypeOK /\ d \in Tasks /\ d \notin Calls /\ Target[d] \in Calls
  BY TypeOKSplit, TasksAssumption, DecisionsAssumption DEF Tasks
<1>2. /\ {"check", "resolve", "reread"} \subseteq OpsOf(d)
      /\ {"notFound", "answered"} \subseteq PlacesOf(d)
  BY <1>1 DEF OpsOf, PlacesOf, DecisionOps, DecisionPlaces
<1>3. LoopTypeOK'
  <2>1. CASE Decide(d)
    <3>1. ready' \in Seq(Tasks)
      BY <1>1, <2>1 DEF Decide, Start, LoopTypeOK
    <3> QED
      BY <1>1, <1>2, <2>1, <3>1, AwaitTyped DEF Decide, Start
  <2>2. CASE DecideUnknown(d)
    BY <1>1, <1>2, <2>2, LeaveTyped DEF DecideUnknown
  <2>3. CASE DecideResolves(d)
    BY <1>1, <1>2, <2>3, ContinueTyped DEF DecideResolves
  <2>4. CASE DecideWakes(d)
    <3>1. Target[d] \in Tasks /\ Tail(ready) \in Seq(Tasks)
      BY <1>1, <2>4 DEF DecideWakes, Runnable, LoopTypeOK, Tasks
    <3>2. ready' \in Seq(Tasks) /\ io' \in [Tasks -> IoStates]
      BY <1>1, <2>4, <3>1 DEF DecideWakes, LoopTypeOK
    <3>3. dbq' \in Seq(Operations) /\ "reread" \in PlacesOf(d)
      BY <1>1, <1>2, <2>4, OperationTyped DEF DecideWakes, LoopTypeOK
    <3> QED
      BY <1>1, <2>4, <3>2, <3>3 DEF DecideWakes, LoopTypeOK, PlacesOf
  <2>5. CASE DecideReturns(d)
    BY <1>1, <1>2, <2>5, LeaveTyped DEF DecideReturns
  <2> QED
    BY <2>1, <2>2, <2>3, <2>4, <2>5
<1>4. DataTypeOK'
  BY <1>1 DEF DataTypeOK, Decide, DecideUnknown, DecideResolves, DecideWakes, DecideReturns
<1> QED
  BY <1>3, <1>4 DEF TypeOK, LoopTypeOK, DataTypeOK

LEMMA PollTyped ==
    ASSUME TypeOK, NEW p \in Polls, Poll(p) \/ PollReturns(p)
    PROVE  TypeOK'
<1>1. LoopTypeOK /\ DataTypeOK /\ p \in Tasks /\ p \notin Calls /\ p \notin Decisions
  BY TypeOKSplit, TasksAssumption DEF Tasks
<1>2. "list" \in OpsOf(p) /\ "answered" \in PlacesOf(p)
  BY <1>1 DEF OpsOf, PlacesOf, PollOps, PollPlaces
<1>3. LoopTypeOK'
  <2>1. CASE Poll(p)
    <3>1. ready' \in Seq(Tasks)
      BY <1>1, <2>1 DEF Poll, Start, LoopTypeOK
    <3> QED
      BY <1>1, <1>2, <2>1, <3>1, AwaitTyped DEF Poll, Start
  <2>2. CASE PollReturns(p)
    BY <1>1, <1>2, <2>2, LeaveTyped DEF PollReturns
  <2> QED
    BY <2>1, <2>2
<1>4. DataTypeOK'
  BY <1>1 DEF DataTypeOK, Poll, PollReturns
<1> QED
  BY <1>3, <1>4 DEF TypeOK, LoopTypeOK, DataTypeOK

LEMMA ProcessTyped ==
    ASSUME TypeOK, LoopSkips \/ Crash \/ Startup
    PROVE  TypeOK'
<1>1. LoopTypeOK /\ DataTypeOK
  BY TypeOKSplit
<1>2. \A t \in Tasks : "lost" \in PlacesOf(t) /\ "idle" \in PlacesOf(t)
  BY DEF PlacesOf, CallPlaces, DecisionPlaces, PollPlaces
<1>3. LoopTypeOK'
  <2>1. CASE LoopSkips
    BY <1>1, <2>1 DEF LoopSkips, Skip, LoopTypeOK
  <2>2. CASE Crash
    <3>1. \A t \in Tasks : pc'[t] \in PlacesOf(t)
      BY <1>1, <1>2, <2>2 DEF Crash, LoopTypeOK
    <3>2. \A t \in Tasks : PlacesOf(t) \subseteq CallPlaces \cup DecisionPlaces \cup PollPlaces
      BY DEF PlacesOf
    <3>3. pc' = [t \in Tasks |-> pc'[t]] /\ dbq' = <<>> /\ ready' = <<>>
      BY <2>2 DEF Crash
    <3>4. io' \in [Tasks -> IoStates]
      BY <2>2 DEF Crash
    <3> QED
      BY <3>1, <3>2, <3>3, <3>4 DEF LoopTypeOK
  <2>3. CASE Startup
    BY <1>1, <2>3 DEF Startup, Boot, Serve, SweepExpires, SweepCommits, SweepAnnounces, loopVars,
       LoopTypeOK
  <2> QED
    BY <2>1, <2>2, <2>3
<1>4. DataTypeOK'
  <2>1. CASE LoopSkips
    BY <1>1, <2>1 DEF LoopSkips, DataTypeOK
  <2>2. CASE Crash
    BY <1>1, <2>2 DEF Crash, DataTypeOK
  <2>3. CASE Startup
    BY <1>1, <2>3 DEF Startup, Boot, Serve, SweepExpires, SweepCommits, SweepAnnounces,
       DataTypeOK, Cas, RowValues, Statuses, Resolutions
  <2> QED
    BY <2>1, <2>2, <2>3
<1> QED
  BY <1>3, <1>4 DEF TypeOK, LoopTypeOK, DataTypeOK

\* Every variable of the approval manager keeps its type, and the database
\* queue only ever holds operations that a task of the right kind issued.
THEOREM Typing == Spec => []TypeOK
<1>1. TypeOK /\ [Next]_vars => TypeOK'
  <2> SUFFICES ASSUME TypeOK, [Next]_vars PROVE TypeOK'
    OBVIOUS
  <2>1. CASE Next
    BY <2>1, DbThreadTyped, SecondAwaitTyped, CallTyped, DecisionTyped, PollTyped, ProcessTyped
       DEF Next, LoopRuns, Requests
  <2>2. CASE UNCHANGED vars
    BY <2>2 DEF vars, loopVars, TypeOK
  <2> QED
    BY <2>1, <2>2
<1> QED
  BY InitTyped, <1>1, PTL DEF Spec

-----------------------------------------------------------------------------
(* The inductive invariant.  A row only moves forward, so what a task that *)
(* is left alone by a step knows about its row stays true; the rest is     *)
(* about the one task the step moves.                                      *)

\* What every step but a crash does to the two copies of the table.
RowsGrow ==
    \A c \in Calls :
        /\ row'[c] = row[c] \/ <<row[c], row'[c]>> \in Moves
        /\ durable'[c] = durable[c] \/ <<durable[c], durable'[c]>> \in Moves

\* The step is somebody else's.
LeftAlone(t) == pc'[t] = pc[t] /\ io'[t] = io[t] /\ seen'[t] = seen[t]

LEMMA MovesForward ==
    /\ \A x, y : <<x, y>> \in Moves => x \notin Terminal /\ y # NoRow
    /\ \A y : <<"PENDING", y>> \in Moves => y \in Terminal
    /\ \A x, y, z : <<x, y>> \in Moves /\ <<y, z>> \in Moves => <<x, z>> \in Moves
    /\ \A x \in RowValues : x # NoRow /\ x # "PENDING" <=> x \in Terminal
    /\ \A x \in Terminal : x \in Allowed \/ x \in Refused
    /\ NoRow \notin Terminal
BY DEF Moves, Terminal, Statuses, Resolutions, Verdicts, NoRow, RowValues, Allowed, Refused

LEMMA Grown ==
    ASSUME RowsGrow, NEW c \in Calls
    PROVE  /\ row[c] # NoRow => row'[c] # NoRow
           /\ durable[c] # NoRow => durable'[c] # NoRow
           /\ row[c] \in Terminal => row'[c] = row[c]
           /\ durable[c] \in Terminal => durable'[c] = durable[c]
BY MovesForward DEF RowsGrow

LEMMA CallStable ==
    ASSUME TypeOK, RowsGrow, NEW c \in Calls, CallFacts(c), LeftAlone(c), timedOut \subseteq timedOut'
    PROVE  CallFacts(c)'
BY Grown DEF CallFacts, Past, LeftAlone

LEMMA DecisionStable ==
    ASSUME TypeOK, RowsGrow, NEW d \in Decisions, DecisionFacts(d), LeftAlone(d)
    PROVE  DecisionFacts(d)'
<1> DEFINE c == Target[d]
<1>1. c \in Calls
  BY DecisionsAssumption
<1> QED
  BY <1>1, Grown DEF DecisionFacts, Past, LeftAlone

\* Announcements and outcomes survive every step that adds neither.
LEMMA OutcomeStable ==
    ASSUME TypeOK, RowsGrow, OutcomeInv, announced' = announced, stale' \subseteq stale,
           \A c \in Calls : pc'[c] = pc[c] \/ pc'[c] \notin {"execute", "done", "refused"}
    PROVE  OutcomeInv'
<1>1. \A c \in Calls : durable[c] \in Terminal => durable'[c] = durable[c]
  BY Grown
<1>2. CallerObeysRecord'
  BY <1>1 DEF OutcomeInv, CallerObeysRecord, Allowed, Refused, Terminal, Statuses, Resolutions, Verdicts
<1>3. (\A a \in announced : a.status \in Terminal /\ durable[a.call] = a.status)'
  BY <1>1 DEF OutcomeInv, TypeOK
<1>4. (\A c \in stale : row[c] # NoRow)'
  <2>1. \A c \in Calls : row[c] # NoRow => row'[c] # NoRow
    BY Grown
  <2> QED
    BY <2>1 DEF OutcomeInv, TypeOK
<1> QED
  BY <1>2, <1>3, <1>4 DEF OutcomeInv

\* A step that leaves the tables alone keeps RowsInv and moves nothing back.
LEMMA RowsUnchanged ==
    ASSUME RowsInv, row' = row, durable' = durable
    PROVE  RowsInv' /\ RowsGrow
BY DEF RowsInv, RowsGrow

\* The rows a database operation leaves behind.
LEMMA DbThreadRows ==
    ASSUME TypeOK, RowsInv, DbThread
    PROVE  RowsInv' /\ RowsGrow
<1>1. dbq # <<>> /\ LoopTypeOK
  BY TypeOKSplit DEF DbThread, InsertRow, ResolveRow, Commit, SelectRow, SelectAll, Fetch, OperationIs
<1>2. Head(dbq) \in Operations
  BY <1>1, HeadTyped
<1>3. CASE InsertRow
  <2>1. row' = row \/ \E c \in Calls : /\ row[c] = NoRow
                                     /\ row' = [row EXCEPT ![c] = IF c \in Held THEN "PENDING" ELSE "AUTO_ALLOWED"]
    BY <1>2, <1>3 DEF InsertRow, OperationIs, Operations, CallOps, DecisionOps, PollOps
  <2>2. durable' = durable
    BY <1>3 DEF InsertRow
  <2>3. CASE row' = row
    BY <2>2, <2>3, RowsUnchanged
  <2>4. ASSUME NEW c \in Calls, row[c] = NoRow,
               row' = [row EXCEPT ![c] = IF c \in Held THEN "PENDING" ELSE "AUTO_ALLOWED"]
        PROVE  RowsInv' /\ RowsGrow
    BY <2>2, <2>4 DEF TypeOK, RowsInv, RowsGrow, Moves, NoRow, Statuses, Resolutions, Verdicts
  <2> QED
    BY <2>1, <2>3, <2>4
<1>4. CASE ResolveRow
  <2>1. row' = row \/ \E c \in Calls : \E s \in Resolutions :
                         row[c] = "PENDING" /\ row' = [row EXCEPT ![c] = s]
    <3>1. ActionOf(Head(dbq).task) \in Calls
      BY <1>2, <1>4, DecisionsAssumption, TasksAssumption
         DEF ResolveRow, OperationIs, Operations, CallOps, DecisionOps, PollOps, ActionOf
    <3>2. (IF Head(dbq).op = "expire" THEN "EXPIRED" ELSE Verdict[Head(dbq).task]) \in Resolutions
      BY <1>2, <1>4, DecisionsAssumption
         DEF ResolveRow, OperationIs, Operations, CallOps, DecisionOps, PollOps, Resolutions
    <3> QED
      BY <1>4, <3>1, <3>2 DEF ResolveRow, Cas
  <2>2. durable' = durable
    BY <1>4 DEF ResolveRow
  <2>3. CASE row' = row
    BY <2>2, <2>3, RowsUnchanged
  <2>4. ASSUME NEW c \in Calls, NEW s \in Resolutions, row[c] = "PENDING", row' = [row EXCEPT ![c] = s]
        PROVE  RowsInv' /\ RowsGrow
    BY <2>2, <2>4 DEF TypeOK, RowsInv, RowsGrow, Moves, NoRow, Statuses, Resolutions, Verdicts
  <2> QED
    BY <2>1, <2>3, <2>4
<1>5. CASE Commit
  BY <1>5 DEF Commit, RowsInv, RowsGrow
<1>6. CASE SelectRow \/ SelectAll \/ Fetch
  BY <1>6, RowsUnchanged DEF SelectRow, SelectAll, Fetch
<1> QED
  BY <1>3, <1>4, <1>5, <1>6 DEF DbThread

\* The database operation makes its own task's facts true, and no other's false.
LEMMA DbThreadInv ==
    ASSUME Inv, DbThread
    PROVE  Inv'
<1> DEFINE t == Head(dbq).task
<1>1. TypeOK /\ LoopTypeOK /\ dbq # <<>> /\ Complete
  BY TypeOKSplit DEF Inv, DbThread, InsertRow, ResolveRow, Commit, SelectRow, SelectAll, Fetch, OperationIs
<1>2. Head(dbq) \in Operations /\ t \in Tasks
  BY <1>1, HeadTyped
<1>3. TypeOK' /\ RowsInv' /\ RowsGrow
  BY DbThreadTyped, DbThreadRows DEF Inv
<1>4. pc' = pc /\ timedOut' = timedOut /\ announced' = announced /\ stale' = stale
  BY <1>1 DEF Complete, DbThread, InsertRow, ResolveRow, Commit, SelectRow, SelectAll, Fetch
<1>5. \A u \in Tasks : LeftAlone(u) \/ (u = t /\ Awaited)
  <2>1. \A u \in Tasks : io'[u] = io[u] \/ (u = t /\ Awaited)
    BY <1>1, <1>2 DEF Complete, TypeOK
  <2>2. \A u \in Tasks : seen'[u] = seen[u] \/ (u = t /\ Awaited)
    <3>1. seen' = seen \/ (Awaited /\ seen' = [seen EXCEPT ![t] = row[ActionOf(t)]])
      BY DEF DbThread, InsertRow, ResolveRow, Commit, SelectRow, SelectAll, Fetch
    <3> QED
      BY <1>1, <3>1 DEF TypeOK
  <2> QED
    BY <1>4, <2>1, <2>2 DEF LeftAlone
<1>6. ASSUME NEW c \in Calls, c = t, Awaited PROVE CallFacts(c)'
  <2>1. pc[c] = Head(dbq).op /\ io[c] = "queued" /\ pc'[c] = pc[c] /\ CallFacts(c)
    BY <1>4, <1>6 DEF Awaited, Inv, CallInv
  <2>2. pc[c] \in CallOps /\ c \notin Decisions
    BY <1>2, <1>6, <2>1, TasksAssumption DEF Operations
  <2>3. CASE pc[c] \in {"insert", "expire"}
    <3>1. row'[c] # NoRow /\ (pc[c] = "expire" => row'[c] \in Terminal)
      BY <1>1, <1>2, <1>6, <2>1, <2>2, <2>3
         DEF DbThread, InsertRow, ResolveRow, Commit, SelectRow, SelectAll, Fetch, OperationIs,
             Commits, RowSelects, Fetches, Cas, ActionOf, TypeOK, CallFacts, Past, RowValues,
             Terminal, Statuses, Resolutions, Verdicts, NoRow
    <3> QED
      BY <2>1, <2>3, <3>1, <1>4 DEF CallFacts, Past
  <2>4. CASE pc[c] \in {"insertCommit", "expireCommit"}
    <3>1. durable'[c] = row[c] /\ row'[c] = row[c]
      BY <2>1, <2>4 DEF DbThread, InsertRow, ResolveRow, Commit, SelectRow, SelectAll, Fetch,
             OperationIs, Commits, RowSelects, Fetches
    <3> QED
      BY <2>1, <2>4, <3>1, <1>4 DEF CallFacts, Past
  <2>5. CASE pc[c] \in {"read", "readFetch"}
    <3>1. durable' = durable /\ row' = row
      BY <2>1, <2>5 DEF DbThread, InsertRow, ResolveRow, Commit, SelectRow, SelectAll, Fetch,
             OperationIs, Commits, RowSelects, Fetches
    <3>2. durable[c] \in Terminal /\ durable[c] = row[c]
      BY <2>1, <2>5, MovesForward DEF CallFacts, Past, Inv, RowsInv
    <3>3. seen'[c] = durable[c]
      <4>1. CASE pc[c] = "read"
        BY <1>2, <1>6, <2>1, <2>2, <4>1, <3>2
           DEF DbThread, InsertRow, ResolveRow, Commit, SelectRow, SelectAll, Fetch,
               OperationIs, Commits, RowSelects, Fetches, ActionOf, TypeOK, Inv
      <4>2. CASE pc[c] = "readFetch"
        BY <2>1, <4>2 DEF DbThread, InsertRow, ResolveRow, Commit, SelectRow, SelectAll, Fetch,
               OperationIs, Commits, RowSelects, Fetches, CallFacts, Past
      <4> QED
        BY <2>5, <4>1, <4>2
    <3> QED
      BY <2>1, <2>5, <3>1, <3>2, <3>3, <1>4 DEF CallFacts, Past
  <2> QED
    BY <2>2, <2>3, <2>4, <2>5 DEF CallOps
<1>7. ASSUME NEW d \in Decisions, d = t, Awaited PROVE DecisionFacts(d)'
  <2> DEFINE c == Target[d]
  <2>1. pc[d] = Head(dbq).op /\ io[d] = "queued" /\ pc'[d] = pc[d] /\ DecisionFacts(d)
    BY <1>4, <1>7 DEF Awaited, Inv, DecisionInv
  <2>2. pc[d] \in DecisionOps /\ c \in Calls /\ ActionOf(d) = c
    BY <1>2, <1>7, <2>1, TasksAssumption, DecisionsAssumption DEF Operations, ActionOf
  <2>3. CASE pc[d] \in {"check", "checkFetch"}
    <3>1. row' = row
      BY <2>1, <2>3 DEF DbThread, InsertRow, ResolveRow, Commit, SelectRow, SelectAll, Fetch,
             OperationIs, Commits, RowSelects, Fetches
    <3>2. pc[d] = "check" => seen'[d] = row[c]
      BY <1>2, <1>7, <2>1, <2>2
         DEF DbThread, InsertRow, ResolveRow, Commit, SelectRow, SelectAll, Fetch,
             OperationIs, Commits, RowSelects, Fetches, TypeOK, Inv
    <3>3. pc[d] = "checkFetch" => seen'[d] = seen[d]
      BY <2>1 DEF DbThread, InsertRow, ResolveRow, Commit, SelectRow, SelectAll, Fetch,
             OperationIs, Commits, RowSelects, Fetches
    <3> QED
      BY <2>1, <2>3, <3>1, <3>2, <3>3 DEF DecisionFacts, Past
  <2>4. CASE pc[d] = "resolve"
    <3>1. row'[c] \in Terminal
      BY <1>1, <1>7, <2>1, <2>2, <2>4, DecisionsAssumption
         DEF DbThread, InsertRow, ResolveRow, Commit, SelectRow, SelectAll, Fetch, OperationIs,
             Commits, RowSelects, Fetches, Cas, TypeOK, DecisionFacts, RowValues,
             Terminal, Statuses, Resolutions, Verdicts, NoRow
    <3> QED
      BY <2>1, <2>4, <3>1, MovesForward DEF DecisionFacts, Past
  <2>5. CASE pc[d] = "resolveCommit"
    <3>1. durable'[c] = row[c] /\ row'[c] = row[c]
      BY <2>1, <2>5 DEF DbThread, InsertRow, ResolveRow, Commit, SelectRow, SelectAll, Fetch,
             OperationIs, Commits, RowSelects, Fetches
    <3> QED
      BY <2>1, <2>5, <3>1 DEF DecisionFacts, Past
  <2>6. CASE pc[d] \in {"reread", "rereadFetch"}
    <3>1. durable' = durable /\ row' = row
      BY <2>1, <2>6 DEF DbThread, InsertRow, ResolveRow, Commit, SelectRow, SelectAll, Fetch,
             OperationIs, Commits, RowSelects, Fetches
    <3>2. durable[c] \in Terminal /\ durable[c] = row[c]
      BY <2>1, <2>2, <2>6, MovesForward DEF DecisionFacts, Past, Inv, RowsInv
    <3>3. seen'[d] = durable[c]
      <4>1. CASE pc[d] = "reread"
        BY <1>2, <1>7, <2>1, <2>2, <4>1, <3>2
           DEF DbThread, InsertRow, ResolveRow, Commit, SelectRow, SelectAll, Fetch,
               OperationIs, Commits, RowSelects, Fetches, TypeOK, Inv
      <4>2. CASE pc[d] = "rereadFetch"
        BY <2>1, <4>2 DEF DbThread, InsertRow, ResolveRow, Commit, SelectRow, SelectAll, Fetch,
               OperationIs, Commits, RowSelects, Fetches, DecisionFacts, Past
      <4> QED
        BY <2>6, <4>1, <4>2
    <3> QED
      BY <2>1, <2>6, <3>1, <3>2, <3>3 DEF DecisionFacts, Past
  <2> QED
    BY <2>2, <2>3, <2>4, <2>5, <2>6 DEF DecisionOps
<1>8. CallInv' /\ DecisionInv'
  BY <1>1, <1>3, <1>4, <1>5, <1>6, <1>7, CallStable, DecisionStable
     DEF Inv, CallInv, DecisionInv, Tasks
<1>9. OutcomeInv'
  BY <1>1, <1>3, <1>4, OutcomeStable DEF Inv
<1> QED
  BY <1>3, <1>8, <1>9 DEF Inv

\* A segment of the loop: one task moves on, the tables stay.
LEMMA LoopSteps ==
    ASSUME TypeOK, NEW t \in Tasks, NEW op, NEW next,
           Continue(t, op, next) \/ Leave(t, op, next)
    PROVE  /\ pc[t] = op /\ io[t] = "returned"
           /\ pc'[t] = next /\ io'[t] # "returned"
           /\ \A u \in Tasks : u # t => pc'[u] = pc[u] /\ io'[u] = io[u]
BY DEF Continue, Leave, Runnable, Await, TypeOK

LEMMA SecondAwaitInv ==
    ASSUME Inv, NEW t \in Tasks, SecondAwait(t)
    PROVE  Inv'
<1>1. PICK op \in DOMAIN NextAwait : Continue(t, op, NextAwait[op])
  BY DEF SecondAwait
<1>2. /\ pc[t] = op /\ io[t] = "returned" /\ pc'[t] = NextAwait[op] /\ io'[t] # "returned"
      /\ \A u \in Tasks : u # t => LeftAlone(u)
  BY <1>1, LoopSteps DEF SecondAwait, LeftAlone, Inv
<1>3. TypeOK' /\ RowsInv' /\ RowsGrow /\ row' = row /\ durable' = durable /\ seen' = seen
  BY SecondAwaitTyped, RowsUnchanged DEF Inv, SecondAwait
<1>4. ASSUME NEW c \in Calls, c = t PROVE CallFacts(c)'
  <2>1. CallFacts(c) /\ pc[c] \in CallPlaces
    BY DEF Inv, CallInv, TypeOK, PlacesOf, Tasks
  <2> QED
    BY <1>1, <1>2, <1>3, <1>4, <2>1 DEF CallFacts, Past, NextAwait, CallPlaces, Suspended, CallOps
<1>5. ASSUME NEW d \in Decisions, d = t PROVE DecisionFacts(d)'
  <2>1. DecisionFacts(d) /\ pc[d] \in DecisionPlaces
    BY TasksAssumption DEF Inv, DecisionInv, TypeOK, PlacesOf, Tasks
  <2> QED
    BY <1>1, <1>2, <1>3, <1>5, <2>1 DEF DecisionFacts, Past, NextAwait, DecisionPlaces, DecisionOps
<1>6. CallInv' /\ DecisionInv'
  <2>1. timedOut' = timedOut
    BY DEF SecondAwait
  <2> QED
    BY <1>2, <1>3, <1>4, <1>5, <2>1, CallStable, DecisionStable DEF Inv, CallInv, DecisionInv, Tasks
<1>7. OutcomeInv'
  <2>1. \A c \in Calls : pc'[c] = pc[c] \/ pc'[c] \notin {"execute", "done", "refused"}
    BY <1>1, <1>2 DEF NextAwait, LeftAlone, Tasks
  <2> QED
    BY <1>3, <2>1, OutcomeStable DEF Inv, SecondAwait
<1> QED
  BY <1>3, <1>6, <1>7 DEF Inv

\* What a step of call c has to show: the facts of the other tasks follow.
LEMMA CallStep ==
    ASSUME Inv, TypeOK', NEW c \in Calls, RowsInv', RowsGrow, CallFacts(c)',
           timedOut \subseteq timedOut', \A u \in Tasks : u # c => LeftAlone(u)
    PROVE  CallInv' /\ DecisionInv'
BY CallStable, DecisionStable, TasksAssumption DEF Inv, CallInv, DecisionInv, Tasks

LEMMA CallInvStep ==
    ASSUME Inv, NEW c \in Calls,
           \/ Submit(c) \/ SubmitAllowed(c) \/ SubmitHeld(c) \/ HoldTimeout(c)
           \/ WaitDecided(c) \/ WaitExpired(c) \/ ExpiryStored(c) \/ WaitReturns(c)
           \/ Execute(c) \/ CancelCall(c)
    PROVE  Inv'
<1>1. TypeOK /\ TypeOK' /\ c \in Tasks
  BY CallTyped DEF Inv, Tasks
<1>2. row' = row /\ durable' = durable /\ seen' = seen /\ stale' = stale /\ timedOut \subseteq timedOut'
  BY DEF Submit, SubmitAllowed, SubmitHeld, HoldTimeout, WaitDecided, WaitExpired, ExpiryStored,
     WaitReturns, Execute, CancelCall
<1>3. RowsInv' /\ RowsGrow
  BY <1>2, RowsUnchanged DEF Inv
<1>4. CallFacts(c)
  BY DEF Inv, CallInv
<1>5. \A u \in Tasks : u # c => LeftAlone(u)
  <2>1. CASE Submit(c) \/ HoldTimeout(c) \/ Execute(c) \/ CancelCall(c)
    BY <1>1, <1>2, <2>1 DEF Submit, Start, Await, HoldTimeout, Execute, CancelCall, TypeOK, LeftAlone
  <2>2. CASE SubmitAllowed(c) \/ SubmitHeld(c) \/ WaitReturns(c)
    BY <1>1, <1>2, <2>2, LoopSteps DEF SubmitAllowed, SubmitHeld, WaitReturns, LeftAlone
  <2>3. CASE WaitDecided(c) \/ WaitExpired(c) \/ ExpiryStored(c)
    BY <1>1, <1>2, <2>3, LoopSteps DEF WaitDecided, WaitExpired, ExpiryStored, LeftAlone
  <2> QED
    BY <2>1, <2>2, <2>3
<1>6. CallFacts(c)' /\ ((announced' = announced /\ (pc'[c] = pc[c] \/ pc'[c] \notin {"execute", "done", "refused"})) \/ OutcomeInv')
  <2>1. CASE Submit(c) \/ CancelCall(c) \/ Execute(c)
    <3>1. pc'[c] \in {"insert", "cancelled", "done"} /\ (pc'[c] = "insert" => io'[c] = "queued")
      BY <1>1, <2>1 DEF Submit, Start, Await, CancelCall, Execute, TypeOK
    <3>2. CallFacts(c)'
      BY <3>1 DEF CallFacts, Past
    <3>3. CASE Execute(c)
      <4>1. CallerObeysRecord'
        BY <1>1, <1>2, <3>3 DEF Execute, CallerObeysRecord, Inv, OutcomeInv, TypeOK
      <4> QED
        BY <1>2, <3>2, <3>3, <4>1 DEF OutcomeInv, Inv, Execute
    <3>4. CASE Submit(c) \/ CancelCall(c)
      BY <1>1, <3>2, <3>4 DEF Submit, Start, Await, CancelCall, TypeOK
    <3> QED
      BY <2>1, <3>3, <3>4
  <2>2. CASE HoldTimeout(c)
    BY <1>1, <1>2, <1>4, <2>2 DEF HoldTimeout, CallFacts, Past
  <2>3. CASE SubmitAllowed(c)
    <3>1. pc[c] = "insertCommit" /\ io[c] = "returned" /\ pc'[c] = "execute"
      BY <1>1, <2>3, LoopSteps DEF SubmitAllowed
    <3>2. durable[c] = "AUTO_ALLOWED"
      <4>1. durable[c] # NoRow /\ c \notin Held /\ row[c] \in {NoRow, "AUTO_ALLOWED"}
        BY <1>4, <2>3, <3>1 DEF CallFacts, Past, SubmitAllowed, Inv, RowsInv
      <4>2. durable[c] = row[c] \/ <<durable[c], row[c]>> \in Moves
        BY DEF Inv, RowsInv
      <4> QED
        BY <4>1, <4>2 DEF Moves, NoRow, Statuses, Resolutions, Verdicts
    <3>3. CallFacts(c)'
      BY <3>1 DEF CallFacts, Past
    <3>4. CallerObeysRecord'
      BY <1>2, <1>5, <3>1, <3>2 DEF CallerObeysRecord, Inv, OutcomeInv, LeftAlone, Tasks, Allowed
    <3> QED
      BY <1>2, <2>3, <3>3, <3>4 DEF OutcomeInv, Inv, SubmitAllowed
  <2>4. CASE SubmitHeld(c) \/ WaitDecided(c) \/ WaitExpired(c) \/ ExpiryStored(c)
    <3>1. /\ announced' = announced /\ timedOut' = timedOut
          /\ io[c] = "returned" /\ io'[c] # "returned"
          /\ \/ pc[c] = "insertCommit" /\ pc'[c] = "wait"
             \/ pc[c] = "wait" /\ pc'[c] = "read" /\ c \notin timedOut
             \/ pc[c] = "wait" /\ pc'[c] = "expire"
             \/ pc[c] = "expireCommit" /\ pc'[c] = "read"
      BY <1>1, <2>4, LoopSteps DEF SubmitHeld, WaitDecided, WaitExpired, ExpiryStored
    <3> QED
      BY <1>2, <1>4, <3>1 DEF CallFacts, Past
  <2>5. CASE WaitReturns(c)
    <3>1. /\ pc[c] = "readFetch" /\ io[c] = "returned"
          /\ pc'[c] = (IF seen[c] \in Refused THEN "refused" ELSE "execute")
      BY <1>1, <2>5, LoopSteps DEF WaitReturns
    <3>2. seen[c] = durable[c] /\ durable[c] \in Terminal
      BY <1>4, <3>1 DEF CallFacts, Past
    <3>3. CallFacts(c)'
      BY <3>1 DEF CallFacts, Past
    <3>4. CallerObeysRecord'
      BY <1>2, <1>5, <3>1, <3>2, MovesForward DEF CallerObeysRecord, Inv, OutcomeInv, LeftAlone, Tasks
    <3>5. (\A a \in announced : a.status \in Terminal /\ durable[a.call] = a.status)'
      BY <1>2, <2>5, <3>2 DEF WaitReturns, Inv, OutcomeInv
    <3> QED
      BY <1>2, <3>3, <3>4, <3>5 DEF OutcomeInv, Inv
  <2> QED
    BY <2>1, <2>2, <2>3, <2>4, <2>5
<1>7. CallInv' /\ DecisionInv'
  BY <1>1, <1>2, <1>3, <1>5, <1>6, CallStep
<1>8. OutcomeInv'
  BY <1>1, <1>2, <1>3, <1>5, <1>6, OutcomeStable DEF Inv, LeftAlone, Tasks
<1> QED
  BY <1>1, <1>3, <1>7, <1>8 DEF Inv

LEMMA DecisionInvStep ==
    ASSUME Inv, NEW d \in Decisions,
           Decide(d) \/ DecideUnknown(d) \/ DecideResolves(d) \/ DecideWakes(d) \/ DecideReturns(d)
    PROVE  Inv'
<1> DEFINE c == Target[d]
<1>1. TypeOK /\ TypeOK' /\ d \in Tasks /\ d \notin Calls /\ c \in Calls /\ c \in Tasks
  BY DecisionTyped, TasksAssumption, DecisionsAssumption DEF Inv, Tasks
<1>2. row' = row /\ durable' = durable /\ seen' = seen /\ stale' = stale /\ timedOut' = timedOut
  BY DEF Decide, DecideUnknown, DecideResolves, DecideWakes, DecideReturns
<1>3. RowsInv' /\ RowsGrow
  BY <1>2, RowsUnchanged DEF Inv
<1>4. DecisionFacts(d)
  BY DEF Inv, DecisionInv
<1>5. /\ \A u \in Tasks : u # d => pc'[u] = pc[u] /\ seen'[u] = seen[u]
      /\ \A u \in Tasks : u # d => io'[u] = io[u] \/ (DecideWakes(d) /\ u = c /\ Blocked(c) /\ io'[c] = "returned")
  <2>1. CASE Decide(d)
    BY <1>1, <1>2, <2>1 DEF Decide, Start, Await, TypeOK
  <2>2. CASE DecideUnknown(d) \/ DecideReturns(d) \/ DecideResolves(d)
    BY <1>1, <1>2, <2>2, LoopSteps DEF DecideUnknown, DecideReturns, DecideResolves
  <2>3. CASE DecideWakes(d)
    BY <1>1, <1>2, <2>3 DEF DecideWakes, TypeOK
  <2> QED
    BY <2>1, <2>2, <2>3
<1>6. DecisionFacts(d)'
  <2>1. CASE Decide(d)
    <3>1. pc'[d] = "check" /\ io'[d] = "queued"
      BY <1>1, <2>1 DEF Decide, Start, Await, TypeOK
    <3> QED
      BY <3>1 DEF DecisionFacts, Past
  <2>2. CASE DecideUnknown(d) \/ DecideReturns(d)
    <3>1. pc'[d] \in {"notFound", "answered"}
      BY <1>1, <2>2, LoopSteps DEF DecideUnknown, DecideReturns
    <3> QED
      BY <3>1 DEF DecisionFacts, Past
  <2>3. CASE DecideResolves(d)
    <3>1. pc[d] = "checkFetch" /\ pc'[d] = "resolve" /\ io'[d] # "returned" /\ seen[d] # NoRow
      BY <1>1, <2>3, LoopSteps DEF DecideResolves
    <3> QED
      BY <1>2, <1>4, <3>1 DEF DecisionFacts, Past
  <2>4. CASE DecideWakes(d)
    <3>1. pc[d] = "resolveCommit" /\ io[d] = "returned" /\ pc'[d] = "reread" /\ io'[d] = "queued"
      BY <1>1, <2>4 DEF DecideWakes, Runnable, TypeOK
    <3> QED
      BY <1>2, <1>4, <3>1 DEF DecisionFacts, Past
  <2> QED
    BY <2>1, <2>2, <2>3, <2>4
<1>7. DecisionInv'
  <2>1. \A e \in Decisions : e # d => LeftAlone(e)
    BY <1>1, <1>5, TasksAssumption DEF LeftAlone, Tasks
  <2> QED
    BY <1>1, <1>3, <1>6, <2>1, DecisionStable DEF Inv, DecisionInv
<1>8. CallInv'
  <2>1. ASSUME NEW k \in Calls, LeftAlone(k) PROVE CallFacts(k)'
    BY <1>1, <1>2, <1>3, <2>1, CallStable DEF Inv, CallInv
  <2>2. ASSUME DecideWakes(d), Blocked(c), io'[c] = "returned" PROVE CallFacts(c)'
    <3>1. durable[c] \in Terminal
      BY <1>4, <2>2 DEF DecisionFacts, Past, DecideWakes, Runnable
    <3>2. pc'[c] = "wait" /\ CallFacts(c)
      BY <1>1, <1>5, <2>2 DEF Blocked, Inv, CallInv
    <3> QED
      BY <1>2, <2>2, <3>1, <3>2 DEF CallFacts, Past, Blocked
  <2>3. \A k \in Calls : LeftAlone(k) \/ (DecideWakes(d) /\ k = c /\ Blocked(c) /\ io'[c] = "returned")
    BY <1>1, <1>5 DEF LeftAlone, Tasks
  <2> QED
    BY <2>1, <2>2, <2>3 DEF CallInv
<1>9. OutcomeInv'
  <2>1. \A k \in Calls : pc'[k] = pc[k]
    BY <1>1, <1>5 DEF Tasks
  <2>2. CASE announced' = announced
    BY <1>1, <1>2, <1>3, <2>1, <2>2, OutcomeStable DEF Inv
  <2>3. CASE DecideReturns(d)
    <3>1. pc[d] = "rereadFetch"
      BY <1>1, <2>3, LoopSteps DEF DecideReturns
    <3>2. seen[d] = durable[c] /\ durable[c] \in Terminal
      BY <1>4, <3>1 DEF DecisionFacts, Past
    <3> QED
      BY <1>2, <2>1, <2>3, <3>2 DEF DecideReturns, Inv, OutcomeInv, CallerObeysRecord
  <2> QED
    BY <2>2, <2>3 DEF Decide, DecideUnknown, DecideResolves, DecideWakes
<1> QED
  BY <1>1, <1>3, <1>7, <1>8, <1>9 DEF Inv

\* Steps of polls and of the loop's bookkeeping leave calls and decisions alone.
LEMMA BystanderInv ==
    ASSUME Inv, TypeOK', row' = row, durable' = durable, timedOut' = timedOut,
           announced' = announced, stale' = stale,
           \A u \in Calls \cup Decisions : LeftAlone(u)
    PROVE  Inv'
<1>1. RowsInv' /\ RowsGrow
  BY RowsUnchanged DEF Inv
<1>2. CallInv' /\ DecisionInv'
  BY <1>1, CallStable, DecisionStable DEF Inv, CallInv, DecisionInv
<1>3. OutcomeInv'
  BY <1>1, OutcomeStable DEF Inv, LeftAlone
<1> QED
  BY <1>1, <1>2, <1>3 DEF Inv

LEMMA PollInv ==
    ASSUME Inv, NEW p \in Polls, Poll(p) \/ PollReturns(p)
    PROVE  Inv'
<1>1. TypeOK /\ TypeOK' /\ p \in Tasks /\ p \notin Calls \cup Decisions
  BY PollTyped, TasksAssumption DEF Inv, Tasks
<1>2. \A u \in Tasks : u # p => LeftAlone(u)
  <2>1. CASE Poll(p)
    BY <1>1, <2>1 DEF Poll, Start, Await, TypeOK, LeftAlone
  <2>2. CASE PollReturns(p)
    BY <1>1, <2>2, LoopSteps DEF PollReturns, LeftAlone
  <2> QED
    BY <2>1, <2>2
<1> QED
  BY <1>1, <1>2, BystanderInv DEF Poll, PollReturns, Tasks

LEMMA SkipInv ==
    ASSUME Inv, LoopSkips
    PROVE  Inv'
BY ProcessTyped, BystanderInv DEF Inv, LoopSkips, Skip, LeftAlone

LEMMA StartupInv ==
    ASSUME Inv, Startup
    PROVE  Inv'
<1>1. TypeOK /\ TypeOK'
  BY ProcessTyped DEF Inv
<1>2. (\A u \in Tasks : LeftAlone(u)) /\ timedOut' = timedOut
  BY DEF Startup, Boot, Serve, SweepExpires, SweepCommits, SweepAnnounces, LeftAlone, loopVars
<1>3. RowsInv' /\ RowsGrow
  <2>1. CASE row' = row /\ durable' = durable
    BY <2>1, RowsUnchanged DEF Inv
  <2>2. ASSUME NEW c \in Calls, SweepExpires(c) PROVE RowsInv' /\ RowsGrow
    <3>1. row[c] = "PENDING" /\ row' = [row EXCEPT ![c] = "EXPIRED"] /\ durable' = durable
      BY <2>2 DEF SweepExpires, Cas
    <3> QED
      BY <1>1, <3>1 DEF Inv, TypeOK, RowsInv, RowsGrow, Moves, NoRow, Statuses, Resolutions, Verdicts
  <2>3. CASE row' = row /\ durable' = row
    BY <2>3 DEF Inv, RowsInv, RowsGrow
  <2> QED
    BY <2>1, <2>2, <2>3 DEF Startup, Boot, Serve, SweepCommits, SweepAnnounces
<1>4. CallInv' /\ DecisionInv'
  BY <1>1, <1>2, <1>3, CallStable, DecisionStable DEF Inv, CallInv, DecisionInv, Tasks
<1>5. OutcomeInv'
  <2>1. CASE announced' = announced /\ stale' \subseteq stale
    BY <1>1, <1>2, <1>3, <2>1, OutcomeStable DEF Inv, LeftAlone, Tasks
  <2>2. CASE Boot
    BY <2>2 DEF Boot, Inv, OutcomeInv, CallerObeysRecord, NoRow, loopVars
  <2>3. ASSUME NEW c \in Calls, SweepAnnounces(c) PROVE OutcomeInv'
    <3>1. durable[c] = row[c] /\ row[c] \in Terminal
      BY <1>1, <2>3, MovesForward DEF SweepAnnounces, Inv, OutcomeInv, TypeOK
    <3> QED
      BY <2>3, <3>1 DEF SweepAnnounces, Inv, OutcomeInv, CallerObeysRecord, loopVars
  <2> QED
    BY <2>1, <2>2, <2>3 DEF Startup, Serve, SweepExpires, SweepCommits
<1> QED
  BY <1>1, <1>3, <1>4, <1>5 DEF Inv

LEMMA CrashInv ==
    ASSUME Inv, Crash
    PROVE  Inv'
<1>1. TypeOK /\ TypeOK'
  BY ProcessTyped DEF Inv
<1>2. RowsInv'
  BY DEF Inv, Crash, RowsInv, Moves, NoRow, Statuses, Resolutions, Verdicts
<1>3. \A t \in Tasks : pc'[t] \in Finished \cup {"idle"} /\ io'[t] = "none"
                       /\ (pc'[t] = pc[t] \/ pc'[t] = "lost")
  BY DEF Crash, Finished
<1>4. CallInv' /\ DecisionInv'
  BY <1>3 DEF CallInv, DecisionInv, CallFacts, DecisionFacts, Past, Finished, Tasks
<1>5. OutcomeInv'
  BY <1>3 DEF Inv, OutcomeInv, CallerObeysRecord, Crash, Tasks
<1> QED
  BY <1>1, <1>2, <1>4, <1>5 DEF Inv

LEMMA InitInv == Init => Inv
BY InitTyped DEF Init, Inv, RowsInv, CallInv, DecisionInv, CallFacts, DecisionFacts, Past,
   OutcomeInv, CallerObeysRecord, Tasks, NoRow

LEMMA NextInv == Inv /\ [Next]_vars => Inv'
<1> SUFFICES ASSUME Inv, [Next]_vars PROVE Inv'
  OBVIOUS
<1>1. CASE DbThread
  BY <1>1, DbThreadInv
<1>2. CASE LoopRuns
  <2>1. CASE LoopSkips
    BY <2>1, SkipInv DEF LoopSkips
  <2> QED
    BY <1>2, <2>1, SecondAwaitInv, CallInvStep, DecisionInvStep, PollInv DEF LoopRuns
<1>3. CASE Startup
  BY <1>3, StartupInv
<1>4. CASE Crash
  BY <1>4, CrashInv
<1>5. CASE Requests \/ \E c \in Calls : HoldTimeout(c) \/ Execute(c)
  BY <1>5, CallInvStep, DecisionInvStep, PollInv DEF Requests
<1>6. CASE UNCHANGED vars
  BY <1>6 DEF vars, loopVars, Inv, TypeOK, RowsInv, CallInv, DecisionInv, CallFacts,
     DecisionFacts, Past, OutcomeInv, CallerObeysRecord
<1> QED
  BY <1>1, <1>2, <1>3, <1>4, <1>5, <1>6 DEF Next

\* The inductive invariant: what every task knows about its row at each of its
\* awaits, from which the theorems below follow.
THEOREM InvHolds == Spec => []Inv
BY InitInv, NextInv, PTL DEF Spec

\* Whoever wins the race for a row, the agent is answered what the committed
\* record says: no tool runs on a denied or expired action, and no refused
\* call is on record as approved.
THEOREM CallersObeyTheRecord == Spec => []CallerObeysRecord
<1>1. Inv => CallerObeysRecord
  BY DEF Inv, OutcomeInv
<1> QED
  BY InvHolds, <1>1, PTL

\* Every "action.resolved" event states the committed status of its action.
THEOREM AnnouncementsAreRecorded == Spec => []AnnouncedIsRecorded
<1>1. Inv => AnnouncedIsRecorded
  BY DEF Inv, OutcomeInv, AnnouncedIsRecorded, Terminal, Statuses
<1> QED
  BY InvHolds, <1>1, PTL

-----------------------------------------------------------------------------
(* The committed record, and the refinement of ActionLifecycle.            *)

LEMMA DurableStep ==
    ASSUME Inv, Next, NEW c \in Calls
    PROVE  durable'[c] = durable[c] \/ <<durable[c], durable'[c]>> \in Moves
<1>1. durable' = durable \/ durable' = row
  BY DEF Next, DbThread, InsertRow, ResolveRow, Commit, SelectRow, SelectAll, Fetch, LoopRuns,
     LoopSkips, SecondAwait, SubmitAllowed, SubmitHeld, WaitDecided, WaitExpired, ExpiryStored,
     WaitReturns, DecideUnknown, DecideResolves, DecideWakes, DecideReturns, PollReturns, Startup,
     Boot, Serve, SweepExpires, SweepCommits, SweepAnnounces, Crash, Requests, Submit, CancelCall,
     Decide, Poll, HoldTimeout, Execute
<1> QED
  BY <1>1 DEF Inv, RowsInv

\* The committed record of an action never leaves its first terminal status.
THEOREM RecordsAreFinal == Spec => RecordIsFinal
<1>1. Inv /\ [Next]_vars => [\A c \in Calls : durable[c] \in Terminal => durable'[c] = durable[c]]_vars
  BY DurableStep, MovesForward
<1> QED
  BY InvHolds, <1>1, PTL DEF Spec, RecordIsFinal

\* A call runs its tool once: afterwards it is over.
ExecutedOnce == \A c \in executed : pc[c] = "done"

LEMMA DoneStays ==
    ASSUME TypeOK, Next, NEW c \in Calls, pc[c] = "done"
    PROVE  pc'[c] = "done"
<1>1. c \in Tasks /\ c \notin Decisions /\ c \notin Polls
  BY TasksAssumption DEF Tasks
<1>2. CASE DbThread
  BY <1>2 DEF DbThread, InsertRow, ResolveRow, Commit, SelectRow, SelectAll, Fetch, Complete
<1>3. ASSUME NEW t \in Tasks, SecondAwait(t) PROVE pc'[c] = "done"
  <2>1. PICK op \in DOMAIN NextAwait : Continue(t, op, NextAwait[op])
    BY <1>3 DEF SecondAwait
  <2>2. op # "done"
    BY <2>1 DEF NextAwait
  <2> QED
    BY <1>1, <2>1, <2>2, LoopSteps
<1>4. ASSUME NEW k \in Calls, SubmitAllowed(k) \/ SubmitHeld(k) \/ WaitReturns(k) PROVE pc'[c] = "done"
  <2>1. k \in Tasks
    BY DEF Tasks
  <2> QED
    BY <1>1, <1>4, <2>1, LoopSteps DEF SubmitAllowed, SubmitHeld, WaitReturns
<1>5. ASSUME NEW k \in Calls, WaitDecided(k) \/ WaitExpired(k) \/ ExpiryStored(k) PROVE pc'[c] = "done"
  <2>1. k \in Tasks
    BY DEF Tasks
  <2> QED
    BY <1>1, <1>5, <2>1, LoopSteps DEF WaitDecided, WaitExpired, ExpiryStored
<1>6. ASSUME NEW k \in Calls, Submit(k) \/ CancelCall(k) \/ HoldTimeout(k) \/ Execute(k)
      PROVE  pc'[c] = "done"
  BY <1>1, <1>6 DEF Submit, Start, Await, CancelCall, HoldTimeout, Execute, Suspended, CallOps, TypeOK
<1>7. ASSUME NEW d \in Decisions,
             Decide(d) \/ DecideUnknown(d) \/ DecideResolves(d) \/ DecideWakes(d) \/ DecideReturns(d)
      PROVE  pc'[c] = "done"
  <2>1. d \in Tasks /\ d # c
    BY <1>1 DEF Tasks
  <2>2. CASE Decide(d) \/ DecideWakes(d)
    BY <1>1, <2>1, <2>2 DEF Decide, Start, Await, DecideWakes, TypeOK
  <2>3. CASE DecideUnknown(d) \/ DecideResolves(d) \/ DecideReturns(d)
    BY <1>1, <2>1, <2>3, LoopSteps DEF DecideUnknown, DecideResolves, DecideReturns
  <2> QED
    BY <1>7, <2>2, <2>3
<1>8. ASSUME NEW p \in Polls, Poll(p) \/ PollReturns(p) PROVE pc'[c] = "done"
  <2>1. p \in Tasks /\ p # c
    BY <1>1 DEF Tasks
  <2> QED
    BY <1>1, <1>8, <2>1, LoopSteps DEF Poll, Start, Await, PollReturns, TypeOK
<1>9. CASE LoopSkips \/ Startup \/ Crash
  BY <1>1, <1>9 DEF LoopSkips, Skip, Startup, Boot, Serve, SweepExpires, SweepCommits,
     SweepAnnounces, Crash, Finished, loopVars
<1> QED
  BY <1>2, <1>3, <1>4, <1>5, <1>6, <1>7, <1>8, <1>9 DEF Next, LoopRuns, Requests

LEMMA ExecutedStep ==
    ASSUME Next
    PROVE  executed' = executed \/ \E c \in Calls : Execute(c)
BY DEF Next, DbThread, InsertRow, ResolveRow, Commit, SelectRow, SelectAll, Fetch, LoopRuns,
   LoopSkips, SecondAwait, SubmitAllowed, SubmitHeld, WaitDecided, WaitExpired, ExpiryStored,
   WaitReturns, DecideUnknown, DecideResolves, DecideWakes, DecideReturns, PollReturns, Startup,
   Boot, Serve, SweepExpires, SweepCommits, SweepAnnounces, Crash, Requests, Submit, CancelCall,
   Decide, Poll, HoldTimeout

LEMMA ExecutedOnceHolds == Spec => []ExecutedOnce
<1>1. Init => ExecutedOnce
  BY DEF Init, ExecutedOnce
<1>2. TypeOK /\ ExecutedOnce /\ [Next]_vars => ExecutedOnce'
  <2> SUFFICES ASSUME TypeOK, ExecutedOnce, [Next]_vars PROVE ExecutedOnce'
    OBVIOUS
  <2>1. CASE UNCHANGED vars
    BY <2>1 DEF vars, loopVars, ExecutedOnce
  <2>2. CASE Next
    <3>1. \A c \in executed : c \in Calls /\ pc'[c] = "done"
      BY <2>2, DoneStays DEF ExecutedOnce, TypeOK
    <3>2. ASSUME NEW c \in Calls, Execute(c) PROVE pc'[c] = "done" /\ executed' = executed \cup {c}
      BY <3>2 DEF Execute, TypeOK, Tasks
    <3> QED
      BY <2>2, <3>1, <3>2, ExecutedStep DEF ExecutedOnce
  <2> QED
    BY <2>1, <2>2
<1> QED
  BY <1>1, <1>2, Typing, PTL DEF Spec

LEMMA AnnouncedStep ==
    ASSUME Next
    PROVE  \/ announced' = announced
           \/ \E c \in Calls : WaitReturns(c) \/ SweepAnnounces(c)
           \/ \E d \in Decisions : DecideReturns(d)
BY DEF Next, DbThread, InsertRow, ResolveRow, Commit, SelectRow, SelectAll, Fetch, LoopRuns,
   LoopSkips, SecondAwait, SubmitAllowed, SubmitHeld, WaitDecided, WaitExpired, ExpiryStored,
   DecideUnknown, DecideResolves, DecideWakes, PollReturns, Startup,
   Boot, Serve, SweepExpires, SweepCommits, Crash, Requests, Submit, CancelCall,
   Decide, Poll, HoldTimeout, Execute

\* What Lifecycle calls told.
Told == {<<a.call, a.status>> : a \in announced}

\* A step that announces leaves everything else the gate promises alone.
LEMMA AnnounceImplements ==
    ASSUME NEW c \in Calls, NEW s, NEW b, durable[c] \in Terminal, s = durable[c],
           announced' = announced \/ announced' = announced \cup {[call |-> c, status |-> s, by |-> b]},
           durable' = durable, executed' = executed
    PROVE  Lifecycle!Announce(c) \/ UNCHANGED Lifecycle!vars
<1>1. Told' = Told \/ Told' = Told \cup {<<c, durable[c]>>}
  BY DEF Told
<1> QED
  BY <1>1 DEF Lifecycle!Announce, Lifecycle!vars, Told, Lifecycle!Terminal, Terminal,
     Lifecycle!Statuses, Statuses, Lifecycle!Resolutions, Resolutions, Lifecycle!Verdicts, Verdicts

LEMMA StepImplements ==
    ASSUME Inv, ExecutedOnce, Next
    PROVE  [Lifecycle!Next]_(Lifecycle!vars)
<1>1. CASE announced' # announced
  <2>1. ASSUME NEW c \in Calls, WaitReturns(c) PROVE Lifecycle!Announce(c) \/ UNCHANGED Lifecycle!vars
    <3>1. pc[c] = "readFetch"
      BY <2>1 DEF WaitReturns, Leave, Runnable
    <3>2. seen[c] = durable[c] /\ durable[c] \in Terminal
      BY <3>1 DEF Inv, CallInv, CallFacts, Past
    <3>3. /\ durable' = durable /\ executed' = executed
          /\ \/ announced' = announced
             \/ announced' = announced \cup {[call |-> c, status |-> seen[c], by |-> "timeout"]}
      BY <2>1 DEF WaitReturns
    <3> QED
      BY <3>2, <3>3, AnnounceImplements
  <2>2. ASSUME NEW d \in Decisions, DecideReturns(d)
        PROVE  Lifecycle!Announce(Target[d]) \/ UNCHANGED Lifecycle!vars
    <3>1. pc[d] = "rereadFetch" /\ Target[d] \in Calls
      BY <2>2, DecisionsAssumption DEF DecideReturns, Leave, Runnable
    <3>2. seen[d] = durable[Target[d]] /\ durable[Target[d]] \in Terminal
      BY <3>1 DEF Inv, DecisionInv, DecisionFacts, Past
    <3>3. /\ durable' = durable /\ executed' = executed
          /\ announced' = announced \cup {[call |-> Target[d], status |-> seen[d], by |-> "decide"]}
      BY <2>2 DEF DecideReturns
    <3> QED
      BY <3>1, <3>2, <3>3, AnnounceImplements
  <2>3. ASSUME NEW c \in Calls, SweepAnnounces(c) PROVE Lifecycle!Announce(c) \/ UNCHANGED Lifecycle!vars
    <3>1. durable[c] = row[c] /\ row[c] \in Terminal
      BY <2>3, MovesForward DEF SweepAnnounces, Inv, OutcomeInv, TypeOK
    <3>2. /\ durable' = durable /\ executed' = executed
          /\ announced' = announced \cup {[call |-> c, status |-> row[c], by |-> "sweep"]}
      BY <2>3 DEF SweepAnnounces
    <3> QED
      BY <3>1, <3>2, AnnounceImplements
  <2> QED
    BY <1>1, <2>1, <2>2, <2>3, AnnouncedStep, DecisionsAssumption DEF Lifecycle!Next
<1>2. CASE announced' = announced /\ executed' # executed
  <2>1. PICK c \in Calls : Execute(c)
    BY <1>2, ExecutedStep
  <2>2. c \notin executed /\ durable[c] \in Allowed
    BY <2>1 DEF ExecutedOnce, Execute, Inv, OutcomeInv, CallerObeysRecord
  <2>3. Lifecycle!Execute(c)
    BY <1>2, <2>1, <2>2 DEF Lifecycle!Execute, Execute, Lifecycle!Allowed, Allowed
  <2> QED
    BY <2>3 DEF Lifecycle!Next
<1>3. CASE announced' = announced /\ executed' = executed
  <2>1. Next => TypeOK'
    BY NextInv DEF Inv
  <2>2. durable' \in [Calls -> RowValues]
    BY <2>1 DEF TypeOK
  <2>3. \A c \in Calls : durable'[c] = durable[c] \/ <<durable[c], durable'[c]>> \in Moves
    BY DurableStep
  <2>4. Lifecycle!Persist
    BY <1>3, <2>2, <2>3 DEF Lifecycle!Persist, Lifecycle!RowValues, RowValues, Lifecycle!Moves, Moves,
       Lifecycle!Statuses, Statuses, Lifecycle!Resolutions, Resolutions, Lifecycle!Verdicts, Verdicts,
       Lifecycle!NoRow, NoRow
  <2> QED
    BY <2>4 DEF Lifecycle!Next
<1> QED
  BY <1>1, <1>2, <1>3

\* The approval manager implements the abstract gate: records only move
\* forward, tools run once and only as recorded, and announcements are true.
THEOREM ManagerImplementsLifecycle == Spec => ImplementsLifecycle
<1>1. Init => Lifecycle!Init
  BY DEF Init, Lifecycle!Init, Lifecycle!NoRow, NoRow
<1>2. Inv /\ ExecutedOnce /\ [Next]_vars => [Lifecycle!Next]_(Lifecycle!vars)
  <2>1. ASSUME UNCHANGED vars PROVE UNCHANGED Lifecycle!vars
    BY <2>1 DEF vars, Lifecycle!vars
  <2> QED
    BY <2>1, StepImplements
<1> QED
  BY <1>1, <1>2, InvHolds, ExecutedOnceHolds, PTL DEF Spec, ImplementsLifecycle, Lifecycle!Spec

-----------------------------------------------------------------------------
(* The inductive invariant behind NoHoldStranded: who is in which queue,    *)
(* in which order, and what each phase of the process leaves behind.       *)

\* The tasks in queue q, and whether c is in it before every place of p.
In(q, t) == \E i \in DOMAIN q : q[i] = t

Ahead(q, c, p) == \A j \in DOMAIN q : q[j] = p => \E i \in 1 .. j - 1 : q[i] = c

Distinct(q) == \A i, j \in DOMAIN q : q[i] = q[j] => i = j

\* Who issued the operations the database thread has still to run, in order.
Issuers == [i \in DOMAIN dbq |-> dbq[i].task]

AllOps == CallOps \cup DecisionOps \cup PollOps

\* A task is in the queue that its io names; only a cancelled call is found in a
\* queue without waiting there.
QueueFacts(t) ==
    /\ io[t] = "returned" => In(ready, t)
    /\ io[t] = "queued" => In(Issuers, t)
    /\ In(ready, t) => io[t] = "returned" \/ pc[t] = "cancelled"
    /\ In(Issuers, t) => io[t] = "queued" \/ pc[t] = "cancelled"
    /\ pc[t] \in {"idle", "cancelled"} => io[t] = "none"
    /\ pc[t] \in AllOps => io[t] # "none"

\* Every operation in the queue is the one its task hangs at.
OpsInv == \A i \in DOMAIN dbq : pc[dbq[i].task] \in {dbq[i].op, "cancelled"}

QueueInv ==
    /\ \A t \in Tasks : QueueFacts(t)
    /\ OpsInv
    /\ Distinct(ready) /\ Distinct(Issuers)

\* Nothing of an earlier process is left in the loop, and the sweep has every
\* PENDING row in its list until the process serves.
PhaseInv ==
    /\ phase # "serving" =>
            dbq = <<>> /\ ready = <<>> /\ \A t \in Tasks : pc[t] \in Finished \cup {"idle"}
    /\ phase = "starting" => \A c \in Calls : row[c] = "PENDING" => c \in stale
    /\ NoHoldSurvivesRestart

\* The places of a call whose Event does not exist yet.
Entering == {"idle", "insert", "insertCommit"}

\* A call that is entering has been shown to nobody, so nobody decides it.
EnteringInv ==
    /\ \A c \in Calls :
        /\ pc[c] = "idle" \/ (pc[c] = "insert" /\ io[c] # "returned") =>
                row[c] = NoRow /\ \A p \in Polls : c \notin listed[p]
        /\ pc[c] \in Entering => c \notin known
        /\ pc[c] \in Entering /\ c \in Held => row[c] \in {NoRow, "PENDING"}
    /\ \A d \in Decisions : pc[d] # "idle" => Target[d] \in known

\* A poll that has read the row of an entering call stays behind it: the call
\* comes to its Event before the poll comes to its second await's end.
OrderInv ==
    \A c \in Calls, p \in Polls : c \in listed[p] =>
        /\ pc[c] = "insert" =>
            /\ pc[p] \notin {"listFetch", "journal", "journalFetch"}
            /\ pc[p] = "list" => Ahead(ready, c, p)
        /\ pc[c] = "insertCommit" /\ io[c] = "queued" =>
            /\ ~Past(p, "listFetch", {"journal", "journalFetch"})
            /\ pc[p] = "listFetch" => Ahead(Issuers, c, p)
        /\ pc[c] = "insertCommit" /\ io[c] = "returned" =>
            /\ pc[p] \notin {"journal", "journalFetch"}
            /\ pc[p] = "listFetch" /\ io[p] = "returned" => Ahead(ready, c, p)

\* The Event of a call that waits is there while its row is undecided.
WaitInv ==
    /\ \A c \in Calls :
        pc[c] \in {"wait", "expire", "expireCommit"} /\ row[c] = "PENDING" => c \in events
    /\ NoLostWakeup

HoldInv == QueueInv /\ PhaseInv /\ EnteringInv /\ OrderInv /\ WaitInv

-----------------------------------------------------------------------------
(* Queues.                                                                 *)

LEMMA QueueShape ==
    ASSUME NEW S, NEW q \in Seq(S)
    PROVE  /\ DOMAIN q = 1 .. Len(q) /\ Len(q) \in Nat
           /\ \A x : \A i \in DOMAIN Append(q, x) :
                /\ Append(q, x)[i] = IF i = Len(q) + 1 THEN x ELSE q[i]
                /\ i # Len(q) + 1 => i \in DOMAIN q
           /\ \A x : DOMAIN Append(q, x) = 1 .. Len(q) + 1
           /\ q # <<>> =>
                /\ Len(q) > 0 /\ Head(q) = q[1]
                /\ DOMAIN Tail(q) = 1 .. Len(q) - 1
                /\ \A i \in 1 .. Len(q) - 1 : Tail(q)[i] = q[i + 1] /\ i + 1 \in DOMAIN q
OBVIOUS

\* A task is put at the end of a queue it is not in.
LEMMA QueueAppend ==
    ASSUME NEW S, NEW q \in Seq(S), NEW x
    PROVE  /\ \A t : In(Append(q, x), t) <=> In(q, t) \/ t = x
           /\ Distinct(q) /\ ~In(q, x) => Distinct(Append(q, x))
           /\ \A c, p : Ahead(q, c, p) /\ p # x => Ahead(Append(q, x), c, p)
           /\ \A c : In(q, c) /\ ~In(q, x) => Ahead(Append(q, x), c, x)
<1> DEFINE n == Len(q)
           a == Append(q, x)
<1>1. /\ n \in Nat /\ DOMAIN q = 1 .. n /\ DOMAIN a = 1 .. n + 1
      /\ a[n + 1] = x /\ \A i \in 1 .. n : a[i] = q[i]
  BY QueueShape
<1> HIDE DEF n, a
<1>2. \A t : In(a, t) <=> In(q, t) \/ t = x
  BY <1>1 DEF In
<1>3. Distinct(q) /\ ~In(q, x) => Distinct(a)
  BY <1>1 DEF In, Distinct
<1>4. ASSUME NEW c, NEW p, Ahead(q, c, p), p # x PROVE Ahead(a, c, p)
  BY <1>1, <1>4 DEF Ahead
<1>5. ASSUME NEW c, In(q, c), ~In(q, x) PROVE Ahead(a, c, x)
  BY <1>1, <1>5 DEF Ahead, In
<1> QED
  BY <1>2, <1>3, <1>4, <1>5 DEF a

\* The task at the head of a queue leaves it.
LEMMA QueueTail ==
    ASSUME NEW S, NEW q \in Seq(S), q # <<>>
    PROVE  /\ \A t : In(q, t) <=> t = Head(q) \/ In(Tail(q), t)
           /\ Distinct(q) => Distinct(Tail(q)) /\ ~In(Tail(q), Head(q))
           /\ \A c, p : Ahead(q, c, p) => Head(q) # p
           /\ \A c, p : Ahead(q, c, p) /\ Head(q) # c => Ahead(Tail(q), c, p)
<1> DEFINE n == Len(q)
           r == Tail(q)
<1>1. /\ n \in Nat /\ n > 0 /\ DOMAIN q = 1 .. n /\ DOMAIN r = 1 .. n - 1
      /\ Head(q) = q[1] /\ \A i \in 1 .. n - 1 : r[i] = q[i + 1]
  BY QueueShape
<1> HIDE DEF n, r
<1>2. ASSUME NEW t PROVE In(q, t) <=> t = Head(q) \/ In(r, t)
  <2>1. ASSUME NEW i \in DOMAIN q, q[i] = t PROVE t = Head(q) \/ In(r, t)
    <3>1. CASE i # 1
      <4>1. i - 1 \in DOMAIN r /\ r[i - 1] = t
        BY <1>1, <2>1, <3>1
      <4> QED
        BY <4>1 DEF In
    <3> QED
      BY <1>1, <2>1, <3>1
  <2>2. ASSUME NEW i \in DOMAIN r, r[i] = t PROVE In(q, t)
    <3>1. i + 1 \in DOMAIN q /\ q[i + 1] = t
      BY <1>1, <2>2
    <3> QED
      BY <3>1 DEF In
  <2>3. In(q, Head(q))
    BY <1>1 DEF In
  <2> QED
    BY <2>1, <2>2, <2>3 DEF In
<1>3. ASSUME Distinct(q) PROVE Distinct(r) /\ ~In(r, Head(q))
  <2>1. \A i \in DOMAIN r : i + 1 \in DOMAIN q /\ q[i + 1] = r[i] /\ i + 1 # 1
    BY <1>1
  <2>2. \A i, j \in DOMAIN r : i + 1 = j + 1 => i = j
    BY <1>1
  <2>3. 1 \in DOMAIN q
    BY <1>1
  <2> QED
    BY <1>1, <1>3, <2>1, <2>2, <2>3 DEF Distinct, In
<1>4. ASSUME NEW c, NEW p, Ahead(q, c, p) PROVE Head(q) # p
  BY <1>1, <1>4 DEF Ahead
<1>5. ASSUME NEW c, NEW p, Ahead(q, c, p), Head(q) # c PROVE Ahead(r, c, p)
  <2> SUFFICES ASSUME NEW j \in DOMAIN r, r[j] = p PROVE \E i \in 1 .. j - 1 : r[i] = c
    BY DEF Ahead
  <2>1. j + 1 \in DOMAIN q /\ q[j + 1] = p
    BY <1>1
  <2>2. PICK i \in 1 .. (j + 1) - 1 : q[i] = c
    BY <1>5, <2>1 DEF Ahead
  <2>3. i # 1 /\ i - 1 \in 1 .. j - 1 /\ i - 1 \in 1 .. n - 1
    BY <1>1, <1>5, <2>2
  <2>4. r[i - 1] = c
    BY <1>1, <2>2, <2>3
  <2> QED
    BY <2>3, <2>4
<1> QED
  BY <1>2, <1>3, <1>4, <1>5 DEF r

\* Issuers goes with the operations.
LEMMA IssuersMove ==
    ASSUME dbq \in Seq(Operations)
    PROVE  /\ Issuers \in Seq(Tasks)
           /\ \A t, op : dbq' = Append(dbq, [task |-> t, op |-> op]) => Issuers' = Append(Issuers, t)
           /\ dbq # <<>> => Issuers # <<>> /\ Head(Issuers) = Head(dbq).task
           /\ dbq # <<>> /\ dbq' = Tail(dbq) => Issuers' = Tail(Issuers)
           /\ dbq' = dbq => Issuers' = Issuers
<1>1. DOMAIN dbq = 1 .. Len(dbq) /\ Len(dbq) \in Nat /\ \A i \in DOMAIN dbq : dbq[i].task \in Tasks
  BY DEF Operations, Tasks
<1>2. Issuers \in Seq(Tasks) /\ Len(Issuers) = Len(dbq)
  BY <1>1 DEF Issuers
<1>3. ASSUME NEW t, NEW op, dbq' = Append(dbq, [task |-> t, op |-> op])
      PROVE  Issuers' = Append(Issuers, t)
  <2>1. DOMAIN dbq' = 1 .. Len(dbq) + 1
    BY <1>3, QueueShape
  <2>2. \A i \in 1 .. Len(dbq) + 1 : dbq'[i].task = IF i = Len(dbq) + 1 THEN t ELSE dbq[i].task
    BY <1>1, <1>3
  <2>3. Append(Issuers, t) = [i \in 1 .. Len(dbq) + 1 |-> IF i = Len(dbq) + 1 THEN t ELSE dbq[i].task]
    BY <1>1, <1>2 DEF Issuers
  <2> QED
    BY <2>1, <2>2, <2>3 DEF Issuers
<1>4. ASSUME dbq # <<>>
      PROVE  /\ Issuers # <<>> /\ Head(Issuers) = Head(dbq).task
             /\ dbq' = Tail(dbq) => Issuers' = Tail(Issuers)
  <2>1. Len(dbq) > 0
    BY <1>1, <1>4
  <2>2. Issuers # <<>> /\ Head(Issuers) = Head(dbq).task
    BY <1>1, <1>2, <2>1 DEF Issuers
  <2>3. ASSUME dbq' = Tail(dbq) PROVE Issuers' = Tail(Issuers)
    <3>1. Tail(Issuers) = [i \in 1 .. Len(dbq) - 1 |-> dbq[i + 1].task]
      BY <1>1, <1>2, <2>1 DEF Issuers
    <3>2. DOMAIN dbq' = 1 .. Len(dbq) - 1 /\ \A i \in 1 .. Len(dbq) - 1 : dbq'[i] = dbq[i + 1]
      BY <1>4, <2>1, <2>3, QueueShape
    <3> QED
      BY <3>1, <3>2 DEF Issuers
  <2> QED
    BY <2>2, <2>3
<1>5. dbq' = dbq => Issuers' = Issuers
  BY DEF Issuers
<1> QED
  BY <1>2, <1>3, <1>4, <1>5

-----------------------------------------------------------------------------
(* Who is in which queue.                                                  *)

LEMMA QueuesTyped ==
    ASSUME TypeOK
    PROVE  ready \in Seq(Tasks) /\ dbq \in Seq(Operations) /\ Issuers \in Seq(Tasks)
BY IssuersMove DEF TypeOK

\* The tasks that move are not in the database queue, unless they are cancelled.
LEMMA OpsStay ==
    ASSUME TypeOK, OpsInv,
           \A t \in Tasks : pc'[t] \in {pc[t], "cancelled"} \/ ~In(Issuers, t),
           dbq' = dbq \/ (dbq # <<>> /\ dbq' = Tail(dbq))
    PROVE  OpsInv'
<1>1. \A i \in DOMAIN dbq : dbq[i].task \in Tasks /\ In(Issuers, dbq[i].task)
  BY DEF TypeOK, Operations, Tasks, In, Issuers
<1>2. \A i \in DOMAIN dbq : pc'[dbq[i].task] \in {dbq[i].op, "cancelled"}
  BY <1>1 DEF OpsInv
<1>3. \A i \in DOMAIN dbq' : \E j \in DOMAIN dbq : dbq'[i] = dbq[j]
  <2>1. CASE dbq' = dbq
    BY <2>1
  <2>2. CASE dbq # <<>> /\ dbq' = Tail(dbq)
    <3>1. /\ DOMAIN dbq' = 1 .. Len(dbq) - 1
          /\ \A i \in 1 .. Len(dbq) - 1 : dbq'[i] = dbq[i + 1] /\ i + 1 \in DOMAIN dbq
      BY <2>2, QueuesTyped, QueueShape
    <3> QED
      BY <3>1
  <2> QED
    BY <2>1, <2>2
<1> QED
  BY <1>2, <1>3 DEF OpsInv

\* A task that is not in the database queue puts an operation there.
LEMMA OpsAwait ==
    ASSUME TypeOK, OpsInv, NEW t \in Tasks, NEW op, ~In(Issuers, t),
           \A u \in Tasks : u # t => pc'[u] = pc[u],
           pc'[t] = op, dbq' = Append(dbq, [task |-> t, op |-> op])
    PROVE  OpsInv'
<1>1. \A i \in DOMAIN dbq : dbq[i].task \in Tasks /\ In(Issuers, dbq[i].task)
  BY DEF TypeOK, Operations, Tasks, In, Issuers
<1>2. \A i \in DOMAIN dbq : pc'[dbq[i].task] \in {dbq[i].op, "cancelled"}
  BY <1>1 DEF OpsInv
<1>3. \A i \in DOMAIN dbq' : dbq'[i] = [task |-> t, op |-> op] \/ \E j \in DOMAIN dbq : dbq'[i] = dbq[j]
  BY QueueShape DEF TypeOK
<1> QED
  BY <1>2, <1>3 DEF OpsInv

\* A task that is new or at the head of the ready queue awaits an operation.
LEMMA AwaitQueue ==
    ASSUME TypeOK, QueueInv, NEW t \in Tasks, NEW op, op \notin {"idle", "cancelled"}, Await(t, op),
           pc[t] # "cancelled",
           \/ pc[t] = "idle" /\ ready' = ready
           \/ io[t] = "returned" /\ ready # <<>> /\ Head(ready) = t /\ ready' = Tail(ready)
    PROVE  QueueInv'
<1>1. /\ pc'[t] = op /\ io'[t] = "queued" /\ dbq' = Append(dbq, [task |-> t, op |-> op])
      /\ \A u \in Tasks : u # t => pc'[u] = pc[u] /\ io'[u] = io[u]
  BY DEF Await, TypeOK
<1>2. ready \in Seq(Tasks) /\ Issuers \in Seq(Tasks) /\ Issuers' = Append(Issuers, t)
  BY <1>1, QueuesTyped, IssuersMove
<1>3. io[t] # "queued" /\ ~In(Issuers, t)
  BY DEF QueueInv, QueueFacts
<1>4. /\ ~In(ready', t) /\ Distinct(ready')
      /\ \A u \in Tasks : u # t => (In(ready', u) <=> In(ready, u))
  <2>1. CASE pc[t] = "idle" /\ ready' = ready
    BY <2>1 DEF QueueInv, QueueFacts
  <2>2. CASE ready # <<>> /\ Head(ready) = t /\ ready' = Tail(ready)
    BY <1>2, <2>2, QueueTail DEF QueueInv
  <2> QED
    BY <2>1, <2>2
<1>5. /\ In(Issuers', t) /\ Distinct(Issuers')
      /\ \A u \in Tasks : u # t => (In(Issuers', u) <=> In(Issuers, u))
  BY <1>2, <1>3, QueueAppend DEF QueueInv
<1>6. \A u \in Tasks : QueueFacts(u)'
  BY <1>1, <1>4, <1>5 DEF QueueInv, QueueFacts
<1>7. OpsInv'
  BY <1>1, <1>3, OpsAwait DEF QueueInv
<1> QED
  BY <1>4, <1>5, <1>6, <1>7 DEF QueueInv

LEMMA LeaveQueue ==
    ASSUME TypeOK, QueueInv, NEW t \in Tasks, NEW op, NEW place, op # "cancelled",
           place \notin AllOps, Leave(t, op, place)
    PROVE  QueueInv'
<1>1. /\ pc[t] = op /\ io[t] = "returned" /\ pc'[t] = place /\ io'[t] = "none" /\ dbq' = dbq
      /\ ready # <<>> /\ Head(ready) = t /\ ready' = Tail(ready)
      /\ \A u \in Tasks : u # t => pc'[u] = pc[u] /\ io'[u] = io[u]
  BY DEF Leave, Runnable, TypeOK
<1>2. ready \in Seq(Tasks) /\ Issuers' = Issuers
  BY <1>1, QueuesTyped, IssuersMove
<1>3. ~In(Issuers, t)
  BY <1>1 DEF QueueInv, QueueFacts
<1>4. /\ ~In(ready', t) /\ Distinct(ready')
      /\ \A u \in Tasks : u # t => (In(ready', u) <=> In(ready, u))
  BY <1>1, <1>2, QueueTail DEF QueueInv
<1>5. \A u \in Tasks : QueueFacts(u)'
  BY <1>1, <1>2, <1>3, <1>4 DEF QueueInv, QueueFacts
<1>6. OpsInv'
  BY <1>1, <1>3, OpsStay DEF QueueInv
<1> QED
  BY <1>2, <1>4, <1>5, <1>6 DEF QueueInv

LEMMA CompleteQueue ==
    ASSUME TypeOK, QueueInv, dbq # <<>>, Complete
    PROVE  QueueInv'
<1> DEFINE t == Head(dbq).task
<1>1. /\ ready \in Seq(Tasks) /\ Issuers \in Seq(Tasks) /\ Issuers # <<>> /\ Head(Issuers) = t
      /\ Issuers' = Tail(Issuers) /\ dbq' = Tail(dbq) /\ pc' = pc
  BY QueuesTyped, IssuersMove DEF Complete
<1>2. t \in Tasks
  BY HeadTyped, TypeOKSplit
<1>3. /\ ~In(Issuers', t) /\ Distinct(Issuers') /\ In(Issuers, t)
      /\ \A u \in Tasks : u # t => (In(Issuers', u) <=> In(Issuers, u))
  BY <1>1, QueueTail DEF QueueInv
<1>4. OpsInv'
  BY <1>1, OpsStay DEF QueueInv
<1>5. CASE Awaited
  <2>1. /\ io[t] = "queued" /\ io'[t] = "returned" /\ ready' = Append(ready, t)
        /\ \A u \in Tasks : u # t => io'[u] = io[u]
    BY <1>2, <1>5 DEF Awaited, Complete, TypeOK
  <2>2. pc[t] # "cancelled"
    <3>1. Head(dbq) \in Operations
      BY HeadTyped, TypeOKSplit
    <3> QED
      BY <3>1, <1>5 DEF Awaited, Operations, CallOps, DecisionOps, PollOps
  <2>3. ~In(ready, t)
    BY <1>2, <2>1, <2>2 DEF QueueInv, QueueFacts
  <2>4. /\ In(ready', t) /\ Distinct(ready')
        /\ \A u \in Tasks : u # t => (In(ready', u) <=> In(ready, u))
    BY <1>1, <2>1, <2>3, QueueAppend DEF QueueInv
  <2>5. \A u \in Tasks : QueueFacts(u)'
    BY <1>1, <1>2, <1>3, <2>1, <2>2, <2>4 DEF QueueInv, QueueFacts
  <2> QED
    BY <1>3, <1>4, <2>4, <2>5 DEF QueueInv
<1>6. CASE ~Awaited
  <2>1. io' = io /\ ready' = ready
    BY <1>6 DEF Complete
  <2>2. io[t] # "queued"
    <3>1. pc[t] \in {Head(dbq).op, "cancelled"}
      <4>1. 1 \in DOMAIN dbq /\ Head(dbq) = dbq[1]
        BY QueuesTyped, QueueShape
      <4> QED
        BY <4>1 DEF QueueInv, OpsInv
    <3> QED
      BY <1>2, <1>6, <3>1 DEF Awaited, QueueInv, QueueFacts
  <2>3. \A u \in Tasks : QueueFacts(u)'
    BY <1>1, <1>3, <2>1, <2>2 DEF QueueInv, QueueFacts
  <2> QED
    BY <1>3, <1>4, <2>1, <2>3 DEF QueueInv
<1> QED
  BY <1>5, <1>6

LEMMA ContinueQueue ==
    ASSUME TypeOK, QueueInv, NEW t \in Tasks, NEW op, NEW next, Continue(t, op, next),
           op # "cancelled", next \notin {"idle", "cancelled"}
    PROVE  QueueInv'
BY AwaitQueue DEF Continue, Runnable

LEMMA StartQueue ==
    ASSUME TypeOK, QueueInv, NEW t \in Tasks, NEW op, pc[t] = "idle", Start(t, op),
           op \notin {"idle", "cancelled"}
    PROVE  QueueInv'
BY AwaitQueue DEF Start

\* A segment of the loop that waits for nothing else leaves the queues alone.
LEMMA SkipQueue ==
    ASSUME TypeOK, QueueInv, Skip
    PROVE  QueueInv'
<1>1. /\ ready # <<>> /\ ready \in Seq(Tasks) /\ ready' = Tail(ready) /\ io[Head(ready)] # "returned"
      /\ pc' = pc /\ io' = io /\ dbq' = dbq /\ Issuers' = Issuers
  BY QueuesTyped, IssuersMove DEF Skip
<1>2. Distinct(ready') /\ \A u \in Tasks : In(ready', u) <=> In(ready, u) /\ u # Head(ready)
  BY <1>1, QueueTail DEF QueueInv
<1>3. \A u \in Tasks : QueueFacts(u)'
  BY <1>1, <1>2 DEF QueueInv, QueueFacts
<1> QED
  BY <1>1, <1>2, <1>3 DEF QueueInv, OpsInv

\* A call that waits for a human or for its tool has no operation in the queue.
LEMMA NoOperation ==
    ASSUME TypeOK, OpsInv, NEW c \in Calls, pc[c] \in {"wait", "execute"}
    PROVE  ~In(Issuers, c)
<1>1. ASSUME NEW i \in DOMAIN dbq, dbq[i].task = c PROVE FALSE
  <2>1. dbq[i] \in Operations /\ pc[c] \in {dbq[i].op, "cancelled"}
    BY <1>1 DEF TypeOK, OpsInv
  <2>2. dbq[i].op \in CallOps
    BY <1>1, <2>1, TasksAssumption DEF Operations
  <2> QED
    BY <2>1, <2>2 DEF CallOps
<1> QED
  BY <1>1 DEF In, Issuers

LEMMA TimeoutQueue ==
    ASSUME TypeOK, QueueInv, NEW c \in Calls, HoldTimeout(c)
    PROVE  QueueInv'
<1>1. /\ c \in Tasks /\ pc[c] = "wait" /\ io'[c] = "returned" /\ pc' = pc /\ dbq' = dbq
      /\ ready' = IF io[c] = "none" THEN Append(ready, c) ELSE ready
      /\ \A u \in Tasks : u # c => io'[u] = io[u]
  BY DEF HoldTimeout, TypeOK, Tasks
<1>2. ready \in Seq(Tasks) /\ Issuers' = Issuers
  BY <1>1, QueuesTyped, IssuersMove
<1>3. ~In(Issuers, c)
  BY <1>1, NoOperation DEF QueueInv
<1>4. io[c] \in {"none", "returned"}
  BY <1>1, <1>3 DEF QueueInv, QueueFacts, TypeOK, IoStates
<1>5. /\ In(ready', c) /\ Distinct(ready')
      /\ \A u \in Tasks : u # c => (In(ready', u) <=> In(ready, u))
  <2>1. CASE io[c] = "none"
    <3>1. ~In(ready, c)
      BY <1>1, <2>1 DEF QueueInv, QueueFacts
    <3> QED
      BY <1>1, <1>2, <2>1, <3>1, QueueAppend DEF QueueInv
  <2>2. CASE io[c] = "returned"
    BY <1>1, <2>2 DEF QueueInv, QueueFacts
  <2> QED
    BY <1>4, <2>1, <2>2
<1>6. \A u \in Tasks : QueueFacts(u)'
  BY <1>1, <1>2, <1>3, <1>5 DEF QueueInv, QueueFacts
<1> QED
  BY <1>1, <1>2, <1>5, <1>6 DEF QueueInv, OpsInv

LEMMA WakeQueue ==
    ASSUME TypeOK, QueueInv, NEW d \in Decisions, DecideWakes(d)
    PROVE  QueueInv'
<1> DEFINE c == Target[d]
           wakes == c \in events /\ Blocked(c)
<1>1. d \in Tasks /\ c \in Tasks /\ c # d
  BY TasksAssumption, DecisionsAssumption DEF Tasks
<1>2. /\ pc[d] = "resolveCommit" /\ io[d] = "returned" /\ ready # <<>> /\ Head(ready) = d
      /\ pc'[d] = "reread" /\ io'[d] = "queued" /\ dbq' = Append(dbq, [task |-> d, op |-> "reread"])
      /\ ready' = IF wakes THEN Append(Tail(ready), c) ELSE Tail(ready)
      /\ io'[c] = IF wakes THEN "returned" ELSE io[c]
      /\ \A u \in Tasks : u # d => pc'[u] = pc[u] /\ (u # c => io'[u] = io[u])
  BY <1>1 DEF DecideWakes, Runnable, TypeOK
<1>3. ready \in Seq(Tasks) /\ Tail(ready) \in Seq(Tasks) /\ Issuers \in Seq(Tasks)
      /\ Issuers' = Append(Issuers, d)
  BY <1>2, QueuesTyped, IssuersMove
<1>4. ~In(Issuers, d)
  BY <1>1, <1>2 DEF QueueInv, QueueFacts
<1>5. /\ In(Issuers', d) /\ Distinct(Issuers')
      /\ \A u \in Tasks : u # d => (In(Issuers', u) <=> In(Issuers, u))
  BY <1>3, <1>4, QueueAppend DEF QueueInv
<1>6. /\ ~In(Tail(ready), d) /\ Distinct(Tail(ready))
      /\ \A u \in Tasks : u # d => (In(Tail(ready), u) <=> In(ready, u))
  BY <1>2, <1>3, QueueTail DEF QueueInv
<1>7. OpsInv'
  BY <1>1, <1>2, <1>4, OpsAwait DEF QueueInv
<1>8. CASE wakes
  <2>1. pc[c] = "wait" /\ io[c] = "none" /\ ~In(ready, c) /\ ~In(Issuers, c)
    BY <1>1, <1>8 DEF Blocked, QueueInv, QueueFacts
  <2>2. /\ In(ready', c) /\ Distinct(ready') /\ ~In(ready', d)
        /\ \A u \in Tasks : u # c /\ u # d => (In(ready', u) <=> In(ready, u))
    <3>1. ready' = Append(Tail(ready), c) /\ ~In(Tail(ready), c)
      BY <1>1, <1>2, <1>6, <1>8, <2>1
    <3>2. Distinct(ready') /\ \A u : In(ready', u) <=> In(Tail(ready), u) \/ u = c
      BY <1>3, <1>6, <3>1, QueueAppend
    <3> QED
      BY <1>1, <1>6, <3>2
  <2>3. \A u \in Tasks : QueueFacts(u)'
    BY <1>1, <1>2, <1>5, <1>8, <2>1, <2>2 DEF QueueInv, QueueFacts
  <2> QED
    BY <1>5, <1>7, <2>2, <2>3 DEF QueueInv
<1>9. CASE ~wakes
  <2>1. ready' = Tail(ready) /\ \A u \in Tasks : u # d => io'[u] = io[u]
    BY <1>2, <1>9
  <2>2. \A u \in Tasks : QueueFacts(u)'
    BY <1>1, <1>2, <1>5, <1>6, <2>1 DEF QueueInv, QueueFacts
  <2> QED
    BY <1>5, <1>6, <1>7, <2>1, <2>2 DEF QueueInv
<1> QED
  BY <1>8, <1>9

\* A tool runs, or a call is cancelled: it leaves its queue to others.
LEMMA EndQueue ==
    ASSUME TypeOK, QueueInv, NEW c \in Calls, Execute(c) \/ CancelCall(c)
    PROVE  QueueInv'
<1>1. /\ c \in Tasks /\ dbq' = dbq /\ ready' = ready
      /\ \A u \in Tasks : u # c => pc'[u] = pc[u] /\ io'[u] = io[u]
  BY DEF Execute, CancelCall, TypeOK, Tasks
<1>2. Issuers' = Issuers /\ Distinct(ready') /\ Distinct(Issuers')
  BY <1>1, QueuesTyped, IssuersMove DEF QueueInv
<1>3. CASE Execute(c)
  <2>1. pc[c] = "execute" /\ pc'[c] = "done" /\ io'[c] = io[c]
    BY <1>1, <1>3 DEF Execute, TypeOK
  <2>2. ~In(Issuers, c)
    BY <2>1, NoOperation DEF QueueInv
  <2>3. "done" \notin AllOps
    BY DEF AllOps, CallOps, DecisionOps, PollOps
  <2>4. \A u \in Tasks : QueueFacts(u)'
    BY <1>1, <1>2, <2>1, <2>2, <2>3 DEF QueueInv, QueueFacts
  <2> QED
    BY <1>1, <1>2, <2>2, <2>4, OpsStay DEF QueueInv
<1>4. CASE CancelCall(c)
  <2>1. pc'[c] = "cancelled" /\ io'[c] = "none"
    BY <1>1, <1>4 DEF CancelCall, TypeOK
  <2>2. "cancelled" \notin AllOps
    BY DEF AllOps, CallOps, DecisionOps, PollOps
  <2>3. \A u \in Tasks : QueueFacts(u)'
    BY <1>1, <1>2, <2>1, <2>2 DEF QueueInv, QueueFacts
  <2> QED
    BY <1>1, <1>2, <2>1, <2>3, OpsStay DEF QueueInv
<1> QED
  BY <1>3, <1>4

LEMMA CrashQueue ==
    ASSUME Crash
    PROVE  QueueInv'
<1>1. /\ ready' = <<>> /\ dbq' = <<>>
      /\ \A t \in Tasks : io'[t] = "none" /\ pc'[t] \in Finished \cup {"idle"}
  BY DEF Crash, Finished
<1>2. Issuers' = <<>> /\ (Finished \cup {"idle"}) \cap AllOps = {}
  BY <1>1 DEF Issuers, Finished, AllOps, CallOps, DecisionOps, PollOps
<1> QED
  BY <1>1, <1>2 DEF QueueInv, QueueFacts, OpsInv, Distinct, In

LEMMA QueueStep ==
    ASSUME TypeOK, QueueInv, [Next]_vars
    PROVE  QueueInv'
<1>1. /\ Calls \subseteq Tasks /\ Decisions \subseteq Tasks /\ Polls \subseteq Tasks
      /\ {"execute", "wait", "refused", "notFound", "answered"} \cap AllOps = {}
  BY DEF Tasks, AllOps, CallOps, DecisionOps, PollOps
<1>2. CASE DbThread
  <2>1. dbq # <<>> /\ Complete
    BY <1>2 DEF DbThread, InsertRow, ResolveRow, Commit, SelectRow, SelectAll, Fetch, OperationIs
  <2> QED
    BY <2>1, CompleteQueue
<1>3. CASE LoopRuns
  <2>1. ASSUME NEW t \in Tasks, SecondAwait(t) PROVE QueueInv'
    <3>1. PICK op \in DOMAIN NextAwait : Continue(t, op, NextAwait[op])
      BY <2>1 DEF SecondAwait
    <3>2. op # "cancelled" /\ NextAwait[op] \notin {"idle", "cancelled"}
      BY <3>1 DEF NextAwait
    <3> QED
      BY <3>1, <3>2, ContinueQueue
  <2>2. ASSUME NEW c \in Calls, SubmitAllowed(c) \/ SubmitHeld(c) \/ WaitReturns(c) PROVE QueueInv'
    BY <1>1, <2>2, LeaveQueue DEF SubmitAllowed, SubmitHeld, WaitReturns
  <2>3. ASSUME NEW c \in Calls, WaitDecided(c) \/ WaitExpired(c) \/ ExpiryStored(c) PROVE QueueInv'
    BY <1>1, <2>3, ContinueQueue DEF WaitDecided, WaitExpired, ExpiryStored
  <2>4. ASSUME NEW d \in Decisions, DecideUnknown(d) \/ DecideReturns(d) PROVE QueueInv'
    BY <1>1, <2>4, LeaveQueue DEF DecideUnknown, DecideReturns
  <2>5. ASSUME NEW d \in Decisions, DecideResolves(d) PROVE QueueInv'
    BY <1>1, <2>5, ContinueQueue DEF DecideResolves
  <2>6. ASSUME NEW p \in Polls, PollReturns(p) PROVE QueueInv'
    BY <1>1, <2>6, LeaveQueue DEF PollReturns
  <2> QED
    BY <1>3, <2>1, <2>2, <2>3, <2>4, <2>5, <2>6, SkipQueue, WakeQueue DEF LoopRuns, LoopSkips
<1>4. CASE Requests
  <2>1. ASSUME NEW c \in Calls, Submit(c) PROVE QueueInv'
    BY <1>1, <2>1, StartQueue DEF Submit
  <2>2. ASSUME NEW d \in Decisions, Decide(d) PROVE QueueInv'
    BY <1>1, <2>2, StartQueue DEF Decide
  <2>3. ASSUME NEW p \in Polls, Poll(p) PROVE QueueInv'
    BY <1>1, <2>3, StartQueue DEF Poll
  <2> QED
    BY <1>4, <2>1, <2>2, <2>3, EndQueue DEF Requests
<1>5. CASE Startup \/ UNCHANGED vars
  <2>1. UNCHANGED loopVars
    BY <1>5 DEF Startup, Boot, Serve, SweepExpires, SweepCommits, SweepAnnounces, vars
  <2> QED
    BY <2>1 DEF loopVars, QueueInv, QueueFacts, OpsInv, Issuers
<1> QED
  BY <1>2, <1>3, <1>4, <1>5, TimeoutQueue, EndQueue, CrashQueue DEF Next

-----------------------------------------------------------------------------
(* What one step does to one task, to the two queues and to one row.       *)

Bystander(u) == pc'[u] = pc[u] /\ io'[u] = io[u]

\* The database thread has run the operation task u waits for.
Completed(u) ==
    /\ DbThread /\ Complete /\ Awaited /\ dbq # <<>>
    /\ Head(dbq) = [task |-> u, op |-> pc[u]]
    /\ io[u] = "queued" /\ io'[u] = "returned" /\ pc' = pc
    /\ \A v \in Tasks : v # u => io'[v] = io[v]

CallActions(c) ==
    \/ Submit(c) \/ SubmitAllowed(c) \/ SubmitHeld(c) \/ HoldTimeout(c)
    \/ WaitDecided(c) \/ WaitExpired(c) \/ ExpiryStored(c) \/ WaitReturns(c)
    \/ Execute(c) \/ CancelCall(c)

DecisionActions(d) ==
    Decide(d) \/ DecideUnknown(d) \/ DecideResolves(d) \/ DecideWakes(d) \/ DecideReturns(d)

PollActions(p) == Poll(p) \/ PollReturns(p)

Woken(c) == \E d \in Decisions : DecideWakes(d) /\ Target[d] = c /\ c \in events /\ Blocked(c)

\* The operation at the head is its task's own, unless the task is cancelled.
LEMMA HeadWaits ==
    ASSUME TypeOK, QueueInv, dbq # <<>>
    PROVE  /\ Head(dbq).task \in Tasks /\ Head(dbq) \in Operations
           /\ Issuers \in Seq(Tasks) /\ Issuers # <<>> /\ Head(Issuers) = Head(dbq).task
           /\ In(Issuers, Head(dbq).task)
           /\ pc[Head(dbq).task] = "cancelled" \/ Awaited
           /\ ~Awaited => io[Head(dbq).task] = "none"
<1> DEFINE t == Head(dbq).task
<1>1. /\ t \in Tasks /\ Head(dbq) \in Operations
      /\ Issuers \in Seq(Tasks) /\ Issuers # <<>> /\ Head(Issuers) = t
  BY HeadTyped, TypeOKSplit, QueuesTyped, IssuersMove
<1>2. In(Issuers, t)
  BY <1>1, QueueTail
<1>3. pc[t] \in {Head(dbq).op, "cancelled"}
  <2>1. 1 \in DOMAIN dbq /\ Head(dbq) = dbq[1]
    BY QueuesTyped, QueueShape
  <2> QED
    BY <2>1 DEF QueueInv, OpsInv
<1> QED
  BY <1>1, <1>2, <1>3 DEF Awaited, QueueInv, QueueFacts

LEMMA DbThreadMoves ==
    ASSUME TypeOK, QueueInv, DbThread, NEW t \in Tasks
    PROVE  Bystander(t) \/ Completed(t)
<1>1. dbq # <<>> /\ Complete
  BY DEF DbThread, InsertRow, ResolveRow, Commit, SelectRow, SelectAll, Fetch, OperationIs
<1>2. /\ Head(dbq).task \in Tasks
      /\ Awaited => Head(dbq) = [task |-> Head(dbq).task, op |-> pc[Head(dbq).task]]
  BY <1>1, HeadWaits DEF Awaited, Operations
<1> QED
  BY <1>1, <1>2 DEF Bystander, Completed, Complete, Awaited, TypeOK

\* A step of one task is nobody else's, unless it wakes a waiter.
LEMMA TaskMoves ==
    ASSUME TypeOK, QueueInv, Next, ~Crash, NEW t \in Tasks
    PROVE  \/ Bystander(t) \/ Completed(t) \/ SecondAwait(t)
           \/ t \in Calls /\ (CallActions(t) \/ Woken(t))
           \/ t \in Decisions /\ DecisionActions(t)
           \/ t \in Polls /\ PollActions(t)
<1>1. /\ Calls \subseteq Tasks /\ Decisions \subseteq Tasks /\ Polls \subseteq Tasks
  BY DEF Tasks
<1>2. ASSUME NEW u \in Tasks, SecondAwait(u), u # t PROVE Bystander(t)
  BY <1>2, LoopSteps DEF SecondAwait, Bystander
<1>3. ASSUME NEW c \in Calls, CallActions(c), c # t PROVE Bystander(t)
  <2>1. CASE Submit(c) \/ HoldTimeout(c) \/ Execute(c) \/ CancelCall(c)
    BY <1>1, <1>3, <2>1 DEF Submit, Start, Await, HoldTimeout, Execute, CancelCall, TypeOK, Bystander
  <2>2. CASE SubmitAllowed(c) \/ SubmitHeld(c) \/ WaitReturns(c)
    BY <1>1, <1>3, <2>2, LoopSteps DEF SubmitAllowed, SubmitHeld, WaitReturns, Bystander
  <2>3. CASE WaitDecided(c) \/ WaitExpired(c) \/ ExpiryStored(c)
    BY <1>1, <1>3, <2>3, LoopSteps DEF WaitDecided, WaitExpired, ExpiryStored, Bystander
  <2> QED
    BY <1>3, <2>1, <2>2, <2>3 DEF CallActions
<1>4. ASSUME NEW d \in Decisions, DecisionActions(d), d # t
      PROVE  Bystander(t) \/ (t \in Calls /\ Woken(t))
  <2>1. CASE Decide(d)
    BY <1>1, <1>4, <2>1 DEF Decide, Start, Await, TypeOK, Bystander
  <2>2. CASE DecideUnknown(d) \/ DecideReturns(d) \/ DecideResolves(d)
    BY <1>1, <1>4, <2>2, LoopSteps DEF DecideUnknown, DecideReturns, DecideResolves, Bystander
  <2>3. CASE DecideWakes(d)
    <3>1. pc'[t] = pc[t]
      BY <1>1, <1>4, <2>3 DEF DecideWakes, TypeOK
    <3>2. io'[t] = io[t] \/ (t = Target[d] /\ t \in events /\ Blocked(t))
      BY <1>1, <1>4, <2>3 DEF DecideWakes, TypeOK
    <3> QED
      BY <2>3, <3>1, <3>2, DecisionsAssumption DEF Bystander, Woken
  <2> QED
    BY <1>4, <2>1, <2>2, <2>3 DEF DecisionActions
<1>5. ASSUME NEW p \in Polls, PollActions(p), p # t PROVE Bystander(t)
  <2>1. CASE Poll(p)
    BY <1>1, <1>5, <2>1 DEF Poll, Start, Await, TypeOK, Bystander
  <2>2. CASE PollReturns(p)
    BY <1>1, <1>5, <2>2, LoopSteps DEF PollReturns, Bystander
  <2> QED
    BY <1>5, <2>1, <2>2 DEF PollActions
<1>6. CASE LoopSkips \/ Startup
  BY <1>6 DEF LoopSkips, Skip, Startup, Boot, Serve, SweepExpires, SweepCommits, SweepAnnounces,
     loopVars, Bystander
<1>7. \/ DbThread \/ LoopSkips \/ Startup
      \/ \E u \in Tasks : SecondAwait(u)
      \/ \E c \in Calls : CallActions(c)
      \/ \E d \in Decisions : DecisionActions(d)
      \/ \E p \in Polls : PollActions(p)
  BY DEF Next, LoopRuns, Requests, CallActions, DecisionActions, PollActions
<1> QED
  BY <1>2, <1>3, <1>4, <1>5, <1>6, <1>7, DbThreadMoves

\* A task enters a queue when its io changes to that queue's, and leaves its
\* head when its io changes from it.
ReadyMoves ==
    \/ ready' = ready
    \/ \E x \in Tasks : io[x] # "returned" /\ io'[x] = "returned" /\ ready' = Append(ready, x)
    \/ /\ ready # <<>> /\ io'[Head(ready)] # "returned"
       /\ \/ ready' = Tail(ready)
          \/ \E x \in Tasks : /\ io[x] # "returned" /\ io'[x] = "returned"
                              /\ ready' = Append(Tail(ready), x)

IssuersMoves ==
    \/ Issuers' = Issuers
    \/ \E x \in Tasks : io[x] # "queued" /\ io'[x] = "queued" /\ Issuers' = Append(Issuers, x)
    \/ Issuers # <<>> /\ io'[Head(Issuers)] # "queued" /\ Issuers' = Tail(Issuers)

LEMMA SegmentMoves ==
    ASSUME TypeOK, NEW t \in Tasks, NEW op, NEW next, Continue(t, op, next) \/ Leave(t, op, next)
    PROVE  ReadyMoves /\ IssuersMoves
<1>1. ready # <<>> /\ Head(ready) = t /\ ready' = Tail(ready) /\ io[t] = "returned" /\ io'[t] # "returned"
  BY LoopSteps DEF Continue, Leave, Runnable
<1>2. CASE Leave(t, op, next)
  BY <1>1, <1>2, QueuesTyped, IssuersMove DEF Leave, ReadyMoves, IssuersMoves
<1>3. CASE Continue(t, op, next)
  <2>1. io'[t] = "queued" /\ Issuers' = Append(Issuers, t)
    BY <1>3, QueuesTyped, IssuersMove DEF Continue, Await, TypeOK
  <2> QED
    BY <1>1, <2>1 DEF ReadyMoves, IssuersMoves
<1> QED
  BY <1>2, <1>3

LEMMA StartMoves ==
    ASSUME TypeOK, QueueInv, NEW t \in Tasks, NEW op, pc[t] = "idle", Start(t, op)
    PROVE  ReadyMoves /\ IssuersMoves
<1>1. io[t] = "none"
  BY DEF QueueInv, QueueFacts
<1>2. io'[t] = "queued" /\ Issuers' = Append(Issuers, t) /\ ready' = ready
  BY QueuesTyped, IssuersMove DEF Start, Await, TypeOK
<1> QED
  BY <1>1, <1>2 DEF ReadyMoves, IssuersMoves

LEMMA QueueMoves ==
    ASSUME TypeOK, QueueInv, Next, ~Crash
    PROVE  ReadyMoves /\ IssuersMoves
<1>1. /\ Calls \subseteq Tasks /\ Decisions \subseteq Tasks /\ Polls \subseteq Tasks
  BY DEF Tasks
<1>2. CASE DbThread
  <2>1. dbq # <<>> /\ Complete
    BY <1>2 DEF DbThread, InsertRow, ResolveRow, Commit, SelectRow, SelectAll, Fetch, OperationIs
  <2> DEFINE t == Head(dbq).task
  <2>2. t \in Tasks /\ Issuers # <<>> /\ Head(Issuers) = t /\ (~Awaited => io[t] = "none")
    BY <2>1, HeadWaits
  <2>3. Issuers' = Tail(Issuers)
    BY <2>1, QueuesTyped, IssuersMove DEF Complete
  <2>4. CASE Awaited
    <3>1. io[t] = "queued" /\ io'[t] = "returned" /\ ready' = Append(ready, t)
      BY <2>1, <2>2, <2>4 DEF Complete, Awaited, TypeOK
    <3> QED
      BY <2>2, <2>3, <3>1 DEF ReadyMoves, IssuersMoves
  <2>5. CASE ~Awaited
    BY <2>1, <2>2, <2>3, <2>5 DEF Complete, ReadyMoves, IssuersMoves
  <2> QED
    BY <2>4, <2>5
<1>3. ASSUME NEW t \in Tasks, SecondAwait(t) PROVE ReadyMoves /\ IssuersMoves
  BY <1>3, SegmentMoves DEF SecondAwait
<1>4. ASSUME NEW c \in Calls, CallActions(c) PROVE ReadyMoves /\ IssuersMoves
  <2>1. CASE Submit(c)
    BY <1>1, <2>1, StartMoves DEF Submit
  <2>2. CASE SubmitAllowed(c) \/ SubmitHeld(c) \/ WaitReturns(c)
    BY <1>1, <2>2, SegmentMoves DEF SubmitAllowed, SubmitHeld, WaitReturns
  <2>3. CASE WaitDecided(c) \/ WaitExpired(c) \/ ExpiryStored(c)
    BY <1>1, <2>3, SegmentMoves DEF WaitDecided, WaitExpired, ExpiryStored
  <2>4. CASE Execute(c) \/ CancelCall(c)
    BY <2>4, QueuesTyped, IssuersMove DEF Execute, CancelCall, ReadyMoves, IssuersMoves
  <2>5. CASE HoldTimeout(c)
    <3>1. /\ Issuers' = Issuers /\ io'[c] = "returned"
          /\ ready' = IF io[c] = "none" THEN Append(ready, c) ELSE ready
      BY <1>1, <2>5, QueuesTyped, IssuersMove DEF HoldTimeout, TypeOK
    <3> QED
      BY <1>1, <3>1 DEF ReadyMoves, IssuersMoves
  <2> QED
    BY <1>4, <2>1, <2>2, <2>3, <2>4, <2>5 DEF CallActions
<1>5. ASSUME NEW d \in Decisions, DecisionActions(d) PROVE ReadyMoves /\ IssuersMoves
  <2>1. CASE Decide(d)
    BY <1>1, <2>1, StartMoves DEF Decide
  <2>2. CASE DecideUnknown(d) \/ DecideReturns(d) \/ DecideResolves(d)
    BY <1>1, <2>2, SegmentMoves DEF DecideUnknown, DecideReturns, DecideResolves
  <2>3. CASE DecideWakes(d)
    <3> DEFINE c == Target[d]
               wakes == c \in events /\ Blocked(c)
    <3>1. c \in Tasks /\ c # d /\ d \in Tasks
      BY <1>1, TasksAssumption, DecisionsAssumption
    <3>2. /\ ready # <<>> /\ Head(ready) = d /\ io[d] = "returned" /\ io'[d] = "queued"
          /\ Issuers' = Append(Issuers, d)
          /\ ready' = IF wakes THEN Append(Tail(ready), c) ELSE Tail(ready)
          /\ wakes => io[c] = "none" /\ io'[c] = "returned"
      BY <2>3, <3>1, QueuesTyped, IssuersMove DEF DecideWakes, Runnable, Blocked
    <3>3. IssuersMoves
      BY <3>1, <3>2 DEF IssuersMoves
    <3>4. ReadyMoves
      BY <3>1, <3>2 DEF ReadyMoves
    <3> QED
      BY <3>3, <3>4
  <2> QED
    BY <1>5, <2>1, <2>2, <2>3 DEF DecisionActions
<1>6. ASSUME NEW p \in Polls, PollActions(p) PROVE ReadyMoves /\ IssuersMoves
  <2>1. CASE Poll(p)
    BY <1>1, <2>1, StartMoves DEF Poll
  <2>2. CASE PollReturns(p)
    BY <1>1, <2>2, SegmentMoves DEF PollReturns
  <2> QED
    BY <1>6, <2>1, <2>2 DEF PollActions
<1>7. CASE LoopSkips
  BY <1>7, QueuesTyped, IssuersMove DEF LoopSkips, Skip, ReadyMoves, IssuersMoves
<1>8. CASE Startup
  BY <1>8, QueuesTyped, IssuersMove
     DEF Startup, Boot, Serve, SweepExpires, SweepCommits, SweepAnnounces, loopVars, ReadyMoves, IssuersMoves
<1> QED
  BY <1>2, <1>3, <1>4, <1>5, <1>6, <1>7, <1>8
     DEF Next, LoopRuns, Requests, CallActions, DecisionActions, PollActions

\* The order of two tasks in a queue stays while neither is moved.
LEMMA AheadStays ==
    ASSUME TypeOK, QueueInv, Next, ~Crash, NEW c, NEW p, Bystander(p)
    PROVE  /\ Ahead(ready, c, p) /\ io'[c] = "returned" => Ahead(ready', c, p)
           /\ Ahead(Issuers, c, p) /\ io'[c] = "queued" => Ahead(Issuers', c, p)
<1>1. ready \in Seq(Tasks) /\ Issuers \in Seq(Tasks)
  BY QueuesTyped
<1>2. ReadyMoves /\ IssuersMoves
  BY QueueMoves
<1>3. ASSUME Ahead(ready, c, p), io'[c] = "returned" PROVE Ahead(ready', c, p)
  <2>1. ASSUME NEW x \in Tasks, io[x] # io'[x], ready' = Append(ready, x) PROVE Ahead(ready', c, p)
    BY <1>1, <1>3, <2>1, QueueAppend DEF Bystander
  <2>2. ASSUME ready # <<>>, io'[Head(ready)] # "returned"
        PROVE  Tail(ready) \in Seq(Tasks) /\ Ahead(Tail(ready), c, p)
    BY <1>1, <1>3, <2>2, QueueTail
  <2>3. ASSUME NEW x \in Tasks, io[x] # io'[x], ready # <<>>, io'[Head(ready)] # "returned",
               ready' = Append(Tail(ready), x)
        PROVE  Ahead(ready', c, p)
    BY <2>2, <2>3, QueueAppend DEF Bystander
  <2> QED
    BY <1>2, <1>3, <2>1, <2>2, <2>3 DEF ReadyMoves
<1>4. ASSUME Ahead(Issuers, c, p), io'[c] = "queued" PROVE Ahead(Issuers', c, p)
  <2>1. ASSUME NEW x \in Tasks, io[x] # io'[x], Issuers' = Append(Issuers, x) PROVE Ahead(Issuers', c, p)
    BY <1>1, <1>4, <2>1, QueueAppend DEF Bystander
  <2>2. ASSUME Issuers # <<>>, io'[Head(Issuers)] # "queued" PROVE Ahead(Tail(Issuers), c, p)
    BY <1>1, <1>4, <2>2, QueueTail
  <2> QED
    BY <1>2, <1>4, <2>1, <2>2 DEF IssuersMoves
<1> QED
  BY <1>3, <1>4

-----------------------------------------------------------------------------
(* What one step does to one row, and to what was shown of it.             *)

RowInserted(c) ==
    /\ row[c] = NoRow /\ pc[c] \in {"insert", "cancelled"}
    /\ pc[c] = "insert" => io'[c] = "returned"
    /\ pc' = pc
    /\ c \in Held => row'[c] = "PENDING"

RowResolved(c) ==
    /\ row[c] = "PENDING" /\ row'[c] \in Resolutions
    /\ pc' = pc
    /\ \/ pc[c] \in {"expire", "cancelled"}
       \/ \E d \in Decisions : Target[d] = c /\ pc[d] = "resolve"
       \/ phase = "starting"

LEMMA RowMoves ==
    ASSUME TypeOK, QueueInv, Next, ~Crash, NEW c \in Calls
    PROVE  row'[c] = row[c] \/ RowInserted(c) \/ RowResolved(c)
<1> DEFINE t == Head(dbq).task
<1>1. CASE InsertRow
  <2>1. dbq # <<>> /\ Head(dbq).op = "insert" /\ Complete
    BY <1>1 DEF InsertRow, OperationIs
  <2>2. t \in Calls /\ (pc[t] = "cancelled" \/ Awaited) /\ t \in Tasks
    BY <2>1, HeadWaits DEF Operations, DecisionOps, PollOps
  <2>3. pc' = pc /\ (Awaited => pc[t] = "insert" /\ io'[t] = "returned")
    BY <2>1, <2>2 DEF Complete, Awaited, TypeOK
  <2>4. row'[c] = row[c] \/ (c = t /\ row[c] = NoRow /\ (c \in Held => row'[c] = "PENDING"))
    BY <1>1, <2>2 DEF InsertRow, TypeOK
  <2> QED
    BY <2>2, <2>3, <2>4 DEF RowInserted
<1>2. CASE ResolveRow
  <2>1. dbq # <<>> /\ Head(dbq).op \in {"expire", "resolve"} /\ Complete
    BY <1>2 DEF ResolveRow, OperationIs
  <2>2. Head(dbq) \in Operations /\ (pc[t] = "cancelled" \/ Awaited) /\ pc' = pc /\ t \in Tasks
    BY <2>1, HeadWaits DEF Complete
  <2>3. CASE Head(dbq).op = "expire"
    <3>1. t \in Calls /\ ActionOf(t) = t /\ pc[t] \in {"expire", "cancelled"}
      BY <2>2, <2>3, TasksAssumption DEF Operations, DecisionOps, PollOps, ActionOf, Awaited
    <3>2. row'[c] = row[c] \/ (c = t /\ row[c] = "PENDING" /\ row'[c] = "EXPIRED")
      BY <1>2, <2>3, <3>1 DEF ResolveRow, Cas, TypeOK
    <3> QED
      BY <2>2, <3>1, <3>2 DEF RowResolved, Resolutions
  <2>4. CASE Head(dbq).op = "resolve"
    <3>1. t \in Decisions
      BY <2>2, <2>4 DEF Operations, CallOps, PollOps
    <3>2. ActionOf(t) = Target[t] /\ Target[t] \in Calls /\ Verdict[t] \in Resolutions
      BY <3>1, DecisionsAssumption DEF ActionOf, Resolutions
    <3>3. pc[t] = "resolve"
      BY <2>2, <2>4, <3>1, TasksAssumption
         DEF Awaited, TypeOK, PlacesOf, DecisionPlaces, DecisionOps, Tasks
    <3>4. row'[c] = row[c] \/ (c = Target[t] /\ row[c] = "PENDING" /\ row'[c] = Verdict[t])
      BY <1>2, <2>4, <3>2 DEF ResolveRow, Cas, TypeOK
    <3> QED
      BY <2>2, <3>1, <3>2, <3>3, <3>4 DEF RowResolved
  <2> QED
    BY <2>1, <2>3, <2>4
<1>3. ASSUME NEW k \in Calls, SweepExpires(k) PROVE row'[c] = row[c] \/ RowResolved(c)
  BY <1>3 DEF SweepExpires, Cas, RowResolved, Resolutions, TypeOK, loopVars
<1>4. row' = row \/ InsertRow \/ ResolveRow \/ \E k \in Calls : SweepExpires(k)
  BY DEF Next, DbThread, Commit, SelectRow, SelectAll, Fetch, LoopRuns,
     LoopSkips, SecondAwait, SubmitAllowed, SubmitHeld, WaitDecided, WaitExpired, ExpiryStored,
     WaitReturns, DecideUnknown, DecideResolves, DecideWakes, DecideReturns, PollReturns, Startup,
     Boot, Serve, SweepCommits, SweepAnnounces, Requests, Submit, CancelCall,
     Decide, Poll, HoldTimeout, Execute
<1> QED
  BY <1>1, <1>2, <1>3, <1>4

\* Events are added by a call that begins to wait and removed for good reasons.
LEMMA EventMoves ==
    ASSUME TypeOK, Next, ~Crash, NEW c \in Calls
    PROVE  \/ c \in events => c \in events'
           \/ WaitDecided(c) \/ ExpiryStored(c) \/ CancelCall(c)
           \/ \E d \in Decisions : DecideWakes(d) /\ Target[d] = c
BY DEF Next, DbThread, InsertRow, ResolveRow, Commit, SelectRow, SelectAll, Fetch, LoopRuns,
   LoopSkips, SecondAwait, SubmitAllowed, SubmitHeld, WaitDecided, WaitExpired, ExpiryStored,
   WaitReturns, DecideUnknown, DecideResolves, DecideWakes, DecideReturns, PollReturns, Startup,
   Boot, Serve, SweepExpires, SweepCommits, SweepAnnounces, Requests, Submit, CancelCall,
   Decide, Poll, HoldTimeout, Execute

\* What operators have been shown only grows.
LEMMA KnownMoves ==
    ASSUME Next
    PROVE  \/ known' = known
           \/ \E c \in Calls : SubmitHeld(c) /\ known' = known \cup {c}
           \/ \E p \in Polls : PollReturns(p) /\ known' = known \cup listed[p]
BY DEF Next, DbThread, InsertRow, ResolveRow, Commit, SelectRow, SelectAll, Fetch, LoopRuns,
   LoopSkips, SecondAwait, SubmitAllowed, SubmitHeld, WaitDecided, WaitExpired, ExpiryStored,
   WaitReturns, DecideUnknown, DecideResolves, DecideWakes, DecideReturns, PollReturns, Startup,
   Boot, Serve, SweepExpires, SweepCommits, SweepAnnounces, Crash, Requests, Submit, CancelCall,
   Decide, Poll, HoldTimeout, Execute

\* A poll's list is what the table holds when its SELECT is run.
LEMMA ListedMoves ==
    ASSUME TypeOK, QueueInv, Next, NEW p \in Polls
    PROVE  \/ listed'[p] = listed[p]
           \/ /\ Completed(p) /\ pc[p] = "list" /\ row' = row
              /\ listed'[p] = {c \in Calls : row[c] # NoRow}
<1>1. CASE SelectAll
  <2> DEFINE t == Head(dbq).task
  <2>1. dbq # <<>> /\ Head(dbq).op = "list" /\ DbThread
    BY <1>1 DEF SelectAll, OperationIs, DbThread
  <2>2. t \in Polls /\ t \in Tasks /\ (pc[t] = "cancelled" \/ Awaited)
    BY <2>1, HeadWaits DEF Operations, CallOps, DecisionOps
  <2>3. pc[t] # "cancelled"
    BY <2>2, TasksAssumption DEF TypeOK, PlacesOf, PollPlaces, PollOps, Tasks
  <2>4. pc[t] = "list" /\ io[t] = "queued" /\ io'[t] = "returned"
    BY <1>1, <2>1, <2>2, <2>3 DEF SelectAll, Complete, Awaited, TypeOK
  <2>5. Completed(t)
    BY <2>1, <2>2, <2>4, DbThreadMoves DEF Bystander
  <2>6. listed'[p] = listed[p] \/ (p = t /\ listed'[p] = {c \in Calls : row[c] # NoRow})
    BY <1>1, <2>2 DEF SelectAll, TypeOK
  <2> QED
    BY <1>1, <2>4, <2>5, <2>6 DEF SelectAll
<1>2. listed' = listed \/ SelectAll
  BY DEF Next, DbThread, InsertRow, ResolveRow, Commit, SelectRow, SelectAll, Fetch, LoopRuns,
     LoopSkips, SecondAwait, SubmitAllowed, SubmitHeld, WaitDecided, WaitExpired, ExpiryStored,
     WaitReturns, DecideUnknown, DecideResolves, DecideWakes, DecideReturns, PollReturns, Startup,
     Boot, Serve, SweepExpires, SweepCommits, SweepAnnounces, Crash, Requests, Submit, CancelCall,
     Decide, Poll, HoldTimeout, Execute
<1> QED
  BY <1>1, <1>2

-----------------------------------------------------------------------------
(* The phases of the process.                                              *)

\* Before the process serves, nothing moves but its startup.
LEMMA DownStep ==
    ASSUME TypeOK, PhaseInv, Next, phase # "serving"
    PROVE  Startup \/ Crash
<1>1. dbq = <<>> /\ ready = <<>> /\ \A t \in Tasks : pc[t] \in Finished \cup {"idle"}
  BY DEF PhaseInv
<1>2. ~DbThread
  BY <1>1 DEF DbThread, InsertRow, ResolveRow, Commit, SelectRow, SelectAll, Fetch, OperationIs
<1>3. ~LoopRuns
  BY <1>1 DEF LoopRuns, LoopSkips, Skip, SecondAwait, SubmitAllowed, SubmitHeld, WaitDecided,
     WaitExpired, ExpiryStored, WaitReturns, DecideUnknown, DecideResolves, DecideWakes,
     DecideReturns, PollReturns, Continue, Leave, Runnable
<1>4. ~Requests /\ \A c \in Calls : ~HoldTimeout(c) /\ ~Execute(c)
  BY <1>1 DEF Requests, Submit, CancelCall, Decide, Poll, HoldTimeout, Execute, Finished, Tasks
<1> QED
  BY <1>2, <1>3, <1>4 DEF Next

LEMMA PhaseStep ==
    ASSUME TypeOK, QueueInv, PhaseInv, [Next]_vars
    PROVE  PhaseInv'
<1>1. CASE UNCHANGED vars
  BY <1>1 DEF vars, loopVars, PhaseInv, NoHoldSurvivesRestart
<1>2. CASE Crash
  BY <1>2 DEF Crash, PhaseInv, NoHoldSurvivesRestart, Finished
<1>3. CASE Startup
  <2>1. UNCHANGED loopVars /\ phase # "serving"
    BY <1>3 DEF Startup, Boot, Serve, SweepExpires, SweepCommits, SweepAnnounces
  <2>2. dbq' = <<>> /\ ready' = <<>> /\ \A t \in Tasks : pc'[t] \in Finished \cup {"idle"}
    BY <2>1 DEF PhaseInv, loopVars
  <2>3. CASE Boot
    BY <2>2, <2>3 DEF Boot, PhaseInv, NoHoldSurvivesRestart, loopVars
  <2>4. CASE Serve
    BY <2>2, <2>4 DEF Serve, PhaseInv, NoHoldSurvivesRestart, loopVars
  <2>5. ASSUME NEW c \in Calls, SweepExpires(c) \/ SweepCommits(c) \/ SweepAnnounces(c)
        PROVE  PhaseInv'
    <3>1. phase = "starting" /\ phase' = "starting"
      BY <2>5 DEF SweepExpires, SweepCommits, SweepAnnounces
    <3>2. \A k \in Calls : row'[k] = "PENDING" => k \in stale'
      BY <2>5, <3>1 DEF SweepExpires, SweepCommits, SweepAnnounces, Cas, PhaseInv, TypeOK
    <3>3. NoHoldSurvivesRestart'
      BY <3>1 DEF NoHoldSurvivesRestart
    <3> QED
      BY <2>2, <3>2, <3>3 DEF PhaseInv
  <2> QED
    BY <1>3, <2>3, <2>4, <2>5 DEF Startup
<1>4. CASE Next /\ ~Crash /\ ~Startup
  <2>1. phase = "serving"
    BY <1>4, DownStep
  <2>2. phase' = "serving"
    BY <1>4, <2>1 DEF Next, DbThread, InsertRow, ResolveRow, Commit, SelectRow, SelectAll, Fetch,
       LoopRuns, LoopSkips, SecondAwait, SubmitAllowed, SubmitHeld, WaitDecided, WaitExpired,
       ExpiryStored, WaitReturns, DecideUnknown, DecideResolves, DecideWakes, DecideReturns,
       PollReturns, Requests, Submit, CancelCall, Decide, Poll, HoldTimeout, Execute
  <2>3. ASSUME NEW c \in Calls, pc'[c] = "lost" PROVE row'[c] # "PENDING"
    <3>1. c \in Tasks /\ c \notin Decisions /\ c \notin Polls
      BY TasksAssumption DEF Tasks
    <3>2. pc[c] = "lost"
      <4>1. CASE SecondAwait(c)
        <5>1. PICK op \in DOMAIN NextAwait : Continue(c, op, NextAwait[op])
          BY <4>1 DEF SecondAwait
        <5>2. NextAwait[op] # "lost"
          BY <5>1 DEF NextAwait
        <5> QED
          BY <2>3, <3>1, <5>1, <5>2, LoopSteps
      <4>2. CASE CallActions(c)
        BY <2>3, <3>1, <4>2, LoopSteps DEF CallActions, Submit, Start, Await, SubmitAllowed, SubmitHeld,
           HoldTimeout, WaitDecided, WaitExpired, ExpiryStored, WaitReturns, Execute, CancelCall, TypeOK
      <4>3. CASE Bystander(c) \/ Completed(c) \/ Woken(c)
        BY <2>3, <3>1, <4>3 DEF Bystander, Completed, Woken, DecideWakes, TypeOK, Blocked
      <4> QED
        BY <1>4, <3>1, <4>1, <4>2, <4>3, TaskMoves
    <3>3. row[c] # "PENDING"
      BY <2>1, <3>2 DEF PhaseInv, NoHoldSurvivesRestart
    <3> QED
      BY <1>4, <3>2, <3>3, RowMoves DEF RowInserted, RowResolved
  <2> QED
    BY <2>2, <2>3 DEF PhaseInv, NoHoldSurvivesRestart
<1> QED
  BY <1>1, <1>2, <1>3, <1>4

-----------------------------------------------------------------------------
(* Calls that are entering.                                                *)

\* How a call enters: nobody comes back to these places.
LEMMA EnteringMoves ==
    ASSUME TypeOK, QueueInv, Next, ~Crash, NEW c \in Calls, pc'[c] \in Entering
    PROVE  \/ Bystander(c)
           \/ Completed(c) /\ pc[c] \in {"insert", "insertCommit"}
           \/ Submit(c) /\ pc[c] = "idle" /\ pc'[c] = "insert" /\ io'[c] = "queued"
           \/ /\ SecondAwait(c) /\ pc[c] = "insert" /\ io[c] = "returned"
              /\ pc'[c] = "insertCommit" /\ io'[c] = "queued"
<1>1. c \in Tasks /\ c \notin Decisions /\ c \notin Polls
  BY TasksAssumption DEF Tasks
<1>2. CASE SecondAwait(c)
  <2>1. PICK op \in DOMAIN NextAwait : Continue(c, op, NextAwait[op])
    BY <1>2 DEF SecondAwait
  <2>2. pc[c] = op /\ io[c] = "returned" /\ pc'[c] = NextAwait[op] /\ io'[c] = "queued"
    BY <1>1, <2>1, LoopSteps DEF Continue, Await, TypeOK
  <2> QED
    BY <1>2, <2>2 DEF NextAwait, Entering
<1>3. CASE CallActions(c)
  <2>1. CASE Submit(c)
    BY <1>1, <2>1 DEF Submit, Start, Await, TypeOK
  <2>2. CASE SubmitAllowed(c) \/ SubmitHeld(c) \/ WaitReturns(c)
             \/ WaitDecided(c) \/ WaitExpired(c) \/ ExpiryStored(c)
    BY <1>1, <2>2, LoopSteps DEF SubmitAllowed, SubmitHeld, WaitReturns, WaitDecided, WaitExpired,
       ExpiryStored, Entering
  <2>3. CASE HoldTimeout(c) \/ Execute(c) \/ CancelCall(c)
    BY <1>1, <2>3 DEF HoldTimeout, Execute, CancelCall, TypeOK, Entering
  <2> QED
    BY <1>3, <2>1, <2>2, <2>3 DEF CallActions
<1>4. CASE Completed(c) \/ Woken(c)
  <2>1. pc'[c] = pc[c] /\ (Completed(c) => io[c] = "queued") /\ (Woken(c) => pc[c] = "wait")
    BY <1>1, <1>4 DEF Completed, Woken, DecideWakes, Blocked, TypeOK
  <2> QED
    BY <1>1, <1>4, <2>1 DEF Entering, QueueInv, QueueFacts
<1> QED
  BY <1>1, <1>2, <1>3, <1>4, TaskMoves

LEMMA EnteringCrash ==
    ASSUME TypeOK, RowsInv, EnteringInv, Crash
    PROVE  EnteringInv'
<1>1. /\ \A t \in Tasks : pc'[t] = pc[t] \/ pc'[t] = "lost"
      /\ \A t \in Tasks : pc'[t] \in Finished \cup {"idle"}
      /\ row' = durable /\ listed' = listed /\ known' = known
  BY DEF Crash, Finished
<1>2. ASSUME NEW c \in Calls, pc'[c] \in Entering
      PROVE  pc[c] = "idle" /\ row'[c] = NoRow
  <2>1. pc[c] = "idle"
    BY <1>1, <1>2 DEF Entering, Finished, Tasks
  <2>2. row[c] = NoRow /\ (durable[c] = row[c] \/ <<durable[c], row[c]>> \in Moves)
    BY <2>1 DEF EnteringInv, RowsInv
  <2> QED
    BY <1>1, <2>1, <2>2, MovesForward
<1>3. \A c \in Calls :
        /\ pc'[c] = "idle" \/ (pc'[c] = "insert" /\ io'[c] # "returned") =>
                row'[c] = NoRow /\ \A p \in Polls : c \notin listed'[p]
        /\ pc'[c] \in Entering => c \notin known'
        /\ pc'[c] \in Entering /\ c \in Held => row'[c] \in {NoRow, "PENDING"}
  BY <1>1, <1>2 DEF EnteringInv, Entering
<1>4. \A d \in Decisions : pc'[d] # "idle" => Target[d] \in known'
  <2>1. \A d \in Decisions : pc'[d] # "idle" => pc[d] # "idle"
    BY DEF Crash, Finished, Tasks
  <2> QED
    BY <1>1, <2>1 DEF EnteringInv
<1> QED
  BY <1>3, <1>4 DEF EnteringInv

LEMMA EnteringStep ==
    ASSUME TypeOK, RowsInv, QueueInv, PhaseInv, EnteringInv, OrderInv, Next
    PROVE  EnteringInv'
<1>1. CASE Crash
  BY <1>1, EnteringCrash
<1>2. CASE ~Crash
  <2>1. ASSUME NEW c \in Calls, pc'[c] = "idle" \/ (pc'[c] = "insert" /\ io'[c] # "returned")
        PROVE  row'[c] = NoRow /\ \A p \in Polls : c \notin listed'[p]
    <3>1. /\ pc[c] \in {"idle", "insert"} /\ row[c] = NoRow /\ (\A p \in Polls : c \notin listed[p])
          /\ pc[c] = "insert" => io'[c] # "returned"
      BY <1>2, <2>1, EnteringMoves DEF Entering, EnteringInv, Bystander, Completed
    <3>2. row'[c] = NoRow
      BY <1>2, <3>1, RowMoves DEF RowInserted, RowResolved, NoRow
    <3>3. \A p \in Polls : c \notin listed'[p]
      BY <3>1, ListedMoves
    <3> QED
      BY <3>2, <3>3
  <2>2. ASSUME NEW c \in Calls, pc'[c] \in Entering PROVE c \notin known'
    <3>1. pc[c] \in Entering
      BY <1>2, <2>2, EnteringMoves DEF Entering, Bystander
    <3>2. c \notin known
      BY <3>1 DEF EnteringInv
    <3>3. ASSUME SubmitHeld(c) PROVE FALSE
      BY <2>2, <3>3, LoopSteps DEF SubmitHeld, Entering, Tasks
    <3>4. ASSUME NEW p \in Polls, PollReturns(p), c \in listed[p] PROVE FALSE
      <4>1. pc[p] = "journalFetch" /\ io[p] = "returned"
        BY <3>4 DEF PollReturns, Leave, Runnable
      <4>2. pc[c] # "idle"
        BY <3>4 DEF EnteringInv
      <4>3. pc[c] = "insertCommit" => io[c] \in {"queued", "returned"}
        BY DEF QueueInv, QueueFacts, AllOps, CallOps, TypeOK, Tasks
      <4> QED
        BY <3>1, <3>4, <4>1, <4>2, <4>3 DEF Entering, OrderInv, Past
    <3> QED
      BY <3>2, <3>3, <3>4, KnownMoves
  <2>3. ASSUME NEW c \in Calls, pc'[c] \in Entering, c \in Held PROVE row'[c] \in {NoRow, "PENDING"}
    <3>1. pc[c] \in Entering
      BY <1>2, <2>3, EnteringMoves DEF Entering, Bystander
    <3>2. row[c] \in {NoRow, "PENDING"} /\ c \notin known
      BY <2>3, <3>1 DEF EnteringInv
    <3>3. ~RowResolved(c)
      <4>1. pc[c] \notin {"expire", "cancelled"}
        BY <3>1 DEF Entering
      <4>2. \A d \in Decisions : Target[d] = c => pc[d] # "resolve"
        BY <3>2 DEF EnteringInv
      <4>3. phase = "starting" => row[c] # "PENDING"
        BY <3>1 DEF PhaseInv, Entering, EnteringInv, Finished, Tasks, NoRow
      <4> QED
        BY <4>1, <4>2, <4>3 DEF RowResolved
    <3> QED
      BY <1>2, <2>3, <3>2, <3>3, RowMoves DEF RowInserted
  <2>4. ASSUME NEW d \in Decisions, pc'[d] # "idle" PROVE Target[d] \in known'
    <3>1. known \subseteq known'
      BY KnownMoves
    <3>2. d \in Tasks /\ d \notin Calls /\ d \notin Polls
      BY TasksAssumption DEF Tasks
    <3>3. pc[d] # "idle" => Target[d] \in known
      BY DEF EnteringInv
    <3>4. CASE pc[d] = "idle"
      <4>1. Decide(d)
        <5>1. ~SecondAwait(d)
          BY <3>4 DEF SecondAwait, Continue, Runnable, NextAwait
        <5>2. ~Bystander(d) /\ ~Completed(d)
          BY <2>4, <3>2, <3>4 DEF Bystander, Completed
        <5>3. ~DecideUnknown(d) /\ ~DecideResolves(d) /\ ~DecideWakes(d) /\ ~DecideReturns(d)
          BY <3>4 DEF DecideUnknown, DecideResolves, DecideWakes, DecideReturns, Continue, Leave, Runnable
        <5> QED
          BY <1>2, <3>2, <5>1, <5>2, <5>3, TaskMoves DEF DecisionActions
      <4> QED
        BY <3>1, <4>1 DEF Decide
    <3> QED
      BY <3>1, <3>3, <3>4
  <2> QED
    BY <2>1, <2>2, <2>3, <2>4 DEF EnteringInv
<1> QED
  BY <1>1, <1>2

-----------------------------------------------------------------------------
(* The order of a poll and an entering call.                               *)

\* A poll goes from await to await, each time through both queues.
LEMMA PollMoves ==
    ASSUME TypeOK, QueueInv, Next, ~Crash, NEW p \in Polls
    PROVE  \/ Bystander(p)
           \/ Completed(p)
           \/ /\ \A t \in Tasks : t # p => Bystander(t)
              /\ pc[p] = "idle" /\ pc'[p] = "list" /\ io'[p] = "queued" /\ ready' = ready
           \/ /\ \A t \in Tasks : t # p => Bystander(t)
              /\ ready # <<>> /\ Head(ready) = p /\ io[p] = "returned"
              /\ \/ pc[p] \in {"list", "listFetch", "journal"} /\ pc'[p] = NextAwait[pc[p]]
                    /\ io'[p] = "queued" /\ Issuers' = Append(Issuers, p)
                 \/ pc[p] = "journalFetch" /\ pc'[p] = "answered"
<1>1. p \in Tasks /\ p \notin Calls /\ p \notin Decisions
  BY TasksAssumption DEF Tasks
<1>2. CASE SecondAwait(p)
  <2>1. PICK op \in DOMAIN NextAwait : Continue(p, op, NextAwait[op])
    BY <1>2 DEF SecondAwait
  <2>2. /\ pc[p] = op /\ io[p] = "returned" /\ pc'[p] = NextAwait[op] /\ io'[p] = "queued"
        /\ ready # <<>> /\ Head(ready) = p /\ Issuers' = Append(Issuers, p)
    BY <1>1, <2>1, QueuesTyped, IssuersMove DEF Continue, Runnable, Await, TypeOK
  <2>3. \A t \in Tasks : t # p => Bystander(t)
    BY <1>1, <2>1, LoopSteps DEF Bystander
  <2>4. op \in {"list", "listFetch", "journal"}
    BY <1>1, <2>2 DEF NextAwait, TypeOK, PlacesOf, PollPlaces, PollOps
  <2> QED
    BY <2>2, <2>3, <2>4
<1>3. CASE Poll(p)
  BY <1>1, <1>3 DEF Poll, Start, Await, TypeOK, Bystander
<1>4. CASE PollReturns(p)
  <2>1. \A t \in Tasks : t # p => Bystander(t)
    BY <1>1, <1>4, LoopSteps DEF PollReturns, Bystander
  <2> QED
    BY <1>1, <1>4, <2>1, LoopSteps DEF PollReturns, Leave, Runnable
<1> QED
  BY <1>1, <1>2, <1>3, <1>4, TaskMoves DEF PollActions

\* What OrderInv says of one call and one poll.
OrderFacts(c, p) ==
    c \in listed[p] =>
        /\ pc[c] = "insert" =>
            /\ pc[p] \notin {"listFetch", "journal", "journalFetch"}
            /\ pc[p] = "list" => Ahead(ready, c, p)
        /\ pc[c] = "insertCommit" /\ io[c] = "queued" =>
            /\ ~Past(p, "listFetch", {"journal", "journalFetch"})
            /\ pc[p] = "listFetch" => Ahead(Issuers, c, p)
        /\ pc[c] = "insertCommit" /\ io[c] = "returned" =>
            /\ pc[p] \notin {"journal", "journalFetch"}
            /\ pc[p] = "listFetch" /\ io[p] = "returned" => Ahead(ready, c, p)

\* The poll's SELECT has been run: every call it found is ready before it.
LEMMA OrderListed ==
    ASSUME TypeOK, QueueInv, EnteringInv, Next, ~Crash, NEW c \in Calls, NEW p \in Polls,
           Completed(p), pc[p] = "list", row[c] # NoRow
    PROVE  OrderFacts(c, p)'
<1>1. c \in Tasks /\ p \in Tasks /\ c # p
  BY TasksAssumption DEF Tasks
<1>2. /\ pc' = pc /\ io[p] = "queued" /\ io'[p] = "returned" /\ io'[c] = io[c]
      /\ ready' = Append(ready, p)
  BY <1>1 DEF Completed, Complete
<1>3. ASSUME pc[c] = "insert" PROVE Ahead(ready', c, p)
  <2>1. io[c] = "returned"
    BY <1>3 DEF EnteringInv
  <2>2. In(ready, c) /\ ~In(ready, p)
    BY <1>1, <1>2, <2>1 DEF Completed, QueueInv, QueueFacts
  <2> QED
    BY <1>2, <2>2, QueuesTyped, QueueAppend
<1> QED
  BY <1>2, <1>3 DEF OrderFacts, Past

\* The poll's other operations complete: the call is still ahead of it.
LEMMA OrderPollCompletes ==
    ASSUME TypeOK, QueueInv, EnteringInv, Next, ~Crash, NEW c \in Calls, NEW p \in Polls,
           Completed(p), listed'[p] = listed[p], OrderFacts(c, p), pc[p] # "list"
    PROVE  OrderFacts(c, p)'
<1>1. c \in Tasks /\ p \in Tasks /\ c # p
  BY TasksAssumption DEF Tasks
<1>2. /\ pc' = pc /\ io[p] = "queued" /\ io'[p] = "returned" /\ io'[c] = io[c]
      /\ ready' = Append(ready, p) /\ Issuers # <<>> /\ Head(Issuers) = p
  BY <1>1, HeadWaits DEF Completed, Complete
<1>3. Ahead(Issuers, c, p) => FALSE
  BY <1>2, QueuesTyped, QueueTail
<1>4. ASSUME io[c] = "returned", pc[c] = "insertCommit" PROVE Ahead(ready', c, p)
  <2>1. In(ready, c) /\ ~In(ready, p)
    BY <1>1, <1>2, <1>4 DEF Completed, QueueInv, QueueFacts
  <2> QED
    BY <1>2, <2>1, QueuesTyped, QueueAppend
<1> QED
  BY <1>2, <1>3, <1>4 DEF OrderFacts, Past

\* The poll runs: whoever is ahead of it is not at its head.
LEMMA OrderPollRuns ==
    ASSUME TypeOK, QueueInv, NEW c \in Calls, NEW p \in Polls,
           listed'[p] = listed[p], OrderFacts(c, p), Bystander(c),
           ready # <<>>, Head(ready) = p, io[p] = "returned",
           \/ pc[p] \in {"list", "listFetch", "journal"} /\ pc'[p] = NextAwait[pc[p]]
              /\ io'[p] = "queued" /\ Issuers' = Append(Issuers, p)
           \/ pc[p] = "journalFetch" /\ pc'[p] = "answered"
    PROVE  OrderFacts(c, p)'
<1>1. c \in Tasks /\ p \in Tasks /\ c # p
  BY TasksAssumption DEF Tasks
<1>2. ~Ahead(ready, c, p)
  BY QueuesTyped, QueueTail
<1>3. ASSUME io[c] = "queued", pc[c] = "insertCommit", Issuers' = Append(Issuers, p)
      PROVE  Ahead(Issuers', c, p)
  <2>1. In(Issuers, c) /\ ~In(Issuers, p)
    BY <1>1, <1>3 DEF QueueInv, QueueFacts
  <2> QED
    BY <1>3, <2>1, QueuesTyped, QueueAppend
<1> QED
  BY <1>2, <1>3 DEF OrderFacts, Past, NextAwait, Bystander

\* The call moves, or neither does.
LEMMA OrderCallMoves ==
    ASSUME TypeOK, QueueInv, EnteringInv, Next, ~Crash, NEW c \in Calls, NEW p \in Polls,
           listed'[p] = listed[p], OrderFacts(c, p), Bystander(p), c \in listed[p]
    PROVE  OrderFacts(c, p)'
<1>1. c \in Tasks /\ p \in Tasks /\ c # p
  BY TasksAssumption DEF Tasks
<1>2. /\ Ahead(ready, c, p) /\ io'[c] = "returned" => Ahead(ready', c, p)
      /\ Ahead(Issuers, c, p) /\ io'[c] = "queued" => Ahead(Issuers', c, p)
  BY AheadStays
<1>3. pc'[p] = pc[p] /\ io'[p] = io[p]
  BY DEF Bystander
<1>4. CASE pc'[c] \notin {"insert", "insertCommit"}
  BY <1>4 DEF OrderFacts
<1>5. CASE Bystander(c) /\ pc'[c] \in {"insert", "insertCommit"}
  <2>1. pc[c] = "insert" => io[c] = "returned"
    BY DEF EnteringInv, QueueInv, QueueFacts
  <2> QED
    BY <1>2, <1>3, <1>5, <2>1 DEF OrderFacts, Past, Bystander
<1>6. CASE Completed(c)
  <2>1. pc'[c] = pc[c] /\ io[c] = "queued" /\ io'[c] = "returned" /\ ready' = Append(ready, c)
    BY <1>6 DEF Completed, Complete
  <2> QED
    BY <1>2, <1>3, <2>1 DEF OrderFacts, Past
<1>7. CASE Submit(c) /\ pc[c] = "idle"
  BY <1>7 DEF EnteringInv
<1>8. CASE /\ SecondAwait(c) /\ pc[c] = "insert" /\ io[c] = "returned"
           /\ pc'[c] = "insertCommit" /\ io'[c] = "queued"
  BY <1>3, <1>8 DEF OrderFacts, Past
<1> QED
  BY <1>4, <1>5, <1>6, <1>7, <1>8, EnteringMoves DEF Entering

LEMMA OrderStep ==
    ASSUME TypeOK, QueueInv, EnteringInv, OrderInv, Next
    PROVE  OrderInv'
<1>1. CASE Crash
  <2>1. \A t \in Tasks : pc'[t] \in Finished \cup {"idle"}
    BY <1>1 DEF Crash, Finished
  <2> QED
    BY <2>1 DEF OrderInv, Finished, Tasks
<1>2. ASSUME ~Crash, NEW c \in Calls, NEW p \in Polls PROVE OrderFacts(c, p)'
  <2>1. OrderFacts(c, p) /\ c \in Tasks /\ p \in Tasks /\ c # p
    BY TasksAssumption DEF OrderInv, OrderFacts, Tasks
  <2>2. CASE listed'[p] # listed[p]
    <3>1. /\ Completed(p) /\ pc[p] = "list" /\ row' = row
          /\ listed'[p] = {k \in Calls : row[k] # NoRow}
      BY <2>2, ListedMoves
    <3>2. CASE row[c] # NoRow
      BY <1>2, <3>1, <3>2, OrderListed
    <3>3. CASE row[c] = NoRow
      BY <3>1, <3>3 DEF OrderFacts
    <3> QED
      BY <3>2, <3>3
  <2>3. CASE listed'[p] = listed[p] /\ Completed(p)
    <3>1. CASE pc[p] # "list"
      BY <1>2, <2>1, <2>3, <3>1, OrderPollCompletes
    <3>2. CASE pc[p] = "list"
      <4>1. SelectAll /\ p = Head(dbq).task
        BY <2>3, <3>2 DEF Completed, DbThread, InsertRow, ResolveRow, Commit, SelectRow, Fetch,
           OperationIs, Commits, RowSelects, Fetches
      <4>2. listed'[p] = {k \in Calls : row[k] # NoRow}
        BY <4>1 DEF SelectAll, TypeOK
      <4>3. CASE row[c] # NoRow
        BY <1>2, <2>3, <3>2, <4>3, OrderListed
      <4>4. CASE row[c] = NoRow
        BY <4>2, <4>4 DEF OrderFacts
      <4> QED
        BY <4>3, <4>4
    <3> QED
      BY <3>1, <3>2
  <2>4. CASE listed'[p] = listed[p] /\ c \in listed[p] /\ Bystander(p)
    BY <1>2, <2>1, <2>4, OrderCallMoves
  <2>5. CASE c \notin listed[p] /\ listed'[p] = listed[p]
    BY <2>5 DEF OrderFacts
  <2>6. CASE /\ listed'[p] = listed[p]
             /\ \A t \in Tasks : t # p => Bystander(t)
             /\ pc[p] = "idle" /\ pc'[p] = "list" /\ io'[p] = "queued" /\ ready' = ready
    <3>1. ~In(ready, p)
      BY <2>1, <2>6 DEF QueueInv, QueueFacts
    <3>2. Ahead(ready', c, p)
      BY <2>6, <3>1 DEF Ahead, In
    <3> QED
      BY <2>6, <3>2 DEF OrderFacts, Past
  <2>7. CASE /\ listed'[p] = listed[p]
             /\ \A t \in Tasks : t # p => Bystander(t)
             /\ ready # <<>> /\ Head(ready) = p /\ io[p] = "returned"
             /\ \/ pc[p] \in {"list", "listFetch", "journal"} /\ pc'[p] = NextAwait[pc[p]]
                   /\ io'[p] = "queued" /\ Issuers' = Append(Issuers, p)
                \/ pc[p] = "journalFetch" /\ pc'[p] = "answered"
    BY <2>1, <2>7, OrderPollRuns
  <2> QED
    BY <1>2, <2>2, <2>3, <2>4, <2>5, <2>6, <2>7, PollMoves
<1> QED
  BY <1>1, <1>2 DEF OrderInv, OrderFacts

-----------------------------------------------------------------------------
(* The Events of the calls that wait.                                      *)

\* The steps after which a call waits that did not wait before, and its row.
LEMMA WaitMoves ==
    ASSUME TypeOK, QueueInv, Next, ~Crash, NEW c \in Calls,
           pc'[c] \in {"wait", "expire", "expireCommit"}
    PROVE  \/ SubmitHeld(c)
           \/ pc[c] \in {"wait", "expire", "expireCommit"} /\ (io'[c] = "none" => Bystander(c))
<1>1. c \in Tasks /\ c \notin Decisions /\ c \notin Polls
  BY TasksAssumption DEF Tasks
<1>2. CASE SecondAwait(c)
  <2>1. PICK op \in DOMAIN NextAwait : Continue(c, op, NextAwait[op])
    BY <1>2 DEF SecondAwait
  <2>2. pc[c] = op /\ pc'[c] = NextAwait[op] /\ io'[c] = "queued"
    BY <1>1, <2>1, LoopSteps DEF Continue, Await, TypeOK
  <2> QED
    BY <2>2 DEF NextAwait
<1>3. CASE CallActions(c)
  <2>1. CASE Submit(c)
    BY <1>1, <2>1 DEF Submit, Start, Await, TypeOK
  <2>2. CASE SubmitAllowed(c) \/ WaitReturns(c) \/ WaitDecided(c) \/ ExpiryStored(c)
    BY <1>1, <2>2, LoopSteps DEF SubmitAllowed, WaitReturns, WaitDecided, ExpiryStored
  <2>3. CASE WaitExpired(c)
    BY <1>1, <2>3, LoopSteps DEF WaitExpired, Continue, Await, TypeOK
  <2>4. CASE HoldTimeout(c) \/ Execute(c) \/ CancelCall(c)
    BY <1>1, <2>4 DEF HoldTimeout, Execute, CancelCall, TypeOK
  <2> QED
    BY <1>3, <2>1, <2>2, <2>3, <2>4 DEF CallActions
<1>4. CASE Bystander(c) \/ Completed(c) \/ Woken(c)
  BY <1>1, <1>4 DEF Bystander, Completed, Woken, DecideWakes, Blocked, TypeOK
<1> QED
  BY <1>1, <1>2, <1>3, <1>4, TaskMoves

\* A request that has resolved its row wakes the waiter before it moves on.
LEMMA DecidingMoves ==
    ASSUME TypeOK, QueueInv, Next, ~Crash, NEW d \in Decisions, pc[d] \in {"resolve", "resolveCommit"}
    PROVE  pc'[d] \in {"resolve", "resolveCommit"} \/ DecideWakes(d)
<1>1. d \in Tasks /\ d \notin Calls /\ d \notin Polls
  BY TasksAssumption DEF Tasks
<1>2. CASE SecondAwait(d)
  <2>1. PICK op \in DOMAIN NextAwait : Continue(d, op, NextAwait[op])
    BY <1>2 DEF SecondAwait
  <2>2. pc[d] = op /\ pc'[d] = NextAwait[op]
    BY <1>1, <2>1, LoopSteps
  <2> QED
    BY <2>2, <2>1 DEF NextAwait
<1>3. CASE DecisionActions(d)
  BY <1>3 DEF DecisionActions, Decide, DecideUnknown, DecideResolves, DecideReturns, Continue,
     Leave, Runnable
<1> QED
  BY <1>1, <1>2, <1>3, TaskMoves DEF Bystander, Completed

\* A call that begins to wait has its Event, and its row is undecided.
LEMMA SubmitWaits ==
    ASSUME Inv, EnteringInv, NEW c \in Calls, SubmitHeld(c)
    PROVE  c \in events' /\ row'[c] = "PENDING"
<1>1. pc[c] = "insertCommit" /\ c \in Held /\ row' = row /\ c \in events'
  BY DEF SubmitHeld, Leave, Runnable
<1>2. row[c] # NoRow
  BY <1>1 DEF Inv, CallInv, CallFacts, Past
<1>3. row[c] \in {NoRow, "PENDING"}
  BY <1>1 DEF EnteringInv, Entering
<1> QED
  BY <1>1, <1>2, <1>3

\* The request that sets an Event has its row decided.
LEMMA WakesDecided ==
    ASSUME Inv, NEW d \in Decisions, DecideWakes(d)
    PROVE  /\ row'[Target[d]] # "PENDING"
           /\ Target[d] \in events /\ Blocked(Target[d]) => io'[Target[d]] = "returned"
<1>1. pc[d] = "resolveCommit" /\ io[d] = "returned" /\ row' = row
  BY DEF DecideWakes, Runnable
<1>2. row[Target[d]] \in Terminal
  BY <1>1 DEF Inv, DecisionInv, DecisionFacts, Past
<1>3. Target[d] \in Tasks /\ Target[d] # d
  BY TasksAssumption, DecisionsAssumption DEF Tasks
<1> QED
  BY <1>1, <1>2, <1>3 DEF DecideWakes, Terminal

LEMMA WaitStep ==
    ASSUME Inv, QueueInv, PhaseInv, EnteringInv, WaitInv, Next
    PROVE  WaitInv'
<1>1. TypeOK
  BY DEF Inv
<1>2. CASE Crash
  <2>1. \A t \in Tasks : pc'[t] \in Finished \cup {"idle"}
    BY <1>2 DEF Crash, Finished
  <2> QED
    BY <2>1 DEF WaitInv, NoLostWakeup, Blocked, Finished, Tasks
<1>3. CASE ~Crash
  <2>1. ASSUME NEW c \in Calls, pc'[c] \in {"wait", "expire", "expireCommit"}, ~SubmitHeld(c)
        PROVE  /\ pc[c] \in {"wait", "expire", "expireCommit"}
               /\ io'[c] = "none" => Bystander(c)
               /\ ~WaitDecided(c) /\ ~ExpiryStored(c) /\ ~CancelCall(c)
    <3>1. ~WaitDecided(c) /\ ~ExpiryStored(c) /\ ~CancelCall(c)
      BY <1>1, <2>1, LoopSteps DEF WaitDecided, ExpiryStored, CancelCall, TypeOK, Tasks
    <3> QED
      BY <1>1, <1>3, <2>1, <3>1, WaitMoves
  <2>2. ASSUME NEW c \in Calls, pc'[c] \in {"wait", "expire", "expireCommit"}, row'[c] = "PENDING"
        PROVE  c \in events'
    <3>1. CASE ~SubmitHeld(c)
      <4>1. row[c] = "PENDING"
        BY <1>1, <1>3, <2>1, <2>2, <3>1, RowMoves DEF RowInserted, RowResolved, Resolutions, Verdicts
      <4>2. c \in events
        BY <2>1, <2>2, <3>1, <4>1 DEF WaitInv
      <4> QED
        BY <1>1, <1>3, <2>1, <2>2, <3>1, <4>2, EventMoves, WakesDecided
    <3> QED
      BY <3>1, SubmitWaits
  <2>3. ASSUME NEW c \in Calls, Blocked(c)'
        PROVE  /\ c \in events'
               /\ \/ row'[c] = "PENDING"
                  \/ \E d \in Decisions : Target[d] = c /\ pc'[d] \in {"resolve", "resolveCommit"}
    <3>1. CASE ~SubmitHeld(c)
      <4>1. Bystander(c) /\ Blocked(c) /\ ~WaitDecided(c) /\ ~ExpiryStored(c) /\ ~CancelCall(c)
        BY <2>1, <2>3, <3>1 DEF Blocked, Bystander
      <4>2. /\ c \in events
            /\ \/ row[c] = "PENDING"
               \/ \E d \in Decisions : Target[d] = c /\ pc[d] \in {"resolve", "resolveCommit"}
        BY <4>1 DEF WaitInv, NoLostWakeup
      <4>3. \A d \in Decisions : Target[d] = c => ~DecideWakes(d)
        BY <4>1, <4>2, WakesDecided DEF Bystander, Blocked
      <4>4. c \in events'
        BY <1>1, <1>3, <4>1, <4>2, <4>3, EventMoves
      <4>5. ASSUME NEW d \in Decisions, Target[d] = c, pc[d] \in {"resolve", "resolveCommit"}
            PROVE  pc'[d] \in {"resolve", "resolveCommit"}
        BY <1>1, <1>3, <4>3, <4>5, DecidingMoves
      <4>6. ASSUME row[c] = "PENDING", row'[c] # "PENDING"
            PROVE  \E d \in Decisions : Target[d] = c /\ pc'[d] \in {"resolve", "resolveCommit"}
        <5>1. RowResolved(c)
          BY <1>1, <1>3, <4>6, RowMoves DEF RowInserted, NoRow
        <5>2. phase # "starting"
          BY <4>1 DEF PhaseInv, Blocked, Finished, Tasks
        <5> QED
          BY <4>1, <5>1, <5>2 DEF RowResolved, Blocked
      <4> QED
        BY <4>2, <4>4, <4>5, <4>6
    <3> QED
      BY <3>1, SubmitWaits
  <2> QED
    BY <2>2, <2>3 DEF WaitInv, NoLostWakeup
<1> QED
  BY <1>2, <1>3

LEMMA InitHold == Init => HoldInv
<1> SUFFICES ASSUME Init PROVE HoldInv
  OBVIOUS
<1>1. QueueInv
  <2>1. "idle" \notin AllOps /\ Issuers = <<>>
    BY DEF AllOps, CallOps, DecisionOps, PollOps, Init, Issuers
  <2> QED
    BY <2>1 DEF Init, QueueInv, QueueFacts, OpsInv, Distinct, In
<1>2. PhaseInv /\ EnteringInv
  BY DEF Init, PhaseInv, NoHoldSurvivesRestart, EnteringInv, Tasks, NoRow
<1>3. OrderInv /\ WaitInv
  BY DEF Init, OrderInv, WaitInv, NoLostWakeup, Blocked, Tasks
<1> QED
  BY <1>1, <1>2, <1>3 DEF HoldInv

LEMMA NextHold == Inv /\ HoldInv /\ [Next]_vars => HoldInv'
<1> SUFFICES ASSUME Inv, HoldInv, [Next]_vars PROVE HoldInv'
  OBVIOUS
<1>1. TypeOK /\ RowsInv /\ QueueInv /\ PhaseInv /\ EnteringInv /\ OrderInv /\ WaitInv
  BY DEF Inv, HoldInv
<1>2. QueueInv' /\ PhaseInv'
  BY <1>1, QueueStep, PhaseStep
<1>3. CASE Next
  BY <1>1, <1>2, <1>3, EnteringStep, OrderStep, WaitStep DEF HoldInv
<1>4. CASE UNCHANGED vars
  <2>1. EnteringInv' /\ WaitInv'
    BY <1>1, <1>4 DEF vars, loopVars, EnteringInv, WaitInv, NoLostWakeup, Blocked
  <2>2. OrderInv'
    BY <1>1, <1>4 DEF vars, loopVars, OrderInv, Past, Ahead, Issuers
  <2> QED
    BY <1>2, <2>1, <2>2 DEF HoldInv
<1> QED
  BY <1>3, <1>4

\* Who is in which queue and in which order, what each phase of the process
\* leaves behind, and which Events there are: inductive together with Inv.
THEOREM HoldInvHolds == Spec => []HoldInv
BY InitHold, NextHold, InvHolds, PTL DEF Spec

\* Whoever is shown a call that still waits in its process finds its Event.
LEMMA ShownHasEvent ==
    ASSUME Inv, HoldInv
    PROVE  ShownOnlyWithEvent
<1> SUFFICES ASSUME NEW c \in known, row[c] = "PENDING", pc[c] \in Suspended PROVE c \in events
  BY DEF ShownOnlyWithEvent
<1>1. c \in Calls
  BY DEF Inv, TypeOK
<1>2. pc[c] \notin Entering
  BY <1>1 DEF HoldInv, EnteringInv
<1>3. pc[c] \notin {"read", "readFetch"}
  <2>1. durable[c] = row[c] \/ <<durable[c], row[c]>> \in Moves
    BY <1>1 DEF Inv, RowsInv
  <2> QED
    BY <1>1, <2>1, MovesForward DEF Inv, CallInv, CallFacts, Past, Terminal
<1>4. pc[c] # "execute"
  <2>1. durable[c] = row[c] \/ <<durable[c], row[c]>> \in Moves
    BY <1>1 DEF Inv, RowsInv
  <2> QED
    BY <1>1, <2>1 DEF Inv, OutcomeInv, CallerObeysRecord, Allowed, Moves, NoRow, Statuses, Resolutions, Verdicts
<1> QED
  BY <1>1, <1>2, <1>3, <1>4 DEF Suspended, CallOps, Entering, HoldInv, WaitInv

\* No hold is stranded: a waiter can always be woken, an operator is shown a
\* held call only once a decision would reach its waiter, and no hold of an
\* earlier process is left PENDING once the next one serves.
THEOREM NoHoldIsStranded == Spec => []NoHoldStranded
<1>1. Inv /\ HoldInv => NoHoldStranded
  BY ShownHasEvent DEF NoHoldStranded, HoldInv, WaitInv, PhaseInv
<1> QED
  BY <1>1, InvHolds, HoldInvHolds, PTL
=============================================================================
