--------------------------- MODULE NarratorProofs ---------------------------
(***************************************************************************)
(* Theorems about Narrator, for any requests, calls, crashes and bounds:    *)
(* what a request is told is kept by every crash (ToldIsKept), although a   *)
(* request may read a narration that is not committed yet, and a narration  *)
(* that is settled stays the one that is told (SettledNarrationStays).     *)
(*                                                                         *)
(* The argument is about order.  A request that found an uncommitted text   *)
(* is behind the request that stored it: in the loop's queue while both are *)
(* runnable, and then in the connection's queue, where the commit comes     *)
(* before the fetch that the answer waits for.                              *)
(***************************************************************************)
EXTENDS Narrator, FiniteSetTheorems, TLAPS

\* The tasks in queue q, and whether s is in it before every place of r.
In(q, t) == \E i \in DOMAIN q : q[i] = t

Ahead(q, s, r) == \A j \in DOMAIN q : q[j] = r => \E i \in 1 .. j - 1 : q[i] = s

Distinct(q) == \A i, j \in DOMAIN q : q[i] = q[j] => i = j

\* Who issued the operations the database thread has still to run, in order.
Issuers == [i \in DOMAIN dbq |-> dbq[i].task]

CallPlaces == {"idle", "insert", "insertCommit", "wait", "resolve", "resolveCommit", "done", "lost"}

ReadOps == {"cached", "cachedFetch", "list", "listFetch"}

StoreOps == {"store", "storeCommit"}

GateOps == {"insert", "insertCommit", "resolve", "resolveCommit"}

DbOps == GateOps \cup ReadOps \cup StoreOps

RequestPlaces ==
    {"idle", "primary", "chat", "backoff", "answered", "failed", "lost"} \cup ReadOps \cup StoreOps

\* The places at which a task waits for nobody's operation.
Resting == {"idle", "wait", "backoff", "answered", "failed", "done", "lost"}

Rows == [call : Calls, status : Statuses]

Operations == [task : Tasks, op : DbOps]

\* Every task is at a place of its own program.
PlaceTyped ==
    /\ pc \in [Tasks -> CallPlaces \cup RequestPlaces]
    /\ \A c \in Calls : pc[c] \in CallPlaces
    /\ \A r \in Requests : pc[r] \in RequestPlaces

LoopTyped ==
    /\ PlaceTyped
    /\ io \in [Tasks -> IoStates]
    /\ dbq \in Seq(Operations)
    /\ ready \in Seq(Tasks)

DataTyped ==
    /\ held \subseteq Calls
    /\ phase \in {"serving", "down"}
    /\ log \in Seq(Rows)
    /\ text \in Texts
    /\ durable \in [log : Seq(Rows), text : Texts]
    /\ got \in [Requests -> Texts]
    /\ told \in [Requests -> Texts]
    /\ settled \in [Requests -> Texts]
    /\ attempts \in [Requests -> 0 .. MaxRetries]
    /\ crashes \in 0 .. MaxCrashes

\* A task is in the queue that its io names, and in no other.
QueueFacts(t) ==
    /\ io[t] = "returned" <=> In(ready, t)
    /\ io[t] = "queued" <=> In(Issuers, t)
    /\ pc[t] \in Resting => io[t] = "none"
    /\ pc[t] \in DbOps => io[t] # "none"

\* Every operation in the queue is the one its task hangs at.
QueueInv ==
    /\ \A t \in Tasks : QueueFacts(t)
    /\ \A i \in DOMAIN dbq : pc[dbq[i].task] = dbq[i].op
    /\ Distinct(ready) /\ Distinct(Issuers)

LoopInv == LoopTyped /\ QueueInv

\* No task survives a crash.
DownInv == phase = "down" => \A t \in Tasks : pc[t] \in Over

\* Task t is suspended at op, which has run, or has still to run.
Ran(t, op) == pc[t] = op /\ io[t] = "returned"

Queued(t, op) == pc[t] = op /\ io[t] = "queued"

IsBefore(a, b) == Len(a) <= Len(b) /\ \A i \in DOMAIN a : a[i] = b[i]

\* The rows of call c are committed.
Committed(c) == \A i \in DOMAIN log : log[i].call = c => i <= Len(durable.log)

Undecided(c) == \A i \in DOMAIN log : log[i].call = c => log[i].status = "PENDING"

RowInv(c) ==
    /\ pc[c] = "idle" \/ Queued(c, "insert") => \A i \in DOMAIN log : log[i].call # c
    /\ pc[c] = "wait" \/ Queued(c, "resolve") => Undecided(c)
    /\ c \in held /\ (Ran(c, "insert") \/ pc[c] = "insertCommit") => Undecided(c)
    /\ pc[c] \in {"wait", "done"} \/ Ran(c, "insertCommit") \/ Ran(c, "resolveCommit") => Committed(c)

LogInv ==
    /\ IsBefore(durable.log, log)
    /\ \A i, j \in DOMAIN log :
            i < j /\ log[i].call = log[j].call => <<log[i].status, log[j].status>> \in Moves
    /\ \A c \in Calls : RowInv(c)

\* A text whose facts no crash undoes, beside a text that no crash undoes.
Kept(t) == durable.text # NoText /\ t.facts \subseteq FactsOf(durable.log)

\* What a request may have in hand, and what it was told.
RequestFacts(r) ==
    /\ pc[r] = "idle" => got[r] = NoText
    /\ pc[r] \notin Over => got[r].facts \subseteq FactsOf(log)
    /\ pc[r] \in StoreOps \/ Ran(r, "chat") => got[r] # NoText
    /\ Ran(r, "store") \/ pc[r] = "storeCommit" => text # NoText
    /\ Ran(r, "storeCommit") => Kept(got[r])
    /\ told[r] # NoText => Kept(told[r])

FactInv ==
    /\ exported \subseteq FactsOf(durable.log)
    /\ text.facts \subseteq FactsOf(log)
    /\ durable.text.facts \subseteq FactsOf(durable.log)
    /\ durable.text # NoText => text # NoText
    /\ \A r \in Requests : RequestFacts(r)

\* A text that is not committed yet is one whose commit is on its way.
Storing(s) == Ran(s, "store") \/ Queued(s, "storeCommit")

TextInv == text # durable.text => \E s \in Requests : Storing(s)

\* The request r that has found a text which is not kept yet is behind its commit.
Behind(r) ==
    /\ Ran(r, "cached") =>
          \E s \in Requests : Queued(s, "storeCommit") \/ (Ran(s, "store") /\ Ahead(ready, s, r))
    /\ Queued(r, "cachedFetch") =>
          \E s \in Requests : Queued(s, "storeCommit") /\ Ahead(Issuers, s, r)
    /\ ~Ran(r, "cachedFetch")

\* A request that found an uncommitted text comes to its answer behind that commit.
ReaderInv(r) ==
    /\ (Ran(r, "cached") \/ pc[r] = "cachedFetch") /\ got[r] # NoText => text # NoText
    /\ got[r] # NoText /\ ~Kept(got[r]) => Behind(r)

OrderInv == \A r \in Requests : ReaderInv(r)

\* Nobody replaces a settled text.
SettledInv ==
    \A r \in Requests :
        /\ pc[r] = "idle" => told[r] = NoText /\ settled[r] = NoText
        /\ settled[r] # NoText =>
            /\ text = settled[r] /\ durable.text = settled[r]
            /\ told[r] # NoText => told[r] = settled[r]
            /\ \A s \in Requests :
                /\ pc[s] \in Over \cup {"cached", "cachedFetch"}
                /\ Ran(s, "cached") \/ pc[s] = "cachedFetch" => got[s] = settled[r]

NarratorInv ==
    LoopInv /\ DataTyped /\ DownInv /\ LogInv /\ FactInv /\ TextInv /\ OrderInv /\ SettledInv

-----------------------------------------------------------------------------
(* Queues.                                                                 *)

LEMMA QueueShape ==
    ASSUME NEW S, NEW q \in Seq(S)
    PROVE  /\ DOMAIN q = 1 .. Len(q) /\ Len(q) \in Nat
           /\ \A x : \A i \in DOMAIN Append(q, x) :
                /\ Append(q, x)[i] = IF i = Len(q) + 1 THEN x ELSE q[i]
                /\ i # Len(q) + 1 => i \in DOMAIN q
           /\ \A x : DOMAIN Append(q, x) = 1 .. Len(q) + 1
           /\ q # <<>> =>
                /\ Len(q) > 0 /\ Head(q) = q[1]
                /\ DOMAIN Tail(q) = 1 .. Len(q) - 1
                /\ \A i \in 1 .. Len(q) - 1 : Tail(q)[i] = q[i + 1] /\ i + 1 \in DOMAIN q
OBVIOUS

\* A task is put at the end of a queue it is not in.
LEMMA QueueAppend ==
    ASSUME NEW S, NEW q \in Seq(S), NEW x
    PROVE  /\ \A t : In(Append(q, x), t) <=> In(q, t) \/ t = x
           /\ Distinct(q) /\ ~In(q, x) => Distinct(Append(q, x))
           /\ \A c, p : Ahead(q, c, p) /\ p # x => Ahead(Append(q, x), c, p)
           /\ \A c : In(q, c) /\ ~In(q, x) => Ahead(Append(q, x), c, x)
<1> DEFINE n == Len(q)
           a == Append(q, x)
<1>1. /\ n \in Nat /\ DOMAIN q = 1 .. n /\ DOMAIN a = 1 .. n + 1
      /\ a[n + 1] = x /\ \A i \in 1 .. n : a[i] = q[i]
  BY QueueShape
<1> HIDE DEF n, a
<1>2. \A t : In(a, t) <=> In(q, t) \/ t = x
  BY <1>1 DEF In
<1>3. Distinct(q) /\ ~In(q, x) => Distinct(a)
  BY <1>1 DEF In, Distinct
<1>4. ASSUME NEW c, NEW p, Ahead(q, c, p), p # x PROVE Ahead(a, c, p)
  BY <1>1, <1>4 DEF Ahead
<1>5. ASSUME NEW c, In(q, c), ~In(q, x) PROVE Ahead(a, c, x)
  BY <1>1, <1>5 DEF Ahead, In
<1> QED
  BY <1>2, <1>3, <1>4, <1>5 DEF a

\* The task at the head of a queue leaves it.
LEMMA QueueTail ==
    ASSUME NEW S, NEW q \in Seq(S), q # <<>>
    PROVE  /\ \A t : In(q, t) <=> t = Head(q) \/ In(Tail(q), t)
           /\ Distinct(q) => Distinct(Tail(q)) /\ ~In(Tail(q), Head(q))
           /\ \A c, p : Ahead(q, c, p) => Head(q) # p
           /\ \A c, p : Ahead(q, c, p) /\ Head(q) # c => Ahead(Tail(q), c, p)
<1> DEFINE n == Len(q)
           r == Tail(q)
<1>1. /\ n \in Nat /\ n > 0 /\ DOMAIN q = 1 .. n /\ DOMAIN r = 1 .. n - 1
      /\ Head(q) = q[1] /\ \A i \in 1 .. n - 1 : r[i] = q[i + 1]
  BY QueueShape
<1> HIDE DEF n, r
<1>2. ASSUME NEW t PROVE In(q, t) <=> t = Head(q) \/ In(r, t)
  <2>1. ASSUME NEW i \in DOMAIN q, q[i] = t PROVE t = Head(q) \/ In(r, t)
    <3>1. CASE i # 1
      <4>1. i - 1 \in DOMAIN r /\ r[i - 1] = t
        BY <1>1, <2>1, <3>1
      <4> QED
        BY <4>1 DEF In
    <3> QED
      BY <1>1, <2>1, <3>1
  <2>2. ASSUME NEW i \in DOMAIN r, r[i] = t PROVE In(q, t)
    <3>1. i + 1 \in DOMAIN q /\ q[i + 1] = t
      BY <1>1, <2>2
    <3> QED
      BY <3>1 DEF In
  <2>3. In(q, Head(q))
    BY <1>1 DEF In
  <2> QED
    BY <2>1, <2>2, <2>3 DEF In
<1>3. ASSUME Distinct(q) PROVE Distinct(r) /\ ~In(r, Head(q))
  <2>1. \A i \in DOMAIN r : i + 1 \in DOMAIN q /\ q[i + 1] = r[i] /\ i + 1 # 1
    BY <1>1
  <2>2. \A i, j \in DOMAIN r : i + 1 = j + 1 => i = j
    BY <1>1
  <2>3. 1 \in DOMAIN q
    BY <1>1
  <2> QED
    BY <1>1, <1>3, <2>1, <2>2, <2>3 DEF Distinct, In
<1>4. ASSUME NEW c, NEW p, Ahead(q, c, p) PROVE Head(q) # p
  BY <1>1, <1>4 DEF Ahead
<1>5. ASSUME NEW c, NEW p, Ahead(q, c, p), Head(q) # c PROVE Ahead(r, c, p)
  <2> SUFFICES ASSUME NEW j \in DOMAIN r, r[j] = p PROVE \E i \in 1 .. j - 1 : r[i] = c
    BY DEF Ahead
  <2>1. j + 1 \in DOMAIN q /\ q[j + 1] = p
    BY <1>1
  <2>2. PICK i \in 1 .. (j + 1) - 1 : q[i] = c
    BY <1>5, <2>1 DEF Ahead
  <2>3. i # 1 /\ i - 1 \in 1 .. j - 1 /\ i - 1 \in 1 .. n - 1
    BY <1>1, <1>5, <2>2
  <2>4. r[i - 1] = c
    BY <1>1, <2>2, <2>3
  <2> QED
    BY <2>3, <2>4
<1> QED
  BY <1>2, <1>3, <1>4, <1>5 DEF r

\* Issuers goes with the operations.
LEMMA IssuersMove ==
    ASSUME dbq \in Seq(Operations)
    PROVE  /\ Issuers \in Seq(Tasks)
           /\ \A t, op : dbq' = Append(dbq, [task |-> t, op |-> op]) => Issuers' = Append(Issuers, t)
           /\ dbq # <<>> => Issuers # <<>> /\ Head(Issuers) = Head(dbq).task
           /\ dbq # <<>> /\ dbq' = Tail(dbq) => Issuers' = Tail(Issuers)
           /\ dbq' = dbq => Issuers' = Issuers
<1>0. DOMAIN dbq = 1 .. Len(dbq) /\ Len(dbq) \in Nat /\ \A i \in DOMAIN dbq : dbq[i] \in Operations
  OBVIOUS
<1>1. DOMAIN dbq = 1 .. Len(dbq) /\ Len(dbq) \in Nat /\ \A i \in DOMAIN dbq : dbq[i].task \in Tasks
  BY <1>0 DEF Operations
<1>2. Issuers \in Seq(Tasks) /\ Len(Issuers) = Len(dbq)
  BY <1>1 DEF Issuers
<1>3. ASSUME NEW t, NEW op, dbq' = Append(dbq, [task |-> t, op |-> op])
      PROVE  Issuers' = Append(Issuers, t)
  <2>1. DOMAIN dbq' = 1 .. Len(dbq) + 1
    BY <1>3, QueueShape
  <2>2. \A i \in 1 .. Len(dbq) + 1 : dbq'[i].task = IF i = Len(dbq) + 1 THEN t ELSE dbq[i].task
    BY <1>1, <1>3
  <2>3. Append(Issuers, t) = [i \in 1 .. Len(dbq) + 1 |-> IF i = Len(dbq) + 1 THEN t ELSE dbq[i].task]
    BY <1>1, <1>2 DEF Issuers
  <2> QED
    BY <2>1, <2>2, <2>3 DEF Issuers
<1>4. ASSUME dbq # <<>>
      PROVE  /\ Issuers # <<>> /\ Head(Issuers) = Head(dbq).task
             /\ dbq' = Tail(dbq) => Issuers' = Tail(Issuers)
  <2>1. Len(dbq) > 0
    BY <1>1, <1>4
  <2>2. Issuers # <<>> /\ Head(Issuers) = Head(dbq).task
    BY <1>1, <1>2, <2>1 DEF Issuers
  <2>3. ASSUME dbq' = Tail(dbq) PROVE Issuers' = Tail(Issuers)
    <3>1. Tail(Issuers) = [i \in 1 .. Len(dbq) - 1 |-> dbq[i + 1].task]
      BY <1>1, <1>2, <2>1 DEF Issuers
    <3>2. DOMAIN dbq' = 1 .. Len(dbq) - 1 /\ \A i \in 1 .. Len(dbq) - 1 : dbq'[i] = dbq[i + 1]
      BY <1>4, <2>1, <2>3, QueueShape
    <3> QED
      BY <3>1, <3>2 DEF Issuers
  <2> QED
    BY <2>2, <2>3
<1>5. dbq' = dbq => Issuers' = Issuers
  BY DEF Issuers
<1> QED
  BY <1>2, <1>3, <1>4, <1>5
\* Each operation has an issuer.
LEMMA IssuedByTasks ==
    ASSUME dbq \in Seq(Operations)
    PROVE  \A i \in DOMAIN dbq : dbq[i].task \in Tasks /\ In(Issuers, dbq[i].task)
<1>1. \A i \in DOMAIN dbq : dbq[i] \in Operations
  OBVIOUS
<1>2. \A i \in DOMAIN dbq : dbq[i].task \in Tasks
  BY <1>1 DEF Operations
<1> QED
  BY <1>2 DEF In, Issuers

-----------------------------------------------------------------------------
(* The loop and the thread: each way in which a task moves keeps every task  *)
(* at a place of its program and in the queue that its io names.            *)

\* Requests and calls are different tasks.
LEMMA TwoKinds ==
    /\ \A c \in Calls : c \in Tasks /\ c \notin Requests
    /\ \A r \in Requests : r \in Tasks /\ r \notin Calls
BY NarratorAssumption DEF Tasks

\* A place that task t may come to.
MayCome(t, place) ==
    /\ t \in Calls => place \in CallPlaces
    /\ t \in Requests => place \in RequestPlaces

LEMMA PlaceMove ==
    ASSUME PlaceTyped, NEW t \in Tasks, NEW place, MayCome(t, place),
           pc' = [pc EXCEPT ![t] = place]
    PROVE  PlaceTyped'
BY TwoKinds DEF PlaceTyped, MayCome, Tasks

\* The operation at the head of the connection's queue.
LEMMA HeadFacts ==
    ASSUME LoopInv, dbq # << >>
    PROVE  /\ Head(dbq).task \in Tasks /\ Head(dbq).op \in DbOps
           /\ Queued(Head(dbq).task, Head(dbq).op)
           /\ In(Issuers, Head(dbq).task) /\ Issuers # << >> /\ Head(Issuers) = Head(dbq).task
<1>1. /\ 1 \in DOMAIN dbq /\ Head(dbq) = dbq[1] /\ dbq[1] \in Operations
  BY QueueShape DEF LoopInv, LoopTyped
<1>2. Issuers \in Seq(Tasks) /\ Issuers # << >> /\ Head(Issuers) = Head(dbq).task
  BY IssuersMove DEF LoopInv, LoopTyped
<1>3. In(Issuers, Head(dbq).task)
  BY <1>2, QueueTail
<1> QED
  BY <1>1, <1>2, <1>3 DEF LoopInv, QueueInv, QueueFacts, Operations, Queued

\* A task that is not in the database queue puts an operation there.
LEMMA OpsAwait ==
    ASSUME LoopInv, NEW t \in Tasks, NEW op, ~In(Issuers, t),
           \A u \in Tasks : u # t => pc'[u] = pc[u],
           pc'[t] = op, dbq' = Append(dbq, [task |-> t, op |-> op])
    PROVE  \A i \in DOMAIN dbq' : pc'[dbq'[i].task] = dbq'[i].op
<1>1. \A i \in DOMAIN dbq : dbq[i].task \in Tasks /\ In(Issuers, dbq[i].task)
  BY IssuedByTasks DEF LoopInv, LoopTyped
<1>2. \A i \in DOMAIN dbq : pc'[dbq[i].task] = dbq[i].op
  BY <1>1 DEF LoopInv, QueueInv
<1>3. \A i \in DOMAIN dbq' : dbq'[i] = [task |-> t, op |-> op] \/ \E j \in DOMAIN dbq : dbq'[i] = dbq[j]
  BY QueueShape DEF LoopInv, LoopTyped
<1> QED
  BY <1>2, <1>3

\* The task that moves is not in the database queue.
LEMMA OpsStay ==
    ASSUME LoopInv, \A t \in Tasks : pc'[t] = pc[t] \/ ~In(Issuers, t),
           dbq' = dbq \/ (dbq # << >> /\ dbq' = Tail(dbq))
    PROVE  \A i \in DOMAIN dbq' : pc'[dbq'[i].task] = dbq'[i].op
<1>1. \A i \in DOMAIN dbq : dbq[i].task \in Tasks /\ In(Issuers, dbq[i].task)
  BY IssuedByTasks DEF LoopInv, LoopTyped
<1>2. \A i \in DOMAIN dbq : pc'[dbq[i].task] = dbq[i].op
  BY <1>1 DEF LoopInv, QueueInv
<1>3. \A i \in DOMAIN dbq' : \E j \in DOMAIN dbq : dbq'[i] = dbq[j]
  <2>1. CASE dbq # << >> /\ dbq' = Tail(dbq)
    <3>1. /\ DOMAIN dbq' = 1 .. Len(dbq) - 1
          /\ \A i \in 1 .. Len(dbq) - 1 : dbq'[i] = dbq[i + 1] /\ i + 1 \in DOMAIN dbq
      BY <2>1, QueueShape DEF LoopInv, LoopTyped
    <3> QED
      BY <3>1
  <2> QED
    BY <2>1
<1> QED
  BY <1>2, <1>3

\* A task that rests, or is at the head of the loop's queue, awaits an operation.
LEMMA AwaitLoop ==
    ASSUME LoopInv, NEW t \in Tasks, NEW op \in DbOps, MayCome(t, op), Await(t, op),
           \/ pc[t] \in Resting /\ ready' = ready
           \/ io[t] = "returned" /\ ready # << >> /\ Head(ready) = t /\ ready' = Tail(ready)
    PROVE  LoopInv'
<1>1. /\ pc' = [pc EXCEPT ![t] = op]
      /\ pc'[t] = op /\ io'[t] = "queued" /\ dbq' = Append(dbq, [task |-> t, op |-> op])
      /\ \A u \in Tasks : u # t => pc'[u] = pc[u] /\ io'[u] = io[u]
  BY DEF Await, LoopInv, LoopTyped, PlaceTyped
<1>2. /\ ready \in Seq(Tasks) /\ Issuers \in Seq(Tasks) /\ Issuers' = Append(Issuers, t)
  BY <1>1, IssuersMove DEF LoopInv, LoopTyped
<1>3. io[t] # "queued" /\ ~In(Issuers, t)
  BY DEF LoopInv, QueueInv, QueueFacts
<1>4. /\ ~In(ready', t) /\ Distinct(ready') /\ ready' \in Seq(Tasks)
      /\ \A u \in Tasks : u # t => (In(ready', u) <=> In(ready, u))
  <2>1. CASE pc[t] \in Resting /\ ready' = ready
    BY <1>2, <2>1 DEF LoopInv, QueueInv, QueueFacts
  <2>2. CASE ready # << >> /\ Head(ready) = t /\ ready' = Tail(ready)
    BY <1>2, <2>2, QueueTail DEF LoopInv, QueueInv
  <2> QED
    BY <2>1, <2>2
<1>5. /\ In(Issuers', t) /\ Distinct(Issuers')
      /\ \A u \in Tasks : u # t => (In(Issuers', u) <=> In(Issuers, u))
  BY <1>2, <1>3, QueueAppend DEF LoopInv, QueueInv
<1>6. op \notin Resting
  BY DEF Resting, DbOps, GateOps, ReadOps, StoreOps
<1>7. \A u \in Tasks : QueueFacts(u)'
  BY <1>1, <1>4, <1>5, <1>6 DEF LoopInv, QueueInv, QueueFacts
<1>8. \A i \in DOMAIN dbq' : pc'[dbq'[i].task] = dbq'[i].op
  BY <1>1, <1>3, OpsAwait
<1>9. LoopTyped'
  <2>1. PlaceTyped'
    BY <1>1, PlaceMove DEF LoopInv, LoopTyped
  <2>2. [task |-> t, op |-> op] \in Operations
    BY DEF Operations
  <2>3. dbq' \in Seq(Operations)
    BY <1>1, <2>2 DEF LoopInv, LoopTyped
  <2>4. io' \in [Tasks -> IoStates]
    BY DEF Await, LoopInv, LoopTyped, IoStates
  <2> QED
    BY <2>1, <2>3, <2>4, <1>4 DEF LoopTyped
<1> QED
  BY <1>4, <1>5, <1>7, <1>8, <1>9 DEF LoopInv, QueueInv

LEMMA StartLoop ==
    ASSUME LoopInv, NEW t \in Tasks, NEW op \in DbOps, MayCome(t, op), Start(t, op), pc[t] \in Resting
    PROVE  LoopInv'
BY AwaitLoop DEF Start

LEMMA ContinueLoop ==
    ASSUME LoopInv, NEW t \in Tasks, NEW op, NEW next \in DbOps, MayCome(t, next), Continue(t, op, next)
    PROVE  LoopInv'
BY AwaitLoop DEF Continue, Runnable

\* A task leaves the loop's queue for a place where it awaits no operation.
LEMMA LeaveLoop ==
    ASSUME LoopInv, NEW t \in Tasks, NEW op, NEW place, MayCome(t, place), place \notin DbOps,
           Leave(t, op, place)
    PROVE  LoopInv'
<1>1. /\ pc[t] = op /\ io[t] = "returned" /\ pc'[t] = place /\ io'[t] = "none" /\ dbq' = dbq
      /\ ready # << >> /\ Head(ready) = t /\ ready' = Tail(ready)
      /\ pc' = [pc EXCEPT ![t] = place]
      /\ \A u \in Tasks : u # t => pc'[u] = pc[u] /\ io'[u] = io[u]
  BY DEF Leave, Runnable, LoopInv, LoopTyped, PlaceTyped
<1>2. ready \in Seq(Tasks) /\ Issuers' = Issuers
  BY <1>1 DEF LoopInv, LoopTyped, Issuers
<1>3. ~In(Issuers, t)
  BY <1>1 DEF LoopInv, QueueInv, QueueFacts
<1>4. /\ ~In(ready', t) /\ Distinct(ready')
      /\ \A u \in Tasks : u # t => (In(ready', u) <=> In(ready, u))
  BY <1>1, <1>2, QueueTail DEF LoopInv, QueueInv
<1>5. \A u \in Tasks : QueueFacts(u)'
  BY <1>1, <1>2, <1>3, <1>4 DEF LoopInv, QueueInv, QueueFacts
<1>6. \A i \in DOMAIN dbq' : pc'[dbq'[i].task] = dbq'[i].op
  BY <1>1, <1>3, OpsStay
<1>7. LoopTyped'
  <2>1. PlaceTyped'
    BY <1>1, PlaceMove DEF LoopInv, LoopTyped
  <2>2. io' \in [Tasks -> IoStates] /\ ready' \in Seq(Tasks)
    BY <1>1, <1>2 DEF Leave, LoopInv, LoopTyped, IoStates
  <2> QED
    BY <2>1, <2>2, <1>1 DEF LoopInv, LoopTyped
<1> QED
  BY <1>2, <1>4, <1>5, <1>6, <1>7 DEF LoopInv, QueueInv

\* The thread has run an operation: its task is the last that becomes runnable.
LEMMA CompleteLoop ==
    ASSUME LoopInv, dbq # << >>, Complete
    PROVE  LoopInv'
<1> DEFINE t == Head(dbq).task
<1>1. /\ ready \in Seq(Tasks) /\ Issuers \in Seq(Tasks) /\ Issuers # << >> /\ Head(Issuers) = t
      /\ Issuers' = Tail(Issuers) /\ dbq' = Tail(dbq) /\ pc' = pc
  BY IssuersMove DEF Complete, LoopInv, LoopTyped
<1>2. t \in Tasks /\ pc[t] = Head(dbq).op /\ io[t] = "queued"
  BY HeadFacts DEF Queued
<1>3. /\ ~In(Issuers', t) /\ Distinct(Issuers')
      /\ \A u \in Tasks : u # t => (In(Issuers', u) <=> In(Issuers, u))
  BY <1>1, QueueTail DEF LoopInv, QueueInv
<1>4. \A i \in DOMAIN dbq' : pc'[dbq'[i].task] = dbq'[i].op
  BY <1>1, OpsStay
<1>5. /\ io' = [io EXCEPT ![t] = "returned"] /\ ready' = Append(ready, t)
  BY <1>2 DEF Awaited, Complete
<1>6. io'[t] = "returned" /\ \A u \in Tasks : u # t => io'[u] = io[u]
  BY <1>2, <1>5 DEF LoopInv, LoopTyped
<1>7. ~In(ready, t)
  BY <1>2 DEF LoopInv, QueueInv, QueueFacts
<1>8. /\ In(ready', t) /\ Distinct(ready')
      /\ \A u \in Tasks : u # t => (In(ready', u) <=> In(ready, u))
  BY <1>1, <1>5, <1>7, QueueAppend DEF LoopInv, QueueInv
<1>9. \A u \in Tasks : QueueFacts(u)'
  BY <1>1, <1>2, <1>3, <1>6, <1>8 DEF LoopInv, QueueInv, QueueFacts
<1>10. LoopTyped'
  <2>1. dbq' \in Seq(Operations)
    BY <1>1 DEF LoopInv, LoopTyped
  <2>2. io' \in [Tasks -> IoStates] /\ ready' \in Seq(Tasks)
    BY <1>1, <1>2, <1>5 DEF LoopInv, LoopTyped, IoStates
  <2>3. PlaceTyped'
    BY <1>1 DEF LoopInv, LoopTyped, PlaceTyped
  <2> QED
    BY <2>1, <2>2, <2>3 DEF LoopTyped
<1> QED
  BY <1>3, <1>4, <1>8, <1>9, <1>10 DEF LoopInv, QueueInv

\* An answer from outside wakes a request that waits for it.
LEMMA WakesLoop ==
    ASSUME LoopInv, NEW t \in Tasks, pc[t] \notin DbOps \cup Resting, io[t] = "none", Wakes(t)
    PROVE  LoopInv'
<1>1. /\ io' = [io EXCEPT ![t] = "returned"] /\ ready' = Append(ready, t) /\ pc' = pc /\ dbq' = dbq
      /\ io'[t] = "returned" /\ \A u \in Tasks : u # t => io'[u] = io[u]
  BY DEF Wakes, LoopInv, LoopTyped
<1>2. ~In(ready, t) /\ ~In(Issuers, t) /\ ready \in Seq(Tasks) /\ Issuers' = Issuers
  BY <1>1 DEF LoopInv, LoopTyped, QueueInv, QueueFacts, Issuers
<1>3. /\ In(ready', t) /\ Distinct(ready') /\ ready' \in Seq(Tasks)
      /\ \A u \in Tasks : u # t => (In(ready', u) <=> In(ready, u))
  BY <1>1, <1>2, QueueAppend DEF LoopInv, QueueInv
<1>4. \A u \in Tasks : QueueFacts(u)'
  BY <1>1, <1>2, <1>3 DEF LoopInv, QueueInv, QueueFacts
<1>5. LoopTyped'
  BY <1>1, <1>3 DEF LoopInv, LoopTyped, PlaceTyped, IoStates
<1> QED
  BY <1>1, <1>2, <1>3, <1>4, <1>5 DEF LoopInv, QueueInv

\* A task that is in no queue goes to another place without an operation.
LEMMA StepLoop ==
    ASSUME LoopInv, NEW t \in Tasks, NEW place, MayCome(t, place), place \notin DbOps,
           io[t] = "none", pc' = [pc EXCEPT ![t] = place], UNCHANGED <<io, dbq, ready>>
    PROVE  LoopInv'
<1>1. Issuers' = Issuers /\ ~In(Issuers, t) /\ pc'[t] = place
      /\ \A u \in Tasks : u # t => pc'[u] = pc[u]
  BY DEF Issuers, LoopInv, LoopTyped, PlaceTyped, QueueInv, QueueFacts
<1>2. \A u \in Tasks : QueueFacts(u)'
  BY <1>1 DEF LoopInv, QueueInv, QueueFacts
<1>3. \A i \in DOMAIN dbq' : pc'[dbq'[i].task] = dbq'[i].op
  BY <1>1, OpsStay
<1>4. LoopTyped'
  BY PlaceMove DEF LoopInv, LoopTyped
<1> QED
  BY <1>1, <1>2, <1>3, <1>4 DEF LoopInv, QueueInv

LEMMA NextAwaits ==
    /\ DOMAIN NextAwait = {"insert", "resolve", "store", "cached", "list"}
    /\ NextAwait["insert"] = "insertCommit"
    /\ NextAwait["resolve"] = "resolveCommit"
    /\ NextAwait["store"] = "storeCommit"
    /\ NextAwait["cached"] = "cachedFetch"
    /\ NextAwait["list"] = "listFetch"
BY DEF NextAwait

USE DEF CallPlaces, RequestPlaces, DbOps, GateOps, ReadOps, StoreOps, Resting, Over

\* The thread only runs what is in its queue.
LEMMA ThreadCompletes ==
    ASSUME DbThread
    PROVE  dbq # << >> /\ Complete
BY DEF DbThread, InsertAction, ResolveAction, UpsertNarration, Commit, GetNarration, ListActions,
       Fetch, OperationIs

LEMMA LoopSecondAwait ==
    ASSUME LoopInv, NEW t \in Tasks, SecondAwait(t)
    PROVE  LoopInv'
<1>1. PICK op \in DOMAIN NextAwait : Continue(t, op, NextAwait[op])
  BY DEF SecondAwait
<1>2. pc[t] = op
  BY <1>1 DEF Continue, Runnable
<1>3. NextAwait[op] \in DbOps
  BY NextAwaits
<1>4. MayCome(t, NextAwait[op])
  BY <1>2, NextAwaits DEF MayCome, LoopInv, LoopTyped, PlaceTyped
<1> QED
  BY <1>1, <1>3, <1>4, ContinueLoop

LEMMA LoopGate ==
    ASSUME LoopInv, NEW c \in Calls,
           Submit(c) \/ Submitted(c) \/ Resolve(c) \/ Resolved(c) \/ Export(c)
    PROVE  LoopInv'
<1>1. c \in Tasks /\ c \notin Requests
  BY TwoKinds
<1>2. CASE Submit(c)
  BY <1>1, <1>2, StartLoop DEF Submit, MayCome
<1>3. CASE Submitted(c)
  BY <1>1, <1>3, LeaveLoop DEF Submitted, MayCome
<1>4. CASE Resolve(c)
  BY <1>1, <1>4, StartLoop DEF Resolve, MayCome
<1>5. CASE Resolved(c)
  BY <1>1, <1>5, LeaveLoop DEF Resolved, MayCome
<1>6. CASE Export(c)
  BY <1>6 DEF Export, loopVars, LoopInv, LoopTyped, PlaceTyped, QueueInv, QueueFacts, Issuers
<1> QED
  BY <1>2, <1>3, <1>4, <1>5, <1>6

LEMMA LoopRequest ==
    ASSUME LoopInv, NEW r \in Requests,
           \/ Narrate(r) \/ Cached(r) \/ Missed(r) \/ FallsBack(r) \/ Asks(r) \/ FindsNothing(r)
           \/ Stores(r) \/ Answered(r) \/ Outside(r) \/ AsksAgain(r)
    PROVE  LoopInv'
<1>1. r \in Tasks /\ r \notin Calls
  BY TwoKinds
<1>2. CASE Narrate(r)
  BY <1>1, <1>2, StartLoop DEF Narrate, MayCome
<1>3. CASE Cached(r)
  BY <1>1, <1>3, LeaveLoop DEF Cached, MayCome
<1>4. CASE Missed(r)
  BY <1>1, <1>4, LeaveLoop DEF Missed, MayCome
<1>5. CASE FallsBack(r)
  BY <1>1, <1>5, ContinueLoop DEF FallsBack, MayCome
<1>6. CASE Asks(r)
  BY <1>1, <1>6, LeaveLoop DEF Asks, MayCome
<1>7. CASE FindsNothing(r)
  BY <1>1, <1>7, ContinueLoop DEF FindsNothing, MayCome
<1>8. CASE Stores(r)
  BY <1>1, <1>8, ContinueLoop DEF Stores, MayCome
<1>9. CASE Answered(r)
  BY <1>1, <1>9, LeaveLoop DEF Answered, MayCome
<1>10. CASE TraceApi(r)
  BY <1>1, <1>10, WakesLoop DEF TraceApi
<1>11. CASE Tells(r)
  BY <1>1, <1>11, WakesLoop DEF Tells
<1>12. CASE Refused429(r)
  BY <1>1, <1>12, StepLoop DEF Refused429, MayCome
<1>13. CASE Fails(r) \/ Misread(r)
  BY <1>1, <1>13, StepLoop DEF Fails, Misread, MayCome
<1>14. CASE AsksAgain(r)
  <2>1. io[r] = "none"
    BY <1>1, <1>14 DEF AsksAgain, LoopInv, QueueInv, QueueFacts
  <2> QED
    BY <1>1, <1>14, <2>1, StepLoop DEF AsksAgain, MayCome
<1> QED
  BY <1>2, <1>3, <1>4, <1>5, <1>6, <1>7, <1>8, <1>9, <1>10, <1>11, <1>12, <1>13, <1>14 DEF Outside

LEMMA LoopCrash ==
    ASSUME LoopInv, Crash
    PROVE  LoopInv'
<1>1. /\ ready' = << >> /\ dbq' = << >> /\ io' = [t \in Tasks |-> "none"]
      /\ pc' = [t \in Tasks |-> IF pc[t] \in Over THEN pc[t] ELSE "lost"]
  BY DEF Crash
<1>2. DOMAIN ready' = {} /\ DOMAIN dbq' = {} /\ DOMAIN Issuers' = {}
  BY <1>1 DEF Issuers
<1>3. LoopTyped'
  BY <1>1, TwoKinds DEF LoopInv, LoopTyped, PlaceTyped, IoStates
<1>4. QueueInv'
  BY <1>1, <1>2 DEF QueueInv, QueueFacts, Distinct, In
<1> QED
  BY <1>3, <1>4 DEF LoopInv

LEMMA LoopStep ==
    ASSUME LoopInv, [Next]_vars
    PROVE  LoopInv'
<1>1. CASE UNCHANGED loopVars
  BY <1>1 DEF loopVars, LoopInv, LoopTyped, PlaceTyped, QueueInv, QueueFacts, Issuers
<1>2. CASE DbThread
  BY <1>2, ThreadCompletes, CompleteLoop
<1>3. CASE LoopRuns
  BY <1>3, LoopSecondAwait, LoopGate, LoopRequest DEF LoopRuns
<1>4. CASE Boot
  BY <1>1, <1>4 DEF Boot
<1>5. CASE UNCHANGED vars
  BY <1>1, <1>5 DEF vars
<1> QED
  BY <1>2, <1>3, <1>4, <1>5, LoopCrash, LoopGate, LoopRequest DEF Next
-----------------------------------------------------------------------------
(* Types of the data.                                                      *)

LEMMA TextTypes ==
    /\ NoText \in Texts /\ NoActivity \in Texts
    /\ NoText # NoActivity
BY DEF NoText, NoActivity, Texts, Scribes

\* The facts of a table.
LEMMA FactsTyped ==
    ASSUME NEW table \in Seq(Rows)
    PROVE  FactsOf(table) \subseteq [call : Calls, status : Statuses, nth : Nat \ {0}]
<1> SUFFICES ASSUME NEW i \in DOMAIN table
             PROVE  [call |-> table[i].call, status |-> table[i].status, nth |-> i]
                        \in [call : Calls, status : Statuses, nth : Nat \ {0}]
  BY DEF FactsOf
<1>1. table[i] \in Rows /\ i \in Nat \ {0}
  OBVIOUS
<1> QED
  BY <1>1 DEF Rows

\* The rows of the sweep: each pending call once.
LEMMA SweepFacts ==
    ASSUME NEW sweep \in Orders(Pending)
    PROVE  /\ \E n \in Nat : DOMAIN sweep = 1 .. n
           /\ \A i \in DOMAIN sweep : sweep[i] \in Pending
           /\ \A i, j \in DOMAIN sweep : sweep[i] = sweep[j] => i = j
           /\ [i \in DOMAIN sweep |-> [call |-> sweep[i], status |-> "EXPIRED"]] \in Seq(Rows)
<1>1. IsFiniteSet(Pending)
  <2>1. Pending \subseteq Calls
    BY DEF Pending
  <2> QED
    BY <2>1, NarratorAssumption, FS_Subset
<1>2. Cardinality(Pending) \in Nat
  BY <1>1, FS_CardinalityType
<1>3. sweep \in [1 .. Cardinality(Pending) -> Pending] /\ \A i, j \in DOMAIN sweep : sweep[i] = sweep[j] => i = j
  BY DEF Orders
<1>4. \A i \in DOMAIN sweep : [call |-> sweep[i], status |-> "EXPIRED"] \in Rows
  BY <1>3 DEF Rows, Pending, Statuses, Resolutions
<1>5. [i \in DOMAIN sweep |-> [call |-> sweep[i], status |-> "EXPIRED"]] \in Seq(Rows)
  BY <1>2, <1>3, <1>4
<1> QED
  BY <1>2, <1>3, <1>5

LEMMA HeadRequest ==
    ASSUME LoopInv, OperationIs({"store", "cached", "list", "storeCommit", "cachedFetch", "listFetch"})
    PROVE  Head(dbq).task \in Requests
BY HeadFacts, TwoKinds DEF OperationIs, Queued, LoopInv, LoopTyped, PlaceTyped, Tasks

LEMMA HeadCall ==
    ASSUME LoopInv, OperationIs({"insert", "resolve", "insertCommit", "resolveCommit"})
    PROVE  Head(dbq).task \in Calls
BY HeadFacts, TwoKinds DEF OperationIs, Queued, LoopInv, LoopTyped, PlaceTyped, Tasks

\* A row that is written.
LEMMA WritesTyped ==
    ASSUME log \in Seq(Rows), NEW c \in Calls, NEW status \in Statuses, Writes(c, status)
    PROVE  log' \in Seq(Rows)
<1>1. [call |-> c, status |-> status] \in Rows
  BY DEF Rows
<1> QED
  BY <1>1 DEF Writes

LEMMA DataInit == Init => LoopInv /\ DataTyped
<1> SUFFICES ASSUME Init PROVE LoopInv /\ DataTyped
  OBVIOUS
<1>1. ready = << >> /\ dbq = << >> /\ log = << >> /\ durable = [log |-> << >>, text |-> NoText]
  BY DEF Init
<1>2. DOMAIN ready = {} /\ DOMAIN dbq = {} /\ DOMAIN Issuers = {}
  BY <1>1 DEF Issuers
<1>3. io = [t \in Tasks |-> "none"] /\ pc = [t \in Tasks |-> "idle"]
  BY DEF Init
<1>4. LoopTyped
  BY <1>1, <1>3, TwoKinds DEF LoopTyped, PlaceTyped, IoStates
<1>5. QueueInv
  BY <1>2, <1>3 DEF QueueInv, QueueFacts, Distinct, In
<1>6. log \in Seq(Rows) /\ durable \in [log : Seq(Rows), text : Texts]
  BY <1>1, TextTypes
<1>7. attempts \in [Requests -> 0 .. MaxRetries] /\ crashes \in 0 .. MaxCrashes
  BY NarratorAssumption DEF Init
<1>8. held \subseteq Calls /\ phase \in {"serving", "down"} /\ text \in Texts
  BY TextTypes DEF Init
<1>9. got \in [Requests -> Texts] /\ told \in [Requests -> Texts] /\ settled \in [Requests -> Texts]
  BY TextTypes DEF Init
<1> QED
  BY <1>4, <1>5, <1>6, <1>7, <1>8, <1>9 DEF LoopInv, DataTyped

LEMMA DataThread ==
    ASSUME LoopInv, DataTyped, DbThread
    PROVE  DataTyped'
<1> DEFINE t == Head(dbq).task
<1>1. CASE InsertAction
  <2>1. t \in Calls /\ \E status \in Statuses : Writes(t, status)
    BY <1>1, HeadCall DEF InsertAction, OperationIs, Statuses
  <2>2. log' \in Seq(Rows)
    BY <2>1, WritesTyped DEF DataTyped
  <2> QED
    BY <1>1, <2>2 DEF InsertAction, DataTyped, requestVars
<1>2. CASE ResolveAction
  <2>1. t \in Calls /\ \E status \in Statuses : Writes(t, status)
    BY <1>2, HeadCall DEF ResolveAction, OperationIs, Statuses
  <2>2. log' \in Seq(Rows)
    BY <2>1, WritesTyped DEF DataTyped
  <2> QED
    BY <1>2, <2>2 DEF ResolveAction, DataTyped, requestVars
<1>3. CASE UpsertNarration
  <2>1. t \in Requests
    BY <1>3, HeadRequest DEF UpsertNarration, OperationIs
  <2> QED
    BY <1>3, <2>1 DEF UpsertNarration, DataTyped, requestVars
<1>4. CASE Commit
  BY <1>4 DEF Commit, DataTyped, requestVars
<1>5. CASE GetNarration
  BY <1>5 DEF GetNarration, DataTyped, tableVars
<1>6. CASE ListActions
  <2>1. FactsOf(log) \subseteq [call : Calls, status : Statuses, nth : Nat \ {0}]
    BY FactsTyped DEF DataTyped
  <2>2. [by |-> "timeline", facts |-> FactsOf(log)] \in Texts
    BY <2>1 DEF Texts, Scribes
  <2> QED
    BY <1>6, <2>2 DEF ListActions, DataTyped, tableVars
<1>7. CASE Fetch
  BY <1>7 DEF Fetch, DataTyped, tableVars, requestVars
<1> QED
  BY <1>1, <1>2, <1>3, <1>4, <1>5, <1>6, <1>7 DEF DbThread

\* What is condensed is a part of the timeline.
LEMMA CondensePart ==
    \A facts : Condense(facts) \subseteq facts
BY DEF Condense

LEMMA DataRequest ==
    ASSUME LoopInv, DataTyped, FactInv, LogInv, NEW r \in Requests,
           \/ Narrate(r) \/ Cached(r) \/ Missed(r) \/ FallsBack(r) \/ Asks(r) \/ FindsNothing(r)
           \/ Stores(r) \/ Answered(r) \/ Outside(r) \/ AsksAgain(r)
    PROVE  DataTyped'
<1>1. CASE Narrate(r)
  BY <1>1 DEF Narrate, DataTyped, tableVars, requestVars
<1>2. CASE Cached(r) \/ Answered(r)
  BY <1>2 DEF Cached, Answered, Answers, DataTyped, tableVars
<1>3. CASE Missed(r) \/ FallsBack(r) \/ Stores(r) \/ Fails(r) \/ Misread(r) \/ AsksAgain(r)
  BY <1>3 DEF Missed, FallsBack, Stores, Fails, Misread, AsksAgain, DataTyped, tableVars, requestVars
<1>4. CASE Asks(r)
  <2>1. got[r] \in Texts
    BY DEF DataTyped
  <2>2. [got[r] EXCEPT !.facts = Condense(@)] \in Texts
    BY <2>1, CondensePart DEF Texts
  <2>3. got' \in [Requests -> Texts]
    BY <1>4, <2>2 DEF Asks, DataTyped
  <2>4. 1 \in 0 .. MaxRetries
    BY NarratorAssumption
  <2>5. attempts' \in [Requests -> 0 .. MaxRetries]
    BY <1>4, <2>4 DEF Asks, DataTyped
  <2> QED
    BY <1>4, <2>3, <2>5 DEF Asks, DataTyped, tableVars
<1>5. CASE FindsNothing(r)
  BY <1>5, TextTypes DEF FindsNothing, DataTyped, tableVars
<1>6. CASE TraceApi(r)
  <2>1. FactsOf(durable.log) \subseteq [call : Calls, status : Statuses, nth : Nat \ {0}]
    BY FactsTyped DEF DataTyped
  <2>2. \A facts \in {exported, {}} : [by |-> "timeline", facts |-> facts] \in Texts
    BY <2>1 DEF FactInv, Texts, Scribes
  <2> QED
    BY <1>6, <2>2 DEF TraceApi, DataTyped, tableVars
<1>7. CASE Tells(r)
  <2>1. got[r] \in Texts
    BY DEF DataTyped
  <2>2. [got[r] EXCEPT !.by = r] \in Texts
    BY <2>1 DEF Texts
  <2>3. got' \in [Requests -> Texts]
    BY <1>7, <2>2 DEF Tells, DataTyped
  <2> QED
    BY <1>7, <2>3 DEF Tells, DataTyped, tableVars
<1>8. CASE Refused429(r)
  <2>1. attempts[r] \in 0 .. MaxRetries /\ MaxRetries \in Nat
    BY NarratorAssumption DEF DataTyped
  <2>2. attempts[r] + 1 \in 0 .. MaxRetries
    BY <1>8, <2>1 DEF Refused429
  <2> QED
    BY <1>8, <2>2 DEF Refused429, DataTyped, tableVars
<1> QED
  BY <1>1, <1>2, <1>3, <1>4, <1>5, <1>6, <1>7, <1>8 DEF Outside

LEMMA DataStep ==
    ASSUME LoopInv, DataTyped, FactInv, LogInv, [Next]_vars
    PROVE  DataTyped'
<1>1. ASSUME NEW t \in Tasks, SecondAwait(t) PROVE DataTyped'
  BY <1>1 DEF SecondAwait, DataTyped, tableVars, requestVars
<1>2. ASSUME NEW c \in Calls, Submit(c) \/ Submitted(c) \/ Resolve(c) \/ Resolved(c) \/ Export(c)
      PROVE  DataTyped'
  BY <1>2 DEF Submit, Submitted, Resolve, Resolved, Export, DataTyped, tableVars, requestVars
<1>3. CASE Crash
  <2>1. crashes' \in 0 .. MaxCrashes
    BY <1>3, NarratorAssumption DEF Crash, DataTyped
  <2> QED
    BY <1>3, <2>1 DEF Crash, DataTyped, requestVars
<1>4. CASE Boot
  <2>1. PICK sweep \in Orders(Pending) :
            log' = log \o [i \in DOMAIN sweep |-> [call |-> sweep[i], status |-> "EXPIRED"]]
    BY <1>4 DEF Boot
  <2>2. log' \in Seq(Rows)
    BY <2>1, SweepFacts DEF DataTyped
  <2> QED
    BY <1>4, <2>2 DEF Boot, DataTyped, requestVars
<1>5. CASE UNCHANGED vars
  BY <1>5 DEF vars, DataTyped, tableVars, requestVars
<1> QED
  BY <1>1, <1>2, <1>3, <1>4, <1>5, DataThread, DataRequest DEF Next, LoopRuns
-----------------------------------------------------------------------------
(* Who moves in a step.                                                    *)

\* The thread wakes the task whose operation it has run, and moves nobody.
LEMMA ThreadMoves ==
    ASSUME LoopInv, DbThread
    PROVE  /\ pc' = pc /\ dbq' = Tail(dbq) /\ ready' = Append(ready, Head(dbq).task)
           /\ dbq # << >> /\ Head(dbq).task \in Tasks /\ Queued(Head(dbq).task, Head(dbq).op)
           /\ io'[Head(dbq).task] = "returned"
           /\ \A u \in Tasks : u # Head(dbq).task => io'[u] = io[u]
<1>1. dbq # << >> /\ Complete
  BY ThreadCompletes
<1>2. Head(dbq).task \in Tasks /\ Queued(Head(dbq).task, Head(dbq).op)
  BY <1>1, HeadFacts
<1> QED
  BY <1>1, <1>2 DEF Complete, Awaited, Queued, LoopInv, LoopTyped

\* A step of the gate or of a request moves no other task.
LEMMA GateMoves ==
    ASSUME LoopInv, NEW c \in Calls,
           Submit(c) \/ Submitted(c) \/ Resolve(c) \/ Resolved(c) \/ Export(c)
    PROVE  \A u \in Tasks \ {c} : pc'[u] = pc[u] /\ io'[u] = io[u]
BY DEF Submit, Submitted, Resolve, Resolved, Export, Start, Leave, Await, loopVars, LoopInv, LoopTyped,
       PlaceTyped

LEMMA RequestMoves ==
    ASSUME LoopInv, NEW r \in Requests,
           \/ Narrate(r) \/ Cached(r) \/ Missed(r) \/ FallsBack(r) \/ Asks(r) \/ FindsNothing(r)
           \/ Stores(r) \/ Answered(r) \/ Outside(r) \/ AsksAgain(r)
    PROVE  \A u \in Tasks \ {r} : pc'[u] = pc[u] /\ io'[u] = io[u]
<1>1. CASE Narrate(r) \/ FallsBack(r) \/ FindsNothing(r) \/ Stores(r)
  BY <1>1 DEF Narrate, FallsBack, FindsNothing, Stores, Start, Continue, Await, LoopInv, LoopTyped,
              PlaceTyped
<1>2. CASE Cached(r) \/ Missed(r) \/ Asks(r) \/ Answered(r)
  BY <1>2 DEF Cached, Missed, Asks, Answered, Leave, LoopInv, LoopTyped, PlaceTyped
<1>3. CASE TraceApi(r) \/ Tells(r)
  BY <1>3 DEF TraceApi, Tells, Wakes, LoopInv, LoopTyped, PlaceTyped
<1>4. CASE Refused429(r) \/ Fails(r) \/ Misread(r) \/ AsksAgain(r)
  BY <1>4 DEF Refused429, Fails, Misread, AsksAgain, LoopInv, LoopTyped, PlaceTyped
<1> QED
  BY <1>1, <1>2, <1>3, <1>4 DEF Outside

\* A store method goes on to its second operation.
LEMMA SecondMoves ==
    ASSUME LoopInv, NEW t \in Tasks, SecondAwait(t)
    PROVE  /\ \A u \in Tasks \ {t} : pc'[u] = pc[u] /\ io'[u] = io[u]
           /\ \E op \in {"insert", "resolve", "store", "cached", "list"} :
                 /\ Ran(t, op) /\ Queued(t, NextAwait[op])'
                 /\ ready # << >> /\ Head(ready) = t /\ ready' = Tail(ready)
                 /\ dbq' = Append(dbq, [task |-> t, op |-> NextAwait[op]])
<1>1. PICK op \in DOMAIN NextAwait : Continue(t, op, NextAwait[op])
  BY DEF SecondAwait
<1>2. /\ Ran(t, op) /\ Queued(t, NextAwait[op])'
      /\ ready # << >> /\ Head(ready) = t /\ ready' = Tail(ready)
      /\ dbq' = Append(dbq, [task |-> t, op |-> NextAwait[op]])
  BY <1>1 DEF Continue, Runnable, Await, Ran, Queued, LoopInv, LoopTyped, PlaceTyped
<1>3. \A u \in Tasks \ {t} : pc'[u] = pc[u] /\ io'[u] = io[u]
  BY <1>1 DEF Continue, Await, LoopInv, LoopTyped, PlaceTyped
<1> QED
  BY <1>2, <1>3, NextAwaits

\* While atc-core is down nothing moves, until it starts again.
LEMMA DownMoves ==
    ASSUME LoopInv, DownInv, phase = "down", Next
    PROVE  Boot \/ \E c \in Calls : Export(c)
<1>1. \A t \in Tasks : pc[t] \in Over /\ pc[t] \in Resting
  BY DEF DownInv
<1>2. ~DbThread
  BY <1>1, ThreadMoves, HeadFacts DEF Queued
<1>3. ready = << >>
  <2>1. \A t \in Tasks : ~In(ready, t)
    BY <1>1 DEF LoopInv, QueueInv, QueueFacts
  <2> QED
    BY <2>1, QueueTail DEF LoopInv, LoopTyped
<1>4. ~LoopRuns
  BY <1>3 DEF LoopRuns, SecondAwait, Submitted, Resolved, Cached, Missed, FallsBack, Asks, FindsNothing,
              Stores, Answered, Continue, Leave, Runnable
<1>5. ASSUME NEW r \in Requests, Narrate(r) \/ Outside(r) \/ AsksAgain(r) PROVE FALSE
  BY <1>1, <1>5, TwoKinds DEF Narrate, Outside, TraceApi, Tells, Refused429, Fails, Misread, AsksAgain
<1>6. ASSUME NEW c \in Calls, Submit(c) \/ Resolve(c) PROVE FALSE
  BY <1>1, <1>6, TwoKinds DEF Submit, Resolve
<1> QED
  BY <1>2, <1>4, <1>5, <1>6 DEF Next, Crash

\* Only a crash stops atc-core, and only a boot starts it.
LEMMA PhaseMoves ==
    ASSUME [Next]_vars
    PROVE  phase' = phase \/ Crash \/ Boot
BY DEF Next, DbThread, InsertAction, ResolveAction, UpsertNarration, Commit, GetNarration, ListActions,
       Fetch, LoopRuns, SecondAwait, Submitted, Resolved, Cached, Missed, FallsBack, Asks, FindsNothing,
       Stores, Answered, Submit, Resolve, Export, Narrate, Outside, TraceApi, Tells, Refused429, Fails,
       Misread, AsksAgain, vars

LEMMA DownStep ==
    ASSUME LoopInv, DownInv, [Next]_vars
    PROVE  DownInv'
<1>1. CASE Crash
  BY <1>1 DEF Crash, DownInv
<1>2. CASE Boot
  BY <1>2 DEF Boot, DownInv
<1>3. CASE phase = "down" /\ pc' = pc
  BY <1>3 DEF DownInv
<1>4. CASE phase = "down" /\ Next
  BY <1>2, <1>3, <1>4, DownMoves DEF Export, loopVars
<1> QED
  BY <1>1, <1>2, <1>3, <1>4, PhaseMoves DEF DownInv, vars, loopVars
-----------------------------------------------------------------------------
(* The rows.                                                               *)

LEMMA RowTyped ==
    ASSUME DataTyped
    PROVE  /\ DOMAIN log = 1 .. Len(log) /\ Len(log) \in Nat
           /\ DOMAIN durable.log = 1 .. Len(durable.log) /\ Len(durable.log) \in Nat
           /\ \A i \in DOMAIN log : log[i].call \in Calls /\ log[i].status \in Statuses
<1>1. \A i \in DOMAIN log : log[i] \in Rows
  BY DEF DataTyped
<1> QED
  BY <1>1 DEF DataTyped, Rows

\* A pending call has rows, none of which decides it.  (So it has one: a second row
\* of a call is its decision.)
LEMMA PendingUndecided ==
    ASSUME DataTyped, LogInv, NEW c \in Pending
    PROVE  Undecided(c) /\ \E i \in DOMAIN log : log[i].call = c
<1> DEFINE said == {i \in DOMAIN log : log[i].call = c}
           last == CHOOSE i \in said : \A j \in said : i >= j
<1>1. said # {} /\ log[last].status = "PENDING"
  BY DEF Pending, Status, StatusIn, NoRow
<1>2. \A i, j \in said : i < j => log[i].status = "PENDING" /\ log[j].status \in Resolutions
  BY RowTyped DEF LogInv, Moves, NoRow, Statuses, Resolutions, Verdicts
<1>3. \E i \in said : \A j \in said : i >= j
  <2>1. PICK i \in said : TRUE
    BY <1>1
  <2>2. CASE \E j \in said : i < j
    <3>1. PICK j \in said : i < j
      BY <2>2
    <3>2. \A k \in said : j >= k
      BY <1>2, <3>1, RowTyped DEF Resolutions, Verdicts
    <3> QED
      BY <3>2
  <2>3. CASE \A j \in said : ~(i < j)
    BY <2>3, RowTyped
  <2> QED
    BY <2>2, <2>3
<1>4. last \in said /\ \A j \in said : last >= j
  BY <1>3
<1> HIDE DEF last
<1>5. \A i \in said : i = last
  BY <1>1, <1>2, <1>4, RowTyped DEF Resolutions, Verdicts
<1> QED
  BY <1>1, <1>4, <1>5 DEF Undecided

\* What is known of a call is the same when the table and the call stay.
LEMMA RowStays ==
    ASSUME NEW c \in Calls, RowInv(c), log' = log, durable'.log = durable.log, held' = held,
           pc'[c] = pc[c], io'[c] = io[c]
    PROVE  RowInv(c)'
BY DEF RowInv, Ran, Queued, Undecided, Committed

\* A row of another call changes nothing either.
LEMMA RowOfOther ==
    ASSUME DataTyped, NEW c \in Calls, NEW row, RowInv(c), log' = Append(log, row), row.call # c,
           durable' = durable, held' = held, pc'[c] = pc[c], io'[c] = io[c]
    PROVE  RowInv(c)'
<1>1. /\ \A i \in DOMAIN log : i \in DOMAIN log' /\ log'[i] = log[i]
      /\ \A i \in DOMAIN log' : log'[i].call = c => i \in DOMAIN log
  BY RowTyped DEF DataTyped
<1> QED
  BY <1>1 DEF RowInv, Ran, Queued, Undecided, Committed

\* A call gets its first row, or the row that decides it.
LEMMA RowAppends ==
    ASSUME DataTyped, LogInv, NEW c \in Calls, NEW status \in Statuses, Writes(c, status), durable' = durable,
           \/ \A i \in DOMAIN log : log[i].call # c
           \/ Undecided(c) /\ status \in Resolutions
    PROVE  /\ IsBefore(durable.log, log)'
           /\ \A i, j \in DOMAIN log' :
                 i < j /\ log'[i].call = log'[j].call => <<log'[i].status, log'[j].status>> \in Moves
<1> DEFINE n == Len(log) + 1
<1>1. /\ DOMAIN log' = 1 .. n /\ log'[n] = [call |-> c, status |-> status] /\ n \in Nat
      /\ \A i \in DOMAIN log : i \in DOMAIN log' /\ log'[i] = log[i] /\ i < n
      /\ \A i \in DOMAIN log' : i \in DOMAIN log \/ i = n
      /\ Len(log') = n
  BY RowTyped DEF Writes, DataTyped
<1>2. IsBefore(durable.log, log)'
  BY <1>1, RowTyped DEF LogInv, IsBefore
<1>3. ASSUME NEW i \in DOMAIN log', NEW j \in DOMAIN log', i < j, log'[i].call = log'[j].call
      PROVE  <<log'[i].status, log'[j].status>> \in Moves
  <2>1. i \in DOMAIN log /\ log'[i] = log[i]
    BY <1>1, <1>3
  <2>2. CASE j \in DOMAIN log
    BY <2>1, <2>2, <1>1, <1>3 DEF LogInv
  <2>3. CASE j = n
    <3>1. log[i].status = "PENDING" /\ status \in Resolutions
      BY <2>1, <2>3, <1>1, <1>3 DEF Undecided
    <3> QED
      BY <2>1, <2>3, <3>1, <1>1 DEF Moves
  <2> QED
    BY <2>2, <2>3, <1>1
<1> QED
  BY <1>2, <1>3

LEMMA LogThread ==
    ASSUME LoopInv, DataTyped, LogInv, DbThread
    PROVE  LogInv'
<1>0. PICK t : t = Head(dbq).task
  OBVIOUS
<1>1. held' = held
  BY DEF DbThread, InsertAction, ResolveAction, UpsertNarration, Commit, GetNarration, ListActions, Fetch
<1>2. CASE InsertAction
  <2>1. t \in Calls /\ Queued(t, "insert") /\ Ran(t, "insert")'
    BY <1>0, <1>2, HeadCall, ThreadMoves DEF InsertAction, OperationIs, Ran, Queued
  <2>2. PICK status \in Statuses : Writes(t, status) /\ (t \in held => status = "PENDING")
    BY <1>0, <1>2 DEF InsertAction, Statuses
  <2>3. \A i \in DOMAIN log : log[i].call # t
    BY <2>1 DEF LogInv, RowInv
  <2>4. durable' = durable
    BY <1>2 DEF InsertAction
  <2>5. \A i \in DOMAIN log' : log'[i].call = t => log'[i].status = status
    BY <2>2, <2>3, RowTyped DEF Writes, DataTyped
  <2>6. RowInv(t)'
    BY <2>1, <2>2, <2>5, <1>1 DEF RowInv, Undecided, Ran, Queued
  <2>7. ASSUME NEW c \in Calls, c # t PROVE RowInv(c)'
    <3>1. pc'[c] = pc[c] /\ io'[c] = io[c] /\ RowInv(c)
      BY <1>0, <2>7, ThreadMoves, TwoKinds DEF LogInv
    <3>2. PICK row : log' = Append(log, row) /\ row.call = t
      BY <2>2 DEF Writes
    <3> QED
      BY <2>4, <2>7, <3>1, <3>2, <1>1, RowOfOther
  <2> QED
    BY <2>1, <2>2, <2>3, <2>4, <2>6, <2>7, RowAppends DEF LogInv
<1>3. CASE ResolveAction
  <2>1. t \in Calls /\ Queued(t, "resolve") /\ Ran(t, "resolve")'
    BY <1>0, <1>3, HeadCall, ThreadMoves DEF ResolveAction, OperationIs, Ran, Queued
  <2>2. PICK status \in Resolutions : Writes(t, status)
    BY <1>0, <1>3 DEF ResolveAction
  <2>3. Undecided(t) /\ status \in Statuses
    BY <2>1 DEF LogInv, RowInv, Statuses
  <2>4. durable' = durable
    BY <1>3 DEF ResolveAction
  <2>5. RowInv(t)'
    BY <2>1 DEF RowInv, Ran, Queued
  <2>6. ASSUME NEW c \in Calls, c # t PROVE RowInv(c)'
    <3>1. pc'[c] = pc[c] /\ io'[c] = io[c] /\ RowInv(c)
      BY <1>0, <2>6, ThreadMoves, TwoKinds DEF LogInv
    <3>2. PICK row : log' = Append(log, row) /\ row.call = t
      BY <2>2 DEF Writes
    <3> QED
      BY <2>4, <2>6, <3>1, <3>2, <1>1, RowOfOther
  <2> QED
    BY <2>1, <2>2, <2>3, <2>4, <2>5, <2>6, RowAppends DEF LogInv
<1>4. CASE Commit
  <2>1. durable'.log = log /\ log' = log
    BY <1>4 DEF Commit
  <2>2. IsBefore(durable.log, log)'
    BY <2>1, RowTyped DEF IsBefore
  <2>3. \A c \in Calls : Committed(c)'
    BY <2>1, RowTyped DEF Committed
  <2>4. ASSUME NEW c \in Calls PROVE RowInv(c)'
    <3>1. /\ RowInv(c) /\ pc'[c] = pc[c]
          /\ io'[c] = io[c] \/ (io'[c] = "returned" /\ Queued(c, Head(dbq).op))
          /\ Head(dbq).op \in {"insertCommit", "resolveCommit", "storeCommit"}
      BY <1>4, ThreadMoves, TwoKinds DEF LogInv, Commit, OperationIs
    <3> QED
      BY <2>1, <2>3, <3>1, <1>1 DEF RowInv, Ran, Queued, Undecided
  <2> QED
    BY <2>1, <2>2, <2>4 DEF LogInv
<1>5. CASE UpsertNarration \/ GetNarration \/ ListActions \/ Fetch
  <2>1. log' = log /\ durable' = durable
    BY <1>5 DEF UpsertNarration, GetNarration, ListActions, Fetch, tableVars
  <2>2. t \in Requests
    BY <1>0, <1>5, HeadRequest DEF UpsertNarration, GetNarration, ListActions, Fetch, OperationIs
  <2>3. ASSUME NEW c \in Calls PROVE RowInv(c)'
    <3>1. c # t /\ pc'[c] = pc[c] /\ io'[c] = io[c] /\ RowInv(c)
      BY <1>0, <2>2, ThreadMoves, TwoKinds DEF LogInv
    <3> QED
      BY <2>1, <3>1, <1>1, RowStays
  <2> QED
    BY <2>1, <2>3 DEF LogInv, IsBefore
<1> QED
  BY <1>2, <1>3, <1>4, <1>5 DEF DbThread

LEMMA LogTasks ==
    ASSUME LoopInv, DataTyped, LogInv,
           \/ \E t \in Tasks : SecondAwait(t)
           \/ \E c \in Calls : Submit(c) \/ Submitted(c) \/ Resolve(c) \/ Resolved(c) \/ Export(c)
           \/ \E r \in Requests :
                 \/ Narrate(r) \/ Cached(r) \/ Missed(r) \/ FallsBack(r) \/ Asks(r) \/ FindsNothing(r)
                 \/ Stores(r) \/ Answered(r) \/ Outside(r) \/ AsksAgain(r)
    PROVE  LogInv'
<1>1. log' = log /\ durable' = durable /\ held' = held
  BY DEF SecondAwait, Submit, Submitted, Resolve, Resolved, Export, Narrate, Cached, Missed, FallsBack,
         Asks, FindsNothing, Stores, Answered, Outside, TraceApi, Tells, Refused429, Fails, Misread, AsksAgain,
         tableVars
<1>2. ASSUME NEW c \in Calls PROVE RowInv(c)'
  <2>1. RowInv(c)
    BY DEF LogInv
  <2>2. CASE SecondAwait(c)
    <3>0. PICK op \in {"insert", "resolve", "store", "cached", "list"} :
              Ran(c, op) /\ Queued(c, NextAwait[op])'
      BY <2>2, SecondMoves, TwoKinds
    <3>1. \/ Ran(c, "insert") /\ Queued(c, "insertCommit")'
          \/ Ran(c, "resolve") /\ Queued(c, "resolveCommit")'
      BY <3>0, NextAwaits DEF Ran, Queued, LoopInv, LoopTyped, PlaceTyped
    <3> QED
      BY <2>1, <3>1, <1>1 DEF RowInv, Ran, Queued, Undecided
  <2>3. CASE Submit(c)
    <3>1. pc[c] = "idle" /\ Queued(c, "insert")'
      BY <2>3, TwoKinds DEF Submit, Start, Await, Queued, LoopInv, LoopTyped, PlaceTyped
    <3> QED
      BY <2>1, <3>1, <1>1 DEF RowInv, Ran, Queued
  <2>4. CASE Submitted(c)
    <3>1. Ran(c, "insertCommit") /\ pc'[c] = IF c \in held THEN "wait" ELSE "done"
      BY <2>4, TwoKinds DEF Submitted, Leave, Runnable, Ran, LoopInv, LoopTyped, PlaceTyped
    <3> QED
      BY <2>1, <3>1, <1>1 DEF RowInv, Ran, Queued, Undecided, Committed
  <2>5. CASE Resolve(c)
    <3>1. pc[c] = "wait" /\ Queued(c, "resolve")'
      BY <2>5, TwoKinds DEF Resolve, Start, Await, Queued, LoopInv, LoopTyped, PlaceTyped
    <3> QED
      BY <2>1, <3>1, <1>1 DEF RowInv, Ran, Queued, Undecided
  <2>6. CASE Resolved(c)
    <3>1. Ran(c, "resolveCommit") /\ pc'[c] = "done"
      BY <2>6, TwoKinds DEF Resolved, Leave, Runnable, Ran, LoopInv, LoopTyped, PlaceTyped
    <3> QED
      BY <2>1, <3>1, <1>1 DEF RowInv, Ran, Queued, Committed
  <2>7. CASE Export(c)
    BY <2>1, <2>7, <1>1, RowStays DEF Export, loopVars
  <2>8. CASE pc'[c] = pc[c] /\ io'[c] = io[c]
    BY <2>1, <2>8, <1>1, RowStays
  <2>9. \/ pc'[c] = pc[c] /\ io'[c] = io[c]
        \/ SecondAwait(c) \/ Submit(c) \/ Submitted(c) \/ Resolve(c) \/ Resolved(c) \/ Export(c)
    BY SecondMoves, GateMoves, RequestMoves, TwoKinds
  <2> QED
    BY <2>2, <2>3, <2>4, <2>5, <2>6, <2>7, <2>8, <2>9, TwoKinds
<1> QED
  BY <1>1, <1>2 DEF LogInv, IsBefore

LEMMA LogCrash ==
    ASSUME LoopInv, DataTyped, LogInv, Crash
    PROVE  LogInv'
<1>1. /\ log' = durable.log /\ durable' = durable
      /\ \A t \in Tasks : pc'[t] = IF pc[t] \in Over THEN pc[t] ELSE "lost"
      /\ \A t \in Tasks : io'[t] = "none"
  BY DEF Crash
<1>2. \A i \in DOMAIN log' : i \in DOMAIN log /\ log'[i] = log[i] /\ i <= Len(durable.log)
  BY <1>1, RowTyped DEF LogInv, IsBefore
<1>3. IsBefore(durable.log, log)'
  BY <1>1, RowTyped DEF IsBefore
<1>4. ASSUME NEW c \in Calls PROVE RowInv(c)'
  <2>1. RowInv(c) /\ pc'[c] \in Over /\ (pc'[c] = "idle" => pc[c] = "idle") /\ io'[c] = "none"
    BY <1>1, TwoKinds DEF LogInv
  <2> QED
    BY <2>1, <1>1, <1>2 DEF RowInv, Ran, Queued, Committed
<1> QED
  BY <1>2, <1>3, <1>4 DEF LogInv

LEMMA LogBoot ==
    ASSUME LoopInv, DataTyped, DownInv, LogInv, Boot
    PROVE  LogInv' /\ IsBefore(log, log')
<1>1. PICK sweep \in Orders(Pending) :
          log' = log \o [i \in DOMAIN sweep |-> [call |-> sweep[i], status |-> "EXPIRED"]]
  BY DEF Boot
<1>2. PICK n \in Nat : DOMAIN sweep = 1 .. n
  BY SweepFacts
<1>3. PICK rows \in Seq(Rows) : rows = [i \in DOMAIN sweep |-> [call |-> sweep[i], status |-> "EXPIRED"]]
  BY SweepFacts
<1>4. DOMAIN rows = 1 .. n /\ Len(rows) = n /\ log' = log \o rows
  BY <1>1, <1>2, <1>3
<1> DEFINE k == Len(log)
<1>5. k \in Nat /\ log \in Seq(Rows)
  BY DEF DataTyped
<1>6. /\ DOMAIN log' = 1 .. k + n /\ Len(log') = k + n
      /\ \A i \in 1 .. k : log'[i] = log[i]
      /\ \A i \in k + 1 .. k + n : log'[i] = rows[i - k]
  BY <1>4, <1>5
<1>7. \A i \in k + 1 .. k + n : /\ i - k \in 1 .. n
                                /\ log'[i].call = sweep[i - k] /\ log'[i].status = "EXPIRED"
                                /\ sweep[i - k] \in Pending
  <2>1. \A i \in k + 1 .. k + n : i - k \in 1 .. n
    BY <1>5
  <2>2. \A i \in 1 .. n : rows[i].call = sweep[i] /\ rows[i].status = "EXPIRED" /\ sweep[i] \in Pending
    BY <1>2, <1>3, SweepFacts
  <2> QED
    BY <2>1, <2>2, <1>6
<1>8. durable'.log = log' /\ held' = held /\ UNCHANGED loopVars /\ phase = "down"
  BY DEF Boot, DataTyped
<1>9. ASSUME NEW i \in DOMAIN log', NEW j \in DOMAIN log', i < j, log'[i].call = log'[j].call
      PROVE  <<log'[i].status, log'[j].status>> \in Moves
  <2>1. CASE j \in 1 .. k
    BY <2>1, <1>5, <1>6, <1>9 DEF LogInv
  <2>2. CASE i \in 1 .. k /\ j \in k + 1 .. k + n
    <3>1. log[i].call \in Pending /\ i \in DOMAIN log
      BY <2>2, <1>5, <1>6, <1>7, <1>9
    <3>2. log[i].status = "PENDING"
      BY <3>1, PendingUndecided DEF Undecided
    <3> QED
      BY <2>2, <3>2, <1>6, <1>7 DEF Moves, Resolutions
  <2>3. CASE i \in k + 1 .. k + n /\ j \in k + 1 .. k + n
    <3>1. sweep[i - k] = sweep[j - k] /\ i - k \in DOMAIN sweep /\ j - k \in DOMAIN sweep
      BY <2>3, <1>2, <1>7, <1>9
    <3>2. i - k = j - k
      BY <3>1, SweepFacts
    <3> QED
      BY <3>2, <1>9, <1>5, <2>3
  <2> QED
    BY <2>1, <2>2, <2>3, <1>5, <1>6, <1>9
<1>10. ASSUME NEW c \in Calls PROVE RowInv(c)'
  <2>1. pc[c] \in Over /\ pc'[c] = pc[c] /\ io'[c] = io[c] /\ RowInv(c)
    BY <1>8, TwoKinds DEF DownInv, LogInv, loopVars
  <2>2. Committed(c)'
    BY <1>6, <1>8 DEF Committed
  <2>3. pc[c] = "idle" => \A i \in DOMAIN log' : log'[i].call # c
    <3> SUFFICES ASSUME pc[c] = "idle", NEW i \in DOMAIN log' PROVE log'[i].call # c
      OBVIOUS
    <3>1. \A j \in DOMAIN log : log[j].call # c
      BY <2>1 DEF RowInv
    <3>2. c \notin Pending
      BY <3>1, PendingUndecided
    <3>3. CASE i \in 1 .. k
      BY <3>1, <3>3, <1>5, <1>6
    <3>4. CASE i \in k + 1 .. k + n
      BY <3>2, <3>4, <1>7
    <3> QED
      BY <3>3, <3>4, <1>5, <1>6
  <2> QED
    BY <2>1, <2>2, <2>3 DEF RowInv, Ran, Queued
<1>11. IsBefore(log, log') /\ IsBefore(durable.log, log)'
  BY <1>5, <1>6, <1>8 DEF IsBefore
<1> QED
  BY <1>9, <1>10, <1>11 DEF LogInv

LEMMA LogStep ==
    ASSUME LoopInv, DataTyped, DownInv, LogInv, [Next]_vars
    PROVE  LogInv'
<1>1. CASE UNCHANGED vars
  BY <1>1 DEF vars, loopVars, tableVars, LogInv, IsBefore, RowInv, Ran, Queued, Undecided, Committed
<1> QED
  BY <1>1, LogThread, LogTasks, LogCrash, LogBoot DEF Next, LoopRuns
-----------------------------------------------------------------------------
(* The facts and the texts.                                                *)

LEMMA FactsGrow ==
    ASSUME NEW a \in Seq(Rows), NEW b \in Seq(Rows), IsBefore(a, b)
    PROVE  FactsOf(a) \subseteq FactsOf(b)
<1>1. \A i \in DOMAIN a : i \in DOMAIN b /\ a[i] = b[i]
  BY DEF IsBefore
<1> QED
  BY <1>1 DEF FactsOf

LEMMA LogGrows ==
    ASSUME DataTyped, LogInv
    PROVE  /\ FactsOf(durable.log) \subseteq FactsOf(log)
           /\ \A c \in Calls : Committed(c) =>
                 {f \in FactsOf(log) : f.call = c} \subseteq FactsOf(durable.log)
<1>1. FactsOf(durable.log) \subseteq FactsOf(log)
  BY FactsGrow DEF DataTyped, LogInv
<1>2. ASSUME NEW c \in Calls, Committed(c), NEW f \in FactsOf(log), f.call = c
      PROVE  f \in FactsOf(durable.log)
  <2>1. PICK i \in DOMAIN log : f = [call |-> log[i].call, status |-> log[i].status, nth |-> i]
    BY DEF FactsOf
  <2>2. i <= Len(durable.log)
    BY <2>1, <1>2 DEF Committed
  <2>3. i \in DOMAIN durable.log /\ durable.log[i] = log[i]
    BY <2>2, RowTyped DEF LogInv, IsBefore
  <2> QED
    BY <2>1, <2>3 DEF FactsOf
<1> QED
  BY <1>1, <1>2

\* A request that does not move keeps what is known of it when the table grows.
LEMMA FactStays ==
    ASSUME NEW r \in Requests, RequestFacts(r), FactsOf(log) \subseteq FactsOf(log'),
           durable' = durable, text # NoText => text' # NoText,
           got'[r] = got[r], told'[r] = told[r], pc'[r] = pc[r], io'[r] = io[r]
    PROVE  RequestFacts(r)'
BY DEF RequestFacts, Ran, Kept

LEMMA FactThread ==
    ASSUME LoopInv, DataTyped, LogInv, FactInv, DbThread
    PROVE  FactInv'
<1>0. PICK t : t = Head(dbq).task
  OBVIOUS
<1>1. /\ pc' = pc /\ t \in Tasks /\ Queued(t, Head(dbq).op) /\ io'[t] = "returned"
      /\ \A r \in Requests : r # t => io'[r] = io[r]
      /\ \A r \in Requests : RequestFacts(r)
  BY <1>0, ThreadMoves, TwoKinds DEF FactInv
<1>2. CASE InsertAction \/ ResolveAction
  <2>1. PICK row : log' = Append(log, row)
    BY <1>2 DEF InsertAction, ResolveAction, Writes
  <2>2. FactsOf(log) \subseteq FactsOf(log')
    <3>1. \A i \in DOMAIN log : i \in DOMAIN log' /\ log'[i] = log[i]
      BY <2>1, RowTyped DEF DataTyped
    <3> QED
      BY <3>1 DEF FactsOf
  <2>3. UNCHANGED <<text, durable, exported, got, told>> /\ t \in Calls
    BY <1>0, <1>2, HeadCall DEF InsertAction, ResolveAction, requestVars, OperationIs
  <2>4. \A r \in Requests : RequestFacts(r)'
    BY <1>1, <2>2, <2>3, TwoKinds, FactStays
  <2> QED
    BY <2>2, <2>3, <2>4 DEF FactInv
<1>3. CASE UpsertNarration
  <2>1. /\ t \in Requests /\ Queued(t, "store") /\ text' = got[t]
        /\ UNCHANGED <<log, durable, exported, got, told>>
    BY <1>0, <1>1, <1>3, HeadRequest DEF UpsertNarration, OperationIs, requestVars, Queued
  <2>2. got[t] # NoText /\ got[t].facts \subseteq FactsOf(log)
    BY <1>1, <2>1 DEF RequestFacts, Queued
  <2>3. RequestFacts(t)'
    BY <1>1, <2>1, <2>2 DEF RequestFacts, Ran, Queued, Kept
  <2>4. \A r \in Requests : r # t => RequestFacts(r)'
    BY <1>1, <2>1, <2>2, FactStays
  <2> QED
    BY <2>1, <2>2, <2>3, <2>4 DEF FactInv
<1>4. CASE Commit
  <2>1. /\ durable'.log = log /\ durable'.text = text /\ UNCHANGED <<log, text, exported, got, told>>
        /\ FactsOf(durable.log) \subseteq FactsOf(log)
    BY <1>4, LogGrows DEF Commit, requestVars
  <2>2. \A r \in Requests : Kept(got[r]) => Kept(got[r])'
    BY <2>1 DEF FactInv, Kept
  <2>3. \A r \in Requests : Kept(told[r]) => Kept(told[r])'
    BY <2>1 DEF FactInv, Kept
  <2>4. ASSUME NEW r \in Requests PROVE RequestFacts(r)'
    <3>1. CASE r # t
      BY <3>1, <1>1, <2>1, <2>2, <2>3 DEF RequestFacts, Ran
    <3>2. CASE r = t /\ pc[r] = "storeCommit"
      <4>1. Kept(got[r])'
        BY <3>2, <1>1, <2>1 DEF RequestFacts, Kept
      <4> QED
        BY <3>2, <4>1, <1>1, <2>1, <2>3 DEF RequestFacts, Ran
    <3>3. CASE r = t /\ pc[r] # "storeCommit"
      <4>1. pc[r] \in {"insertCommit", "resolveCommit", "storeCommit"}
        BY <3>3, <1>0, <1>1, <1>4 DEF Commit, OperationIs, Queued
      <4> QED
        BY <3>3, <4>1, TwoKinds DEF LoopInv, LoopTyped, PlaceTyped
    <3> QED
      BY <3>1, <3>2, <3>3
  <2> QED
    BY <2>1, <2>4 DEF FactInv
<1>5. CASE GetNarration \/ ListActions
  <2>1. /\ t \in Requests /\ pc[t] \in {"cached", "list"}
        /\ UNCHANGED <<log, text, durable, exported, told>>
        /\ \A r \in Requests : r # t => got'[r] = got[r]
        /\ got'[t].facts \in {text.facts, FactsOf(log)}
    BY <1>0, <1>1, <1>5, HeadRequest DEF GetNarration, ListActions, OperationIs, tableVars, Queued,
        DataTyped
  <2>2. RequestFacts(t)'
    BY <1>1, <2>1 DEF FactInv, RequestFacts, Ran, Kept
  <2>3. \A r \in Requests : r # t => RequestFacts(r)'
    BY <1>1, <2>1, FactStays
  <2> QED
    BY <2>1, <2>2, <2>3 DEF FactInv
<1>6. CASE Fetch
  <2>1. /\ t \in Requests /\ pc[t] \in {"cachedFetch", "listFetch"}
        /\ UNCHANGED <<log, text, durable, exported, got, told>>
    BY <1>0, <1>1, <1>6, HeadRequest DEF Fetch, OperationIs, tableVars, requestVars, Queued
  <2>2. RequestFacts(t)'
    BY <1>1, <2>1 DEF RequestFacts, Ran, Kept
  <2>3. \A r \in Requests : r # t => RequestFacts(r)'
    BY <1>1, <2>1, FactStays
  <2> QED
    BY <2>1, <2>2, <2>3 DEF FactInv
<1> QED
  BY <1>2, <1>3, <1>4, <1>5, <1>6 DEF DbThread

LEMMA FactRequest ==
    ASSUME LoopInv, DataTyped, LogInv, FactInv, OrderInv, NEW r \in Requests,
           \/ Narrate(r) \/ Cached(r) \/ Missed(r) \/ FallsBack(r) \/ Asks(r) \/ FindsNothing(r)
           \/ Stores(r) \/ Answered(r) \/ Outside(r) \/ AsksAgain(r)
    PROVE  FactInv'
<1>1. UNCHANGED <<log, text, durable, exported>>
  BY DEF Narrate, Cached, Missed, FallsBack, Asks, FindsNothing, Stores, Answered, Outside, TraceApi,
         Tells, Refused429, Fails, Misread, AsksAgain, tableVars
<1>2. RequestFacts(r) /\ r \in Tasks /\ FactsOf(durable.log) \subseteq FactsOf(log)
  BY LogGrows, TwoKinds DEF FactInv
<1>3. ASSUME NEW s \in Requests, s # r PROVE RequestFacts(s)'
  <2>1. pc'[s] = pc[s] /\ io'[s] = io[s]
    BY <1>3, RequestMoves, TwoKinds
  <2>2. got'[s] = got[s] /\ told'[s] = told[s]
    BY <1>3 DEF Narrate, Cached, Missed, FallsBack, Asks, FindsNothing, Stores, Answered, Outside,
                TraceApi, Tells, Refused429, Fails, Misread, AsksAgain, Answers, requestVars, DataTyped
  <2> QED
    BY <1>1, <2>1, <2>2, FactStays DEF FactInv
<1>4. RequestFacts(r)'
  <2>1. CASE Narrate(r)
    <3>1. pc[r] = "idle" /\ pc'[r] = "cached" /\ UNCHANGED <<got, told>>
      BY <2>1, <1>2 DEF Narrate, Start, Await, LoopInv, LoopTyped, PlaceTyped, requestVars
    <3> QED
      BY <3>1, <1>1, <1>2 DEF RequestFacts, Ran, Kept, NoText
  <2>2. CASE Cached(r)
    <3>1. /\ Ran(r, "cachedFetch") /\ pc'[r] = "answered" /\ got' = got /\ told'[r] = got[r]
          /\ got[r] # NoText
      BY <2>2, <1>2 DEF Cached, Leave, Runnable, Answers, Ran, LoopInv, LoopTyped, PlaceTyped, DataTyped
    <3>2. Kept(got[r])
      BY <3>1 DEF OrderInv, ReaderInv, Behind
    <3> QED
      BY <3>1, <3>2, <1>1 DEF RequestFacts, Ran, Kept
  <2>3. CASE Missed(r) \/ FallsBack(r)
    <3>1. /\ pc'[r] \in {"primary", "list"} /\ UNCHANGED <<got, told>>
          /\ pc[r] \in {"cachedFetch", "primary"}
      BY <2>3, <1>2 DEF Missed, FallsBack, Leave, Continue, Runnable, Await, requestVars, LoopInv,
                        LoopTyped, PlaceTyped
    <3> QED
      BY <3>1, <1>1, <1>2 DEF RequestFacts, Ran, Kept
  <2>4. CASE Asks(r)
    <3>1. /\ pc'[r] = "chat" /\ io'[r] = "none" /\ told' = told /\ pc[r] \in {"primary", "listFetch"}
          /\ got'[r].facts = Condense(got[r].facts)
      BY <2>4, <1>2 DEF Asks, Leave, Runnable, LoopInv, LoopTyped, PlaceTyped, DataTyped, Texts
    <3> QED
      BY <3>1, <1>1, <1>2, CondensePart DEF RequestFacts, Ran, Kept
  <2>5. CASE FindsNothing(r)
    <3>1. pc'[r] = "store" /\ io'[r] = "queued" /\ told' = told /\ got'[r] = NoActivity
      BY <2>5, <1>2 DEF FindsNothing, Continue, Await, LoopInv, LoopTyped, PlaceTyped, DataTyped
    <3> QED
      BY <3>1, <1>1, <1>2, TextTypes DEF RequestFacts, Ran, Kept, NoActivity
  <2>6. CASE Stores(r)
    <3>1. Ran(r, "chat") /\ pc'[r] = "store" /\ io'[r] = "queued" /\ UNCHANGED <<got, told>>
      BY <2>6, <1>2 DEF Stores, Continue, Runnable, Await, Ran, LoopInv, LoopTyped, PlaceTyped,
                        requestVars
    <3> QED
      BY <3>1, <1>1, <1>2 DEF RequestFacts, Ran, Kept
  <2>7. CASE Answered(r)
    <3>1. /\ Ran(r, "storeCommit") /\ pc'[r] = "answered" /\ got' = got /\ told'[r] = got[r]
      BY <2>7, <1>2 DEF Answered, Leave, Runnable, Answers, Ran, LoopInv, LoopTyped, PlaceTyped, DataTyped
    <3> QED
      BY <3>1, <1>1, <1>2 DEF RequestFacts, Ran, Kept
  <2>8. CASE TraceApi(r)
    <3>1. /\ pc'[r] = "primary" /\ pc[r] = "primary" /\ told' = told
          /\ got'[r].facts \in {exported, {}}
      BY <2>8, <1>2 DEF TraceApi, Wakes, DataTyped
    <3> QED
      BY <3>1, <1>1, <1>2 DEF FactInv, RequestFacts, Ran, Kept
  <2>9. CASE Tells(r)
    <3>1. /\ pc'[r] = "chat" /\ pc[r] = "chat" /\ told' = told
          /\ got'[r].facts = got[r].facts /\ got'[r].by = r
      BY <2>9, <1>2 DEF Tells, Wakes, DataTyped, Texts
    <3>2. got'[r] # NoText
      BY <3>1, NarratorAssumption DEF NoText, Scribes
    <3> QED
      BY <3>1, <3>2, <1>1, <1>2 DEF RequestFacts, Ran, Kept
  <2>10. CASE Refused429(r) \/ Fails(r) \/ Misread(r) \/ AsksAgain(r)
    <3>1. /\ pc'[r] \in {"backoff", "failed", "chat"} /\ pc[r] \in {"primary", "chat", "backoff"}
          /\ UNCHANGED <<got, told, io>> /\ io[r] = "none"
      BY <2>10, <1>2 DEF Refused429, Fails, Misread, AsksAgain, requestVars, LoopInv, LoopTyped, PlaceTyped,
                         QueueInv, QueueFacts
    <3> QED
      BY <3>1, <1>1, <1>2 DEF RequestFacts, Ran, Kept
  <2> QED
    BY <2>1, <2>2, <2>3, <2>4, <2>5, <2>6, <2>7, <2>8, <2>9, <2>10 DEF Outside
<1> QED
  BY <1>1, <1>3, <1>4 DEF FactInv

LEMMA FactStep ==
    ASSUME LoopInv, DataTyped, DownInv, LogInv, FactInv, OrderInv, [Next]_vars
    PROVE  FactInv'
<1>1. ASSUME NEW t \in Tasks, SecondAwait(t) PROVE FactInv'
  <2>1. UNCHANGED <<log, text, durable, exported, got, told>>
    BY <1>1 DEF SecondAwait, tableVars, requestVars
  <2>2. PICK op \in {"insert", "resolve", "store", "cached", "list"} :
            Ran(t, op) /\ Queued(t, NextAwait[op])'
    BY <1>1, SecondMoves
  <2>3. ASSUME NEW r \in Requests PROVE RequestFacts(r)'
    <3>1. RequestFacts(r)
      BY DEF FactInv
    <3>2. CASE r # t
      <4>1. pc'[r] = pc[r] /\ io'[r] = io[r]
        BY <1>1, <3>2, SecondMoves, TwoKinds
      <4> QED
        BY <2>1, <3>1, <4>1, FactStays
    <3>3. CASE r = t
      BY <2>1, <2>2, <3>1, <3>3, NextAwaits DEF RequestFacts, Ran, Queued, Kept
    <3> QED
      BY <3>2, <3>3
  <2> QED
    BY <2>1, <2>3 DEF FactInv
<1>2. ASSUME NEW c \in Calls, Submit(c) \/ Submitted(c) \/ Resolve(c) \/ Resolved(c) \/ Export(c)
      PROVE  FactInv'
  <2>1. /\ UNCHANGED <<log, text, durable, got, told>>
        /\ exported' \subseteq FactsOf(durable.log)
    <3>1. CASE Export(c)
      <4>1. Committed(c)
        BY <3>1 DEF Export, LogInv, RowInv
      <4> QED
        BY <3>1, <4>1, LogGrows DEF FactInv, Export, tableVars, requestVars
    <3> QED
      BY <3>1, <1>2 DEF FactInv, Submit, Submitted, Resolve, Resolved, tableVars, requestVars
  <2>2. \A r \in Requests : RequestFacts(r)'
    BY <2>1, <1>2, GateMoves, TwoKinds, FactStays DEF FactInv
  <2> QED
    BY <2>1, <2>2 DEF FactInv
<1>3. CASE Crash
  <2>1. /\ log' = durable.log /\ text' = durable.text /\ UNCHANGED <<durable, exported, got, told>>
        /\ \A r \in Requests : pc'[r] = IF pc[r] \in Over THEN pc[r] ELSE "lost"
    BY <1>3, TwoKinds DEF Crash, requestVars
  <2>2. \A r \in Requests : RequestFacts(r)'
    BY <2>1 DEF FactInv, RequestFacts, Ran, Kept
  <2> QED
    BY <2>1, <2>2 DEF FactInv
<1>4. CASE Boot
  <2>1. /\ UNCHANGED <<pc, io, text, exported, got, told>> /\ phase = "down"
        /\ durable'.log = log' /\ durable'.text = durable.text
    BY <1>4 DEF Boot, loopVars, requestVars, DataTyped
  <2>2. log' \in Seq(Rows) /\ FactsOf(log) \subseteq FactsOf(log')
    <3>1. log' \in Seq(Rows)
      BY <1>4, DataStep DEF DataTyped
    <3> QED
      BY <3>1, <1>4, LogBoot, FactsGrow DEF DataTyped
  <2>3. FactsOf(durable.log) \subseteq FactsOf(durable'.log)
    BY <2>1, <2>2, LogGrows
  <2>4. \A r \in Requests : RequestFacts(r)'
    BY <2>1, <2>3, TwoKinds DEF FactInv, RequestFacts, Ran, Kept, DownInv
  <2> QED
    BY <2>1, <2>2, <2>3, <2>4 DEF FactInv
<1>5. CASE UNCHANGED vars
  BY <1>5 DEF vars, loopVars, tableVars, requestVars, FactInv, RequestFacts, Ran, Kept
<1> QED
  BY <1>1, <1>2, <1>3, <1>4, <1>5, FactThread, FactRequest DEF Next, LoopRuns
-----------------------------------------------------------------------------
(* The order of the queues.                                                *)

\* A commit that is on its way stays so until the next commit or crash.
LEMMA TextThread ==
    ASSUME LoopInv, DataTyped, TextInv, DbThread
    PROVE  TextInv'
<1>0. PICK t : t = Head(dbq).task
  OBVIOUS
<1>1. /\ pc' = pc /\ t \in Tasks /\ Queued(t, Head(dbq).op) /\ io'[t] = "returned"
      /\ \A r \in Requests : r # t => io'[r] = io[r]
  BY <1>0, ThreadMoves, TwoKinds
<1>2. CASE UpsertNarration
  <2>1. t \in Requests /\ Storing(t)'
    BY <1>0, <1>1, <1>2, HeadRequest DEF UpsertNarration, OperationIs, Storing, Ran, Queued
  <2> QED
    BY <2>1 DEF TextInv
<1>3. CASE Commit
  BY <1>3 DEF Commit, TextInv
<1>4. CASE InsertAction \/ ResolveAction \/ GetNarration \/ ListActions \/ Fetch
  <2>1. UNCHANGED <<text, durable>>
    BY <1>4 DEF InsertAction, ResolveAction, GetNarration, ListActions, Fetch, tableVars
  <2>2. Head(dbq).op \notin StoreOps
    BY <1>4 DEF InsertAction, ResolveAction, GetNarration, ListActions, Fetch, OperationIs
  <2>3. \A s \in Requests : Storing(s) => Storing(s)'
    BY <2>2, <1>1 DEF Storing, Ran, Queued
  <2> QED
    BY <2>1, <2>3 DEF TextInv
<1> QED
  BY <1>2, <1>3, <1>4 DEF DbThread

\* A request that stores only goes on from the one operation to the other.
LEMMA StoringStays ==
    ASSUME LoopInv, NEW s \in Requests, Storing(s),
           \/ \E t \in Tasks : SecondAwait(t)
           \/ \E c \in Calls : Submit(c) \/ Submitted(c) \/ Resolve(c) \/ Resolved(c) \/ Export(c)
           \/ \E r \in Requests :
                 \/ Narrate(r) \/ Cached(r) \/ Missed(r) \/ FallsBack(r) \/ Asks(r) \/ FindsNothing(r)
                 \/ Stores(r) \/ Answered(r) \/ Outside(r) \/ AsksAgain(r)
    PROVE  \/ pc'[s] = pc[s] /\ io'[s] = io[s]
           \/ SecondAwait(s) /\ Ran(s, "store") /\ Queued(s, "storeCommit")'
<1>1. ASSUME NEW t \in Tasks, SecondAwait(t)
      PROVE  \/ pc'[s] = pc[s] /\ io'[s] = io[s]
             \/ SecondAwait(s) /\ Ran(s, "store") /\ Queued(s, "storeCommit")'
  <2>1. CASE t # s
    BY <1>1, <2>1, SecondMoves, TwoKinds
  <2>2. CASE t = s
    <3>1. PICK op \in {"insert", "resolve", "store", "cached", "list"} :
              Ran(s, op) /\ Queued(s, NextAwait[op])'
      BY <1>1, <2>2, SecondMoves
    <3> QED
      BY <1>1, <2>2, <3>1, NextAwaits DEF Storing, Ran, Queued
  <2> QED
    BY <2>1, <2>2
<1>2. ASSUME NEW c \in Calls, Submit(c) \/ Submitted(c) \/ Resolve(c) \/ Resolved(c) \/ Export(c)
      PROVE  pc'[s] = pc[s] /\ io'[s] = io[s]
  BY <1>2, GateMoves, TwoKinds
<1>3. ASSUME NEW r \in Requests,
             \/ Narrate(r) \/ Cached(r) \/ Missed(r) \/ FallsBack(r) \/ Asks(r) \/ FindsNothing(r)
             \/ Stores(r) \/ Answered(r) \/ Outside(r) \/ AsksAgain(r)
      PROVE  pc'[s] = pc[s] /\ io'[s] = io[s]
  <2>1. CASE r # s
    BY <1>3, <2>1, RequestMoves, TwoKinds
  <2>2. CASE r = s
    BY <1>3, <2>2 DEF Storing, Ran, Queued, Narrate, Cached, Missed, FallsBack, Asks, FindsNothing,
       Stores, Answered, Outside, TraceApi, Tells, Refused429, Fails, Misread, AsksAgain, Continue, Leave, Runnable
  <2> QED
    BY <2>1, <2>2
<1> QED
  BY <1>1, <1>2, <1>3

LEMMA TextStep ==
    ASSUME LoopInv, DataTyped, TextInv, [Next]_vars
    PROVE  TextInv'
<1>1. CASE DbThread
  BY <1>1, TextThread
<1>2. CASE Crash
  BY <1>2 DEF Crash, TextInv
<1>3. CASE Boot \/ UNCHANGED vars
  BY <1>3 DEF Boot, vars, loopVars, tableVars, TextInv, Storing, Ran, Queued, DataTyped
<1>4. ASSUME \/ \E t \in Tasks : SecondAwait(t)
             \/ \E c \in Calls : Submit(c) \/ Submitted(c) \/ Resolve(c) \/ Resolved(c) \/ Export(c)
             \/ \E r \in Requests :
                   \/ Narrate(r) \/ Cached(r) \/ Missed(r) \/ FallsBack(r) \/ Asks(r) \/ FindsNothing(r)
                   \/ Stores(r) \/ Answered(r) \/ Outside(r) \/ AsksAgain(r)
      PROVE  TextInv'
  <2>1. UNCHANGED <<text, durable>>
    BY <1>4 DEF SecondAwait, Submit, Submitted, Resolve, Resolved, Export, Narrate, Cached, Missed,
         FallsBack, Asks, FindsNothing, Stores, Answered, Outside, TraceApi, Tells, Refused429, Fails,
         Misread, AsksAgain, tableVars
  <2>2. \A s \in Requests : Storing(s) => Storing(s)'
    BY <1>4, StoringStays DEF Storing, Ran, Queued
  <2> QED
    BY <2>1, <2>2 DEF TextInv
<1> QED
  BY <1>1, <1>2, <1>3, <1>4 DEF Next, LoopRuns

\* The thread runs an operation other than a commit.
LEMMA BehindThread ==
    ASSUME LoopInv, DbThread, Head(dbq).op \notin {"insertCommit", "resolveCommit", "storeCommit"},
           NEW r \in Requests, r # Head(dbq).task \/ pc[r] = "cachedFetch", Behind(r)
    PROVE  Behind(r)'
<1>0. PICK t : t = Head(dbq).task
  OBVIOUS
<1>1. /\ pc' = pc /\ t \in Tasks /\ Queued(t, Head(dbq).op) /\ io'[t] = "returned"
      /\ \A s \in Requests : s # t => io'[s] = io[s]
      /\ ready' = Append(ready, t) /\ dbq' = Tail(dbq) /\ dbq # << >> /\ r \in Tasks
  BY <1>0, ThreadMoves, TwoKinds
<1>2. /\ Issuers' = Tail(Issuers) /\ Issuers # << >> /\ Head(Issuers) = t
      /\ Issuers \in Seq(Tasks) /\ ready \in Seq(Tasks)
  BY <1>0, <1>1, IssuersMove DEF LoopInv, LoopTyped
<1>3. \A s \in Requests : Queued(s, "storeCommit") => s # t /\ Queued(s, "storeCommit")'
  BY <1>1 DEF Queued
<1>4. \A s \in Requests : Ran(s, "store") => s # t /\ Ran(s, "store")'
  BY <1>1 DEF Ran, Queued
<1>5. Queued(r, "cachedFetch") => r # t
  BY <1>2, QueueTail DEF Behind
<1>6. pc[r] = "cachedFetch" => Queued(r, "cachedFetch")
  BY TwoKinds DEF Behind, LoopInv, LoopTyped, QueueInv, QueueFacts, IoStates, Ran, Queued
<1>7. r # t
  BY <1>0, <1>5, <1>6
<1>8. \A s \in Requests : Ahead(ready, s, r) => Ahead(ready', s, r)
  BY <1>1, <1>2, <1>7, QueueAppend
<1>9. \A s \in Requests : s # t /\ Ahead(Issuers, s, r) => Ahead(Issuers', s, r)
  BY <1>2, QueueTail
<1> QED
  BY <1>1, <1>3, <1>4, <1>7, <1>8, <1>9 DEF Behind, Ran, Queued

\* Task u moves, and neither is behind nor stores.
LEMMA BehindMoves ==
    ASSUME LoopInv, NEW u \in Tasks, NEW r \in Requests, r # u, Behind(r), u \in Requests => ~Storing(u),
           \A v \in Tasks \ {u} : pc'[v] = pc[v] /\ io'[v] = io[v],
           \/ ready' = ready
           \/ ready' = Append(ready, u)
           \/ ready # << >> /\ Head(ready) = u /\ ready' = Tail(ready),
           dbq' = dbq \/ \E op : dbq' = Append(dbq, [task |-> u, op |-> op])
    PROVE  Behind(r)'
<1>1. /\ Issuers \in Seq(Tasks) /\ ready \in Seq(Tasks) /\ r \in Tasks
      /\ Issuers' = Issuers \/ Issuers' = Append(Issuers, u)
  BY IssuersMove, TwoKinds DEF LoopInv, LoopTyped
<1>2. \A s \in Requests : Queued(s, "storeCommit") => s # u /\ Queued(s, "storeCommit")'
  BY TwoKinds DEF Queued, Storing
<1>3. \A s \in Requests : Ran(s, "store") => s # u /\ Ran(s, "store")'
  BY TwoKinds DEF Ran, Storing
<1>4. \A s \in Requests : s # u /\ Ahead(ready, s, r) => Ahead(ready', s, r)
  <2>1. CASE ready' = ready
    BY <2>1
  <2>2. CASE ready' = Append(ready, u)
    BY <1>1, <2>2, QueueAppend
  <2>3. CASE ready # << >> /\ Head(ready) = u /\ ready' = Tail(ready)
    BY <1>1, <2>3, QueueTail
  <2> QED
    BY <2>1, <2>2, <2>3
<1>5. \A s \in Requests : Ahead(Issuers, s, r) => Ahead(Issuers', s, r)
  <2>1. CASE Issuers' = Issuers
    BY <2>1
  <2>2. CASE Issuers' = Append(Issuers, u)
    BY <1>1, <2>2, QueueAppend
  <2> QED
    BY <1>1, <2>1, <2>2
<1> QED
  BY <1>1, <1>2, <1>3, <1>4, <1>5 DEF Behind, Ran, Queued

\* What is kept stays so until the next commit, and then everything is.
LEMMA KeptGrows ==
    ASSUME DataTyped, LogInv, FactInv, NEW t,
           durable' = durable \/ durable' = [log |-> log, text |-> text], Kept(t)
    PROVE  Kept(t)'
BY LogGrows DEF Kept, FactInv

\* The thread runs an operation: a commit keeps whatever a request has read, and
\* who reads an uncommitted text is put behind the request that stored it.
LEMMA OrderThread ==
    ASSUME LoopInv, DataTyped, LogInv, FactInv, TextInv, OrderInv, DbThread
    PROVE  OrderInv'
<1> SUFFICES ASSUME NEW r \in Requests PROVE ReaderInv(r)'
  BY DEF OrderInv
<1>0. PICK t : t = Head(dbq).task
  OBVIOUS
<1>1. /\ pc' = pc /\ t \in Tasks /\ Queued(t, Head(dbq).op) /\ io'[t] = "returned"
      /\ \A s \in Tasks : s # t => io'[s] = io[s]
      /\ ready' = Append(ready, t) /\ dbq' = Tail(dbq) /\ dbq # << >> /\ r \in Tasks
  BY <1>0, ThreadMoves, TwoKinds
<1>2. ReaderInv(r) /\ RequestFacts(r)
  BY DEF OrderInv, FactInv
<1>3. CASE Commit
  <2>1. /\ Head(dbq).op \in {"insertCommit", "resolveCommit", "storeCommit"}
        /\ durable' = [log |-> log, text |-> text] /\ text' = text /\ got' = got
    BY <1>3 DEF Commit, OperationIs, requestVars
  <2>2. pc[r] # "cachedFetch" => ~Ran(r, "cachedFetch")' /\ ~Queued(r, "cachedFetch")'
    BY <1>1 DEF Ran, Queued
  <2>3. Ran(r, "cached")' => Ran(r, "cached")
    BY <1>1, <2>1 DEF Ran, Queued
  <2>4. (Ran(r, "cached") \/ pc[r] = "cachedFetch") /\ got[r] # NoText => Kept(got[r])'
    BY <1>2, <2>1 DEF ReaderInv, RequestFacts, Ran, Kept, Over
  <2> QED
    BY <1>1, <1>2, <2>1, <2>2, <2>3, <2>4 DEF ReaderInv, Behind
<1>4. CASE GetNarration
  <2>1. /\ Head(dbq).op = "cached" /\ UNCHANGED <<text, durable>>
        /\ got' = [got EXCEPT ![t] = text] /\ t \in Requests
    BY <1>0, <1>4, HeadRequest DEF GetNarration, OperationIs, tableVars
  <2>2. CASE r = t
    <3>1. pc[r] = "cached" /\ got'[r] = text
      BY <1>1, <2>1, <2>2 DEF Queued, DataTyped
    <3>2. ASSUME text # NoText, ~Kept(text) PROVE Behind(r)'
      <4>1. text # durable.text
        BY <3>2 DEF Kept, FactInv
      <4>2. PICK s \in Requests : Storing(s)
        BY <4>1 DEF TextInv
      <4>3. s # t /\ s \in Tasks /\ pc'[s] = pc[s] /\ io'[s] = io[s]
        BY <1>1, <2>2, <3>1, <4>2, TwoKinds DEF Storing, Ran, Queued
      <4>4. CASE Queued(s, "storeCommit")
        BY <1>1, <3>1, <4>3, <4>4 DEF Behind, Ran, Queued
      <4>5. CASE Ran(s, "store")
        <5>1. In(ready, s) /\ ~In(ready, t) /\ ready \in Seq(Tasks)
          BY <1>1, <4>3, <4>5 DEF LoopInv, LoopTyped, QueueInv, QueueFacts, Ran, Queued
        <5>2. Ahead(ready', s, r)
          BY <1>1, <2>2, <5>1, QueueAppend
        <5> QED
          BY <1>1, <3>1, <4>3, <4>5, <5>2 DEF Behind, Ran, Queued
      <4> QED
        BY <4>2, <4>4, <4>5 DEF Storing
    <3>3. Kept(text) => Kept(text)'
      BY <2>1 DEF Kept
    <3> QED
      BY <1>1, <2>1, <3>1, <3>2, <3>3 DEF ReaderInv, Kept
  <2>3. CASE r # t
    <3>1. got'[r] = got[r]
      BY <2>1, <2>3 DEF DataTyped
    <3>2. Behind(r) => Behind(r)'
      BY <1>0, <2>1, <2>3, BehindThread
    <3> QED
      BY <1>1, <1>2, <2>1, <2>3, <3>1, <3>2 DEF ReaderInv, Kept, Ran
  <2> QED
    BY <2>2, <2>3
<1>5. CASE ListActions
  <2>1. /\ Head(dbq).op = "list" /\ UNCHANGED <<text, durable>> /\ pc[t] = "list"
        /\ r # t => got'[r] = got[r]
    BY <1>0, <1>1, <1>5 DEF ListActions, OperationIs, tableVars, DataTyped, Queued
  <2>2. CASE r = t
    BY <1>1, <2>1, <2>2 DEF ReaderInv, Behind, Ran, Queued
  <2>3. CASE r # t
    <3>1. Behind(r) => Behind(r)'
      BY <1>0, <2>1, <2>3, BehindThread
    <3> QED
      BY <1>1, <1>2, <2>1, <2>3, <3>1 DEF ReaderInv, Kept, Ran
  <2> QED
    BY <2>2, <2>3
<1>6. CASE InsertAction \/ ResolveAction \/ UpsertNarration \/ Fetch
  <2>1. /\ Head(dbq).op \in {"insert", "resolve", "store", "cachedFetch", "listFetch"}
        /\ UNCHANGED <<got, durable>>
    BY <1>6 DEF InsertAction, ResolveAction, UpsertNarration, Fetch, OperationIs, tableVars, requestVars
  <2>2. text # NoText => text' # NoText
    <3>1. CASE UpsertNarration
      <4>1. t \in Requests /\ pc[t] = "store" /\ text' = got[t]
        BY <1>0, <1>1, <3>1, HeadRequest DEF UpsertNarration, OperationIs, Queued
      <4> QED
        BY <4>1 DEF FactInv, RequestFacts, StoreOps
    <3> QED
      BY <1>6, <3>1 DEF InsertAction, ResolveAction, Fetch, tableVars
  <2>3. Ran(r, "cached")' => Ran(r, "cached")
    BY <1>1, <2>1 DEF Ran, Queued
  <2>4. pc[r] \in {"cached", "cachedFetch"} /\ Behind(r) => Behind(r)'
    BY <1>0, <1>1, <2>1, BehindThread DEF Queued
  <2>5. pc[r] \notin {"cached", "cachedFetch"} => Behind(r)'
    BY <1>1 DEF Behind, Ran, Queued
  <2> QED
    BY <1>1, <1>2, <2>1, <2>2, <2>3, <2>4, <2>5 DEF ReaderInv, Kept
<1> QED
  BY <1>3, <1>4, <1>5, <1>6 DEF DbThread

\* What a step of task u does to the queues.
QueueMove(u) ==
    /\ \/ ready' = ready
       \/ ready' = Append(ready, u)
       \/ ready # << >> /\ Head(ready) = u /\ ready' = Tail(ready)
    /\ dbq' = dbq \/ \E op : dbq' = Append(dbq, [task |-> u, op |-> op])

LEMMA GateQueues ==
    ASSUME NEW c \in Calls, Submit(c) \/ Submitted(c) \/ Resolve(c) \/ Resolved(c) \/ Export(c)
    PROVE  QueueMove(c) /\ UNCHANGED <<text, durable, got, told, settled>>
BY DEF Submit, Submitted, Resolve, Resolved, Export, Start, Leave, Runnable, Await, loopVars, tableVars,
   requestVars, QueueMove

LEMMA RequestQueues ==
    ASSUME NEW r \in Requests, LoopTyped, DataTyped,
           \/ Narrate(r) \/ Cached(r) \/ Missed(r) \/ FallsBack(r) \/ Asks(r) \/ FindsNothing(r)
           \/ Stores(r) \/ Answered(r) \/ Outside(r) \/ AsksAgain(r)
    PROVE  /\ QueueMove(r) /\ UNCHANGED <<text, durable>>
           /\ \A s \in Requests \ {r} : got'[s] = got[s]
           /\ ~Storing(r)
           /\ pc'[r] \in {"cached", "cachedFetch"} => Narrate(r) /\ pc'[r] = "cached" /\ io'[r] = "queued"
<1>1. CASE Narrate(r)
  BY <1>1 DEF Narrate, Start, Await, tableVars, requestVars, QueueMove, Storing, Ran, Queued, LoopTyped,
     PlaceTyped, Tasks
<1>2. CASE FallsBack(r) \/ FindsNothing(r) \/ Stores(r)
  BY <1>2 DEF FallsBack, FindsNothing, Stores, Continue, Runnable, Await, tableVars, requestVars,
     QueueMove, Storing, Ran, Queued, LoopTyped, PlaceTyped, DataTyped, Tasks
<1>3. CASE Cached(r) \/ Missed(r) \/ Asks(r) \/ Answered(r)
  BY <1>3 DEF Cached, Missed, Asks, Answered, Leave, Runnable, tableVars, requestVars,
     QueueMove, Storing, Ran, Queued, LoopTyped, PlaceTyped, DataTyped, Tasks
<1>4. CASE Outside(r) \/ AsksAgain(r)
  BY <1>4 DEF Outside, TraceApi, Tells, Refused429, Fails, Misread, AsksAgain, Wakes, tableVars, requestVars,
     QueueMove, Storing, Ran, Queued, LoopTyped, PlaceTyped, DataTyped, Tasks
<1> QED
  BY <1>1, <1>2, <1>3, <1>4

\* A task other than r moves, and neither reads nor writes what r depends on.
LEMMA OrderOther ==
    ASSUME LoopInv, NEW u \in Tasks, NEW r \in Requests, r # u, ReaderInv(r), u \in Requests => ~Storing(u),
           \A v \in Tasks \ {u} : pc'[v] = pc[v] /\ io'[v] = io[v], QueueMove(u),
           UNCHANGED <<text, durable>>, got'[r] = got[r]
    PROVE  ReaderInv(r)'
<1>1. pc'[r] = pc[r] /\ io'[r] = io[r]
  BY TwoKinds
<1>2. Behind(r) => Behind(r)'
  BY BehindMoves DEF QueueMove
<1> QED
  BY <1>1, <1>2 DEF ReaderInv, Kept, Ran

\* The store's request issues its commit: the readers behind it are still behind.
LEMMA BehindStore ==
    ASSUME LoopInv, NEW s \in Requests, SecondAwait(s), Ran(s, "store"), NEW r \in Requests, r # s, Behind(r)
    PROVE  Behind(r)'
<1>0. PICK o \in {"insert", "resolve", "store", "cached", "list"} :
          /\ Ran(s, o) /\ Queued(s, NextAwait[o])'
          /\ dbq' = Append(dbq, [task |-> s, op |-> NextAwait[o]])
  BY SecondMoves, TwoKinds
<1>1. /\ \A u \in Tasks \ {s} : pc'[u] = pc[u] /\ io'[u] = io[u]
      /\ Queued(s, "storeCommit")' /\ r \in Tasks /\ s \in Tasks
      /\ \E op : dbq' = Append(dbq, [task |-> s, op |-> op])
  <2>1. o = "store" /\ s \in Tasks /\ r \in Tasks
    BY <1>0, TwoKinds DEF Ran
  <2>2. \A u \in Tasks \ {s} : pc'[u] = pc[u] /\ io'[u] = io[u]
    BY <2>1, SecondMoves
  <2>3. \E op : dbq' = Append(dbq, [task |-> s, op |-> op])
    BY <1>0
  <2> QED
    BY <1>0, <2>1, <2>2, <2>3, NextAwaits
<1>2. Issuers' = Append(Issuers, s) /\ Issuers \in Seq(Tasks)
  BY <1>1, IssuersMove DEF LoopInv, LoopTyped
<1>3. \A v \in Requests : Queued(v, "storeCommit") => Queued(v, "storeCommit")'
  BY <1>1, TwoKinds DEF Ran, Queued
<1>4. \A v \in Requests : Ahead(Issuers, v, r) => Ahead(Issuers', v, r)
  BY <1>2, QueueAppend
<1> QED
  BY <1>1, <1>3, <1>4 DEF Behind, Ran, Queued

\* A request that has looked into the cache fetches the row: the commit it was
\* behind in the loop's queue is in the connection's queue by now.
LEMMA BehindFetch ==
    ASSUME LoopInv, NEW r \in Requests, SecondAwait(r), Ran(r, "cached"), Behind(r)
    PROVE  Behind(r)'
<1>0. PICK o \in {"insert", "resolve", "store", "cached", "list"} :
          /\ Ran(r, o) /\ Queued(r, NextAwait[o])'
          /\ ready # << >> /\ Head(ready) = r
          /\ dbq' = Append(dbq, [task |-> r, op |-> NextAwait[o]])
  BY SecondMoves, TwoKinds
<1>1. /\ \A u \in Tasks \ {r} : pc'[u] = pc[u] /\ io'[u] = io[u]
      /\ Queued(r, "cachedFetch")' /\ r \in Tasks
      /\ ready # << >> /\ Head(ready) = r
      /\ \E op : dbq' = Append(dbq, [task |-> r, op |-> op])
  <2>1. o = "cached" /\ r \in Tasks
    BY <1>0, TwoKinds DEF Ran
  <2>2. \A u \in Tasks \ {r} : pc'[u] = pc[u] /\ io'[u] = io[u]
    BY <2>1, SecondMoves
  <2>3. \E op : dbq' = Append(dbq, [task |-> r, op |-> op])
    BY <1>0
  <2> QED
    BY <1>0, <2>1, <2>2, <2>3, NextAwaits
<1>2. Issuers' = Append(Issuers, r) /\ Issuers \in Seq(Tasks) /\ ready \in Seq(Tasks)
  BY <1>1, IssuersMove DEF LoopInv, LoopTyped
<1>3. PICK s \in Requests : Queued(s, "storeCommit")
  BY <1>1, <1>2, QueueTail DEF Behind
<1>4. s # r /\ s \in Tasks /\ Queued(s, "storeCommit")'
  BY <1>1, <1>3, TwoKinds DEF Queued, Ran
<1>5. In(Issuers, s) /\ ~In(Issuers, r)
  BY <1>1, <1>3, <1>4 DEF LoopInv, QueueInv, QueueFacts, Queued, Ran
<1>6. Ahead(Issuers', s, r)
  BY <1>2, <1>5, QueueAppend
<1> QED
  BY <1>1, <1>4, <1>6 DEF Behind, Ran, Queued

LEMMA OrderSecond ==
    ASSUME LoopInv, OrderInv, NEW t \in Tasks, SecondAwait(t)
    PROVE  OrderInv'
<1> SUFFICES ASSUME NEW r \in Requests PROVE ReaderInv(r)'
  BY DEF OrderInv
<1>1. /\ \A u \in Tasks \ {t} : pc'[u] = pc[u] /\ io'[u] = io[u]
      /\ UNCHANGED <<text, durable, got>>
  BY SecondMoves DEF SecondAwait, tableVars, requestVars
<1>2. PICK op \in {"insert", "resolve", "store", "cached", "list"} :
          /\ Ran(t, op) /\ Queued(t, NextAwait[op])'
          /\ ready # << >> /\ Head(ready) = t /\ ready' = Tail(ready)
          /\ dbq' = Append(dbq, [task |-> t, op |-> NextAwait[op]])
  BY SecondMoves
<1>3. ReaderInv(r) /\ r \in Tasks
  BY TwoKinds DEF OrderInv
<1>4. CASE t # r
  <2>1. CASE Ran(t, "store")
    <3>1. t \in Requests
      BY <2>1 DEF Ran, LoopInv, LoopTyped, PlaceTyped, Tasks, CallPlaces
    <3>2. Behind(r) => Behind(r)'
      BY <1>4, <2>1, <3>1, BehindStore
    <3> QED
      BY <1>1, <1>3, <1>4, <3>2 DEF ReaderInv, Kept, Ran
  <2>2. CASE ~Ran(t, "store")
    <3>1. ~Storing(t) /\ QueueMove(t)
      BY <1>2, <2>2 DEF Storing, Ran, Queued, QueueMove
    <3> QED
      BY <1>1, <1>3, <1>4, <3>1, OrderOther
  <2> QED
    BY <2>1, <2>2
<1>5. CASE t = r
  <2>1. CASE op = "cached"
    <3>1. Ran(r, "cached") /\ Queued(r, "cachedFetch")'
      BY <1>2, <1>5, <2>1, NextAwaits
    <3>2. Behind(r) => Behind(r)'
      BY <1>5, <3>1, BehindFetch
    <3> QED
      BY <1>1, <1>3, <3>1, <3>2 DEF ReaderInv, Kept
  <2>2. CASE op # "cached"
    BY <1>2, <1>5, <2>2, NextAwaits DEF ReaderInv, Behind, Ran, Queued
  <2> QED
    BY <2>1, <2>2
<1> QED
  BY <1>4, <1>5

LEMMA OrderStep ==
    ASSUME LoopInv, DataTyped, DownInv, LogInv, FactInv, TextInv, OrderInv, [Next]_vars
    PROVE  OrderInv'
<1>1. ASSUME NEW c \in Calls, Submit(c) \/ Submitted(c) \/ Resolve(c) \/ Resolved(c) \/ Export(c)
      PROVE  OrderInv'
  <2>1. \A u \in Tasks \ {c} : pc'[u] = pc[u] /\ io'[u] = io[u]
    BY <1>1, GateMoves
  <2>2. QueueMove(c) /\ UNCHANGED <<text, durable, got>>
    BY <1>1, GateQueues
  <2> QED
    BY <2>1, <2>2, TwoKinds, OrderOther DEF OrderInv
<1>2. ASSUME NEW r \in Requests,
             \/ Narrate(r) \/ Cached(r) \/ Missed(r) \/ FallsBack(r) \/ Asks(r) \/ FindsNothing(r)
             \/ Stores(r) \/ Answered(r) \/ Outside(r) \/ AsksAgain(r)
      PROVE  OrderInv'
  <2>1. \A u \in Tasks \ {r} : pc'[u] = pc[u] /\ io'[u] = io[u]
    BY <1>2, RequestMoves
  <2>2. /\ QueueMove(r) /\ UNCHANGED <<text, durable>> /\ ~Storing(r)
        /\ \A s \in Requests \ {r} : got'[s] = got[s]
        /\ pc'[r] \in {"cached", "cachedFetch"} => pc'[r] = "cached" /\ io'[r] = "queued"
    BY <1>2, RequestQueues DEF LoopInv
  <2>3. ReaderInv(r)'
    BY <2>2 DEF ReaderInv, Behind, Ran, Queued
  <2>4. ASSUME NEW s \in Requests, s # r PROVE ReaderInv(s)'
    <3>1. ReaderInv(s) /\ r \in Tasks /\ got'[s] = got[s]
      BY <2>2, <2>4, TwoKinds DEF OrderInv
    <3> QED
      BY <2>1, <2>2, <2>4, <3>1, OrderOther
  <2> QED
    BY <2>3, <2>4 DEF OrderInv
<1>3. CASE Crash
  <2>1. \A r \in Requests : pc'[r] \in Over
    BY <1>3, TwoKinds DEF Crash, Over
  <2> QED
    BY <2>1 DEF OrderInv, ReaderInv, Behind, Ran, Queued, Over
<1>4. CASE Boot
  <2>1. \A r \in Requests : pc'[r] = pc[r] /\ pc[r] \in Over
    BY <1>4, TwoKinds DEF Boot, loopVars, DownInv
  <2> QED
    BY <2>1 DEF OrderInv, ReaderInv, Behind, Ran, Queued, Over
<1>5. CASE UNCHANGED vars
  BY <1>5 DEF vars, loopVars, tableVars, requestVars, OrderInv, ReaderInv, Behind, Ran, Queued, Kept, Issuers
<1> QED
  BY <1>1, <1>2, <1>3, <1>4, <1>5, OrderThread, OrderSecond DEF Next, LoopRuns
-----------------------------------------------------------------------------
(* A settled text.                                                         *)

\* What SettledInv says of the request r whose text is settled.
Settled(r) ==
    /\ text = settled[r] /\ durable.text = settled[r]
    /\ told[r] # NoText => told[r] = settled[r]
    /\ \A s \in Requests :
        /\ pc[s] \in Over \cup {"cached", "cachedFetch"}
        /\ Ran(s, "cached") \/ pc[s] = "cachedFetch" => got[s] = settled[r]

\* The thread only looks up and commits what is settled.
LEMMA SettledThread ==
    ASSUME LoopInv, DataTyped, SettledInv, DbThread
    PROVE  SettledInv'
<1>0. PICK t : t = Head(dbq).task
  OBVIOUS
<1>1. /\ pc' = pc /\ t \in Tasks /\ Queued(t, Head(dbq).op)
      /\ \A s \in Tasks : s # t => io'[s] = io[s]
  BY <1>0, ThreadMoves
<1>2. UNCHANGED <<told, settled>>
  BY DEF DbThread, InsertAction, ResolveAction, UpsertNarration, Commit, GetNarration, ListActions,
     Fetch, requestVars
<1> SUFFICES ASSUME NEW r \in Requests, settled[r] # NoText, Settled(r) PROVE Settled(r)'
  BY <1>1, <1>2 DEF SettledInv, Settled
<1>3. t \in Requests => Head(dbq).op \in {"cached", "cachedFetch"}
  BY <1>1 DEF Settled, Queued, Over, LoopInv, QueueInv, QueueFacts, Resting
<1>4. CASE GetNarration
  <2>1. UNCHANGED <<text, durable>> /\ t \in Requests /\ Head(dbq).op = "cached"
        /\ got' = [got EXCEPT ![t] = text]
    BY <1>0, <1>4, HeadRequest DEF GetNarration, OperationIs, tableVars
  <2>2. \A s \in Requests : got'[s] = IF s = t THEN text ELSE got[s]
    BY <2>1 DEF DataTyped
  <2>3. \A s \in Requests : s # t => (Ran(s, "cached")' <=> Ran(s, "cached"))
    BY <1>1, TwoKinds DEF Ran
  <2> QED
    BY <1>1, <1>2, <2>1, <2>2, <2>3 DEF Settled
<1>5. CASE InsertAction \/ ResolveAction \/ Commit \/ Fetch
  <2>1. text' = text /\ durable'.text \in {text, durable.text} /\ got' = got /\ Head(dbq).op # "cached"
    BY <1>5 DEF InsertAction, ResolveAction, Commit, Fetch, OperationIs, tableVars, requestVars
  <2>2. \A s \in Requests : Ran(s, "cached")' => Ran(s, "cached")
    BY <1>1, <2>1, TwoKinds DEF Ran, Queued
  <2> QED
    BY <1>1, <1>2, <2>1, <2>2 DEF Settled
<1>6. CASE UpsertNarration \/ ListActions
  BY <1>0, <1>3, <1>6, HeadRequest DEF UpsertNarration, ListActions, OperationIs
<1> QED
  BY <1>4, <1>5, <1>6 DEF DbThread

\* What a request does when some text is settled: it begins, or answers that text.
LEMMA SettledRequest ==
    ASSUME LoopInv, DataTyped, TextInv, SettledInv, NEW q \in Requests,
           \/ Narrate(q) \/ Cached(q) \/ Missed(q) \/ FallsBack(q) \/ Asks(q) \/ FindsNothing(q)
           \/ Stores(q) \/ Answered(q) \/ Outside(q) \/ AsksAgain(q)
    PROVE  SettledInv'
<1>1. /\ \A s \in Requests \ {q} : pc'[s] = pc[s] /\ io'[s] = io[s]
      /\ UNCHANGED <<text, durable>>
      /\ pc'[q] # "idle"
  <2>1. \A s \in Requests \ {q} : pc'[s] = pc[s] /\ io'[s] = io[s]
    BY RequestMoves, TwoKinds
  <2>2. UNCHANGED <<text, durable>>
    BY RequestQueues DEF LoopInv
  <2>3. pc'[q] # "idle"
    BY TwoKinds DEF Narrate, Cached, Missed, FallsBack, Asks, FindsNothing, Stores, Answered, Outside,
       TraceApi, Tells, Refused429, Fails, Misread, AsksAgain, Wakes, Start, Continue, Leave, Await, Runnable,
       LoopInv, LoopTyped, PlaceTyped
  <2> QED
    BY <2>1, <2>2, <2>3
<1>2. \A s \in Requests : settled[s] # NoText => Settled(s)
  BY DEF SettledInv, Settled
<1>3. CASE Narrate(q)
  <2>1. /\ pc[q] = "idle" /\ got' = got /\ told' = told /\ pc'[q] = "cached" /\ io'[q] = "queued"
    BY <1>3, TwoKinds DEF Narrate, Start, Await, requestVars, LoopInv, LoopTyped, PlaceTyped
  <2>2. \A s \in Requests : ~Ran(s, "cached") => ~Ran(s, "cached")'
    BY <1>1, <2>1 DEF Ran
  <2>3. ASSUME NEW s \in Requests, settled[s] # NoText PROVE settled'[s] = settled[s]
    <3>1. s # q
      BY <2>1, <2>3 DEF SettledInv
    <3> QED
      BY <1>3, <3>1 DEF Narrate, DataTyped
  <2>4. ASSUME NEW s \in Requests, settled[s] # NoText PROVE Settled(s)'
    BY <1>1, <1>2, <2>1, <2>2, <2>3, <2>4 DEF Settled
  <2>5. ASSUME NEW s \in Requests, settled[s] = NoText, settled'[s] # NoText PROVE Settled(s)'
    <3>1. s = q /\ (\A v \in Requests : pc[v] \in Over) /\ settled'[q] = durable.text
      BY <1>3, <2>5 DEF Narrate, DataTyped
    <3>2. text = durable.text
      BY <3>1 DEF TextInv, Storing, Ran, Queued, Over
    <3>3. told'[q] = NoText
      BY <2>1 DEF SettledInv
    <3>4. \A v \in Requests : pc'[v] \in Over \cup {"cached"} /\ ~Ran(v, "cached")'
      BY <1>1, <2>1, <3>1 DEF Ran, Over
    <3>5. \A v \in Requests : pc'[v] # "cachedFetch"
      BY <3>4 DEF Over
    <3> QED
      BY <1>1, <3>1, <3>2, <3>3, <3>4, <3>5 DEF Settled
  <2>6. \A s \in Requests : pc'[s] = "idle" => told'[s] = NoText /\ settled'[s] = NoText
    <3>1. \A s \in Requests \ {q} : settled'[s] = settled[s]
      BY <1>3 DEF Narrate, DataTyped
    <3> QED
      BY <1>1, <2>1, <3>1 DEF SettledInv
  <2> QED
    BY <2>4, <2>5, <2>6 DEF SettledInv, Settled
<1>4. CASE Cached(q)
  <2>1. /\ pc[q] = "cachedFetch" /\ pc'[q] = "answered" /\ got' = got /\ settled' = settled
        /\ \A s \in Requests : told'[s] = IF s = q THEN got[q] ELSE told[s]
    BY <1>4, TwoKinds DEF Cached, Leave, Runnable, Answers, DataTyped, LoopInv, LoopTyped, PlaceTyped
  <2>2. \A s \in Requests : Ran(s, "cached")' => Ran(s, "cached")
    BY <1>1, <2>1 DEF Ran
  <2>3. \A s \in Requests : settled[s] # NoText => Settled(s)'
    BY <1>1, <1>2, <2>1, <2>2 DEF Settled, Over
  <2>4. \A s \in Requests : pc'[s] = "idle" => told'[s] = NoText /\ settled'[s] = NoText
    BY <1>1, <2>1 DEF SettledInv
  <2> QED
    BY <2>1, <2>3, <2>4 DEF SettledInv, Settled
<1>5. CASE Missed(q)
  <2>1. pc[q] = "cachedFetch" /\ got[q] = NoText
    BY <1>5 DEF Missed, Leave, Runnable
  <2>2. \A s \in Requests : settled[s] = NoText
    BY <1>2, <2>1 DEF Settled
  <2>3. UNCHANGED <<told, settled>>
    BY <1>5 DEF Missed, requestVars
  <2> QED
    BY <1>1, <2>2, <2>3 DEF SettledInv
<1>6. CASE \/ FallsBack(q) \/ Asks(q) \/ FindsNothing(q) \/ Stores(q) \/ Answered(q) \/ Outside(q)
           \/ AsksAgain(q)
  <2>1. pc[q] \in {"primary", "listFetch", "chat", "backoff", "storeCommit"} /\ settled' = settled
    BY <1>6 DEF FallsBack, Asks, FindsNothing, Stores, Answered, Outside, TraceApi, Tells, Refused429,
       Fails, Misread, AsksAgain, Continue, Leave, Runnable
  <2>2. \A s \in Requests : settled[s] = NoText
    BY <1>2, <2>1 DEF Settled, Over
  <2>3. \A s \in Requests \ {q} : told'[s] = told[s]
    BY <1>6 DEF FallsBack, Asks, FindsNothing, Stores, Answered, Outside, TraceApi, Tells, Refused429,
       Fails, Misread, AsksAgain, Answers, requestVars, DataTyped
  <2> QED
    BY <1>1, <2>1, <2>2, <2>3 DEF SettledInv
<1> QED
  BY <1>3, <1>4, <1>5, <1>6

\* The requests stand still, or look up: what is settled stays so.
LEMMA SettledStays ==
    ASSUME SettledInv, UNCHANGED <<text, durable, got, told, settled>>,
           \A s \in Requests : pc'[s] = pc[s] /\ io'[s] = io[s]
    PROVE  SettledInv'
BY DEF SettledInv, Ran

LEMMA SettledSecond ==
    ASSUME LoopInv, SettledInv, NEW t \in Tasks, SecondAwait(t)
    PROVE  SettledInv'
<1>1. /\ \A u \in Tasks \ {t} : pc'[u] = pc[u] /\ io'[u] = io[u]
      /\ UNCHANGED <<text, durable, got, told, settled>>
  BY SecondMoves DEF SecondAwait, tableVars, requestVars
<1>2. PICK op \in {"insert", "resolve", "store", "cached", "list"} :
          Ran(t, op) /\ Queued(t, NextAwait[op])'
  BY SecondMoves
<1>3. pc'[t] # "idle"
  BY <1>2, NextAwaits DEF Queued
<1> SUFFICES ASSUME NEW r \in Requests, settled[r] # NoText, Settled(r) PROVE Settled(r)'
  BY <1>1, <1>3, TwoKinds DEF SettledInv, Settled
<1>4. t \in Requests => Ran(t, "cached") /\ Queued(t, "cachedFetch")'
  BY <1>2, NextAwaits DEF Settled, Ran, Over
<1>5. \A s \in Requests :
        /\ pc'[s] \in Over \cup {"cached", "cachedFetch"}
        /\ Ran(s, "cached")' \/ pc'[s] = "cachedFetch" => Ran(s, "cached") \/ pc[s] = "cachedFetch"
  BY <1>1, <1>4, TwoKinds DEF Settled, Ran, Queued
<1> QED
  BY <1>1, <1>5 DEF Settled

LEMMA SettledStep ==
    ASSUME LoopInv, DataTyped, TextInv, SettledInv, [Next]_vars
    PROVE  SettledInv'
<1>1. ASSUME NEW c \in Calls, Submit(c) \/ Submitted(c) \/ Resolve(c) \/ Resolved(c) \/ Export(c)
      PROVE  SettledInv'
  BY <1>1, GateQueues, GateMoves, TwoKinds, SettledStays
<1>2. CASE Crash
  <2>1. /\ \A s \in Requests : pc'[s] = (IF pc[s] \in Over THEN pc[s] ELSE "lost")
        /\ text' = durable.text /\ UNCHANGED <<durable, got, told, settled>>
    BY <1>2, TwoKinds DEF Crash, requestVars
  <2>2. \A s \in Requests : pc'[s] \in Over /\ ~Ran(s, "cached")' /\ pc'[s] # "cachedFetch"
    BY <2>1 DEF Over, Ran
  <2>3. \A s \in Requests : pc'[s] = "idle" => pc[s] = "idle"
    BY <2>1
  <2> QED
    BY <2>1, <2>2, <2>3 DEF SettledInv
<1>3. CASE Boot
  <2>1. /\ \A s \in Requests : pc'[s] = pc[s] /\ io'[s] = io[s]
        /\ durable'.text = durable.text /\ UNCHANGED <<text, got, told, settled>>
    BY <1>3 DEF Boot, loopVars, requestVars, DataTyped
  <2> QED
    BY <2>1 DEF SettledInv, Ran
<1>4. CASE UNCHANGED vars
  BY <1>4, SettledStays DEF vars, loopVars, tableVars, requestVars
<1> QED
  BY <1>1, <1>2, <1>3, <1>4, SettledThread, SettledSecond, SettledRequest DEF Next, LoopRuns
-----------------------------------------------------------------------------
(* The theorems.                                                           *)

LEMMA InitInv == Init => NarratorInv
<1> SUFFICES ASSUME Init PROVE NarratorInv
  OBVIOUS
<1>1. LoopInv /\ DataTyped
  BY DataInit
<1>2. /\ \A t \in Tasks : pc[t] = "idle" /\ io[t] = "none"
      /\ \A r \in Requests : got[r] = NoText /\ told[r] = NoText /\ settled[r] = NoText
      /\ log = << >> /\ durable.log = << >> /\ text = NoText /\ durable.text = NoText
      /\ exported = {} /\ phase = "serving"
  BY TwoKinds DEF Init
<1>3. DownInv /\ TextInv
  BY <1>2 DEF DownInv, TextInv
<1>4. LogInv
  BY <1>2, TwoKinds DEF LogInv, RowInv, IsBefore, Undecided, Committed, Ran, Queued
<1>5. FactInv
  BY <1>2, TwoKinds DEF FactInv, RequestFacts, Ran, StoreOps, NoText, Over
<1>6. OrderInv
  BY <1>2, TwoKinds DEF OrderInv, ReaderInv
<1>7. SettledInv
  BY <1>2 DEF SettledInv
<1> QED
  BY <1>1, <1>3, <1>4, <1>5, <1>6, <1>7 DEF NarratorInv

\* In every state an uncommitted narration has its commit on the way, and a request
\* that read it is behind that commit: Narrator.narrate() has no lock, the order of
\* the loop's and the connection's queues is all there is.
THEOREM NarratorInvHolds == Spec => []NarratorInv
<1>1. NarratorInv /\ [Next]_vars => NarratorInv'
  <2> SUFFICES ASSUME NarratorInv, [Next]_vars PROVE NarratorInv'
    OBVIOUS
  <2>1. LoopInv' /\ DataTyped' /\ DownInv'
    BY LoopStep, DataStep, DownStep DEF NarratorInv
  <2>2. LogInv' /\ FactInv'
    BY LogStep, FactStep DEF NarratorInv
  <2>3. TextInv' /\ OrderInv' /\ SettledInv'
    BY TextStep, OrderStep, SettledStep DEF NarratorInv
  <2> QED
    BY <2>1, <2>2, <2>3 DEF NarratorInv
<1> QED
  BY InitInv, <1>1, PTL DEF Spec

\* Every variable of the narrator has its type, the operations in the connection's
\* queue are exactly those that tasks wait for, what SigNoz has received is in the
\* actions table, and the rows of a call move only from pending to one decision.
THEOREM NarratorTyped == Spec => []TypeOK
<1>1. NarratorInv => TypeOK
  <2> SUFFICES ASSUME NarratorInv PROVE TypeOK
    OBVIOUS
  <2>1. pc \in [Tasks -> Places]
    <3>1. CallPlaces \cup RequestPlaces \subseteq Places
      <4>1. \A op \in {"insert", "resolve", "store", "cached", "list"} :
              op \in DOMAIN NextAwait /\ NextAwait[op] \in {NextAwait[o] : o \in DOMAIN NextAwait}
        BY NextAwaits
      <4>2. {"insert", "resolve", "store", "cached", "list"} \subseteq Places
        BY <4>1 DEF Places
      <4>3. {"insertCommit", "resolveCommit", "storeCommit", "cachedFetch", "listFetch"} \subseteq Places
        BY <4>1, NextAwaits DEF Places
      <4>4. {"idle", "wait", "primary", "chat", "backoff", "answered", "failed", "done", "lost"} \subseteq Places
        BY DEF Places
      <4> QED
        BY <4>2, <4>3, <4>4 DEF CallPlaces, RequestPlaces, ReadOps, StoreOps
    <3> QED
      BY <3>1 DEF NarratorInv, LoopInv, LoopTyped, PlaceTyped
  <2>2. \A t \in Tasks : io[t] = "queued" <=> \E i \in DOMAIN dbq : dbq[i] = [task |-> t, op |-> pc[t]]
    <3>1. \A i \in DOMAIN dbq : dbq[i] \in Operations
      BY DEF NarratorInv, LoopInv, LoopTyped
    <3>2. \A i \in DOMAIN dbq : dbq[i] = [task |-> dbq[i].task, op |-> dbq[i].op]
      BY <3>1 DEF Operations
    <3>3. \A t \in Tasks : In(Issuers, t) <=> \E i \in DOMAIN dbq : dbq[i].task = t
      BY DEF In, Issuers
    <3>4. \A i \in DOMAIN dbq : pc[dbq[i].task] = dbq[i].op
      BY DEF NarratorInv, LoopInv, QueueInv
    <3> QED
      BY <3>2, <3>3, <3>4 DEF NarratorInv, LoopInv, QueueInv, QueueFacts
  <2>3. exported \subseteq FactsOf(log)
    BY LogGrows DEF NarratorInv, FactInv
  <2>4. {text, durable.text} \subseteq Texts
    BY DEF NarratorInv, DataTyped
  <2> QED
    BY <2>1, <2>2, <2>3, <2>4 DEF TypeOK, NarratorInv, LoopInv, LoopTyped, DataTyped, LogInv
<1> QED
  BY NarratorInvHolds, <1>1, PTL

\* What a request is answered is told from committed actions only, and a narration
\* is committed by then, although narrations are looked up before they are committed.
THEOREM WhatIsToldIsKept == Spec => []ToldIsKept
<1>1. NarratorInv => ToldIsKept
  BY DEF NarratorInv, FactInv, RequestFacts, Kept, ToldIsKept
<1> QED
  BY NarratorInvHolds, <1>1, PTL

\* A request that begins when a narration is committed and nobody is about to
\* replace it is told that narration: it stays in the table through every later
\* request, crash and restart, so that it is never told again.
THEOREM SettledTextStays == Spec => []SettledNarrationStays
<1>1. NarratorInv => SettledNarrationStays
  BY DEF NarratorInv, SettledInv, SettledNarrationStays
<1> QED
  BY NarratorInvHolds, <1>1, PTL
=============================================================================
