----------------------------- MODULE EventLoop -----------------------------
(***************************************************************************)
(* The scheduling that every handler of atc-core runs under.  One asyncio  *)
(* loop runs coroutines one at a time, and a coroutine runs without        *)
(* interruption from one await to the next.  One aiosqlite connection owns  *)
(* one thread: the operations awaited on it run in the order they were     *)
(* issued, and their completions wake the awaiting coroutines in the same  *)
(* order.  A coroutine therefore alternates                                *)
(*    Issue (loop)  ->  Complete (database thread)  ->  Resume (loop).     *)
(***************************************************************************)
EXTENDS Sequences

VARIABLES
    pc,     \* the await at which each task is suspended
    io,     \* "queued": its operation waits for the thread; "returned": the
            \* task is runnable; "none": neither (not started, blocked, over)
    dbq,    \* the connection's operations, in issue order
    ready   \* the runnable tasks, in wake-up order

loopVars == <<pc, io, dbq, ready>>

IoStates == {"none", "queued", "returned"}

\* Task t suspends on operation op.
Await(t, op) ==
    /\ pc' = [pc EXCEPT ![t] = op]
    /\ io' = [io EXCEPT ![t] = "queued"]
    /\ dbq' = Append(dbq, [task |-> t, op |-> op])

\* Task t starts: its first segment runs up to its first operation.
Start(t, op) == Await(t, op) /\ UNCHANGED ready

\* Task t, suspended at op, is the next one the loop runs.
Runnable(t, op) ==
    /\ ready # <<>>
    /\ Head(ready) = t
    /\ pc[t] = op
    /\ io[t] = "returned"

\* The segment after op ends in the next operation.
Continue(t, op, next) ==
    /\ Runnable(t, op)
    /\ ready' = Tail(ready)
    /\ Await(t, next)

\* The segment after op leaves the task at a place that awaits no operation.
Leave(t, op, place) ==
    /\ Runnable(t, op)
    /\ ready' = Tail(ready)
    /\ pc' = [pc EXCEPT ![t] = place]
    /\ io' = [io EXCEPT ![t] = "none"]
    /\ UNCHANGED dbq

\* The task that issued the operation at the head still waits for it.
Awaited == pc[Head(dbq).task] = Head(dbq).op /\ io[Head(dbq).task] = "queued"

\* The thread has run the operation at the head of its queue.  The task that
\* issued it becomes runnable, unless it was cancelled meanwhile: then the
\* operation has run and nobody learns its result.
Complete ==
    /\ dbq' = Tail(dbq)
    /\ IF Awaited
       THEN /\ io' = [io EXCEPT ![Head(dbq).task] = "returned"]
            /\ ready' = Append(ready, Head(dbq).task)
       ELSE UNCHANGED <<io, ready>>
    /\ UNCHANGED pc

\* A wake-up of a task that was cancelled after it was scheduled.
Skip ==
    /\ ready # <<>>
    /\ io[Head(ready)] # "returned"
    /\ ready' = Tail(ready)
    /\ UNCHANGED <<pc, io, dbq>>
=============================================================================
