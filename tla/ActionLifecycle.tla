-------------------------- MODULE ActionLifecycle ---------------------------
(***************************************************************************)
(* What the approval gate promises, whatever the interleaving of agents,   *)
(* operators, timers, crashes and restarts:                                *)
(*   - the durable record of an action only moves forward, and stops at its *)
(*     first terminal status;                                              *)
(*   - a tool call runs only when its durable record allows it, and once;  *)
(*   - an "action.resolved" event states a status the record really has.   *)
(* ApprovalManager implements this specification.                          *)
(***************************************************************************)
EXTENDS ActionStatus

CONSTANT Calls

VARIABLES
    status,    \* the durable status of each action
    executed,  \* the calls whose tool has run
    told       \* the <<call, status>> pairs announced as resolved

vars == <<status, executed, told>>

Init ==
    /\ status = [c \in Calls |-> NoRow]
    /\ executed = {}
    /\ told = {}

\* One commit may make several rows durable at once.
Persist ==
    /\ status' \in [Calls -> RowValues]
    /\ \A c \in Calls : status'[c] = status[c] \/ <<status[c], status'[c]>> \in Moves
    /\ UNCHANGED <<executed, told>>

Execute(c) ==
    /\ status[c] \in Allowed
    /\ c \notin executed
    /\ executed' = executed \cup {c}
    /\ UNCHANGED <<status, told>>

Announce(c) ==
    /\ status[c] \in Terminal
    /\ told' = told \cup {<<c, status[c]>>}
    /\ UNCHANGED <<status, executed>>

Next ==
    \/ Persist
    \/ \E c \in Calls : Execute(c) \/ Announce(c)

Spec == Init /\ [][Next]_vars
=============================================================================
