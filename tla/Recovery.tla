------------------------------ MODULE Recovery ------------------------------
(***************************************************************************)
(* What the journal and the undo endpoint promise, whatever fails:         *)
(*   - a pre-image enters the journal before its mutation runs, or never;  *)
(*   - a mutation runs once;                                               *)
(*   - one undo request claims an entry, for good, and only that request   *)
(*     touches the tool servers on its behalf or goes on record.           *)
(* JournalUndo implements this specification.                              *)
(***************************************************************************)
CONSTANTS Calls, Undos

VARIABLES
    entry,     \* "missing", "kept", or the undo request that claimed it
    ran,       \* the mutations that have run
    touched,   \* the undo requests that restored something
    recorded   \* the undo requests on record

vars == <<entry, ran, touched, recorded>>

Init ==
    /\ entry = [c \in Calls |-> "missing"]
    /\ ran = {}
    /\ touched = {}
    /\ recorded = {}

Keep(c) ==
    /\ entry[c] = "missing"
    /\ c \notin ran
    /\ entry' = [entry EXCEPT ![c] = "kept"]
    /\ UNCHANGED <<ran, touched, recorded>>

Run(c) ==
    /\ c \notin ran
    /\ ran' = ran \cup {c}
    /\ UNCHANGED <<entry, touched, recorded>>

Claim(c, u) ==
    /\ entry[c] = "kept"
    /\ \A d \in Calls : entry[d] # u
    /\ entry' = [entry EXCEPT ![c] = u]
    /\ UNCHANGED <<ran, touched, recorded>>

Claimed(u) == \E c \in Calls : entry[c] = u

Touch(u) ==
    /\ Claimed(u)
    /\ u \notin recorded
    /\ touched' = touched \cup {u}
    /\ UNCHANGED <<entry, ran, recorded>>

Record(u) ==
    /\ Claimed(u)
    /\ recorded' = recorded \cup {u}
    /\ UNCHANGED <<entry, ran, touched>>

Next ==
    \/ \E c \in Calls : Keep(c) \/ Run(c)
    \/ \E u \in Undos : Touch(u) \/ Record(u) \/ \E c \in Calls : Claim(c, u)

Spec == Init /\ [][Next]_vars
=============================================================================
