--------------------------- MODULE MCJournalUndo ----------------------------
(***************************************************************************)
(* Instances of JournalUndo for TLC: one file, one table with a row and a   *)
(* free key, and every kind of mutation the journal knows.                 *)
(***************************************************************************)
EXTENDS JournalUndo, TLC

CONSTANTS f, k1, k2, old, new, crlf, blob, errorText, binary, toolText

Mutate(tool, places, value) == [tool |-> tool, at |-> places, beyond |-> {}, value |-> value]

Drop(tool) == [tool |-> tool, at |-> {k1, k2, Schema}, beyond |-> {Indexes}, value |-> Absent]

\* What policies/risk_rules.yaml holds, and what it lets through.
MCEffects ==
    [c \in Calls |->
        IF c \in Held
        THEN {Mutate("fs__delete", {f}, Absent), Drop("drop"), Drop("dropAlias")}
        ELSE {Mutate("fs__write", {f}, new), Mutate("rows", {k1}, Absent), Mutate("insert", {k1}, new),
              [tool |-> "rekey", at |-> {k1}, beyond |-> {k2}, value |-> old]}]

\* Line ends other than LF are read as LF, and a BLOB as text.
MCFileText == [c \in Contents |-> IF c = crlf THEN old ELSE c]

MCRowText == [c \in Contents |-> IF c = blob THEN old ELSE c]

\* The file is absent, ordinary, or one the journal misreads; the row is ordinary, or
\* has a BLOB.
MCWorlds ==
    {(f :> v[1]) @@ (k1 :> v[2]) @@ (k2 :> Absent) @@ (Schema :> old) @@ (Indexes :> old) :
        v \in {<<Absent, old>>, <<old, blob>>, <<crlf, old>>, <<errorText, blob>>, <<binary, old>>}}

\* Undo requests are interchangeable.
MCSymmetry == Permutations(Undos)
=============================================================================
