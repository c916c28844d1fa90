-------------------------- MODULE JournalUndoProofs -------------------------
(***************************************************************************)
(* Proofs about JournalUndo, for any calls, undo requests, files and keys.  *)
(* Type correctness and the inductive invariant come first, then the two    *)
(* abstract specifications the module implements: Recovery and             *)
(* ActionLifecycle.                                                        *)
(***************************************************************************)
EXTENDS JournalUndo, TLAPS

USE DEF Tasks

\* The places of a task.
TaskPlaces ==
    Finished \cup {"idle", "gate", "schema", "image", "journal", "mutate",
                   "action", "entry", "claim", "restore", "record"}

\* What a call may ask for.
LEMMA EffectShape ==
    ASSUME NEW c \in Calls, effect[c] \in Effects[c]
    PROVE  /\ effect[c].tool \in Tools /\ effect[c].at \subseteq Places /\ effect[c].value \in Values
           /\ Schema \in effect[c].at <=> effect[c].tool \in Drops
           /\ effect[c].tool \in {"fs__delete"} \cup Drops => effect[c].value = Absent
           /\ effect[c].tool \in {"fs__write", "fs__delete"} => effect[c].at \subseteq Files
           /\ effect[c].tool \in {"rows", "rekey"} \cup Drops => effect[c].at \cap Files = {}
           /\ Indexes \notin effect[c].at
           /\ effect[c].at \cap effect[c].beyond = {}
<1> DEFINE e == effect[c]
<1>1. e \in [tool : Tools, at : SUBSET Places, beyond : SUBSET Places, value : Values]
    BY EffectsAssumption
<1>2. /\ e.tool \in {"fs__write", "fs__delete"} => \E f \in Files : e.at = {f}
      /\ e.tool \in Drops => e.at = Keys \cup {Schema}
      /\ e.tool \in {"rows", "rekey", "insert"} => e.at \subseteq Keys
      /\ e.tool \in {"fs__delete"} \cup Drops => e.value = Absent
    BY EffectsAssumption DEF Drops
<1>3. /\ e.tool \in Drops => e.beyond = {Indexes}
      /\ e.tool = "rekey" => e.beyond \cap e.at = {}
      /\ e.tool \notin Drops \cup {"rekey"} => e.beyond = {}
    BY EffectsAssumption DEF Drops
<1>4. Schema # Indexes
    BY DEF Schema, Indexes
<1>5. /\ e.tool \in {"fs__write", "fs__delete"} => e.at \subseteq Files
      /\ e.tool \in {"rows", "rekey"} \cup Drops => e.at \cap Files = {}
      /\ Schema \in e.at <=> e.tool \in Drops
      /\ Indexes \notin e.at
    BY <1>1, <1>2, <1>4, PlacesAssumption DEF Tools, Drops
<1> QED BY <1>1, <1>2, <1>3, <1>5

\* What a mutation leaves is a world again.
LEMMA MutationTyped ==
    ASSUME TypeOK, NEW c \in Calls
    PROVE  Mutation(effect[c], world) \in [Places -> Values]
<1>1. effect[c].value \in Values
    BY EffectsAssumption DEF TypeOK, NoEffect, Values
<1>2. effect[c].at \cap effect[c].beyond = {}
    BY EffectShape DEF TypeOK, NoEffect
<1>3. Hits(effect[c], world) \subseteq effect[c].at
    BY DEF Hits
<1> QED BY <1>1, <1>2, <1>3 DEF Mutation, TypeOK, Values

\* A pre-image holds a value or nothing at each place.
LEMMA ImageTyped ==
    ASSUME TypeOK, NEW c \in Calls
    PROVE  Image(effect[c], world) \in Images
<1>1. effect[c] \in Effects[c] \/ effect[c].at = {}
    BY DEF TypeOK, NoEffect
<1>2. ASSUME NEW p \in effect[c].at, p \in Files \/ world[p] # Absent
      PROVE  AsRead(p, world[p]) \in Values
    <2>1. p \in Places /\ p # Indexes
        BY <1>1, <1>2, EffectShape
    <2>2. world[p] \in Values
        BY <2>1 DEF TypeOK
    <2>3. CASE p = Schema
        BY <2>2, <2>3, PlacesAssumption DEF AsRead
    <2>4. CASE p \in Keys
        <3>1. p \notin Files /\ AsRead(p, world[p]) = RowText[world[p]]
            BY <2>4, PlacesAssumption DEF AsRead
        <3> QED BY <1>2, <2>2, <3>1, ContentsAssumption DEF Values
    <2>5. CASE p \in Files
        <3>1. AsRead(p, world[p]) = TextAsRead(world[p])
            BY <2>5, PlacesAssumption DEF AsRead
        <3> QED BY <2>2, <3>1, ContentsAssumption, PlacesAssumption DEF TextAsRead, Values
    <2> QED BY <2>1, <2>3, <2>4, <2>5 DEF Places
<1> QED BY <1>2 DEF Image, Images

\* The two ways in which a task moves on.
LEMMA MoveTyped ==
    ASSUME TypeOK, NEW t \in Tasks, NEW place, NEW next \in TaskPlaces,
           Goes(t, place, next) \/ Sends(t, place, next)
    PROVE  /\ pc' \in [Tasks -> TaskPlaces]
           /\ wire' \in [Tasks -> {"none", "sent", "ok", "error", "raised", "lost"}]
BY DEF TypeOK, Goes, Sends, TaskPlaces

LEMMA InitTyped == Init => TypeOK
BY WorldsAssumption, TasksAssumption DEF Init, TypeOK, NoEntry, Blank, Images, Finished, RowValues, Statuses, NoRow

LEMMA UpstreamTyped ==
    ASSUME TypeOK, UndoInv, Upstream
    PROVE  TypeOK'
<1> USE DEF storeVars, callVars, undoVars, faultVars, historyVars
<1>1. ASSUME NEW c \in Calls, ReadsSchema(c) PROVE TypeOK'
    BY <1>1 DEF ReadsSchema, TypeOK, Blank, Images, Values, Places
<1>2. ASSUME NEW c \in Calls, ReadsImage(c) PROVE TypeOK'
    <2>1. Image(effect[c], world) \in Images
        BY ImageTyped
    <2>2. got[c] \in Images
        BY DEF TypeOK
    <2>3. [Image(effect[c], world) EXCEPT ![Schema] = got[c][Schema]] \in Images
        BY <2>1, <2>2 DEF Images, Places
    <2> QED BY <1>2, <2>3 DEF ReadsImage, TypeOK
<1>3. ASSUME NEW c \in Calls, Mutates(c) PROVE TypeOK'
    <2>1. Mutation(effect[c], world) \in [Places -> Values]
        BY MutationTyped
    <2>2. world \in Images
        BY DEF TypeOK, Images
    <2> QED BY <1>3, <2>1, <2>2 DEF Mutates, Disturbs, TypeOK
<1>4. ASSUME NEW u \in Undos, RestoresPlace(u) PROVE TypeOK'
    <2>1. /\ target[u] \in Calls
          /\ at[u] \in Captured(journal[target[u]].image)
        BY <1>4 DEF RestoresPlace, UndoInv, UndoFacts
    <2>2. journal[target[u]].image[at[u]] \in Values /\ at[u] \in Places
        BY <2>1 DEF Captured, TypeOK, Images
    <2> QED BY <1>4, <2>2 DEF RestoresPlace, Disturbs, TypeOK
<1>5. ASSUME NEW u \in Undos, RefusesToRestore(u) PROVE TypeOK'
    BY <1>5 DEF RefusesToRestore, TypeOK
<1>6. ASSUME NEW t \in Tasks, LosesAnswer(t) \/ LosesRequest(t) \/ Raises(t) PROVE TypeOK'
    BY <1>6, TasksAssumption DEF LosesAnswer, LosesRequest, Raises, TypeOK
<1> QED BY <1>1, <1>2, <1>3, <1>4, <1>5, <1>6 DEF Upstream

LEMMA CallTyped ==
    ASSUME TypeOK, NEW c \in Calls, CallSteps(c)
    PROVE  TypeOK'
<1> USE DEF storeVars, callVars, undoVars, faultVars, historyVars
<1>1. CASE Submit(c)
    <2>1. pc' \in [Tasks -> TaskPlaces]
          /\ wire' \in [Tasks -> {"none", "sent", "ok", "error", "raised", "lost"}]
        BY <1>1, MoveTyped DEF Submit, TaskPlaces
    <2>2. \A d \in Calls : effect'[d] \in Effects[d] \cup {NoEffect}
        BY <1>1 DEF Submit, TypeOK
    <2>3. status' \in [Calls -> RowValues]
        BY <1>1 DEF Submit, TypeOK, RowValues, Statuses
    <2> QED BY <1>1, <2>1, <2>2, <2>3 DEF Submit, TypeOK, TaskPlaces
<1>2. CASE Resolve(c)
    BY <1>2 DEF Resolve, TypeOK, RowValues, Statuses
<1>3. CASE Refuse(c) \/ SchemaRead(c) \/ ImageRead(c) \/ Executed(c) \/ Capture(c)
    <2>1. pc' \in [Tasks -> TaskPlaces]
          /\ wire' \in [Tasks -> {"none", "sent", "ok", "error", "raised", "lost"}]
        BY <1>3, MoveTyped
        DEF Refuse, SchemaRead, ImageRead, Executed, Capture, FirstRequest, TaskPlaces, Finished
    <2> QED BY <1>3, <2>1
        DEF Refuse, SchemaRead, ImageRead, Executed, Capture, TypeOK, TaskPlaces
<1>4. CASE CaptureFails(c)
    <2>1. pc' \in [Tasks -> TaskPlaces]
          /\ wire' \in [Tasks -> {"none", "sent", "ok", "error", "raised", "lost"}]
        BY <1>4, MoveTyped DEF CaptureFails, TaskPlaces
    <2>2. Blank \in Images
        BY DEF Blank, Images
    <2> QED BY <1>4, <2>1, <2>2 DEF CaptureFails, TypeOK, TaskPlaces
<1>5. CASE InsertJournal(c)
    <2>1. pc' \in [Tasks -> TaskPlaces]
          /\ wire' \in [Tasks -> {"none", "sent", "ok", "error", "raised", "lost"}]
        BY <1>5, MoveTyped DEF InsertJournal, TaskPlaces
    <2> QED BY <1>5, <2>1 DEF InsertJournal, TypeOK, TaskPlaces
<1>6. CASE CancelCall(c)
    BY <1>6, TasksAssumption DEF CancelCall, TypeOK
<1> QED BY <1>1, <1>2, <1>3, <1>4, <1>5, <1>6 DEF CallSteps

\* The next compensating call, or none.
LEMMA CompensatesTyped ==
    ASSUME TypeOK, NEW u \in Undos, NEW place, NEW rest \in SUBSET Places,
           Compensates(u, place, rest)
    PROVE  /\ pc' \in [Tasks -> TaskPlaces]
           /\ wire' \in [Tasks -> {"none", "sent", "ok", "error", "raised", "lost"}]
           /\ at' \in [Undos -> Places \cup {"none"}]
           /\ left' \in [Undos -> SUBSET Places]
<1>1. /\ pc' \in [Tasks -> TaskPlaces]
      /\ wire' \in [Tasks -> {"none", "sent", "ok", "error", "raised", "lost"}]
    BY MoveTyped DEF Compensates, TaskPlaces
<1>2. at \in [Undos -> Places \cup {"none"}] /\ left \in [Undos -> SUBSET Places]
    BY DEF TypeOK
<1> QED BY <1>1, <1>2 DEF Compensates, Foremost

LEMMA UndoTyped ==
    ASSUME TypeOK, UndoInv, NEW u \in Undos, UndoSteps(u)
    PROVE  TypeOK'
<1> USE DEF storeVars, callVars, undoVars, faultVars, historyVars
<1>1. CASE Undo(u) \/ UndoReadsAction(u) \/ UndoReadsJournal(u) \/ UndoConflicts(u)
           \/ UndoFails(u) \/ UndoRecords(u)
    <2>1. pc' \in [Tasks -> TaskPlaces]
          /\ wire' \in [Tasks -> {"none", "sent", "ok", "error", "raised", "lost"}]
        BY <1>1, MoveTyped DEF Undo, UndoReadsAction, UndoReadsJournal, UndoConflicts,
                               UndoFails, UndoRecords, TaskPlaces, Finished
    <2> QED BY <1>1, <2>1 DEF Undo, UndoReadsAction, UndoReadsJournal, UndoConflicts,
                              UndoFails, UndoRecords, TypeOK, TaskPlaces
<1>2. CASE UndoClaims(u)
    <2>1. target[u] \in Calls
        BY <1>2 DEF UndoClaims, UndoInv, UndoFacts
    <2>2. /\ pc' \in [Tasks -> TaskPlaces]
          /\ wire' \in [Tasks -> {"none", "sent", "ok", "error", "raised", "lost"}]
          /\ at' \in [Undos -> Places \cup {"none"}]
          /\ left' \in [Undos -> SUBSET Places]
        BY <1>2, CompensatesTyped DEF UndoClaims, Captured
    <2>3. [journal[target[u]] EXCEPT !.undoneBy = u]
            \in [image : Images, undoneBy : Undos \cup {"none"}, kept : BOOLEAN]
        BY <2>1 DEF TypeOK
    <2> QED BY <1>2, <2>1, <2>2, <2>3 DEF UndoClaims, TypeOK, TaskPlaces
<1>3. CASE UndoAccepts(u)
    <2>1. left[u] \ {at[u]} \in SUBSET Places
        BY DEF TypeOK
    <2>2. /\ pc' \in [Tasks -> TaskPlaces]
          /\ wire' \in [Tasks -> {"none", "sent", "ok", "error", "raised", "lost"}]
          /\ at' \in [Undos -> Places \cup {"none"}]
          /\ left' \in [Undos -> SUBSET Places]
        BY <1>3, <2>1, CompensatesTyped DEF UndoAccepts
    <2> QED BY <1>3, <2>2 DEF UndoAccepts, TypeOK, TaskPlaces
<1> QED BY <1>1, <1>2, <1>3 DEF UndoSteps

LEMMA StepTyped ==
    ASSUME TypeOK, UndoInv, [Next]_vars
    PROVE  TypeOK'
<1> USE DEF storeVars, callVars, undoVars, faultVars, historyVars
<1>1. CASE Upstream
    BY <1>1, UpstreamTyped
<1>2. ASSUME NEW c \in Calls, CallSteps(c) PROVE TypeOK'
    BY <1>2, CallTyped
<1>3. ASSUME NEW u \in Undos, UndoSteps(u) PROVE TypeOK'
    BY <1>3, UndoTyped
<1>4. CASE Crash
    BY <1>4, TasksAssumption DEF Crash, TypeOK
<1>5. CASE UNCHANGED vars
    BY <1>5 DEF vars, TypeOK
<1> QED BY <1>1, <1>2, <1>3, <1>4, <1>5 DEF Next
-----------------------------------------------------------------------------
\* Call c is not the one that moves: nothing it relies on changes.
CallKept(c) ==
    /\ pc'[c] = pc[c]
    /\ wire'[c] = "sent" => wire[c] = "sent"
    /\ got'[c] = got[c]
    /\ journal'[c].kept = journal[c].kept
    /\ journal'[c].image = journal[c].image
    /\ journal'[c].undoneBy # "none" => journal[c].kept
    /\ c \in mutated' => c \in mutated

LEMMA CallStable ==
    ASSUME NEW c \in Calls, CallFacts(c), CallKept(c)
    PROVE  CallFacts(c)'
BY DEF CallFacts, CallKept

\* Undo request u is not the one that moves.
UndoKept(u) ==
    /\ pc'[u] = pc[u]
    /\ target'[u] = target[u]
    /\ wire'[u] = wire[u] \/ wire'[u] \in {"error", "lost"}
    /\ at'[u] = at[u] /\ left'[u] = left[u] /\ restored'[u] = restored[u]
    /\ u \in recorded' <=> u \in recorded
    /\ u \in blind => u \in blind'

\* No entry is rewritten, and none is claimed or given up by u.
EntriesKept(u) ==
    \A c \in Calls :
        /\ journal[c].kept => journal'[c].kept /\ journal'[c].image = journal[c].image
        /\ journal'[c].undoneBy = u <=> journal[c].undoneBy = u

LEMMA UndoStable ==
    ASSUME CallInv, NEW u \in Undos, UndoFacts(u), UndoKept(u), EntriesKept(u)
    PROVE  UndoFacts(u)'
<1>1. pc[u] # "idle" => target[u] \in Calls
    BY DEF UndoFacts
<1>2. pc[u] \in Claimant \cup {"claim"} =>
          /\ journal'[target[u]].kept
          /\ journal'[target[u]].image = journal[target[u]].image
    BY <1>1, TasksAssumption DEF UndoFacts, EntriesKept, CallInv, CallFacts, Claimant
<1> QED BY <1>1, <1>2 DEF UndoFacts, UndoKept, EntriesKept, Captured, Claimant

LEMMA InitInv == Init => Inv
<1> SUFFICES ASSUME Init PROVE Inv
    OBVIOUS
<1>1. TypeOK
    BY InitTyped
<1>2. CallInv
    BY DEF Init, CallInv, CallFacts, NoEntry, Blank
<1>3. UndoInv
    BY TasksAssumption DEF Init, UndoInv, UndoFacts, NoEntry, Claimant
<1> QED BY <1>1, <1>2, <1>3 DEF Inv

\* A step of the tool servers keeps what the calls and the requests know.
LEMMA UpstreamKeeps ==
    ASSUME Inv, Upstream
    PROVE  CallInv' /\ UndoInv'
<1> USE DEF storeVars, callVars, undoVars, faultVars, historyVars, Inv
<1>1. ASSUME NEW d \in Calls, ReadsSchema(d) PROVE CallInv' /\ UndoInv'
    <2>1. \A c \in Calls \ {d} : CallKept(c)
        BY <1>1 DEF ReadsSchema, CallKept, CallInv, CallFacts, TypeOK
    <2>2. CallFacts(d)'
        BY <1>1 DEF ReadsSchema, CallInv, CallFacts, TypeOK, Blank
    <2>3. \A u \in Undos : UndoKept(u) /\ EntriesKept(u)
        BY <1>1, TasksAssumption DEF ReadsSchema, UndoKept, EntriesKept, TypeOK
    <2> QED BY <2>1, <2>2, <2>3, CallStable, UndoStable DEF CallInv, UndoInv
<1>2. ASSUME NEW d \in Calls, ReadsImage(d) PROVE CallInv' /\ UndoInv'
    <2>1. \A c \in Calls \ {d} : CallKept(c)
        BY <1>2 DEF ReadsImage, CallKept, CallInv, CallFacts, TypeOK
    <2>2. CallFacts(d)'
        BY <1>2 DEF ReadsImage, CallInv, CallFacts, TypeOK
    <2>3. \A u \in Undos : UndoKept(u) /\ EntriesKept(u)
        BY <1>2, TasksAssumption DEF ReadsImage, UndoKept, EntriesKept, TypeOK
    <2> QED BY <2>1, <2>2, <2>3, CallStable, UndoStable DEF CallInv, UndoInv
<1>3. ASSUME NEW d \in Calls, Mutates(d) PROVE CallInv' /\ UndoInv'
    <2>1. \A c \in Calls \ {d} : CallKept(c)
        BY <1>3 DEF Mutates, CallKept, CallInv, CallFacts, TypeOK
    <2>2. CallFacts(d)'
        BY <1>3 DEF Mutates, CallInv, CallFacts, TypeOK
    <2>3. \A u \in Undos : UndoKept(u) /\ EntriesKept(u)
        BY <1>3, TasksAssumption DEF Mutates, UndoKept, EntriesKept, TypeOK
    <2> QED BY <2>1, <2>2, <2>3, CallStable, UndoStable DEF CallInv, UndoInv
<1>4. ASSUME NEW v \in Undos, RestoresPlace(v) PROVE CallInv' /\ UndoInv'
    <2>1. \A c \in Calls : CallKept(c)
        BY <1>4, TasksAssumption DEF RestoresPlace, CallKept, CallInv, CallFacts, TypeOK
    <2>2. \A u \in Undos \ {v} : UndoKept(u) /\ EntriesKept(u)
        BY <1>4 DEF RestoresPlace, UndoKept, EntriesKept, TypeOK
    <2>3. UndoFacts(v)'
        BY <1>4 DEF RestoresPlace, UndoInv, UndoFacts, TypeOK, Captured, Claimant
    <2> QED BY <2>1, <2>2, <2>3, CallStable, UndoStable DEF CallInv, UndoInv
<1>5. ASSUME NEW v \in Undos, RefusesToRestore(v) PROVE CallInv' /\ UndoInv'
    <2>1. \A c \in Calls : CallKept(c)
        BY <1>5, TasksAssumption DEF RefusesToRestore, CallKept, CallInv, CallFacts, TypeOK
    <2>2. \A u \in Undos : UndoKept(u) /\ EntriesKept(u)
        BY <1>5 DEF RefusesToRestore, UndoKept, EntriesKept, TypeOK
    <2> QED BY <2>1, <2>2, CallStable, UndoStable DEF CallInv, UndoInv
<1>6. ASSUME NEW t \in Tasks, LosesAnswer(t) \/ LosesRequest(t) PROVE CallInv' /\ UndoInv'
    <2>1. \A c \in Calls : CallKept(c)
        BY <1>6 DEF LosesAnswer, LosesRequest, CallKept, CallInv, CallFacts, TypeOK
    <2>2. \A u \in Undos : UndoKept(u) /\ EntriesKept(u)
        BY <1>6 DEF LosesAnswer, LosesRequest, UndoKept, EntriesKept, TypeOK
    <2> QED BY <2>1, <2>2, CallStable, UndoStable DEF CallInv, UndoInv
<1>7. ASSUME NEW t \in Tasks, Raises(t) PROVE CallInv' /\ UndoInv'
    <2>1. \A c \in Calls : CallKept(c)
        BY <1>7 DEF Raises, CallKept, CallInv, CallFacts, TypeOK
    <2>2. \A u \in Undos \ {t} : UndoKept(u) /\ EntriesKept(u)
        BY <1>7 DEF Raises, UndoKept, EntriesKept, TypeOK
    <2>3. t \in Undos => UndoFacts(t)'
        BY <1>7 DEF Raises, UndoInv, UndoFacts, TypeOK, Claimant
    <2> QED BY <2>1, <2>2, <2>3, CallStable, UndoStable DEF CallInv, UndoInv
<1> QED BY <1>1, <1>2, <1>3, <1>4, <1>5, <1>6, <1>7 DEF Upstream

\* So does a step of a tool call.
LEMMA CallKeeps ==
    ASSUME Inv, NEW d \in Calls, CallSteps(d)
    PROVE  CallInv' /\ UndoInv'
<1> USE DEF storeVars, callVars, undoVars, faultVars, historyVars, Inv
<1>1. CASE Submit(d) \/ Resolve(d) \/ Refuse(d) \/ Executed(d) \/ CancelCall(d)
    <2>1. \A c \in Calls \ {d} : CallKept(c)
        BY <1>1 DEF Submit, Resolve, Refuse, Executed, CancelCall, Goes,
                    CallKept, CallInv, CallFacts, TypeOK
    <2>2. CallFacts(d)'
        BY <1>1 DEF Submit, Resolve, Refuse, Executed, CancelCall, Goes,
                    CallInv, CallFacts, TypeOK
    <2>3. \A u \in Undos : UndoKept(u) /\ EntriesKept(u)
        BY <1>1, TasksAssumption DEF Submit, Resolve, Refuse, Executed, CancelCall, Goes,
                                     UndoKept, EntriesKept, TypeOK
    <2> QED BY <2>1, <2>2, <2>3, CallStable, UndoStable DEF CallInv, UndoInv
<1>2. CASE Capture(d) \/ SchemaRead(d) \/ ImageRead(d) \/ CaptureFails(d)
    <2>1. \A c \in Calls \ {d} : CallKept(c)
        BY <1>2 DEF Capture, SchemaRead, ImageRead, CaptureFails, Goes, Sends,
                    CallKept, CallInv, CallFacts, TypeOK
    <2>2. CallFacts(d)'
        <3>1. CASE Capture(d)
            <4>1. /\ pc[d] = "gate" /\ got[d] = Blank /\ ~journal[d].kept /\ d \notin mutated
                  /\ pc'[d] \in {"schema", "mutate", "image"}
                  /\ UNCHANGED <<got, journal, mutated>>
                BY <3>1 DEF Capture, FirstRequest, Sends, CallInv, CallFacts, TypeOK
            <4> QED BY <4>1 DEF CallInv, CallFacts, Blank, Places
        <3>2. CASE SchemaRead(d)
            <4>1. got[d][Schema] = Unread => got[d] = Blank
                BY <3>2 DEF SchemaRead, Sends, CallInv, CallFacts, TypeOK, Blank, Images
            <4> QED BY <3>2, <4>1 DEF SchemaRead, Sends, CallInv, CallFacts, TypeOK
        <3>3. CASE ImageRead(d)
            BY <3>3 DEF ImageRead, Goes, CallInv, CallFacts, TypeOK
        <3>4. CASE CaptureFails(d)
            <4>1. /\ pc[d] \in {"schema", "image"} /\ pc'[d] = "mutate"
                  /\ got'[d] = Blank
                  /\ UNCHANGED <<journal, mutated>>
                BY <3>4 DEF CaptureFails, Sends, TypeOK
            <4> QED BY <4>1 DEF CallInv, CallFacts
        <3> QED BY <1>2, <3>1, <3>2, <3>3, <3>4
    <2>3. \A u \in Undos : UndoKept(u) /\ EntriesKept(u)
        BY <1>2, TasksAssumption DEF Capture, SchemaRead, ImageRead, CaptureFails, Goes, Sends,
                                     UndoKept, EntriesKept, TypeOK
    <2> QED BY <2>1, <2>2, <2>3, CallStable, UndoStable DEF CallInv, UndoInv
<1>3. CASE InsertJournal(d)
    <2>1. ~journal[d].kept /\ journal[d].undoneBy = "none"
        BY <1>3 DEF InsertJournal, Sends, CallInv, CallFacts
    <2>2. journal' = [journal EXCEPT ![d] =
                         [image |-> got[d], undoneBy |-> "none", kept |-> TRUE]]
        BY <1>3, <2>1 DEF InsertJournal
    <2>3. \A c \in Calls \ {d} : CallKept(c)
        BY <1>3, <2>2 DEF InsertJournal, Sends, CallKept, CallInv, CallFacts, TypeOK
    <2>4. CallFacts(d)'
        BY <1>3, <2>2 DEF InsertJournal, Sends, CallInv, CallFacts, TypeOK
    <2>5. \A u \in Undos : UndoKept(u) /\ EntriesKept(u)
        BY <1>3, <2>1, <2>2, TasksAssumption
        DEF InsertJournal, Sends, UndoKept, EntriesKept, TypeOK
    <2> QED BY <2>3, <2>4, <2>5, CallStable, UndoStable DEF CallInv, UndoInv
<1> QED BY <1>1, <1>2, <1>3 DEF CallSteps

\* And a step of an undo request.
LEMMA UndoKeeps ==
    ASSUME Inv, NEW v \in Undos, UndoSteps(v)
    PROVE  CallInv' /\ UndoInv'
<1> USE DEF storeVars, callVars, undoVars, faultVars, historyVars, Inv
<1>1. CASE Undo(v) \/ UndoReadsAction(v) \/ UndoReadsJournal(v) \/ UndoConflicts(v)
           \/ UndoFails(v) \/ UndoRecords(v)
    <2>1. \A c \in Calls : CallKept(c)
        BY <1>1, TasksAssumption
        DEF Undo, UndoReadsAction, UndoReadsJournal, UndoConflicts, UndoFails,
            UndoRecords, Goes, CallKept, CallInv, CallFacts, TypeOK
    <2>2. \A u \in Undos \ {v} : UndoKept(u) /\ EntriesKept(u)
        BY <1>1
        DEF Undo, UndoReadsAction, UndoReadsJournal, UndoConflicts, UndoFails,
            UndoRecords, Goes, UndoKept, EntriesKept, TypeOK
    <2>3. UndoFacts(v)'
        <3>1. CASE Undo(v)
            BY <3>1 DEF Undo, Goes, UndoInv, UndoFacts, Claimant, TypeOK
        <3>2. CASE UndoReadsAction(v)
            BY <3>2 DEF UndoReadsAction, Goes, UndoInv, UndoFacts, Claimant, TypeOK
        <3>3. CASE UndoReadsJournal(v)
            BY <3>3 DEF UndoReadsJournal, Goes, UndoInv, UndoFacts, Claimant, TypeOK
        <3>4. CASE UndoConflicts(v)
            BY <3>4 DEF UndoConflicts, Goes, UndoInv, UndoFacts, Claimant, TypeOK
        <3>5. CASE UndoFails(v)
            BY <3>5 DEF UndoFails, Goes, UndoInv, UndoFacts, Claimant, TypeOK
        <3>6. CASE UndoRecords(v)
            BY <3>6 DEF UndoRecords, Goes, UndoInv, UndoFacts, Claimant, TypeOK
        <3> QED BY <1>1, <3>1, <3>2, <3>3, <3>4, <3>5, <3>6
    <2> QED BY <2>1, <2>2, <2>3, CallStable, UndoStable DEF CallInv, UndoInv
<1>2. CASE UndoClaims(v)
    <2> DEFINE c == target[v]
    <2>1. /\ c \in Calls /\ journal[c].kept
          /\ journal[c].undoneBy = "none"
          /\ \A d \in Calls : journal[d].undoneBy # v
          /\ restored[v] = {} /\ v \notin recorded
        BY <1>2 DEF UndoClaims, UndoInv, UndoFacts, Claimant
    <2>2. /\ journal'[c].kept = journal[c].kept
          /\ journal'[c].image = journal[c].image
          /\ journal'[c].undoneBy = v
          /\ \A d \in Calls \ {c} : journal'[d] = journal[d]
        BY <1>2, <2>1 DEF UndoClaims, TypeOK
    <2>3. \A d \in Calls : CallKept(d)
        BY <1>2, <2>1, <2>2, TasksAssumption
        DEF UndoClaims, Compensates, Goes, Sends, CallKept, CallInv, CallFacts, TypeOK
    <2>4. \A u \in Undos \ {v} : UndoKept(u) /\ EntriesKept(u)
        BY <1>2, <2>1, <2>2, TasksAssumption
        DEF UndoClaims, Compensates, Goes, Sends, UndoKept, EntriesKept, TypeOK
    <2>5. UndoFacts(v)'
        <3>1. Captured(journal'[c].image) = Captured(journal[c].image)
            BY <2>2
        <3>2. CASE Captured(journal[c].image) = {}
            BY <1>2, <2>1, <2>2, <3>1, <3>2
            DEF UndoClaims, Compensates, Goes, UndoInv, UndoFacts, Claimant, TypeOK
        <3>3. CASE Captured(journal[c].image) # {}
            <4>1. /\ pc'[v] = "restore" /\ wire'[v] = "sent"
                  /\ left'[v] = Captured(journal[c].image) /\ at'[v] \in left'[v]
                BY <1>2, <3>3 DEF UndoClaims, Compensates, Sends, Foremost, TypeOK
            <4> QED BY <1>2, <2>1, <2>2, <3>1, <4>1
                DEF UndoClaims, UndoInv, UndoFacts, Claimant, TypeOK
        <3> QED BY <3>2, <3>3
    <2> QED BY <2>3, <2>4, <2>5, CallStable, UndoStable DEF CallInv, UndoInv
<1>3. CASE UndoAccepts(v)
    <2>1. \A c \in Calls : CallKept(c)
        BY <1>3, TasksAssumption
        DEF UndoAccepts, Compensates, Goes, Sends, CallKept, CallInv, CallFacts, TypeOK
    <2>2. \A u \in Undos \ {v} : UndoKept(u) /\ EntriesKept(u)
        BY <1>3, TasksAssumption
        DEF UndoAccepts, Compensates, Goes, Sends, UndoKept, EntriesKept, TypeOK
    <2>3. UndoFacts(v)'
        <3> DEFINE rest == left[v] \ {at[v]}
        <3>1. /\ pc[v] = "restore" /\ target[v] \in Calls
              /\ journal[target[v]].undoneBy = v
              /\ left[v] \subseteq Captured(journal[target[v]].image)
              /\ restored[v] \subseteq Captured(journal[target[v]].image)
              /\ v \notin recorded
              /\ v \notin blind =>
                    Captured(journal[target[v]].image) \subseteq restored[v] \cup rest
            BY <1>3 DEF UndoAccepts, Compensates, Goes, Sends, UndoInv, UndoFacts, Claimant
        <3>2. CASE rest = {}
            <4>1. pc'[v] = "record" /\ wire'[v] = "none"
                BY <1>3, <3>2 DEF UndoAccepts, Compensates, Goes, TypeOK
            <4> QED BY <1>3, <3>1, <3>2, <4>1 DEF UndoAccepts, UndoFacts, Claimant
        <3>3. CASE rest # {}
            <4>1. /\ pc'[v] = "restore" /\ wire'[v] = "sent"
                  /\ left'[v] = rest /\ at'[v] \in rest
                BY <1>3, <3>3 DEF UndoAccepts, Compensates, Sends, Foremost, TypeOK
            <4> QED BY <1>3, <3>1, <4>1 DEF UndoAccepts, UndoFacts, Claimant
        <3> QED BY <3>2, <3>3
    <2> QED BY <2>1, <2>2, <2>3, CallStable, UndoStable DEF CallInv, UndoInv
<1> QED BY <1>1, <1>2, <1>3 DEF UndoSteps

LEMMA StepInv ==
    ASSUME Inv, [Next]_vars
    PROVE  Inv'
<1> USE DEF storeVars, callVars, undoVars, faultVars, historyVars
<1>1. TypeOK'
    BY StepTyped DEF Inv
<1>2. CASE Upstream
    BY <1>1, <1>2, UpstreamKeeps DEF Inv
<1>3. ASSUME NEW c \in Calls, CallSteps(c) PROVE Inv'
    BY <1>1, <1>3, CallKeeps DEF Inv
<1>4. ASSUME NEW u \in Undos, UndoSteps(u) PROVE Inv'
    BY <1>1, <1>4, UndoKeeps DEF Inv
<1>5. CASE Crash
    <2>1. \A c \in Calls : CallKept(c)
        BY <1>5 DEF Crash, CallKept, CallInv, CallFacts, Inv
    <2>2. \A u \in Undos : UndoKept(u) /\ EntriesKept(u)
        BY <1>5 DEF Crash, UndoKept, EntriesKept
    <2> QED BY <1>1, <2>1, <2>2, CallStable, UndoStable DEF Inv, CallInv, UndoInv
<1>6. CASE UNCHANGED vars
    BY <1>6 DEF vars, Inv, TypeOK, CallInv, CallFacts, UndoInv, UndoFacts
<1> QED BY <1>2, <1>3, <1>4, <1>5, <1>6 DEF Next
-----------------------------------------------------------------------------
\* What each task knows at each of its awaits holds in every reachable state.
THEOREM JournalInvariant == Spec => []Inv
<1>1. Init => Inv
    BY InitInv
<1>2. Inv /\ [Next]_vars => Inv'
    BY StepInv
<1> QED BY <1>1, <1>2, PTL DEF Spec

\* Every variable of the journal and the undo endpoint keeps its type.
THEOREM JournalTyping == Spec => []TypeOK
<1>1. Inv => TypeOK
    BY DEF Inv
<1> QED BY <1>1, JournalInvariant, PTL

\* When a mutation has run, what was captured for it is in the journal, through
\* any crash, cancellation or lost answer (journal.py, capture; server.py:262).
THEOREM CapturedBeforeMutation == Spec => []CaptureBeforeMutation
<1>1. Inv => CaptureBeforeMutation
    BY DEF Inv, TypeOK, CallInv, CallFacts, CaptureBeforeMutation
<1> QED BY <1>1, JournalInvariant, PTL

\* However many undo requests race for an action, only the one its journal entry
\* names restores anything or is recorded (db.py, mark_undone).
THEOREM OneUndoRestores == Spec => []OneUndoPerAction
<1>1. Inv => OneUndoPerAction
    BY DEF Inv, TypeOK, UndoInv, UndoFacts, Claimant, OneUndoPerAction
<1> QED BY <1>1, JournalInvariant, PTL

\* An undo on record has made every compensating call, unless a tool raised.
THEOREM RecordedUndoIsComplete == Spec => []RecordedIsRestored
<1>1. Inv => RecordedIsRestored
    <2> SUFFICES ASSUME Inv, NEW u \in recorded \ blind
                 PROVE  restored[u] = Captured(journal[target[u]].image)
        BY DEF RecordedIsRestored
    <2>1. u \in Undos /\ pc[u] = "undone"
        BY DEF Inv, TypeOK, UndoInv, UndoFacts
    <2>2. restored[u] \subseteq Captured(journal[target[u]].image)
        BY <2>1 DEF Inv, UndoInv, UndoFacts, Claimant
    <2>3. Captured(journal[target[u]].image) \subseteq restored[u]
        BY <2>1 DEF Inv, UndoInv, UndoFacts
    <2> QED BY <2>2, <2>3
<1> QED BY <1>1, JournalInvariant, PTL
-----------------------------------------------------------------------------
LEMMA PromiseInit == Init => Promise!Init
BY DEF Init, Promise!Init, NoEntry

\* A step that leaves all four abstract variables alone.
LEMMA PromiseStutter ==
    ASSUME journal' = journal, mutated' = mutated, restored' = restored, recorded' = recorded
    PROVE  UNCHANGED Promise!vars
BY DEF Promise!vars

LEMMA UpstreamPromise ==
    ASSUME Inv, Upstream
    PROVE  [Promise!Next]_(Promise!vars)
<1> USE DEF storeVars, callVars, undoVars, faultVars, historyVars
<1>1. ASSUME NEW d \in Calls, Mutates(d) PROVE [Promise!Next]_(Promise!vars)
    <2>1. d \notin mutated /\ mutated' = mutated \cup {d}
          /\ UNCHANGED <<journal, restored, recorded>>
        BY <1>1 DEF Mutates, Inv, CallInv, CallFacts
    <2>2. Promise!Run(d)
        BY <2>1 DEF Promise!Run
    <2> QED BY <2>2 DEF Promise!Next
<1>2. ASSUME NEW u \in Undos, RestoresPlace(u) PROVE [Promise!Next]_(Promise!vars)
    <2>1. /\ target[u] \in Calls /\ journal[target[u]].kept
          /\ journal[target[u]].undoneBy = u
          /\ u \notin recorded
        BY <1>2, TasksAssumption
        DEF RestoresPlace, Inv, CallInv, CallFacts, UndoInv, UndoFacts, Claimant
    <2>2. Promise!Claimed(u)
        BY <2>1, TasksAssumption DEF Promise!Claimed
    <2>3. {v \in Undos : restored'[v] # {}} = {v \in Undos : restored[v] # {}} \cup {u}
        <3>1. restored \in [Undos -> SUBSET Places]
            BY DEF Inv, TypeOK
        <3> QED BY <1>2, <3>1 DEF RestoresPlace
    <2>4. Promise!Touch(u)
        BY <1>2, <2>1, <2>2, <2>3 DEF RestoresPlace, Promise!Touch
    <2> QED BY <2>4 DEF Promise!Next
<1>3. CASE UNCHANGED <<journal, mutated, restored, recorded>>
    BY <1>3, PromiseStutter
<1> QED
    BY <1>1, <1>2, <1>3 DEF Upstream, ReadsSchema, ReadsImage, RefusesToRestore,
                            LosesAnswer, LosesRequest, Raises

LEMMA CallPromise ==
    ASSUME Inv, NEW d \in Calls, CallSteps(d)
    PROVE  [Promise!Next]_(Promise!vars)
<1> USE DEF storeVars, callVars, undoVars, faultVars, historyVars
<1>1. CASE InsertJournal(d)
    <2>1. ~journal[d].kept /\ d \notin mutated
        BY <1>1 DEF InsertJournal, Sends, Inv, CallInv, CallFacts
    <2>2. /\ journal'[d].kept /\ journal'[d].undoneBy = "none"
          /\ \A c \in Calls \ {d} : journal'[c] = journal[c]
          /\ UNCHANGED <<mutated, restored, recorded>>
        BY <1>1, <2>1 DEF InsertJournal, Inv, TypeOK
    <2>3. Promise!Keep(d)
        BY <2>1, <2>2 DEF Promise!Keep
    <2> QED BY <2>3 DEF Promise!Next
<1>2. CASE UNCHANGED <<journal, mutated, restored, recorded>>
    BY <1>2, PromiseStutter
<1> QED
    BY <1>1, <1>2 DEF CallSteps, Submit, Resolve, Refuse, Capture, SchemaRead, ImageRead,
                      CaptureFails, Executed, CancelCall

LEMMA UndoPromise ==
    ASSUME Inv, NEW u \in Undos, UndoSteps(u)
    PROVE  [Promise!Next]_(Promise!vars)
<1> USE DEF storeVars, callVars, undoVars, faultVars, historyVars
<1>1. CASE UndoClaims(u)
    <2> DEFINE c == target[u]
    <2>1. /\ c \in Calls /\ journal[c].kept
          /\ journal[c].undoneBy = "none"
          /\ \A d \in Calls : journal[d].undoneBy # u
        BY <1>1 DEF UndoClaims, Inv, UndoInv, UndoFacts, Claimant
    <2>2. /\ journal'[c].kept /\ journal'[c].undoneBy = u
          /\ \A d \in Calls \ {c} : journal'[d] = journal[d]
          /\ UNCHANGED <<mutated, restored, recorded>>
        BY <1>1, <2>1 DEF UndoClaims, Inv, TypeOK
    <2>3. Promise!Claim(c, u)
        BY <2>1, <2>2, TasksAssumption DEF Promise!Claim
    <2> QED BY <2>1, <2>3 DEF Promise!Next
<1>2. CASE UndoRecords(u)
    <2>1. /\ target[u] \in Calls /\ journal[target[u]].kept
          /\ journal[target[u]].undoneBy = u
        BY <1>2, TasksAssumption
        DEF UndoRecords, Goes, Inv, CallInv, CallFacts, UndoInv, UndoFacts, Claimant
    <2>2. Promise!Claimed(u)
        BY <2>1, TasksAssumption DEF Promise!Claimed
    <2>3. Promise!Record(u)
        BY <1>2, <2>2 DEF UndoRecords, Promise!Record
    <2> QED BY <2>3 DEF Promise!Next
<1>3. CASE UNCHANGED <<journal, mutated, restored, recorded>>
    BY <1>3, PromiseStutter
<1> QED
    BY <1>1, <1>2, <1>3 DEF UndoSteps, Undo, UndoReadsAction, UndoReadsJournal, UndoConflicts,
                            UndoAccepts, UndoFails

\* The journal and the undo endpoint, at the granularity of single requests and
\* with every failure, implement the abstract promise of recovery.
THEOREM JournalImplementsRecovery == Spec => ImplementsRecovery
<1> USE DEF storeVars, callVars, undoVars, faultVars, historyVars
<1>1. Init => Promise!Init
    BY PromiseInit
<1>2. Inv /\ [Next]_vars => [Promise!Next]_(Promise!vars)
    <2> SUFFICES ASSUME Inv, [Next]_vars PROVE [Promise!Next]_(Promise!vars)
        OBVIOUS
    <2>1. CASE Upstream
        BY <2>1, UpstreamPromise
    <2>2. ASSUME NEW c \in Calls, CallSteps(c) PROVE [Promise!Next]_(Promise!vars)
        BY <2>2, CallPromise
    <2>3. ASSUME NEW u \in Undos, UndoSteps(u) PROVE [Promise!Next]_(Promise!vars)
        BY <2>3, UndoPromise
    <2>4. CASE UNCHANGED <<journal, mutated, restored, recorded>>
        BY <2>4, PromiseStutter
    <2> QED BY <2>1, <2>2, <2>3, <2>4 DEF Next, Crash, vars
<1> QED BY <1>1, <1>2, JournalInvariant, PTL DEF Spec, ImplementsRecovery, Promise!Spec
-----------------------------------------------------------------------------
(* What an undo leaves.  Of a call that nobody disturbs, the pre-image is    *)
(* the world until the mutation runs, and from then on each of its places    *)
(* holds what the mutation left or what the undo has put back.               *)

\* The image agrees with what the servers hold at the places of e.
Exact(image, e, w) == \A p \in e.at : image[p] = Image(e, w)[p]

\* Some undo of call c has put back place p.
PutBack(c, p) == \E u \in Undos : target[u] = c /\ p \in restored[u]

Untouched(c) == \A p \in Places : ~PutBack(c, p)

\* Which requests capture what, and that a mutation ran on a world.
EffectFacts(c) ==
    /\ pc[c] # "idle" => effect[c] \in Effects[c]
    /\ effect[c].tool = "insert" => pc[c] \notin {"schema", "image", "journal"} /\ ~journal[c].kept
    /\ pc[c] = "schema" => effect[c].tool \in Drops
    /\ c \in mutated => before[c] \in [Places -> Values]

\* What is known of a call nobody has disturbed.
ExactFacts(c) ==
    /\ pc[c] = "schema" /\ wire[c] = "ok" =>
            got[c][Schema] \in {Unread, Image(effect[c], world)[Schema]}
    /\ pc[c] = "image" /\ Schema \in effect[c].at => got[c][Schema] = Image(effect[c], world)[Schema]
    /\ pc[c] = "journal" \/ (pc[c] = "image" /\ wire[c] = "ok") => Exact(got[c], effect[c], world)
    /\ journal[c].kept /\ c \notin mutated /\ Untouched(c) => Exact(journal[c].image, effect[c], world)
    /\ c \in mutated =>
        /\ journal[c].kept => Exact(journal[c].image, effect[c], before[c])
        /\ \A p \in effect[c].at :
                world[p] = IF PutBack(c, p) THEN journal[c].image[p]
                           ELSE Mutation(effect[c], before[c])[p]

ExactInv == \A c \in Calls : EffectFacts(c) /\ (c \notin disturbed => ExactFacts(c))

\* An image of a place depends on that place.
LEMMA ImageIsLocal ==
    ASSUME NEW e, NEW v, NEW w, NEW p \in Places, v[p] = w[p]
    PROVE  Image(e, v)[p] = Image(e, w)[p]
BY DEF Image

\* Call c is not the one that moves, and its places stay or it is disturbed.
ExactKept(c) ==
    /\ pc'[c] = pc[c] /\ got'[c] = got[c] /\ effect'[c] = effect[c] /\ before'[c] = before[c]
    /\ wire'[c] = "ok" => wire[c] = "ok"
    /\ journal'[c].kept = journal[c].kept /\ journal'[c].image = journal[c].image
    /\ c \in mutated' <=> c \in mutated
    /\ c \in disturbed => c \in disturbed'
    /\ \A p \in Places : PutBack(c, p)' <=> PutBack(c, p)
    /\ \/ pc[c] \in {"idle", "gate"} \/ c \in disturbed'
       \/ \A p \in effect[c].at : world'[p] = world[p]

LEMMA ExactStable ==
    ASSUME TypeOK, CallInv, NEW c \in Calls, EffectFacts(c), c \notin disturbed => ExactFacts(c),
           ExactKept(c)
    PROVE  EffectFacts(c)' /\ (c \notin disturbed' => ExactFacts(c)')
<1>1. EffectFacts(c)'
    BY DEF EffectFacts, ExactKept
<1>2. CASE pc[c] \in {"idle", "gate"}
    <2>1. c \notin mutated /\ ~journal[c].kept
        BY <1>2, TasksAssumption DEF CallInv, CallFacts
    <2> QED BY <1>1, <1>2, <2>1 DEF ExactKept, ExactFacts
<1>3. ASSUME pc[c] \notin {"idle", "gate"}, c \notin disturbed' PROVE ExactFacts(c)'
    <2>1. ExactFacts(c) /\ \A p \in effect[c].at : world'[p] = world[p]
        BY <1>3 DEF ExactKept
    <2>2. effect[c].at \subseteq Places /\ (pc[c] = "schema" => Schema \in effect[c].at)
        BY <1>3, EffectShape DEF EffectFacts
    <2>3. \A p \in effect[c].at : Image(effect[c], world')[p] = Image(effect[c], world)[p]
        BY <2>1, <2>2, ImageIsLocal
    <2>4. Untouched(c)' <=> Untouched(c)
        BY DEF Untouched, ExactKept
    <2>5. \A image : Exact(image, effect[c], world) => Exact(image, effect[c], world')
        BY <2>3 DEF Exact
    <2>6. /\ pc'[c] = "schema" /\ wire'[c] = "ok" =>
                got'[c][Schema] \in {Unread, Image(effect'[c], world')[Schema]}
          /\ pc'[c] = "image" /\ Schema \in effect'[c].at =>
                got'[c][Schema] = Image(effect'[c], world')[Schema]
          /\ pc'[c] = "journal" \/ (pc'[c] = "image" /\ wire'[c] = "ok") =>
                Exact(got'[c], effect'[c], world')
        BY <2>1, <2>2, <2>3, <2>5 DEF ExactFacts, ExactKept
    <2>7. journal'[c].kept /\ c \notin mutated' /\ Untouched(c)' =>
                Exact(journal'[c].image, effect'[c], world')
        BY <2>1, <2>4, <2>5 DEF ExactFacts, ExactKept
    <2>8. c \in mutated' =>
              /\ journal'[c].kept => Exact(journal'[c].image, effect'[c], before'[c])
              /\ \A p \in effect'[c].at :
                    world'[p] = IF PutBack(c, p)' THEN journal'[c].image[p]
                                ELSE Mutation(effect'[c], before'[c])[p]
        BY <2>1, <2>2 DEF ExactFacts, ExactKept
    <2> QED BY <2>6, <2>7, <2>8 DEF ExactFacts, Exact, Image, Mutation
<1> QED BY <1>1, <1>2, <1>3

\* The tool servers run a request that reads.
LEMMA ReadsKeepExact ==
    ASSUME Inv, ExactInv, NEW d \in Calls, ReadsSchema(d) \/ ReadsImage(d)
    PROVE  ExactInv'
<1> USE DEF storeVars, undoVars, faultVars, historyVars
<1>1. ASSUME NEW c \in Calls \ {d} PROVE ExactKept(c)
    BY DEF ReadsSchema, ReadsImage, ExactKept, PutBack, Inv, TypeOK
<1>2. /\ UNCHANGED <<world, pc, effect, journal, mutated, before, disturbed>>
      /\ pc[d] \in {"schema", "image"} /\ ~journal[d].kept /\ d \notin mutated
    BY DEF ReadsSchema, ReadsImage, Inv, CallInv, CallFacts
<1>3. effect[d] \in Effects[d] /\ EffectFacts(d)
    BY <1>2 DEF ExactInv, EffectFacts
<1>4. EffectFacts(d)'
    BY <1>2, <1>3 DEF EffectFacts
<1>5. CASE ReadsSchema(d)
    <2>1. Schema \in effect[d].at /\ Schema \in Places /\ Schema \notin Files /\ pc[d] = "schema"
        BY <1>3, <1>5, EffectShape, PlacesAssumption DEF ReadsSchema, EffectFacts, Places
    <2>2. got'[d][Schema] \in {Unread, world[Schema]}
        BY <1>5, <2>1 DEF ReadsSchema, Inv, TypeOK, Blank
    <2>3. world[Schema] # Absent => Image(effect[d], world)[Schema] = world[Schema]
        BY <2>1, PlacesAssumption DEF Image, AsRead
    <2>4. world[Schema] = Absent => got'[d][Schema] = Unread
        BY <1>5, <2>1 DEF ReadsSchema, Inv, TypeOK, Blank
    <2> QED BY <1>1, <1>2, <1>4, <2>1, <2>2, <2>3, <2>4, ExactStable DEF ExactInv, ExactFacts, Inv
<1>6. CASE ReadsImage(d)
    <2>1. pc[d] = "image" /\ Schema \in Places /\ effect[d].at \subseteq Places
        BY <1>3, <1>6, EffectShape DEF ReadsImage, Places
    <2>2. ASSUME d \notin disturbed PROVE ExactFacts(d)'
        <3>1. Schema \in effect[d].at => got[d][Schema] = Image(effect[d], world)[Schema]
            BY <2>1, <2>2 DEF ExactInv, ExactFacts
        <3>2. CASE wire'[d] = "ok"
            <4>1. got'[d] = [Image(effect[d], world) EXCEPT ![Schema] = got[d][Schema]]
                BY <1>6, <3>2 DEF ReadsImage, Inv, TypeOK
            <4>2. \A p \in effect[d].at : got'[d][p] = Image(effect[d], world)[p]
                BY <2>1, <3>1, <4>1 DEF Image
            <4> QED BY <1>2, <2>1, <4>2 DEF ExactFacts, Exact
        <3>3. CASE wire'[d] # "ok"
            <4>1. got' = got
                BY <1>6, <3>3 DEF ReadsImage, Inv, TypeOK
            <4> QED BY <1>2, <2>1, <3>1, <3>3, <4>1 DEF ExactFacts
        <3> QED BY <3>2, <3>3
    <2> QED BY <1>1, <1>2, <1>4, <2>2, ExactStable DEF ExactInv, Inv
<1> QED BY <1>5, <1>6

\* A mutation runs: what it finds is what was captured, unless it was disturbed.
LEMMA MutatesKeepsExact ==
    ASSUME Inv, ExactInv, NEW d \in Calls, Mutates(d)
    PROVE  ExactInv'
<1> USE DEF storeVars, callVars, undoVars, faultVars, historyVars
<1>1. /\ UNCHANGED <<pc, got, effect, journal, target, restored>>
      /\ pc[d] = "mutate" /\ wire[d] = "sent" /\ wire'[d] = "ok"
      /\ world' = Mutation(effect[d], world) /\ mutated' = mutated \cup {d}
      /\ before' = [before EXCEPT ![d] = world]
      /\ disturbed' = disturbed \cup Disturbs(d, world')
              \cup (IF \E u \in Undos : target[u] = d /\ restored[u] # {} THEN {d} ELSE {})
      /\ d \notin mutated
    BY DEF Mutates, Inv, TypeOK, CallInv, CallFacts
<1>2. ASSUME NEW c \in Calls \ {d} PROVE ExactKept(c)
    <2>1. \/ pc[c] \in {"idle", "gate"} \/ c \in disturbed'
          \/ \A p \in effect[c].at : world'[p] = world[p]
        BY <1>1 DEF Disturbs
    <2>2. wire'[c] = wire[c] /\ before'[c] = before[c] /\ (c \in mutated' <=> c \in mutated)
        BY <1>1 DEF Mutates, Inv, TypeOK
    <2> QED BY <1>1, <2>1, <2>2 DEF ExactKept, PutBack
<1>3. before'[d] = world /\ world \in [Places -> Values]
    BY <1>1 DEF Inv, TypeOK
<1>4. EffectFacts(d)'
    BY <1>1, <1>3 DEF ExactInv, EffectFacts
<1>5. ASSUME d \notin disturbed' PROVE ExactFacts(d)'
    <2>1. d \notin disturbed /\ \A u \in Undos : target[u] = d => restored[u] = {}
        BY <1>1, <1>5
    <2>2. \A p : ~PutBack(d, p) /\ ~PutBack(d, p)'
        BY <1>1, <2>1 DEF PutBack
    <2>3. journal[d].kept => Exact(journal[d].image, effect[d], world)
        BY <1>1, <2>1, <2>2 DEF ExactInv, ExactFacts, Untouched
    <2> QED BY <1>1, <1>3, <2>2, <2>3 DEF ExactFacts
<1> QED BY <1>2, <1>4, <1>5, ExactStable DEF ExactInv, Inv

\* An undo puts back a place of its own call's, and of nobody else's unnoticed.
LEMMA RestoresKeepsExact ==
    ASSUME Inv, ExactInv, NEW v \in Undos, RestoresPlace(v)
    PROVE  ExactInv'
<1> USE DEF storeVars, callVars, undoVars, faultVars, historyVars
<1>0. PICK d, q : d = target[v] /\ q = at[v]
    OBVIOUS
<1>1. /\ UNCHANGED <<pc, got, effect, journal, target, mutated, before>>
      /\ pc[v] = "restore" /\ restored' = [restored EXCEPT ![v] = @ \cup {q}]
      /\ world' = [world EXCEPT ![q] = journal[d].image[q]]
      /\ disturbed' = disturbed \cup Disturbs(d, world')
      /\ \A c \in Calls : wire'[c] = wire[c]
    BY <1>0, TasksAssumption DEF RestoresPlace, Inv, TypeOK
<1>2. d \in Calls /\ q \in Places /\ journal[d].kept /\ restored'[v] = restored[v] \cup {q}
    <2>1. UndoFacts(v) /\ v \notin {"none"}
        BY TasksAssumption DEF Inv, UndoInv
    <2>2. d \in Calls /\ journal[d].undoneBy = v /\ q \in Captured(journal[d].image)
        BY <1>0, <1>1, <2>1 DEF UndoFacts, Claimant
    <2>3. journal[d].kept
        BY <2>1, <2>2 DEF Inv, CallInv, CallFacts
    <2>4. restored'[v] = restored[v] \cup {q}
        BY <1>1 DEF Inv, TypeOK
    <2> QED BY <2>2, <2>3, <2>4 DEF Captured
<1>3. \A u \in Undos : u # v => restored'[u] = restored[u]
    BY <1>1 DEF Inv, TypeOK
<1>4. ASSUME NEW c \in Calls, c # d PROVE ExactKept(c)
    <2>1. \/ pc[c] \in {"idle", "gate"} \/ c \in disturbed'
          \/ \A p \in effect[c].at : world'[p] = world[p]
        BY <1>1, <1>4 DEF Disturbs
    <2>2. \A p \in Places : PutBack(c, p)' <=> PutBack(c, p)
        BY <1>0, <1>1, <1>3, <1>4 DEF PutBack
    <2> QED BY <1>1, <2>1, <2>2 DEF ExactKept
<1>5. EffectFacts(d)'
    BY <1>1, <1>2 DEF ExactInv, EffectFacts
<1>6. ASSUME d \notin disturbed' PROVE ExactFacts(d)'
    <2>1. ExactFacts(d) /\ pc[d] \in {"mutate", "done"}
        BY <1>1, <1>2, <1>6 DEF ExactInv, Inv, CallInv, CallFacts
    <2>2. PutBack(d, q)' /\ \A p : p # q => (PutBack(d, p)' <=> PutBack(d, p))
        BY <1>0, <1>1, <1>2, <1>3 DEF PutBack
    <2>3. ~Untouched(d)'
        BY <1>2, <2>2 DEF Untouched
    <2>4. world'[q] = journal[d].image[q] /\ \A p \in Places : p # q => world'[p] = world[p]
        BY <1>1, <1>2 DEF Inv, TypeOK
    <2>5. ASSUME d \in mutated, NEW p \in effect[d].at
          PROVE  world'[p] = IF PutBack(d, p)' THEN journal[d].image[p]
                             ELSE Mutation(effect[d], before[d])[p]
        <3>1. p \in Places
            BY <2>1, EffectShape, <1>2 DEF ExactInv, EffectFacts
        <3> QED BY <2>1, <2>2, <2>4, <2>5, <3>1 DEF ExactFacts
    <2> QED BY <1>1, <1>2, <2>1, <2>3, <2>5 DEF ExactFacts
<1> QED BY <1>2, <1>4, <1>5, <1>6, ExactStable DEF ExactInv, Inv

\* A call moves on between its requests.
LEMMA CallKeepsExact ==
    ASSUME Inv, ExactInv, NEW d \in Calls, CallSteps(d)
    PROVE  ExactInv'
<1> USE DEF storeVars, callVars, undoVars, faultVars, historyVars
<1>1. /\ UNCHANGED <<world, target, restored, mutated, before, disturbed>>
      /\ \A c \in Calls \ {d} : /\ pc'[c] = pc[c] /\ wire'[c] = wire[c] /\ got'[c] = got[c]
                                /\ effect'[c] = effect[c] /\ journal'[c] = journal[c]
    <2>1. CASE Submit(d) \/ Resolve(d) \/ Refuse(d) \/ Executed(d) \/ CancelCall(d)
        BY <2>1 DEF Submit, Resolve, Refuse, Executed, CancelCall, Goes, Inv, TypeOK
    <2>2. CASE Capture(d) \/ SchemaRead(d) \/ ImageRead(d) \/ CaptureFails(d) \/ InsertJournal(d)
        BY <2>2 DEF Capture, SchemaRead, ImageRead, CaptureFails, InsertJournal, Goes, Sends, Inv, TypeOK
    <2> QED BY <2>1, <2>2 DEF CallSteps
<1>2. \A p : \A c \in Calls : PutBack(c, p)' <=> PutBack(c, p)
    BY <1>1 DEF PutBack
<1>3. \A c \in Calls \ {d} : ExactKept(c)
    BY <1>1, <1>2 DEF ExactKept
<1>4. EffectFacts(d) /\ (d \notin disturbed => ExactFacts(d)) /\ CallFacts(d)
    BY DEF ExactInv, Inv, CallInv
<1> SUFFICES EffectFacts(d)' /\ (d \notin disturbed' => ExactFacts(d)')
    BY <1>1, <1>3, ExactStable DEF ExactInv, Inv
<1>5. CASE Resolve(d) \/ CancelCall(d) \/ Executed(d)
    <2>1. /\ pc'[d] = pc[d] \/ (pc[d] = "mutate" /\ pc'[d] = "done")
          /\ UNCHANGED <<got, effect, journal>> /\ (wire'[d] = "ok" => wire[d] = "ok")
        <3>1. pc \in [Tasks -> TaskPlaces] /\ DOMAIN wire = Tasks
            BY DEF Inv, TypeOK, TaskPlaces
        <3>2. CASE Resolve(d) \/ CancelCall(d)
            BY <3>2 DEF Resolve, CancelCall
        <3>3. CASE Executed(d)
            BY <3>1, <3>3 DEF Executed, Goes
        <3> QED BY <1>5, <3>2, <3>3
    <2>2. Untouched(d)' <=> Untouched(d)
        BY <1>2 DEF Untouched
    <2>3. EffectFacts(d)'
        BY <1>1, <1>4, <2>1 DEF EffectFacts
    <2> QED BY <1>1, <1>2, <1>4, <2>1, <2>2, <2>3 DEF ExactFacts
<1>6. CASE Submit(d)
    <2>1. /\ pc[d] = "idle" /\ pc'[d] = "gate" /\ journal' = journal /\ effect'[d] \in Effects[d]
        BY <1>6 DEF Submit, Goes, Inv, TypeOK
    <2>2. ~journal[d].kept /\ d \notin mutated
        BY <1>4, <2>1 DEF CallFacts
    <2> QED BY <1>1, <2>1, <2>2 DEF EffectFacts, ExactFacts
<1>7. CASE Refuse(d) \/ CaptureFails(d)
    <2>1. /\ pc[d] \in {"gate", "schema", "image"} /\ pc'[d] \in {"refused", "mutate"}
          /\ journal' = journal /\ effect' = effect
        BY <1>7 DEF Refuse, CaptureFails, Goes, Sends, Inv, TypeOK
    <2>2. ~journal[d].kept /\ d \notin mutated
        BY <1>4, <2>1 DEF CallFacts
    <2> QED BY <1>1, <1>4, <2>1, <2>2 DEF EffectFacts, ExactFacts
<1>8. CASE Capture(d)
    <2>1. /\ pc[d] = "gate" /\ pc'[d] = FirstRequest(effect[d]) /\ wire'[d] = "sent"
          /\ journal' = journal /\ effect' = effect /\ got' = got
        BY <1>8 DEF Capture, Sends, Inv, TypeOK
    <2>2. ~journal[d].kept /\ d \notin mutated
        BY <1>4, <2>1 DEF CallFacts
    <2>3. effect[d] \in Effects[d]
        BY <1>4, <2>1 DEF EffectFacts
    <2>4. pc'[d] = "image" => Schema \notin effect[d].at
        BY <2>1, <2>3, EffectShape DEF FirstRequest
    <2>5. pc'[d] \in {"schema", "image", "mutate"} /\ (pc'[d] = "schema" => effect[d].tool \in Drops)
          /\ (effect[d].tool = "insert" => pc'[d] = "mutate")
        BY <2>1 DEF FirstRequest
    <2> QED BY <1>1, <1>4, <2>1, <2>2, <2>3, <2>4, <2>5 DEF EffectFacts, ExactFacts
<1>9. CASE SchemaRead(d)
    <2>1. /\ pc[d] = "schema" /\ wire[d] = "ok" /\ pc'[d] \in {"mutate", "image"} /\ wire'[d] = "sent"
          /\ journal' = journal /\ effect' = effect /\ got' = got
          /\ pc'[d] = "image" => got[d][Schema] # Unread
        BY <1>9 DEF SchemaRead, Sends, Inv, TypeOK
    <2>2. ~journal[d].kept /\ d \notin mutated
        BY <1>4, <2>1 DEF CallFacts
    <2> QED BY <1>1, <1>4, <2>1, <2>2 DEF EffectFacts, ExactFacts
<1>10. CASE ImageRead(d)
    <2>1. /\ pc[d] = "image" /\ wire[d] = "ok" /\ pc'[d] = "journal"
          /\ journal' = journal /\ effect' = effect /\ got' = got
        BY <1>10 DEF ImageRead, Goes, Inv, TypeOK
    <2>2. ~journal[d].kept /\ d \notin mutated
        BY <1>4, <2>1 DEF CallFacts
    <2> QED BY <1>1, <1>4, <2>1, <2>2 DEF EffectFacts, ExactFacts
<1>11. CASE InsertJournal(d)
    <2>1. /\ pc[d] = "journal" /\ pc'[d] = "mutate" /\ effect' = effect /\ got' = got
        BY <1>11 DEF InsertJournal, Sends, Inv, TypeOK
    <2>2. ~journal[d].kept /\ d \notin mutated
        BY <1>4, <2>1 DEF CallFacts
    <2>3. journal'[d].image = got[d] /\ journal'[d].kept
        BY <1>11, <2>2 DEF InsertJournal, Inv, TypeOK
    <2>4. effect[d].tool # "insert"
        BY <1>4, <2>1 DEF EffectFacts
    <2> QED BY <1>1, <1>4, <2>1, <2>2, <2>3, <2>4 DEF EffectFacts, ExactFacts
<1> QED BY <1>5, <1>6, <1>7, <1>8, <1>9, <1>10, <1>11 DEF CallSteps

\* Nobody else moves a call, or its places.
LEMMA OthersKeepExact ==
    ASSUME Inv, ExactInv,
           \/ \E u \in Undos : RefusesToRestore(u) \/ UndoSteps(u)
           \/ \E t \in Tasks : LosesAnswer(t) \/ LosesRequest(t) \/ Raises(t)
           \/ Crash
           \/ UNCHANGED vars
    PROVE  ExactInv'
<1> USE DEF storeVars, callVars, undoVars, faultVars, historyVars
<1>1. /\ UNCHANGED <<world, got, effect, before, mutated, disturbed, restored>>
      /\ \A c \in Calls : pc'[c] = pc[c] /\ (wire'[c] = "ok" => wire[c] = "ok")
      /\ \A c \in Calls : journal'[c].kept = journal[c].kept /\ journal'[c].image = journal[c].image
      /\ \A u \in Undos : target'[u] = target[u] \/ restored[u] = {}
    <2>1. ASSUME NEW u \in Undos,
                 \/ Undo(u) \/ UndoReadsAction(u) \/ UndoReadsJournal(u) \/ UndoConflicts(u)
                 \/ UndoFails(u) \/ UndoRecords(u) \/ RefusesToRestore(u)
          PROVE  /\ UNCHANGED <<world, got, effect, before, mutated, disturbed, restored, journal>>
                 /\ \A c \in Calls : pc'[c] = pc[c] /\ wire'[c] = wire[c]
        BY <2>1, TasksAssumption DEF Undo, UndoReadsAction, UndoReadsJournal, UndoConflicts, UndoFails,
            UndoRecords, RefusesToRestore, Goes, Inv, TypeOK
    <2>2. ASSUME NEW u \in Undos, UndoClaims(u) \/ UndoAccepts(u)
          PROVE  /\ UNCHANGED <<world, got, effect, before, mutated, disturbed, restored, target>>
                 /\ \A c \in Calls : pc'[c] = pc[c] /\ wire'[c] = wire[c]
        BY <2>2, TasksAssumption DEF UndoClaims, UndoAccepts, Compensates, Goes, Sends, Inv, TypeOK
    <2>3. ASSUME NEW u \in Undos, UndoClaims(u) \/ UndoAccepts(u)
          PROVE  \A c \in Calls : journal'[c].kept = journal[c].kept /\ journal'[c].image = journal[c].image
        BY <2>3 DEF UndoClaims, UndoAccepts, Inv, TypeOK
    <2>4. ASSUME NEW u \in Undos,
                 \/ Undo(u) \/ UndoReadsAction(u) \/ UndoReadsJournal(u) \/ UndoConflicts(u)
                 \/ UndoFails(u) \/ UndoRecords(u) \/ RefusesToRestore(u)
          PROVE  \A v \in Undos : target'[v] = target[v] \/ restored[v] = {}
        <3>1. CASE Undo(u)
            <4>1. restored[u] = {}
                BY <3>1, TasksAssumption DEF Undo, Goes, Inv, UndoInv, UndoFacts, Claimant
            <4> QED BY <3>1, <4>1 DEF Undo, Inv, TypeOK
        <3> QED BY <2>4, <3>1 DEF UndoReadsAction, UndoReadsJournal, UndoConflicts, UndoFails,
                UndoRecords, RefusesToRestore
    <2>5. ASSUME NEW t \in Tasks, LosesAnswer(t) \/ LosesRequest(t) \/ Raises(t)
          PROVE  /\ UNCHANGED <<world, got, effect, before, mutated, disturbed, restored, journal, target, pc>>
                 /\ \A c \in Calls : wire'[c] = "ok" => wire[c] = "ok"
        BY <2>5 DEF LosesAnswer, LosesRequest, Raises, Inv, TypeOK
    <2>6. CASE Crash \/ UNCHANGED vars
        BY <2>6 DEF Crash, vars
    <2> QED BY <2>1, <2>2, <2>3, <2>4, <2>5, <2>6 DEF UndoSteps
<1>4. ASSUME NEW c \in Calls PROVE ExactKept(c)
    <2>1. \A p \in Places : PutBack(c, p)' <=> PutBack(c, p)
        BY <1>1 DEF PutBack
    <2> QED BY <1>1, <2>1 DEF ExactKept
<1> QED BY <1>1, <1>4, ExactStable DEF ExactInv, Inv

\* What is captured for a call that nobody disturbs is what its mutation hits.
THEOREM ExactInvHolds == Spec => [](Inv /\ ExactInv)
<1>1. Init => ExactInv
    BY DEF Init, ExactInv, EffectFacts, ExactFacts, NoEntry
<1>2. Inv /\ ExactInv /\ [Next]_vars => ExactInv'
    BY ReadsKeepExact, MutatesKeepsExact, RestoresKeepsExact, CallKeepsExact, OthersKeepExact
       DEF Next, Upstream
<1>3. Inv /\ ExactInv /\ [Next]_vars => (Inv /\ ExactInv)'
    BY <1>2, StepInv
<1> QED BY <1>1, <1>3, InitInv, PTL DEF Spec

\* The journal reads a legible value as what it is.
LEMMA LegibleIsRead ==
    ASSUME NEW p \in Places \ {Indexes}, NEW v \in Values, Legible(p, v), p \in Files \/ v # Absent
    PROVE  AsRead(p, v) = v
<1>1. CASE p = Schema
    BY <1>1, PlacesAssumption DEF AsRead
<1>2. CASE p \in Keys
    <2>1. p \notin Files /\ p # Schema
        BY <1>2, PlacesAssumption
    <2>2. RowText[v] = v
        BY <2>1 DEF Legible
    <2> QED BY <1>2, <2>1, <2>2 DEF AsRead
<1>3. CASE p \in Files
    <2>1. p \notin Keys /\ p # Schema /\ Absent \notin Undecodable
        BY <1>3, PlacesAssumption, ContentsAssumption
    <2>2. TextAsRead(v) = v
        BY <1>3, <2>1 DEF Legible, TextAsRead
    <2> QED BY <1>3, <2>1, <2>2 DEF AsRead
<1> QED BY <1>1, <1>2, <1>3 DEF Places

\* When nobody else writes what a mutation wrote, from its capture to the end of its
\* undo, the undo leaves every captured place that held what the journal can read (see
\* Legible) as the mutation found it: whatever was lost, cancelled or crashed meanwhile.
\* What a mutation changed beyond its capture is not said to come back.
THEOREM UndoneIsRestored == Spec => []UndoRestores
<1>1. Inv /\ ExactInv => UndoRestores
    <2> SUFFICES ASSUME Inv, ExactInv, NEW u \in recorded \ blind,
                        target[u] \in mutated \ disturbed,
                        NEW p \in effect[target[u]].at,
                        Legible(p, before[target[u]][p])
                 PROVE  world[p] = before[target[u]][p]
        BY DEF UndoRestores
    <2> DEFINE c == target[u]
               e == effect[c]
               image == journal[c].image
    <2>1. /\ u \in Undos /\ c \in Calls /\ journal[c].kept
          /\ \A q \in Captured(image) : q \in restored[u]
          /\ restored[u] \subseteq Captured(image)
        <3>1. UndoFacts(u) /\ u \in Undos /\ c \in Calls /\ pc[u] = "undone" /\ u # "none"
            BY TasksAssumption DEF Inv, TypeOK, UndoInv, UndoFacts
        <3>2. journal[c].undoneBy = u
            BY <3>1 DEF UndoFacts, Claimant
        <3>3. journal[c].kept
            BY <3>1, <3>2 DEF Inv, CallInv, CallFacts
        <3> QED BY <3>1, <3>3 DEF UndoFacts, Claimant
    <2>2. EffectFacts(c) /\ ExactFacts(c) /\ pc[c] # "idle"
        BY <2>1 DEF ExactInv, Inv, CallInv, CallFacts
    <2>3. /\ e \in Effects[c] /\ e.tool # "insert" /\ before[c] \in [Places -> Values]
          /\ p \in Places \ {Indexes}
        BY <2>1, <2>2, EffectShape DEF EffectFacts
    <2>4. image[p] = Image(e, before[c])[p]
        BY <2>1, <2>2 DEF ExactFacts, Exact
    <2>5. world[p] = IF PutBack(c, p) THEN image[p] ELSE Mutation(e, before[c])[p]
        BY <2>1, <2>2 DEF ExactFacts
    <2>6. CASE image[p] # Unread
        <3>1. PutBack(c, p)
            BY <2>1, <2>3, <2>6 DEF PutBack, Captured
        <3>2. image[p] = AsRead(p, before[c][p]) /\ (p \in Files \/ before[c][p] # Absent)
            BY <2>3, <2>4, <2>6 DEF Image
        <3>3. AsRead(p, before[c][p]) = before[c][p]
            <4>1. before[c][p] \in Values
                BY <2>3
            <4> QED BY <2>3, <3>2, <4>1, LegibleIsRead
        <3>4. image[p] = before[c][p]
            BY <3>2, <3>3
        <3> QED BY <2>5, <3>1, <3>4
    <2>7. CASE image[p] = Unread
        <3>1. p \notin Files /\ before[c][p] = Absent
            <4>1. before[c][p] \in Values /\ Unread \notin Values
                BY <2>3, PlacesAssumption
            <4>2. p \in Files \/ before[c][p] # Absent => AsRead(p, before[c][p]) = before[c][p]
                BY <2>3, <4>1, LegibleIsRead
            <4> QED BY <2>3, <2>4, <2>7, <4>1, <4>2 DEF Image
        <3>2. ~PutBack(c, p)
            BY <2>1, <2>7 DEF PutBack, Captured, Inv, UndoInv, UndoFacts
        <3>3. e.tool \in {"rows", "rekey"} \cup Drops
            BY <2>1, <2>3, <3>1, EffectShape DEF Tools, Drops
        <3>4. Mutation(e, before[c])[p] = Absent
            <4>1. p \in Places /\ p \in e.at /\ p \notin e.beyond /\ (e.tool \in Drops => e.value = Absent)
                BY <2>1, <2>3, EffectShape
            <4>2. e.tool \in {"rows", "rekey"} => p \notin Hits(e, before[c])
                BY <3>1 DEF Hits
            <4>3. e.tool \in Drops => p \in Hits(e, before[c])
                BY <4>1 DEF Hits, Drops
            <4> QED BY <3>1, <3>3, <4>1, <4>2, <4>3 DEF Mutation, Drops
        <3> QED BY <2>5, <3>1, <3>2, <3>4
    <2> QED BY <2>6, <2>7
<1> QED BY <1>1, ExactInvHolds, PTL
-----------------------------------------------------------------------------
(* The gate.  JournalUndo takes the hold as one step.  With that, its calls  *)
(* keep what ActionLifecycle promises of the gate, down to the tool server:  *)
(* executed is not what was asked for, but what has run there.               *)

Gate == INSTANCE ActionLifecycle WITH executed <- mutated, told <- {}

\* A call has its row from its first step on, and is past the gate on its word.
GateFacts(c) ==
    /\ pc[c] = "idle" => status[c] = NoRow
    /\ pc[c] \in {"schema", "image", "journal", "mutate", "done"} => status[c] \in Allowed

GateInv == \A c \in Calls : GateFacts(c)

\* A step that moves no row, and no call but past the gate on its word.
LEMMA GateStable ==
    ASSUME GateInv, status' = status,
           \A c \in Calls : \/ pc'[c] = pc[c]
                            \/ pc[c] # "idle" /\ pc'[c] \in {"gate", "refused"}
                            \/ pc'[c] # "idle" /\ status[c] \in Allowed
    PROVE  GateInv'
BY DEF GateInv, GateFacts

\* Rows only move as the gate lets them.
LEMMA GateStep ==
    ASSUME Inv, GateInv, [Next]_vars
    PROVE  /\ GateInv'
           /\ \A c \in Calls : status'[c] = status[c] \/ <<status[c], status'[c]>> \in Moves
<1> USE DEF storeVars, callVars, undoVars, faultVars, historyVars
<1>0. status \in [Calls -> RowValues] /\ DOMAIN pc = Tasks
    BY DEF Inv, TypeOK
<1>1. ASSUME NEW d \in Calls, Submit(d)
      PROVE  GateInv' /\ \A c \in Calls : status'[c] = status[c] \/ <<status[c], status'[c]>> \in Moves
    <2>1. /\ pc[d] = "idle" /\ pc'[d] = "gate" /\ status[d] = NoRow
          /\ status'[d] \in {"PENDING", "AUTO_ALLOWED"}
          /\ \A c \in Calls : c # d => pc'[c] = pc[c] /\ status'[c] = status[c]
        BY <1>0, <1>1 DEF Submit, Goes, GateInv, GateFacts
    <2>2. \A c \in Calls : GateFacts(c)'
        BY <2>1 DEF GateInv, GateFacts
    <2> QED BY <2>1, <2>2 DEF GateInv, Moves, Statuses
<1>2. ASSUME NEW d \in Calls, Resolve(d)
      PROVE  GateInv' /\ \A c \in Calls : status'[c] = status[c] \/ <<status[c], status'[c]>> \in Moves
    <2>1. /\ pc' = pc /\ status[d] = "PENDING" /\ status'[d] \in Resolutions
          /\ \A c \in Calls : c # d => status'[c] = status[c]
        BY <1>0, <1>2 DEF Resolve
    <2>2. pc[d] \notin {"idle", "schema", "image", "journal", "mutate", "done"}
        BY <2>1 DEF GateInv, GateFacts, Allowed, NoRow
    <2>3. \A c \in Calls : GateFacts(c)'
        BY <2>1, <2>2 DEF GateInv, GateFacts
    <2> QED BY <2>1, <2>3 DEF GateInv, Moves
<1>3. ASSUME NEW d \in Calls, Refuse(d) \/ Capture(d) \/ SchemaRead(d) \/ ImageRead(d)
                              \/ CaptureFails(d) \/ InsertJournal(d) \/ Executed(d) \/ CancelCall(d)
      PROVE  GateInv' /\ status' = status
    <2>1. status' = status
        BY <1>3 DEF Refuse, Capture, SchemaRead, ImageRead, CaptureFails, InsertJournal, Executed,
                    CancelCall
    <2>2. \A c \in Calls : c # d => pc'[c] = pc[c]
        BY <1>0, <1>3 DEF Refuse, Capture, SchemaRead, ImageRead, CaptureFails, InsertJournal, Executed,
                          CancelCall, Goes, Sends
    <2>3. CASE Refuse(d) \/ CancelCall(d)
        <3>1. pc'[d] = pc[d] \/ (pc[d] # "idle" /\ pc'[d] = "refused")
            BY <1>0, <2>3 DEF Refuse, CancelCall, Goes
        <3> QED BY <2>1, <2>2, <3>1, GateStable
    <2>4. CASE Capture(d)
        <3>1. pc'[d] \in {"schema", "image", "mutate"} /\ status[d] \in Allowed
            BY <1>0, <2>4 DEF Capture, Sends, FirstRequest
        <3> QED BY <2>1, <2>2, <3>1, GateStable
    <2>5. CASE SchemaRead(d) \/ ImageRead(d) \/ CaptureFails(d) \/ InsertJournal(d) \/ Executed(d)
        <3>1. /\ pc[d] \in {"schema", "image", "journal", "mutate"}
              /\ pc'[d] \in {"image", "journal", "mutate", "done"}
            BY <1>0, <2>5 DEF SchemaRead, ImageRead, CaptureFails, InsertJournal, Executed, Goes, Sends
        <3>2. status[d] \in Allowed
            BY <3>1 DEF GateInv, GateFacts
        <3> QED BY <2>1, <2>2, <3>1, <3>2, GateStable
    <2> QED BY <1>3, <2>1, <2>3, <2>4, <2>5
<1>4. ASSUME NEW u \in Undos, UndoSteps(u) PROVE status' = status /\ \A c \in Calls : pc'[c] = pc[c]
    <2>1. \A c \in Calls : c # u
        BY TasksAssumption
    <2> QED BY <1>0, <1>4, <2>1
            DEF UndoSteps, Undo, UndoReadsAction, UndoReadsJournal, UndoConflicts, UndoClaims,
                UndoAccepts, UndoFails, UndoRecords, Compensates, Goes, Sends
<1>5. CASE Upstream \/ Crash \/ UNCHANGED vars
    <2>1. status' = status /\ pc' = pc
        BY <1>5 DEF Upstream, Crash, vars, ReadsSchema, ReadsImage, Mutates, RestoresPlace,
                    RefusesToRestore, LosesAnswer, LosesRequest, Raises
    <2> QED BY <2>1, GateStable
<1> QED BY <1>1, <1>2, <1>3, <1>4, <1>5, GateStable DEF Next, CallSteps

LEMMA GateInvHolds == Spec => []GateInv
<1>1. Init => GateInv
    BY DEF Init, GateInv, GateFacts
<1>2. Inv /\ GateInv /\ [Next]_vars => GateInv'
    BY GateStep
<1> QED BY <1>1, <1>2, JournalInvariant, PTL DEF Spec

\* Only one step lets a mutation run, of a call whose mutation has not.
LEMMA MutatedStep ==
    ASSUME [Next]_vars
    PROVE  \/ mutated' = mutated
           \/ \E c \in Calls : Mutates(c)
<1> USE DEF storeVars, callVars, undoVars, faultVars, historyVars
<1>1. ASSUME NEW c \in Calls, CallSteps(c) PROVE mutated' = mutated
    BY <1>1 DEF CallSteps, Submit, Resolve, Refuse, Capture, SchemaRead, ImageRead, CaptureFails,
                InsertJournal, Executed, CancelCall
<1>2. ASSUME NEW u \in Undos, UndoSteps(u) PROVE mutated' = mutated
    BY <1>2 DEF UndoSteps, Undo, UndoReadsAction, UndoReadsJournal, UndoConflicts, UndoClaims,
                UndoAccepts, UndoFails, UndoRecords
<1>3. CASE Upstream
    BY <1>3 DEF Upstream, ReadsSchema, ReadsImage, RestoresPlace, RefusesToRestore, LosesAnswer,
                LosesRequest, Raises
<1>4. CASE Crash \/ UNCHANGED vars
    BY <1>4 DEF Crash, vars
<1> QED BY <1>1, <1>2, <1>3, <1>4 DEF Next

\* With captures, cancelled calls, lost requests, undos and deaths beside it, a call's
\* record only moves forward, and its mutation runs on the tool server once at most and
\* only while its record allows it (server.py, _handle_call_tool).
THEOREM JournalKeepsTheGate == Spec => Gate!Spec
<1>1. Init => Gate!Init
    BY DEF Init, Gate!Init, Gate!NoRow, NoRow
<1>2. Inv /\ Inv' /\ GateInv /\ [Next]_vars => [Gate!Next]_(Gate!vars)
    <2> SUFFICES ASSUME Inv, Inv', GateInv, [Next]_vars PROVE [Gate!Next]_(Gate!vars)
        OBVIOUS
    <2>1. CASE mutated' = mutated
        <3>1. status' \in [Calls -> RowValues]
            BY DEF Inv, TypeOK
        <3>2. \A c \in Calls : status'[c] = status[c] \/ <<status[c], status'[c]>> \in Moves
            BY GateStep
        <3>3. Gate!Persist
            BY <2>1, <3>1, <3>2 DEF Gate!Persist, Gate!RowValues, RowValues, Gate!Moves, Moves,
                Gate!Statuses, Statuses, Gate!Resolutions, Resolutions, Gate!Verdicts, Verdicts,
                Gate!NoRow, NoRow
        <3> QED BY <3>3 DEF Gate!Next
    <2>2. ASSUME NEW c \in Calls, Mutates(c) PROVE Gate!Next
        <3>1. /\ pc[c] = "mutate" /\ wire[c] = "sent"
              /\ mutated' = mutated \cup {c} /\ status' = status
            BY <2>2 DEF Mutates, storeVars
        <3>2. status[c] \in Allowed /\ c \notin mutated
            BY <3>1 DEF GateInv, GateFacts, Inv, CallInv, CallFacts
        <3>3. Gate!Execute(c)
            BY <3>1, <3>2 DEF Gate!Execute, Gate!Allowed, Allowed
        <3> QED BY <3>3 DEF Gate!Next
    <2> QED BY <2>1, <2>2, MutatedStep
<1> QED BY <1>1, <1>2, JournalInvariant, GateInvHolds, PTL DEF Spec, Gate!Spec

\* What an undo puts back, a call that was allowed may have changed: no request to undo a
\* refused or undecided action reaches a tool server (routes.py, undo_action).
THEOREM OnlyAllowedIsRestored ==
    Spec => [](\A u \in Undos : restored[u] # {} => status[target[u]] \in Allowed)
<1>1. Inv /\ GateInv => \A u \in Undos : restored[u] # {} => status[target[u]] \in Allowed
    <2> SUFFICES ASSUME Inv, GateInv, NEW u \in Undos, restored[u] # {}
                 PROVE  status[target[u]] \in Allowed
        OBVIOUS
    <2>1. pc[u] \in Claimant /\ journal[target[u]].undoneBy = u
        BY DEF Inv, UndoInv, UndoFacts
    <2>2. target[u] \in Calls /\ u # "none"
        BY <2>1, TasksAssumption DEF Inv, UndoInv, UndoFacts, Claimant
    <2>3. pc[target[u]] \in {"mutate", "done"}
        BY <2>1, <2>2 DEF Inv, CallInv, CallFacts
    <2> QED BY <2>2, <2>3 DEF GateInv, GateFacts
<1> QED BY <1>1, JournalInvariant, GateInvHolds, PTL
=============================================================================
