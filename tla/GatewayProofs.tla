---------------------------- MODULE GatewayProofs ---------------------------
(***************************************************************************)
(* Proofs about Gateway, for any agents, tools, calls, quarantine requests *)
(* and heartbeats, any budget and any number of crashes and restarts.      *)
(***************************************************************************)
EXTENDS Gateway, TLAPS

\* Unused() picks an identity that is not in use.
LEMMA UnusedIsIdle ==
    ASSUME NEW table, HasUnused(table)
    PROVE  Unused(table) \in DOMAIN table /\ table[Unused(table)].stage = "idle"
BY DEF HasUnused, Unused

LEMMA InitInv == Init => Inv
<1> SUFFICES ASSUME Init PROVE Inv
    OBVIOUS
<1>1. TypeOK
    <2>1. IdleCall \in CallRecords /\ IdlePost \in PostRecords /\ IdleBeat \in BeatRecords
        BY DEF IdleCall, IdlePost, IdleBeat, CallRecords, CallStages, PostRecords, BeatRecords
    <2>2. Asleep \in MissionRecords
        BY AdmissionAssumption DEF Asleep, MissionRecords
    <2>3. store \in [{} -> Rows] /\ durable \in [{} -> Rows]
        BY DEF Init
    <2> QED BY <2>1, <2>2, <2>3, AdmissionAssumption DEF Init, TypeOK
<1>2. RequestInv /\ BillingInv /\ QuarantineInv
    BY DEF Init, RequestInv, BillingInv, NeverOverBilled, QuarantineInv,
           ConfirmedQuarantineHolds, IdlePost, IdleBeat, Asleep, Answering
<1> QED BY <1>1, <1>2 DEF Inv
-----------------------------------------------------------------------------
(* The steps of a call: they touch the agents table by a commit at most.   *)

LEMMA CallGoesTyped ==
    ASSUME TypeOK, NEW c \in Calls, NEW from, NEW to \in CallStages, CallGoes(c, from, to)
    PROVE  calls' \in [Calls -> CallRecords]
<1>1. calls \in [Calls -> CallRecords]
    BY DEF TypeOK
<1>2. [calls[c] EXCEPT !.stage = to] \in CallRecords
    BY <1>1 DEF CallRecords
<1>3. calls' = [calls EXCEPT ![c] = [calls[c] EXCEPT !.stage = to]]
    BY DEF CallGoes
<1> QED BY <1>1, <1>2, <1>3

LEMMA CommitKeepsInv ==
    ASSUME Inv, calls' \in [Calls -> CallRecords], durable' \in {durable, store},
           UNCHANGED <<phase, store, posts, beats, runnerVars, faultVars, barred>>
    PROVE  Inv'
<1> USE DEF runnerVars, faultVars
<1>1. TypeOK'
    BY DEF Inv, TypeOK
<1>2. RequestInv'
    BY DEF Inv, RequestInv
<1>3. BillingInv'
    BY DEF Inv, BillingInv, NeverOverBilled, TypeOK
<1>4. QuarantineInv'
    BY DEF Inv, QuarantineInv, ConfirmedQuarantineHolds, NoLift
<1> QED BY <1>1, <1>2, <1>3, <1>4 DEF Inv

LEMMA CallKeepsInv ==
    ASSUME Inv, NEW c \in Calls, CallSteps(c) \/ Cancelled(c)
    PROVE  Inv'
<1>1. TypeOK
    BY DEF Inv
<1> SUFFICES /\ calls' \in [Calls -> CallRecords]
             /\ durable' \in {durable, store}
             /\ UNCHANGED <<phase, store, posts, beats, runnerVars, faultVars, barred>>
    BY CommitKeepsInv
<1>2. CASE Admit(c)
    <2>1. Admission(store[calls[c].agent], calls[c].agent, calls[c].tool) \in CallStages
        BY DEF Admission, CallStages, Inside, Answers
    <2> QED BY <1>1, <1>2, <2>1, CallGoesTyped DEF Admit
<1>3. CASE Submitted(c)
    <2>1. (IF calls[c].tool \in Held THEN "hold" ELSE "execute") \in CallStages
        BY DEF CallStages, Inside
    <2> QED BY <1>1, <1>3, <2>1, CallGoesTyped DEF Submitted
<1>4. CASE Decided(c)
    <2>1. \A status : (IF status \in Allowed THEN "execute" ELSE "refused") \in CallStages
        BY DEF CallStages, Inside, Answers
    <2> QED BY <1>1, <1>4, <2>1, CallGoesTyped DEF Decided
<1>5. CASE Executed(c)
    <2>1. "ran" \in CallStages
        BY DEF CallStages, Answers
    <2> QED BY <1>1, <1>5, <2>1, CallGoesTyped DEF Executed
<1>6. CASE Cancelled(c)
    <2>1. "lost" \in CallStages
        BY DEF CallStages
    <2> QED BY <1>1, <1>6, <2>1, CallGoesTyped DEF Cancelled
<1> QED BY <1>2, <1>3, <1>4, <1>5, <1>6 DEF CallSteps
-----------------------------------------------------------------------------
(* The operator's requests.                                                *)

\* A new request: a lift takes back the confirmation and every overlapping one.
LEMMA QuarantineKeepsInv ==
    ASSUME Inv, NEW a \in Agents, NEW flag \in BOOLEAN, Quarantine(a, flag)
    PROVE  Inv'
<1> DEFINE p == Unused(posts)
           lifts == {q \in Posts : posts[q].stage \in Answering /\ posts[q].agent = a /\ ~posts[q].flag}
           new == [stage |-> "update", agent |-> a, flag |-> flag, alone |-> flag /\ lifts = {}]
<1> USE DEF runnerVars, faultVars
<1>1. p \in Posts /\ posts[p].stage = "idle" /\ posts \in [Posts -> PostRecords]
    BY UnusedIsIdle DEF Quarantine, Inv, TypeOK
<1>2. /\ new \in PostRecords
      /\ \A q \in Posts : [posts[q] EXCEPT !.alone = @ /\ (flag \/ posts[q].agent # a)] \in PostRecords
    BY <1>1 DEF PostRecords, Answering
<1>3. posts' = [q \in Posts |->
            IF q = p THEN new
            ELSE [posts[q] EXCEPT !.alone = @ /\ (flag \/ posts[q].agent # a)]]
    BY DEF Quarantine
<1>4. posts' \in [Posts -> PostRecords]
    BY <1>2, <1>3
<1>5. TypeOK'
    BY <1>4 DEF Quarantine, Inv, TypeOK
<1>6. /\ posts'[p] = new
      /\ \A q \in Posts \ {p} :
            /\ posts'[q].stage = posts[q].stage
            /\ posts'[q].agent = posts[q].agent
            /\ posts'[q].flag = posts[q].flag
            /\ posts'[q].alone => posts[q].alone /\ (flag \/ posts[q].agent # a)
    BY <1>1, <1>3 DEF PostRecords
<1>7. new.stage = "update" /\ new.agent = a /\ new.flag = flag
        /\ (new.alone => flag /\ lifts = {})
    OBVIOUS
<1> HIDE DEF new, p, lifts
<1>8. RequestInv'
    BY <1>1, <1>6, <1>7 DEF Quarantine, Inv, RequestInv
<1>9. BillingInv'
    BY DEF Quarantine, Inv, BillingInv, NeverOverBilled
<1>10. \A b \in Agents : (flag \/ b # a) => (NoLift(b) => NoLift(b)')
    BY <1>1, <1>6, <1>7 DEF NoLift
<1>11. new.alone => NoLift(a)
    BY <1>7 DEF NoLift, lifts
<1>12. QuarantineInv'
    <2>1. barred' \subseteq barred /\ (~flag => a \notin barred')
        BY DEF Quarantine, Inv, TypeOK
    <2>2. \A b \in barred' : NoLift(b)'
        BY <2>1, <1>10 DEF Inv, TypeOK, QuarantineInv
    <2>3. ASSUME NEW q \in Posts, posts'[q].stage \in Answering, posts'[q].alone
          PROVE  /\ \A r \in Posts :
                        (posts'[r].stage \in Answering /\ posts'[r].agent = posts'[q].agent)
                            => posts'[r].flag
                 /\ posts'[q].stage = "commit" => store'[posts'[q].agent].quarantined
        <3>1. CASE q = p
            <4>1. flag /\ NoLift(a)
                BY <2>3, <3>1, <1>6, <1>7, <1>11
            <4>2. NoLift(a)'
                BY <4>1, <1>10
            <4> QED BY <3>1, <4>2, <1>6, <1>7 DEF NoLift
        <3>2. CASE q # p
            <4>1. posts[q].stage \in Answering /\ posts[q].alone /\ (flag \/ posts[q].agent # a)
                BY <2>3, <3>2, <1>6
            <4>2. NoLift(posts[q].agent) /\ posts[q].agent \in Agents
                BY <4>1 DEF Inv, QuarantineInv, RequestInv
            <4>3. posts[q].stage = "commit" => store[posts[q].agent].quarantined
                BY <4>1 DEF Inv, QuarantineInv
            <4>4. \A r \in Posts :
                    (posts'[r].stage \in Answering /\ posts'[r].agent = posts[q].agent)
                        => posts'[r].flag
                BY <4>1, <4>2, <1>10 DEF NoLift
            <4> QED BY <3>2, <4>3, <4>4, <1>6 DEF Quarantine
        <3> QED BY <3>1, <3>2
    <2> QED BY <2>1, <2>2, <2>3 DEF Quarantine, Inv, QuarantineInv, ConfirmedQuarantineHolds, NoLift
<1> QED BY <1>5, <1>8, <1>9, <1>12 DEF Inv

\* What every step of a request does to its record.
LEMMA PostGoesTyped ==
    ASSUME TypeOK, NEW p \in Posts, NEW to \in Answering \cup {"answered"},
           posts' = [posts EXCEPT ![p].stage = to]
    PROVE  /\ posts' \in [Posts -> PostRecords]
           /\ posts'[p].stage = to
           /\ \A q \in Posts \ {p} : posts'[q].stage = posts[q].stage
           /\ \A q \in Posts : /\ posts'[q].agent = posts[q].agent
                               /\ posts'[q].flag = posts[q].flag
                               /\ posts'[q].alone = posts[q].alone
<1>1. posts \in [Posts -> PostRecords]
    BY DEF TypeOK
<1>2. [posts[p] EXCEPT !.stage = to] \in PostRecords
    BY <1>1 DEF PostRecords
<1>3. posts' = [posts EXCEPT ![p] = [posts[p] EXCEPT !.stage = to]]
    OBVIOUS
<1> QED BY <1>1, <1>2, <1>3 DEF PostRecords

\* A row is overwritten in one of its columns.
LEMMA RowWritten ==
    ASSUME TypeOK, phase = "serving", NEW a \in Agents, NEW flag \in BOOLEAN, NEW tokens \in Nat,
           \/ store' = [store EXCEPT ![a].quarantined = flag]
           \/ store' = [store EXCEPT ![a].tokens_used = tokens]
    PROVE  /\ store \in [Agents -> Rows] /\ durable \in [Agents -> Rows]
           /\ store' \in [Agents -> Rows]
           /\ \A b \in Agents \ {a} : store'[b] = store[b]
<1>1. store \in [Agents -> Rows] /\ durable \in [Agents -> Rows]
    BY DEF TypeOK
<1>2. [store[a] EXCEPT !.quarantined = flag] \in Rows /\ [store[a] EXCEPT !.tokens_used = tokens] \in Rows
    BY <1>1 DEF Rows
<1>3. \/ store' = [store EXCEPT ![a] = [store[a] EXCEPT !.quarantined = flag]]
      \/ store' = [store EXCEPT ![a] = [store[a] EXCEPT !.tokens_used = tokens]]
    OBVIOUS
<1> QED BY <1>1, <1>2, <1>3

\* The UPDATE: no lift touches a confirmed agent, and no overlapping one an unconfirmed.
LEMMA SetQuarantinedKeepsInv ==
    ASSUME Inv, NEW p \in Posts, SetQuarantined(p)
    PROVE  Inv'
<1> DEFINE a == posts[p].agent
           flag == posts[p].flag
<1> USE DEF runnerVars, faultVars
<1>1. phase = "serving" /\ a \in Agents /\ flag \in BOOLEAN /\ posts[p].stage = "update"
    BY DEF SetQuarantined, Inv, RequestInv, TypeOK, PostRecords, Answering
<1>2. /\ posts' \in [Posts -> PostRecords]
      /\ posts'[p].stage = "commit"
      /\ \A q \in Posts \ {p} : posts'[q].stage = posts[q].stage
      /\ \A q \in Posts : /\ posts'[q].agent = posts[q].agent
                          /\ posts'[q].flag = posts[q].flag
                          /\ posts'[q].alone = posts[q].alone
    BY PostGoesTyped DEF SetQuarantined, Inv, Answering
<1>3. store' = [store EXCEPT ![a].quarantined = flag]
    BY DEF SetQuarantined
<1>4. /\ store \in [Agents -> Rows] /\ durable \in [Agents -> Rows]
      /\ store' \in [Agents -> Rows]
      /\ \A b \in Agents \ {a} : store'[b] = store[b]
    BY <1>1, <1>3, RowWritten DEF Inv
<1>5. store'[a].quarantined = flag /\ store'[a].tokens_used = store[a].tokens_used
    BY <1>1, <1>3, <1>4 DEF Rows
<1>6. TypeOK'
    BY <1>2, <1>4 DEF SetQuarantined, Inv, TypeOK
<1>7. RequestInv'
    BY <1>1, <1>2 DEF SetQuarantined, Inv, RequestInv, Answering
<1>8. BillingInv'
    <2>1. \A b \in Agents : store'[b].tokens_used = store[b].tokens_used
        BY <1>4, <1>5
    <2>2. DOMAIN store = Agents /\ DOMAIN store' = Agents
        BY <1>4
    <2> QED BY <2>1, <2>2 DEF SetQuarantined, Inv, BillingInv, NeverOverBilled
<1>9. \A b \in Agents : NoLift(b) => NoLift(b)'
    BY <1>1, <1>2 DEF NoLift, Answering
<1>10. QuarantineInv'
    <2>1. \A b \in barred : NoLift(b)' /\ store'[b].quarantined /\ durable[b].quarantined
        <3>1. TAKE b \in barred
        <3>2. NoLift(b) /\ store[b].quarantined /\ durable[b].quarantined /\ b \in Agents
            BY DEF Inv, QuarantineInv, ConfirmedQuarantineHolds, TypeOK
        <3>3. b = a => flag
            BY <3>2, <1>1 DEF NoLift, Answering
        <3> QED BY <3>2, <3>3, <1>4, <1>5, <1>9
    <2>2. ASSUME NEW q \in Posts, posts'[q].stage \in Answering, posts'[q].alone
          PROVE  /\ \A r \in Posts :
                        (posts'[r].stage \in Answering /\ posts'[r].agent = posts'[q].agent)
                            => posts'[r].flag
                 /\ posts'[q].stage = "commit" => store'[posts'[q].agent].quarantined
        <3>1. posts[q].stage \in Answering /\ posts[q].alone
            BY <2>2, <1>1, <1>2 DEF Answering
        <3>2. NoLift(posts[q].agent) /\ posts[q].agent \in Agents
            BY <3>1 DEF Inv, QuarantineInv, RequestInv
        <3>3. posts[q].agent = a => flag
            BY <3>2, <1>1 DEF NoLift, Answering
        <3>4. posts'[q].stage = "commit" => store'[posts[q].agent].quarantined
            <4>1. CASE posts[q].agent = a
                BY <4>1, <3>3, <1>5
            <4>2. CASE posts[q].agent # a
                <5>1. q # p
                    BY <4>2
                <5>2. posts'[q].stage = "commit" => store[posts[q].agent].quarantined
                    BY <5>1, <1>2, <3>1 DEF Inv, QuarantineInv
                <5> QED BY <5>2, <4>2, <3>2, <1>4
            <4> QED BY <4>1, <4>2
        <3>5. \A r \in Posts :
                (posts'[r].stage \in Answering /\ posts'[r].agent = posts[q].agent) => posts'[r].flag
            BY <3>2, <1>9 DEF NoLift
        <3> QED BY <3>4, <3>5, <1>2
    <2>3. barred' = barred /\ durable' = durable /\ DOMAIN store' = Agents
        BY <1>4 DEF SetQuarantined
    <2> QED BY <2>1, <2>2, <2>3 DEF QuarantineInv, ConfirmedQuarantineHolds, NoLift
<1> QED BY <1>6, <1>7, <1>8, <1>10 DEF Inv

\* The commit, after which the operator is answered.
LEMMA QuarantineCommitsKeepsInv ==
    ASSUME Inv, NEW p \in Posts, QuarantineCommits(p)
    PROVE  Inv'
<1> DEFINE a == posts[p].agent
<1> USE DEF runnerVars, faultVars
<1>1. phase = "serving" /\ a \in Agents /\ posts[p].stage = "commit"
    BY DEF QuarantineCommits, Inv, RequestInv, Answering
<1>2. /\ posts' \in [Posts -> PostRecords]
      /\ posts'[p].stage = "answered"
      /\ \A q \in Posts \ {p} : posts'[q].stage = posts[q].stage
      /\ \A q \in Posts : /\ posts'[q].agent = posts[q].agent
                          /\ posts'[q].flag = posts[q].flag
                          /\ posts'[q].alone = posts[q].alone
    BY PostGoesTyped DEF QuarantineCommits, Inv, Answering
<1>3. store' = store /\ durable' = store /\ store \in [Agents -> Rows]
    BY <1>1 DEF QuarantineCommits, Inv, TypeOK
<1>4. barred' \subseteq barred \cup {a} /\ (a \in barred' => a \in barred \/ posts[p].alone)
    BY DEF QuarantineCommits
<1>5. TypeOK'
    <2>1. barred' \subseteq Agents
        BY <1>1, <1>4 DEF Inv, TypeOK
    <2> QED BY <2>1, <1>2, <1>3 DEF QuarantineCommits, Inv, TypeOK
<1>6. RequestInv'
    BY <1>1, <1>2 DEF QuarantineCommits, Inv, RequestInv, Answering
<1>7. BillingInv'
    BY <1>3 DEF QuarantineCommits, Inv, BillingInv, NeverOverBilled
<1>8. \A b \in Agents : NoLift(b) => NoLift(b)'
    BY <1>1, <1>2 DEF NoLift, Answering
<1>9. QuarantineInv'
    <2>1. \A b \in barred' : NoLift(b)' /\ store[b].quarantined
        <3>1. TAKE b \in barred'
        <3>2. NoLift(b) /\ store[b].quarantined /\ b \in Agents
            BY <1>1, <1>4 DEF Inv, QuarantineInv, ConfirmedQuarantineHolds, TypeOK, Answering
        <3> QED BY <3>2, <1>8
    <2>2. ASSUME NEW q \in Posts, posts'[q].stage \in Answering, posts'[q].alone
          PROVE  /\ \A r \in Posts :
                        (posts'[r].stage \in Answering /\ posts'[r].agent = posts'[q].agent)
                            => posts'[r].flag
                 /\ posts'[q].stage = "commit" => store'[posts'[q].agent].quarantined
        <3>1. q # p /\ posts[q].stage \in Answering /\ posts[q].alone
            BY <2>2, <1>2 DEF Answering
        <3>2. NoLift(posts[q].agent) /\ posts[q].agent \in Agents
            BY <3>1 DEF Inv, QuarantineInv, RequestInv
        <3>3. posts[q].stage = "commit" => store[posts[q].agent].quarantined
            BY <3>1 DEF Inv, QuarantineInv
        <3>4. \A r \in Posts :
                (posts'[r].stage \in Answering /\ posts'[r].agent = posts[q].agent) => posts'[r].flag
            BY <3>2, <1>8 DEF NoLift
        <3> QED BY <3>1, <3>3, <3>4, <1>2, <1>3
    <2> QED BY <2>1, <2>2, <1>3 DEF QuarantineInv, ConfirmedQuarantineHolds, NoLift
<1> QED BY <1>5, <1>6, <1>7, <1>9 DEF Inv
-----------------------------------------------------------------------------
(* Heartbeats, inside the API and in the runner's loop.                    *)

\* A beat that moves on keeps what it carries.
LEMMA BeatGoesTyped ==
    ASSUME TypeOK, NEW s \in Slots, NEW from, NEW to \in {"update", "commit"}, BeatGoes(s, from, to)
    PROVE  /\ beats' \in [Slots -> BeatRecords]
           /\ beats[s].stage = from
           /\ \A r \in Slots : /\ r # s => beats'[r].stage = beats[r].stage
                               /\ beats'[r].agent = beats[r].agent
                               /\ beats'[r].tokens = beats[r].tokens
<1>1. beats \in [Slots -> BeatRecords]
    BY DEF TypeOK
<1>2. [beats[s] EXCEPT !.stage = to] \in BeatRecords
    BY <1>1 DEF BeatRecords
<1>3. beats' = [beats EXCEPT ![s] = [beats[s] EXCEPT !.stage = to]]
    BY DEF BeatGoes
<1> QED BY <1>1, <1>2, <1>3 DEF BeatRecords, BeatGoes

\* Steps that leave the agents table to a commit at most, and start no beat.
LEMMA BeatsKeepInv ==
    ASSUME Inv, beats' \in [Slots -> BeatRecords], round' \subseteq Agents,
           durable' \in {durable, store},
           \A s \in Slots : beats'[s].stage # "idle" =>
                /\ phase = "serving" /\ beats'[s].agent \in Agents
                /\ beats'[s].tokens <= spent[beats'[s].agent],
           UNCHANGED <<phase, store, calls, posts, missions, usage, spent, faultVars, barred>>
    PROVE  Inv'
<1> USE DEF faultVars
<1>1. TypeOK'
    BY DEF Inv, TypeOK
<1>2. RequestInv'
    BY DEF Inv, RequestInv
<1>3. BillingInv'
    BY DEF Inv, BillingInv, NeverOverBilled, TypeOK
<1>4. QuarantineInv'
    BY DEF Inv, QuarantineInv, ConfirmedQuarantineHolds, NoLift
<1> QED BY <1>1, <1>2, <1>3, <1>4 DEF Inv

\* The overwrite brings in a total that had been spent when it was sent.
LEMMA SetTokensUsedKeepsInv ==
    ASSUME Inv, NEW s \in Slots, SetTokensUsed(s)
    PROVE  Inv'
<1> DEFINE a == beats[s].agent
           tokens == beats[s].tokens
<1> USE DEF runnerVars, faultVars
<1>1. /\ beats' \in [Slots -> BeatRecords]
      /\ beats[s].stage = "update"
      /\ \A r \in Slots : /\ r # s => beats'[r].stage = beats[r].stage
                          /\ beats'[r].agent = beats[r].agent
                          /\ beats'[r].tokens = beats[r].tokens
    BY BeatGoesTyped DEF SetTokensUsed, Inv
<1>2. phase = "serving" /\ a \in Agents /\ tokens \in Nat /\ tokens <= spent[a]
    BY <1>1 DEF Inv, RequestInv, BillingInv, TypeOK, BeatRecords
<1>3. store' = [store EXCEPT ![a].tokens_used = tokens]
    BY DEF SetTokensUsed
<1>4. /\ store \in [Agents -> Rows] /\ durable \in [Agents -> Rows]
      /\ store' \in [Agents -> Rows]
      /\ \A b \in Agents \ {a} : store'[b] = store[b]
    BY <1>2, <1>3, RowWritten DEF Inv
<1>5. store'[a].quarantined = store[a].quarantined /\ store'[a].tokens_used = tokens
    BY <1>2, <1>3, <1>4 DEF Rows
<1> DEFINE same == <<phase, durable, calls, posts, missions, usage, round, spent, crashes, restarts, barred>>
<1>same. UNCHANGED same
    BY DEF SetTokensUsed
<1>6. TypeOK'
    BY <1>1, <1>4, <1>same DEF Inv, TypeOK
<1>7. RequestInv'
    <2>1. \A r \in Slots : beats'[r].stage # "idle" => phase = "serving" /\ beats'[r].agent \in Agents
        BY <1>1, <1>2 DEF Inv, RequestInv
    <2> QED BY <2>1, <1>same DEF Inv, RequestInv
<1>8. BillingInv'
    <2>1. \A b \in Agents : store'[b].tokens_used <= spent[b] /\ durable[b].tokens_used <= spent[b]
        BY <1>2, <1>4, <1>5 DEF Inv, BillingInv, NeverOverBilled
    <2>2. DOMAIN store' = Agents
        BY <1>4
    <2>3. \A r \in Slots : beats'[r].stage # "idle" => beats'[r].tokens <= spent[beats'[r].agent]
        BY <1>1, <1>2 DEF Inv, BillingInv
    <2> QED BY <2>1, <2>2, <2>3, <1>same DEF Inv, BillingInv, NeverOverBilled
<1>9. QuarantineInv'
    <2>1. \A b \in Agents : store'[b].quarantined = store[b].quarantined
        BY <1>4, <1>5
    <2>2. DOMAIN store' = Agents
        BY <1>4
    <2>3. UNCHANGED <<posts, barred, durable>> /\ barred \subseteq Agents
        BY <1>same DEF Inv, TypeOK
    <2> QED BY <2>1, <2>2, <2>3 DEF Inv, QuarantineInv, ConfirmedQuarantineHolds, NoLift, RequestInv
<1> QED BY <1>6, <1>7, <1>8, <1>9 DEF Inv

LEMMA BeatStepKeepsInv ==
    ASSUME Inv, NEW s \in Slots, BeatSteps(s) \/ BeatTimesOut(s)
    PROVE  Inv'
<1> USE DEF runnerVars
<1>1. beats \in [Slots -> BeatRecords] /\ round \subseteq Agents
    BY DEF Inv, TypeOK
<1>2. CASE RecordHeartbeat(s)
    <2>1. /\ beats' \in [Slots -> BeatRecords]
          /\ beats[s].stage = "record"
          /\ \A r \in Slots : /\ r # s => beats'[r].stage = beats[r].stage
                              /\ beats'[r].agent = beats[r].agent
                              /\ beats'[r].tokens = beats[r].tokens
        BY <1>2, BeatGoesTyped DEF RecordHeartbeat, Inv
    <2>2. \A r \in Slots : beats'[r].stage # "idle" =>
            /\ phase = "serving" /\ beats'[r].agent \in Agents
            /\ beats'[r].tokens <= spent[beats'[r].agent]
        BY <2>1 DEF Inv, RequestInv, BillingInv
    <2> QED BY <1>1, <1>2, <2>1, <2>2, BeatsKeepInv DEF RecordHeartbeat
<1>3. CASE SetTokensUsed(s)
    BY <1>3, SetTokensUsedKeepsInv
<1>4. CASE BeatCommits(s)
    <2>1. IdleBeat \in BeatRecords /\ IdleBeat.stage = "idle"
        BY DEF IdleBeat, BeatRecords
    <2>2. beats' = [beats EXCEPT ![s] = IdleBeat] /\ round' \subseteq Agents
        BY <1>1, <1>4 DEF BeatCommits
    <2> QED BY <1>1, <1>4, <2>1, <2>2, BeatsKeepInv DEF BeatCommits, Inv, RequestInv, BillingInv
<1>5. CASE BeatTimesOut(s)
    <2>1. [beats[s] EXCEPT !.awaited = FALSE] \in BeatRecords
        BY <1>1 DEF BeatRecords
    <2>2. beats' = [beats EXCEPT ![s] = [beats[s] EXCEPT !.awaited = FALSE]]
        BY <1>5 DEF BeatTimesOut
    <2>3. beats' \in [Slots -> BeatRecords]
        BY <1>1, <2>1, <2>2
    <2>4. \A r \in Slots : /\ beats'[r].stage = beats[r].stage
                           /\ beats'[r].agent = beats[r].agent
                           /\ beats'[r].tokens = beats[r].tokens
        BY <1>1, <2>2 DEF BeatRecords
    <2> QED BY <1>1, <1>5, <2>3, <2>4, BeatsKeepInv DEF BeatTimesOut, Inv, RequestInv, BillingInv
<1> QED BY <1>2, <1>3, <1>4, <1>5 DEF BeatSteps

\* What is already on its way when nothing happens to it.
LEMMA BeatsStand ==
    ASSUME Inv, beats' = beats, round' \subseteq Agents,
           UNCHANGED <<phase, store, durable, calls, posts, missions, usage, spent, faultVars, barred>>
    PROVE  Inv'
<1>1. beats' \in [Slots -> BeatRecords]
    BY DEF Inv, TypeOK
<1>2. \A s \in Slots : beats'[s].stage # "idle" =>
        /\ phase = "serving" /\ beats'[s].agent \in Agents
        /\ beats'[s].tokens <= spent[beats'[s].agent]
    BY DEF Inv, RequestInv, BillingInv
<1> QED BY <1>1, <1>2, BeatsKeepInv

\* A new beat carries what the runner knows, which is no more than was spent.
LEMMA HeartbeatLoopKeepsInv ==
    ASSUME Inv, HeartbeatLoop
    PROVE  Inv'
<1> USE DEF coreVars
<1>1. beats \in [Slots -> BeatRecords] /\ round \subseteq Agents
    BY DEF Inv, TypeOK
<1>2. CASE Sleeps
    BY <1>2, BeatsStand DEF Sleeps
<1>3. ASSUME NEW a \in Agents, SendBeat(a) PROVE Inv'
    <2>1. CASE phase = "serving"
        <3> DEFINE s == Unused(beats)
                   new == [stage |-> "record", agent |-> a, tokens |-> usage[a], awaited |-> TRUE]
        <3>1. s \in Slots
            BY <1>1, <1>3, <2>1, UnusedIsIdle DEF SendBeat
        <3>2. new \in BeatRecords /\ new.agent = a /\ new.tokens = usage[a]
            BY DEF Inv, TypeOK, BeatRecords
        <3>3. beats' = [beats EXCEPT ![s] = new] /\ round' = round
            BY <1>3, <2>1 DEF SendBeat
        <3>4. usage[a] <= spent[a]
            BY DEF Inv, BillingInv, TypeOK, MissionRecords
        <3> HIDE DEF s, new
        <3>5. beats' \in [Slots -> BeatRecords]
            BY <1>1, <3>1, <3>2, <3>3
        <3>6. \A r \in Slots : beats'[r].stage # "idle" =>
                /\ phase = "serving" /\ beats'[r].agent \in Agents
                /\ beats'[r].tokens <= spent[beats'[r].agent]
            BY <1>1, <2>1, <3>1, <3>2, <3>3, <3>4 DEF Inv, RequestInv, BillingInv
        <3> QED BY <1>1, <1>3, <3>3, <3>5, <3>6, BeatsKeepInv DEF SendBeat
    <2>2. CASE phase # "serving"
        <3>1. beats' = beats /\ round' \subseteq Agents
            BY <1>1, <1>3, <2>2 DEF SendBeat
        <3> QED BY <1>3, <3>1, BeatsStand DEF SendBeat
    <2> QED BY <2>1, <2>2
<1> QED BY <1>2, <1>3 DEF HeartbeatLoop
-----------------------------------------------------------------------------
(* Missions: spending, and the totals that follow it.                      *)

\* A mission's step moves tokens from what it holds to usage_totals, and adds to
\* both sides of the account what a completion took.
LEMMA MissionKeepsInv ==
    ASSUME Inv, missions' \in [Agents -> MissionRecords], calls' \in [Calls -> CallRecords],
           usage' \in [Agents -> Nat], spent' \in [Agents -> Nat],
           \A a \in Agents : /\ missions'[a].stage = "chat" => missions'[a].turns < MaxTurns
                            /\ usage'[a] + missions'[a].tokens <= spent'[a]
                            /\ spent[a] <= spent'[a],
           UNCHANGED <<phase, store, durable, posts, beats, round, faultVars, barred>>
    PROVE  Inv'
<1> USE DEF faultVars
<1>1. TypeOK'
    BY DEF Inv, TypeOK
<1>2. RequestInv'
    BY DEF Inv, RequestInv
<1>3. BillingInv'
    <2>1. ASSUME NEW a \in Agents, DOMAIN store = Agents
          PROVE  store[a].tokens_used <= spent'[a] /\ durable[a].tokens_used <= spent'[a]
        <3>1. store[a].tokens_used \in Nat /\ durable[a].tokens_used \in Nat
            BY <2>1 DEF Inv, TypeOK, Rows
        <3>2. store[a].tokens_used <= spent[a] /\ durable[a].tokens_used <= spent[a]
            BY <2>1 DEF Inv, BillingInv, NeverOverBilled
        <3>3. spent[a] \in Nat /\ spent'[a] \in Nat /\ spent[a] <= spent'[a]
            BY DEF Inv, TypeOK
        <3> QED BY <3>1, <3>2, <3>3
    <2>2. NeverOverBilled'
        <3>1. DOMAIN store = Agents \/ DOMAIN store = {}
            BY DEF Inv, TypeOK
        <3> QED BY <2>1, <3>1 DEF NeverOverBilled
    <2>3. ASSUME NEW s \in Slots, beats[s].stage # "idle"
          PROVE  beats[s].tokens <= spent'[beats[s].agent]
        <3>1. /\ beats[s].agent \in Agents /\ beats[s].tokens \in Nat
              /\ beats[s].tokens <= spent[beats[s].agent]
            BY <2>3 DEF Inv, RequestInv, BillingInv, TypeOK, BeatRecords
        <3> QED BY <3>1 DEF Inv, TypeOK
    <2> QED BY <2>2, <2>3 DEF BillingInv
<1>4. QuarantineInv'
    BY DEF Inv, QuarantineInv, ConfirmedQuarantineHolds, NoLift
<1> QED BY <1>1, <1>2, <1>3, <1>4 DEF Inv

\* The mission's record after it has ended, and when it begins.
LEMMA AsleepTyped ==
    /\ Asleep \in MissionRecords /\ Asleep.tokens = 0 /\ Asleep.stage = "asleep"
    /\ Begun \in MissionRecords /\ Begun.tokens = 0 /\ Begun.turns = 0
BY AdmissionAssumption DEF Asleep, Begun, MissionRecords

\* A mission that ends with no more than it and the total had spent.
LEMMA EndsKeepsInv ==
    ASSUME Inv, NEW a \in Agents, NEW n \in Nat, Ends(a, missions[a].tokens + n), calls' = calls,
           spent' = [spent EXCEPT ![a] = @ + n],
           UNCHANGED <<phase, store, durable, posts, beats, round, faultVars, barred>>
    PROVE  Inv'
<1>1. /\ missions \in [Agents -> MissionRecords] /\ usage \in [Agents -> Nat]
      /\ spent \in [Agents -> Nat] /\ missions[a].tokens \in Nat
      /\ calls' \in [Calls -> CallRecords]
    BY DEF Inv, TypeOK, MissionRecords
<1>2. /\ missions' \in [Agents -> MissionRecords] /\ usage' \in [Agents -> Nat]
      /\ spent' \in [Agents -> Nat]
    BY <1>1, AsleepTyped DEF Ends
<1>3. ASSUME NEW b \in Agents
      PROVE  /\ missions'[b].stage = "chat" => missions'[b].turns < MaxTurns
             /\ usage'[b] + missions'[b].tokens <= spent'[b]
             /\ spent[b] <= spent'[b]
    <2>1. usage[b] + missions[b].tokens <= spent[b]
        BY DEF Inv, BillingInv
    <2>2. CASE b = a
        <3>1. missions'[a] = Asleep /\ usage'[a] = usage[a] + (missions[a].tokens + n)
            BY <1>1 DEF Ends
        <3>2. spent'[a] = spent[a] + n
            BY <1>1
        <3> QED BY <1>1, <2>1, <2>2, <3>1, <3>2, AsleepTyped
    <2>3. CASE b # a
        BY <1>1, <2>1, <2>3 DEF Ends, Inv, RequestInv
    <2> QED BY <2>2, <2>3
<1> QED BY <1>1, <1>2, <1>3, MissionKeepsInv

\* A call that is sent with what the mission has spent so far.
LEMMA SendCallKeepsInv ==
    ASSUME Inv, NEW a \in Agents, NEW n \in Nat, NEW turns \in 0..MaxTurns,
           SendCall(a, missions[a].tokens + n, turns),
           spent' = [spent EXCEPT ![a] = @ + n],
           UNCHANGED <<phase, store, durable, posts, beats, round, faultVars, barred>>
    PROVE  Inv'
<1> DEFINE c == Unused(calls)
           m == [stage |-> "call", tokens |-> missions[a].tokens + n, turns |-> turns,
                 call |-> c, session |-> TRUE]
<1>1. /\ missions \in [Agents -> MissionRecords] /\ usage \in [Agents -> Nat]
      /\ spent \in [Agents -> Nat] /\ missions[a].tokens \in Nat
      /\ calls \in [Calls -> CallRecords]
    BY DEF Inv, TypeOK, MissionRecords
<1>2. c \in Calls
    BY <1>1, UnusedIsIdle DEF SendCall
<1>3. m \in MissionRecords /\ m.stage = "call" /\ m.tokens = missions[a].tokens + n
    BY <1>1, <1>2 DEF MissionRecords
<1>4. missions' = [missions EXCEPT ![a] = m] /\ usage' = usage
    BY DEF SendCall
<1>5. calls' \in [Calls -> CallRecords]
    <2>1. PICK tool \in Tools :
            calls' = [calls EXCEPT ![c] = [stage |-> "gate", agent |-> a, tool |-> tool]]
        BY DEF SendCall
    <2>2. [stage |-> "gate", agent |-> a, tool |-> tool] \in CallRecords
        BY DEF CallRecords, CallStages, Inside
    <2> QED BY <1>1, <2>1, <2>2
<1> HIDE DEF c, m
<1>6. missions' \in [Agents -> MissionRecords] /\ spent' \in [Agents -> Nat] /\ usage' \in [Agents -> Nat]
    BY <1>1, <1>3, <1>4
<1>7. ASSUME NEW b \in Agents
      PROVE  /\ missions'[b].stage = "chat" => missions'[b].turns < MaxTurns
             /\ usage'[b] + missions'[b].tokens <= spent'[b]
             /\ spent[b] <= spent'[b]
    <2>1. usage[b] + missions[b].tokens <= spent[b]
        BY DEF Inv, BillingInv
    <2>2. CASE b = a
        BY <1>1, <1>3, <1>4, <2>1, <2>2
    <2>3. CASE b # a
        BY <1>1, <1>4, <2>1, <2>3 DEF Inv, RequestInv
    <2> QED BY <2>2, <2>3
<1> QED BY <1>5, <1>6, <1>7, MissionKeepsInv

LEMMA MissionStepKeepsInv ==
    ASSUME Inv, NEW a \in Agents, Begins(a) \/ MissionSteps(a)
    PROVE  Inv'
<1> USE DEF coreVars, runnerVars
<1>1. /\ missions \in [Agents -> MissionRecords] /\ calls \in [Calls -> CallRecords]
      /\ usage \in [Agents -> Nat] /\ spent \in [Agents -> Nat]
      /\ missions[a].tokens \in Nat /\ missions[a].turns \in 0..MaxTurns
      /\ MaxTurns \in Nat
    BY AdmissionAssumption DEF Inv, TypeOK, MissionRecords
<1>2. CASE Begins(a)
    <2>1. missions' = [missions EXCEPT ![a] = Begun]
        BY <1>2 DEF Begins
    <2>2. missions' \in [Agents -> MissionRecords]
        BY <1>1, <2>1, AsleepTyped
    <2>3. ASSUME NEW b \in Agents
          PROVE  /\ missions'[b].stage = "chat" => missions'[b].turns < MaxTurns
                 /\ usage[b] + missions'[b].tokens <= spent[b]
                 /\ spent[b] <= spent[b]
        <3>1. usage[b] + missions[b].tokens <= spent[b] /\ missions[b].tokens \in Nat
            BY <1>1 DEF Inv, BillingInv, MissionRecords
        <3>2. CASE b = a
            BY <1>1, <2>1, <3>1, <3>2, AsleepTyped, AdmissionAssumption
        <3>3. CASE b # a
            BY <1>1, <2>1, <3>1, <3>3 DEF Inv, RequestInv
        <3> QED BY <3>2, <3>3
    <2> QED BY <1>1, <1>2, <2>2, <2>3, MissionKeepsInv DEF Begins
<1>3. ASSUME Ends(a, missions[a].tokens), calls' = calls,
             UNCHANGED <<phase, store, durable, posts, beats, round, spent, faultVars, barred>>
      PROVE  Inv'
    <2>1. Ends(a, missions[a].tokens + 0) /\ spent' = [spent EXCEPT ![a] = @ + 0]
        BY <1>1, <1>3
    <2> QED BY <1>3, <2>1, EndsKeepsInv
<1>4. CASE Completes(a)
    <2>1. PICK n \in Costs :
            /\ spent' = [spent EXCEPT ![a] = @ + n]
            /\ \/ Ends(a, missions[a].tokens + n) /\ UNCHANGED calls
               \/ SendCall(a, missions[a].tokens + n, missions[a].turns + 1)
        BY <1>4 DEF Completes
    <2>2. n \in Nat
        BY AdmissionAssumption
    <2>3. missions[a].turns + 1 \in 0..MaxTurns
        BY <1>1, <1>4 DEF Completes, Inv, RequestInv
    <2>4. UNCHANGED <<phase, store, durable, posts, beats, round, faultVars, barred>>
        BY <1>4 DEF Completes
    <2> QED BY <2>1, <2>2, <2>3, <2>4, EndsKeepsInv, SendCallKeepsInv
<1>5. CASE ChatFails(a)
    BY <1>3, <1>5 DEF ChatFails
<1>6. CASE ReadsResult(a)
    <2> DEFINE m == missions[a]
    <2>1. UNCHANGED <<phase, store, durable, posts, beats, round, spent, faultVars, barred>>
        BY <1>6 DEF ReadsResult
    <2>2. CASE SendCall(a, m.tokens, m.turns)
        <3>1. SendCall(a, missions[a].tokens + 0, missions[a].turns) /\ spent' = [spent EXCEPT ![a] = @ + 0]
            BY <1>1, <2>1, <2>2
        <3> QED BY <1>1, <2>1, <3>1, SendCallKeepsInv
    <2>3. CASE /\ m.turns < MaxTurns
               /\ missions' = [missions EXCEPT ![a] =
                     [stage |-> "chat", tokens |-> m.tokens, turns |-> m.turns,
                      call |-> NoOne, session |-> m.session]]
               /\ UNCHANGED <<calls, usage>>
        <3> DEFINE new == [stage |-> "chat", tokens |-> m.tokens, turns |-> m.turns,
                           call |-> NoOne, session |-> m.session]
        <3>1. new \in MissionRecords /\ new.tokens = m.tokens /\ new.turns = m.turns
            BY <1>1 DEF MissionRecords
        <3>2. missions' = [missions EXCEPT ![a] = new]
            BY <2>3
        <3> HIDE DEF new
        <3>3. missions' \in [Agents -> MissionRecords]
            BY <1>1, <3>1, <3>2
        <3>4. ASSUME NEW b \in Agents
              PROVE  /\ missions'[b].stage = "chat" => missions'[b].turns < MaxTurns
                     /\ usage[b] + missions'[b].tokens <= spent[b]
                     /\ spent[b] <= spent[b]
            BY <1>1, <2>3, <3>1, <3>2 DEF Inv, RequestInv, BillingInv
        <3> QED BY <1>1, <2>1, <2>3, <3>3, <3>4, MissionKeepsInv
    <2>4. CASE Ends(a, m.tokens) /\ UNCHANGED calls
        BY <1>3, <2>1, <2>4
    <2> QED BY <1>6, <2>2, <2>3, <2>4 DEF ReadsResult
<1>7. CASE CallRaises(a)
    BY <1>3, <1>7 DEF CallRaises
<1> QED BY <1>2, <1>4, <1>5, <1>6, <1>7 DEF MissionSteps
-----------------------------------------------------------------------------
(* Deaths and births.                                                      *)

LEMMA BootKeepsInv ==
    ASSUME Inv, Boot
    PROVE  Inv'
<1> USE DEF coreVars, runnerVars, faultVars
<1>1. NewRow \in Rows /\ NewRow.tokens_used = 0
    BY DEF NewRow, Rows
<1>2. durable' \in [Agents -> Rows] /\ store' = durable'
    BY <1>1 DEF Boot, Seeded, Inv, TypeOK
<1>3. \A a \in Agents : durable'[a] = NewRow \/ (a \in DOMAIN durable /\ durable'[a] = durable[a])
    BY DEF Boot, Seeded
<1>4. DOMAIN store = DOMAIN durable
    BY DEF Inv, TypeOK
<1>5. TypeOK'
    BY <1>2 DEF Boot, Inv, TypeOK
<1>6. RequestInv'
    BY DEF Boot, Inv, RequestInv
<1>7. BillingInv'
    <2>1. ASSUME NEW a \in Agents PROVE durable'[a].tokens_used <= spent[a]
        <3>1. CASE durable'[a] = NewRow
            <4>1. spent[a] \in Nat
                BY DEF Inv, TypeOK
            <4> QED BY <1>1, <3>1, <4>1
        <3>2. CASE a \in DOMAIN durable /\ durable'[a] = durable[a]
            BY <1>4, <3>2 DEF Inv, BillingInv, NeverOverBilled
        <3> QED BY <1>3, <3>1, <3>2
    <2>2. DOMAIN store' = Agents
        BY <1>2
    <2> QED BY <1>2, <2>1, <2>2 DEF Boot, Inv, BillingInv, NeverOverBilled
<1>8. QuarantineInv'
    <2>1. ASSUME NEW a \in barred PROVE durable'[a].quarantined
        <3>1. a \in Agents /\ a \in DOMAIN durable /\ durable[a].quarantined
            BY <1>4 DEF Inv, QuarantineInv, ConfirmedQuarantineHolds, TypeOK
        <3>2. durable'[a] = durable[a]
            BY <3>1 DEF Boot, Seeded
        <3> QED BY <3>1, <3>2
    <2>2. DOMAIN store' = Agents
        BY <1>2
    <2>3. \A p \in Posts : posts[p].stage \notin Answering
        BY DEF Boot, Inv, RequestInv
    <2> QED BY <1>2, <2>1, <2>2, <2>3 DEF Boot, Inv, QuarantineInv, ConfirmedQuarantineHolds, NoLift
<1> QED BY <1>5, <1>6, <1>7, <1>8 DEF Inv

LEMMA CrashKeepsInv ==
    ASSUME Inv, Crash
    PROVE  Inv'
<1>1. /\ calls \in [Calls -> CallRecords] /\ posts \in [Posts -> PostRecords]
      /\ missions \in [Agents -> MissionRecords] /\ round \subseteq Agents
    BY DEF Inv, TypeOK
<1>2. calls' \in [Calls -> CallRecords]
    <2>1. \A c \in Calls : [calls[c] EXCEPT !.stage = "lost"] \in CallRecords
        BY <1>1 DEF CallRecords, CallStages
    <2> QED BY <1>1, <2>1 DEF Crash
<1>3. posts' \in [Posts -> PostRecords]
    <2>1. \A p \in Posts : [posts[p] EXCEPT !.stage = "lost"] \in PostRecords
        BY <1>1 DEF PostRecords
    <2> QED BY <1>1, <2>1 DEF Crash
<1>4. beats' \in [Slots -> BeatRecords] /\ \A s \in Slots : beats'[s].stage = "idle"
    BY DEF Crash, IdleBeat, BeatRecords
<1>5. /\ missions' \in [Agents -> MissionRecords]
      /\ \A a \in Agents : /\ missions'[a].stage = missions[a].stage
                           /\ missions'[a].turns = missions[a].turns
                           /\ missions'[a].tokens = missions[a].tokens
    BY <1>1 DEF Crash, MissionRecords
<1>6. \A p \in Posts : posts'[p].stage \notin Answering
    BY <1>1 DEF Crash, Answering, PostRecords
<1>7. /\ phase' = "down" /\ store' = durable /\ durable' = durable /\ round' \subseteq Agents
      /\ crashes' = crashes + 1 /\ crashes + restarts < MaxFaults
      /\ UNCHANGED <<usage, spent, restarts, barred>>
    BY <1>1 DEF Crash
<1>8. {crashes', restarts'} \subseteq 0..MaxFaults
    BY <1>7, AdmissionAssumption DEF Inv, TypeOK
<1>9. TypeOK'
    BY <1>2, <1>3, <1>4, <1>5, <1>7, <1>8 DEF Inv, TypeOK
<1>10. RequestInv'
    BY <1>4, <1>5, <1>6 DEF Inv, RequestInv
<1>11. DOMAIN store = DOMAIN durable
    BY DEF Inv, TypeOK
<1>12. BillingInv'
    BY <1>4, <1>5, <1>7, <1>11 DEF Inv, BillingInv, NeverOverBilled
<1>13. QuarantineInv'
    BY <1>6, <1>7, <1>11 DEF Inv, QuarantineInv, ConfirmedQuarantineHolds, NoLift
<1> QED BY <1>9, <1>10, <1>12, <1>13 DEF Inv

LEMMA RunnerRestartsKeepsInv ==
    ASSUME Inv, RunnerRestarts
    PROVE  Inv'
<1>1. beats \in [Slots -> BeatRecords] /\ spent \in [Agents -> Nat]
    BY DEF Inv, TypeOK
<1>2. /\ beats' \in [Slots -> BeatRecords]
      /\ \A s \in Slots : /\ beats'[s].stage = beats[s].stage
                          /\ beats'[s].agent = beats[s].agent
                          /\ beats'[s].tokens = beats[s].tokens
    BY <1>1 DEF RunnerRestarts, BeatRecords
<1>3. /\ missions' = [a \in Agents |-> Asleep] /\ usage' = [a \in Agents |-> 0]
      /\ round' = Agents /\ restarts' = restarts + 1 /\ crashes + restarts < MaxFaults
      /\ UNCHANGED <<phase, store, durable, calls, posts, spent, crashes, barred>>
    BY DEF RunnerRestarts
<1>4. {crashes', restarts'} \subseteq 0..MaxFaults
    BY <1>3, AdmissionAssumption DEF Inv, TypeOK
<1>5. TypeOK'
    BY <1>2, <1>3, <1>4, AsleepTyped DEF Inv, TypeOK
<1>6. RequestInv'
    BY <1>2, <1>3, AsleepTyped DEF Inv, RequestInv
<1>7. BillingInv'
    BY <1>1, <1>2, <1>3, AsleepTyped DEF Inv, BillingInv, NeverOverBilled
<1>8. QuarantineInv'
    BY <1>3 DEF Inv, QuarantineInv, ConfirmedQuarantineHolds, NoLift
<1> QED BY <1>5, <1>6, <1>7, <1>8 DEF Inv
-----------------------------------------------------------------------------
LEMMA NextKeepsInv ==
    ASSUME Inv, [Next]_vars
    PROVE  Inv'
<1>1. CASE UNCHANGED vars
    BY <1>1 DEF vars, coreVars, runnerVars, faultVars, Inv, TypeOK, RequestInv, BillingInv,
                NeverOverBilled, QuarantineInv, ConfirmedQuarantineHolds, NoLift
<1>2. ASSUME NEW c \in Calls, CallSteps(c) \/ Cancelled(c) PROVE Inv'
    BY <1>2, CallKeepsInv
<1>3. ASSUME NEW p \in Posts, PostSteps(p) PROVE Inv'
    BY <1>3, SetQuarantinedKeepsInv, QuarantineCommitsKeepsInv DEF PostSteps
<1>4. ASSUME NEW a \in Agents, NEW flag \in BOOLEAN, Quarantine(a, flag) PROVE Inv'
    BY <1>4, QuarantineKeepsInv
<1>5. ASSUME NEW s \in Slots, BeatSteps(s) \/ BeatTimesOut(s) PROVE Inv'
    BY <1>5, BeatStepKeepsInv
<1>6. ASSUME NEW a \in Agents, Begins(a) \/ MissionSteps(a) PROVE Inv'
    BY <1>6, MissionStepKeepsInv
<1>7. CASE HeartbeatLoop \/ Boot \/ Crash \/ RunnerRestarts
    BY <1>7, HeartbeatLoopKeepsInv, BootKeepsInv, CrashKeepsInv, RunnerRestartsKeepsInv
<1> QED BY <1>1, <1>2, <1>3, <1>4, <1>5, <1>6, <1>7 DEF Next

\* The inductive invariant: what every request inside atc-core carries, and what
\* none of them may be about to do.
THEOREM GatewayInvariant == Spec => []Inv
<1>1. Init => Inv
    BY InitInv
<1>2. Inv /\ [Next]_vars => Inv'
    BY NextKeepsInv
<1> QED BY <1>1, <1>2, PTL DEF Spec

\* Every variable of Gateway keeps its type, and atc-core serves with every agent seeded.
THEOREM GatewayTyping == Spec => []TypeOK
<1>1. Inv => TypeOK
    BY DEF Inv
<1> QED BY <1>1, GatewayInvariant, PTL

\* The kill switch holds: a quarantine that the operator saw confirmed is read at
\* the gate and survives every crash until a lift is asked for.
THEOREM QuarantineHolds == Spec => []ConfirmedQuarantineHolds
<1>1. Inv => ConfirmedQuarantineHolds
    BY DEF Inv, QuarantineInv
<1> QED BY <1>1, GatewayInvariant, PTL

\* No heartbeat, repeated, late or of an earlier runner, charges an agent with more
\* than it spent.
THEOREM TotalsAreHonest == Spec => []NeverOverBilled
<1>1. Inv => NeverOverBilled
    BY DEF Inv, BillingInv
<1> QED BY <1>1, GatewayInvariant, PTL
=============================================================================
