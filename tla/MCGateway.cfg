\* One agent whose every tool is held, and a budget that one completion can spend: a call
\* after it is refused.  Two requests, a call or quarantines; a heartbeat and its late
\* predecessor; one crash or restart.
SPECIFICATION FairSpec
CONSTANTS
    Agents = {a1}
    Tools = {"write"}
    Scope <- MCScope
    Known = {"write"}
    Held = {"write"}
    Budget = 1
    Costs = {0, 1}
    MaxTurns = 2
    MaxTokens = 1
    Calls = {c1}
    Posts = {p1, p2}
    Slots = {s1, s2}
    MaxRequests = 2
    Mortal = {"atc-core", "runner"}
    MaxFaults = 1
INVARIANTS
    TypeOK
    ConfirmedQuarantineHolds
    NeverOverBilled
PROPERTIES
    SpendIsReported
