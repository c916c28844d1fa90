\* A held call, the quarantine of its agent, and an approval.
SPECIFICATION Spec
CONSTANTS
    Agents = {a1}
    Tools = {"read", "write"}
    Scope <- MCScope
    Known = {"read", "write"}
    Held = {"write"}
    Budget = 1
    Costs = {1}
    MaxTurns = 1
    MaxTokens = 1
    Calls = {c1}
    Posts = {p1}
    Slots = {s1}
    MaxRequests = 2
    Mortal = {}
    MaxFaults = 0
PROPERTIES
    QuarantineBlocksHeldCalls
