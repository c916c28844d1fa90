\* Every shape of call alone; two calls on one resource, held or not, of one agent or
\* two; two like calls, which are a loop if no half-life passes between them.  One
\* half-life, one crash, one undo.
SPECIFICATION Spec
CONSTANTS
    a1 = a1
    a2 = a2
    Agents = {a1, a2}
    Beating = {a1}
    ProdTables = {"orders"}
    SensitivePaths = {"secrets"}
    MaxCalls = 2
    Scripts <- MCScripts
    Window = 0
    Threshold = 1
    MaxTime = 1
    MaxCrashes = 1
    MaxUndos = 1
INVARIANTS
    TypeOK
    GraveRunsApproved
    MostSevereRuleWins
    RecoverableIsKept
    NovelMeansFirst
    DetectorsCatch
PROPERTIES
    ScoreFallsOnlyWithAge
