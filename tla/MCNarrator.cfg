\* Two requests for the narration of one running call's trace, which may be held; a
\* model that is out of quota at most twice; one crash.  A request that ended asks
\* no more, so that the system stops: CHECK_DEADLOCK is off.
SPECIFICATION FairSpec
CONSTANTS
    Requests = {r1, r2}
    Calls = {c1}
    MaxRetries = 2
    MaxFacts = 1
    MaxCrashes = 1
INVARIANTS
    TypeOK
    ToldIsKept
    SettledNarrationStays
PROPERTIES
    NarrationsEnd
CHECK_DEADLOCK FALSE
