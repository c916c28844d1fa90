\* The three scripts, beside one call of another mission; one POST that fails or is
\* answered with an error, or one restart of atc-core.  A script that has reported is
\* over: CHECK_DEADLOCK is off.
SPECIFICATION FairSpec
CONSTANTS
    Coder = coder
    Comply = comply
    Settings <- MCSettings
    MaxFaults = 1
INVARIANTS
    TypeOK
    PlaysTheHuman
PROPERTIES
    ScriptEnds
CHECK_DEADLOCK FALSE
