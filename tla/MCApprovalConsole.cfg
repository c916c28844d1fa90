\* A held action, and one that is allowed at once and can be undone; two lists at once,
\* so that an outdated one can overtake news; two events under way; a drop or a crash.
SPECIFICATION FairSpec
CONSTANTS
    Actions = {a1, a2}
    Held = {a1}
    Mutations = {a2}
    Loads = {l1, l2}
    MaxWire = 2
    MaxFaults = 1
INVARIANTS
    TypeOK
    LiveWhenQuiet
PROPERTIES
    CardsLeaveForAReason
    ConsoleSettles
