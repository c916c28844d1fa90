\* One held call with an approve racing a deny, one poll, one crash and one
\* cancellation, all interleaved at every await.
SPECIFICATION Spec
CONSTANTS
    c1 = c1
    c2 = c2
    approve1 = approve1
    deny1 = deny1
    Calls = {c1}
    Held = {c1}
    Decisions = {approve1, deny1}
    Polls = {p1}
    Target <- MCTarget
    Verdict <- MCVerdict
    MaxCrashes = 1
    MaxCancels = 1
INVARIANTS
    TypeOK
    CallerObeysRecord
    AnnouncedIsRecorded
    NoHoldStranded
PROPERTIES
    ImplementsLifecycle
\* Once every request is answered the process only waits for the next one.
CHECK_DEADLOCK FALSE
