\* A held and an auto-allowed call, an approve racing a deny, and one crash,
\* under the fairness of the code's scheduling; no cancellation.
SPECIFICATION FairSpec
CONSTANTS
    c1 = c1
    c2 = c2
    approve1 = approve1
    deny1 = deny1
    Calls = {c1, c2}
    Held = {c1}
    Decisions = {approve1, deny1}
    Polls = {}
    Target <- MCTarget
    Verdict <- MCVerdict
    MaxCrashes = 1
    MaxCancels = 0
PROPERTIES
    EveryHoldEnds
    EveryCallIsAnswered
CHECK_DEADLOCK FALSE
