\* A held call that its client may cancel, under the code's fairness.
SPECIFICATION FairSpec
CONSTANTS
    c1 = c1
    c2 = c2
    approve1 = approve1
    deny1 = deny1
    Calls = {c1}
    Held = {c1}
    Decisions = {deny1}
    Polls = {}
    Target <- MCTarget
    Verdict <- MCVerdict
    MaxCrashes = 0
    MaxCancels = 1
PROPERTIES
    EveryHoldEnds
CHECK_DEADLOCK FALSE
