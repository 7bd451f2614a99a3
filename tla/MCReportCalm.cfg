SPECIFICATION FairSpec
CONSTANTS
    Reporters = {r1, r2, r3}
    Periods = {0, 3, 5}
    TTLs = {4, 6}
    Faults = {}
    Calm = TRUE
INVARIANT OneReporter
INVARIANT CommittedInForce
PROPERTY OverrideEnds
PROPERTY KeepsReporting
