SPECIFICATION FairSpec
CONSTANTS
    Reporters = {r1, r2, r3}
    Periods = {1}
    TTLs = {}
    Faults = {"harvest"}
    Calm = FALSE
INVARIANT StatusHasReporter
PROPERTY ReporterStops
