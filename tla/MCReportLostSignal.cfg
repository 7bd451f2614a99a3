SPECIFICATION Spec
CONSTANTS
    Reporters = {r1, r2, r3}
    Periods = {0, 1}
    TTLs = {2}
    Faults = {}
    Calm = FALSE
SYMMETRY Symmetry
INVARIANT DisabledNotAsleep
