SPECIFICATION Spec
CONSTANTS
    Reporters = {r1, r2, r3}
    Periods = {3, 5}
    TTLs = {2}
    Faults = {"create", "parodus", "harvest", "psm"}
    Calm = FALSE
SYMMETRY Symmetry
INVARIANT TypeOK
INVARIANT ValidInForce
