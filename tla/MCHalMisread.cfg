SPECIFICATION Spec
CONSTANTS
    Kinds = {"Line"}
    Modes <- MCModes
    MaxClock = 0
INVARIANTS
    RetrievesParameter
