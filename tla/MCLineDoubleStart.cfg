SPECIFICATION Spec
CONSTANTS
    Callers = {c1}
    Threads = {t1, t2}
    Helpers = {h1, h2}
    Rows = {1, 11}
    NoThread = NoThread
    NoHelperOwner = NoHelperOwner
    LinkEvents = {"Up", "Initializing", "Disabled"}
    Standards = {"ADSL", "VDSL"}
    NameAtStart = "dsl0"
    AdslAllowed = TRUE
    Faults = {}
    Prompt = FALSE
    Patient = TRUE
SYMMETRY Symmetry
INVARIANT OneStateMachine
