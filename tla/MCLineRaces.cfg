SPECIFICATION Spec
CONSTANTS
    Callers = {c1}
    Threads = {t1, t2}
    Helpers = {h1}
    Rows = {1}
    NoThread = NoThread
    NoHelperOwner = NoHelperOwner
    LinkEvents = {"Up", "Disabled"}
    Standards = {"VDSL"}
    NameAtStart = ""
    AdslAllowed = TRUE
    Faults = {"create", "standard", "setspecific", "helper", "xtm"}
    Prompt = FALSE
    Patient = FALSE
SYMMETRY Symmetry
INVARIANT TypeOK
INVARIANT NoOrphanUp
PROPERTY SessionSpec
