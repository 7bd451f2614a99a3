SPECIFICATION Spec
CONSTANTS
    Callers = {c1}
    Threads = {t1, t2}
    Helpers = {h1, h2}
    Rows = {1, 11}
    NoThread = NoThread
    NoHelperOwner = NoHelperOwner
    LinkEvents = {"Up", "Initializing", "EstablishingLink", "NoSignal", "Disabled", "Error"}
    Standards = {"ADSL", "VDSL", "GFAST"}
    NameAtStart = "dsl0"
    AdslAllowed = TRUE
    Faults = {"wan"}
    Prompt = TRUE
    Patient = TRUE
SYMMETRY Symmetry
INVARIANT OneStateMachine
INVARIANT TidNamesLiveThread
INVARIANT HelperNameAlive
INVARIANT NoOrphanRow
INVARIANT OneRow
INVARIANT ConfiguringHasLink
