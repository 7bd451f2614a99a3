SPECIFICATION FairSpec
CONSTANTS
    Callers = {c1}
    Threads = {t1, t2}
    Helpers = {h1}
    Rows = {1}
    NoThread = NoThread
    NoHelperOwner = NoHelperOwner
    LinkEvents = {"Up", "Initializing", "Disabled"}
    Standards = {"ADSL", "VDSL"}
    NameAtStart = "dsl0"
    AdslAllowed = TRUE
    Faults = {}
    Prompt = TRUE
    Patient = TRUE
PROPERTY UpstreamOffStops
PROPERTY LinkLossWithdrawn
PROPERTY LinkGainAnnounced
