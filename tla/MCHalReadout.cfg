SPECIFICATION Spec
CONSTANTS
    Kinds <- MCKinds
    Modes <- MCModes
    MaxClock = 2
INVARIANTS
    TypeOK
    ShowsItsOwn
    CurrentAfterRead
    StatsOfOneReply
    OctetsNameStandards
    ReportsWholeReplies
