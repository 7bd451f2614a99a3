SPECIFICATION FairSpec
CONSTANTS
    EventValues <- AllWords
    MaxQueue = 2
    Hub4 = TRUE
    Faults = {"hal", "sysevent", "spawn", "queue", "send", "receive", "wan"}
INVARIANTS TypeOK LastWord PhySettled
PROPERTIES LossReported CallbackReturns FeedSpec
