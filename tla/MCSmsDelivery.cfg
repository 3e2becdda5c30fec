CONSTANTS
    i1 = i1
    i2 = i2
    Handles <- ThreeMessages
    Items <- TwoItems
    MaxSeen = 2
    MaxOutbound = 1
    Old = 1
    Media <- NewMedia
    Recipients = 1
    PollMaxCount = 1
    MaxEvents = 1
    MaxCrashes = 2
SPECIFICATION MCSpec
INVARIANTS
    BaselineIsNotNews
    InboundAtMostOnce
    OutboundAtMostOnce
    OutboxAnswersAreTrue
PROPERTIES
    
    OutboxIsDrained
CHECK_DEADLOCK FALSE
