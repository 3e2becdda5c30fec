SPECIFICATION HandbackSpec
CONSTANTS
    Calls <- OneCall
    MaxFaults = 0
    MaxNews = 2
    MaxDropping = 2
PROPERTY HoldEndsWithTheCall
CHECK_DEADLOCK FALSE
