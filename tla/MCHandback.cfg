SPECIFICATION HandbackSpec
CONSTANTS
    Calls <- TwoCalls
    MaxFaults = 1
    MaxNews = 1
    MaxDropping = 2
INVARIANTS
    AdvertisingFollowsBearer
PROPERTIES
    AwayPhoneReturns
CHECK_DEADLOCK FALSE
