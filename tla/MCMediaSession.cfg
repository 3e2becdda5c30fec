SPECIFICATION Spec
CONSTANTS
    Sessions <- OneSession
    ReleasePaths <- Unlinked
    Packets <- AllPackets
    MaxAttempts = 2
    MaxInbox = 1
INVARIANTS
    NormalEndIsNoHangup
    ReleasingMeansWorking
PROPERTIES
    KeepsContract
    HungUpSessionEnds
    
CHECK_DEADLOCK FALSE
