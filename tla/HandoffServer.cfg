SPECIFICATION Spec
CONSTANTS
    MaxPeers = 3
    MaxClock = 6
    MaxRestarts = 1
INVARIANTS
    BundlesIncrease
    
    PairsArriveWhole

    
CHECK_DEADLOCK FALSE
