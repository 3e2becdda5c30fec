SPECIFICATION ControlSpec
CONSTANTS
    MaxPeers = 2
    MaxSequence = 2
    MaxCommands = 1
INVARIANTS
    ClientIsUpToDate
    AckGoesToItsSender
PROPERTIES
    WaitingPeerIsAnswered
CHECK_DEADLOCK FALSE
