SPECIFICATION ClientSpec
CONSTANTS
    Index <- MCIndex
    States <- MCStates
    URIs <- MCURIs
    CallerOf <- MCCallerOf
    Opcodes <- MCOpcodes
    Seed = 1
    MaxCounter = 14
    MaxCommands = 1
    MaxLosses = 1
    MaxSignals = 3
INVARIANTS
    
    IdleStoreMatchesPhone
    LinkLossIsAlwaysNoticed
PROPERTIES
    OriginateSlotIsFreed
CHECK_DEADLOCK FALSE
