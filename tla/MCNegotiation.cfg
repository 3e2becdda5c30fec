SPECIFICATION Spec
CONSTANTS
    Offers <- SomeOffers
    Configurations <- SomeConfigurations
    QoSMaps <- SomeQoS
    MTUs <- SmallMTU
    MaximumDelay = 16777215
    PreferredDelay = 40000
    MaxConfigs = 3
INVARIANTS
    SelectionIsAccepted
    SelectedDelayIsNearest
    HandoffTakesThePair
    PublishedIsCurrent
CHECK_DEADLOCK FALSE
