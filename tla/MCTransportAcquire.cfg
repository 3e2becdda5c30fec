SPECIFICATION Spec
CONSTANTS
    w1 = w1
    w2 = w2
    Workers <- TwoWorkers
    MaxConfigs = 2
    MaxRebuilds = 1
SYMMETRY Symmetry
INVARIANTS
    ReservationsHaveOwners
    DescriptorsHaveOneOwner
PROPERTIES
    DropsOnlyWithItsSession
CHECK_DEADLOCK FALSE
