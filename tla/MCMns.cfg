CONSTANTS
    p1 = p1
    p2 = p2
    c1 = c1
    c2 = c2
    r1 = r1
    r2 = r2
    Profiles <- TwoProfiles
    Conns <- TwoConns
    Reports <- TwoReports
    Size <- MixedSizes
    MaximumEventBody = 3
    NumbersReused = FALSE
SPECIFICATION Spec
INVARIANTS
    
    ShownConnectionExists
PROPERTIES
    ReportsGetThrough
CHECK_DEADLOCK FALSE
