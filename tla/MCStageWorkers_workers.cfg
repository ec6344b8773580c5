CONSTANTS
    k1 = k1
    k2 = k2
    Order <- MCOrder
    Natures <- Conduct
    MaxKills = 1
SPECIFICATION FairSpec
INVARIANTS
    TypeOK
    Attended
    ReasonsAreOwn
PROPERTIES
    RunEnds
CHECK_DEADLOCK FALSE
