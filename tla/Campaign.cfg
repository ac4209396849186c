SPECIFICATION FairSpec
CONSTANTS
    Ids = {i1, i2}
    Total = 3
    Templates <- MCTemplates
    Actors = {a1, a2}
    Watched = 2
    MaxCount = 3
    MaxCalls = 4
    MaxFaults = 1
    None = None
INVARIANTS
    TypeOK
    GatesHold
    InOrder
    
    
PROPERTIES
    DriveShrinks
    
CHECK_DEADLOCK FALSE
