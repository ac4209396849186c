SPECIFICATION FairSpec
CONSTANTS
    Actors = {a1, a2}
    Watched = 4
    MaxCount = 2
    MaxFaults = 1
INVARIANTS
    TypeOK
    StageOrder
    RepeatsPaid
    DraftsPaid
PROPERTIES
    WalkShrinks
    
