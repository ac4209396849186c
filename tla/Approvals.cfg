SPECIFICATION Spec
CONSTANTS
    Ids = {i1, i2}
    Emergency = {i2}
    Actors = {a1, a2}
    Watched = i1
    MaxCount = 3
    MaxFaults = 2
    None = None
INVARIANTS
    TypeOK
    DecisionsPaid
    
PROPERTIES
    KeepsPromise
    NeverReopened
