CONSTANTS
    w1 = w1
    w2 = w2
    m1 = m1
    m2 = m2
    m3 = m3
    k1 = k1
    k2 = k2
    None = None
    Workers = {w1, w2}
    Msgs = {m1, m2}
    Keys = {k1}
    Tasks = {k1}
    KeyOf <- KeysAA
    TaskOf <- KeysAA
    Body <- BodiesSigned
    EnforceHmac = TRUE
    MaxItems = 2
    MaxAttempts = 2
    MaxBatch = 2
    MaxCrashes = 1
    MaxSlow = 1
    MaxFaults = 0
SPECIFICATION FairSpec
INVARIANTS
    DeletedIsAudited
PROPERTIES
    QueueDrains
CHECK_DEADLOCK FALSE
