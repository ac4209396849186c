CONSTANTS
    w1 = w1
    w2 = w2
    m1 = m1
    m2 = m2
    m3 = m3
    k1 = k1
    k2 = k2
    None = None
    Workers = {w1}
    Msgs = {m1, m2, m3}
    Keys = {k1, k2}
    Tasks = {k1, k2}
    KeyOf <- KeysABA
    TaskOf <- KeysABA
    Body <- BodiesUnsigned
    EnforceHmac = TRUE
    MaxItems = 1
    MaxAttempts = 2
    MaxBatch = 2
    MaxCrashes = 1
    MaxSlow = 1
    MaxFaults = 1
SPECIFICATION Spec
INVARIANTS
    TypeOK
    DeletedIsAudited
    OneRunPerBoot
CHECK_DEADLOCK FALSE
