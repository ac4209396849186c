CONSTANTS
    w1 = w1
    w2 = w2
    m1 = m1
    m2 = m2
    m3 = m3
    k1 = k1
    k2 = k2
    None = None
    Workers = {w1}
    Msgs = {m1}
    Keys = {k1}
    Tasks = {k1}
    KeyOf <- KeysA
    TaskOf <- KeysA
    Body <- BodySigned
    EnforceHmac = TRUE
    MaxItems = 2
    MaxAttempts = 2
    MaxBatch = 2
    MaxCrashes = 0
    MaxSlow = 0
    MaxFaults = 0
SPECIFICATION Spec
INVARIANTS
    NoSilentLoss
CHECK_DEADLOCK FALSE
