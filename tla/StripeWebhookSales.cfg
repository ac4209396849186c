CONSTANTS
    i1 = i1
    i2 = i2
    e1 = e1
    e2 = e2
    e3 = e3
    c1 = c1
    None = None
    Instances = {i1, i2}
    Events = {e1, e2}
    Customers = {c1}
    Info <- SaleAndPendingSub
    MaxSends <- SaleThrice
    MaxCrashes = 1
    MaxFaults = 1
    Patient = FALSE
SPECIFICATION Spec
INVARIANTS
    TypeOK
    OwnersPaid
    EffectsPaid
    NothingBeforeFunds
SYMMETRY InstanceSymmetry
CHECK_DEADLOCK FALSE
