CONSTANTS
    i1 = i1
    i2 = i2
    e1 = e1
    e2 = e2
    e3 = e3
    c1 = c1
    None = None
    Instances = {i1, i2}
    Events = {e1}
    Customers = {c1}
    Info <- OneSale
    MaxSends <- Thrice
    MaxCrashes = 1
    MaxFaults = 0
    Patient = FALSE
SPECIFICATION FairSpec
PROPERTIES
    NeverDropped
CHECK_DEADLOCK FALSE
