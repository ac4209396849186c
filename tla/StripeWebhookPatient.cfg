CONSTANTS
    i1 = i1
    i2 = i2
    e1 = e1
    e2 = e2
    e3 = e3
    c1 = c1
    None = None
    Instances = {i1, i2}
    Events = {e1, e2, e3}
    Customers = {c1}
    Info <- NoFunds
    MaxSends <- Thrice
    MaxCrashes = 2
    MaxFaults = 0
    Patient = TRUE
SPECIFICATION FairSpec
PROPERTIES
    NeverDropped
    
CHECK_DEADLOCK FALSE
