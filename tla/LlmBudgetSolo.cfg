SPECIFICATION Spec
CONSTANTS
    Procs = {app}
    Quotas <- MCQuotas
    Est = 1
    MaxTokens = 2
    Threshold = 2
    Cooldown = 3
    Ttl = 2
    MaxNow = 5
    MaxDay = 2
    MaxCalls = 4
    MaxReads = 2
    MaxFaults = 1
INVARIANTS
    TypeOK
    NothingOvercharged
    ReadsPaid
    DayWithinTwice
PROPERTY
    BreakerHolds
