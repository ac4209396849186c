SPECIFICATION Spec
CONSTANTS
    Procs = {app, sidecar}
    Quotas <- MCQuotas
    Est = 1
    MaxTokens = 1
    Threshold = 2
    Cooldown = 3
    Ttl = 2
    MaxNow = 3
    MaxDay = 1
    MaxCalls = 4
    MaxReads = 0
    MaxFaults = 0
INVARIANT
    NoClobber
