SPECIFICATION FairSpec
CONSTANTS
    h1 = h1
    h2 = h2
    r1 = r1
    Handlers = {h1, h2}
    Replayers = {r1}
    Tasks = {t1}
    Retries <- MCRetries
    Threshold = 1
    RingSize = 2
    Limit = 1
    MaxAsked = 2
    MaxCalls = 6
    MaxFaults = 2
INVARIANTS
    TypeOK
    RunsPaid
    AnswersTrue
    ThroughOpenBounded
    AcceptedOncePerLife

    
CHECK_DEADLOCK FALSE
