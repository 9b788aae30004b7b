SPECIFICATION FairSpec
CONSTANTS
    a = a
    None = None
    Worker = {w1, w2}
    Service = {a}
    Job = {1, 2}
    ServiceOf <- SingleService
    StartDelays = {0, 1}
    MaxAttempts = 2
    LeaseTtl = 2
    HeartbeatEvery = 1
    PollDelay = 1
    BackoffBase = 1
    BackoffCap = 1
    MayStall = TRUE

    
PROPERTIES
    
    
    SettledByItsAttempt
    LifecycleSpec
    EveryJobSettles
