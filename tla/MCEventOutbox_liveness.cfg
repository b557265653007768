SPECIFICATION FairSpec
CONSTANTS
    Event <- TwoEvents
    Instance = {i1, i2}
    Poison <- FirstEvent
    BatchSize = 2
    CleanupSize = 1
    MaxAttempts = 2
    MaxFaults = 1
    MaxCrashes = 1
    MaxDrops = 1
    MaxOverruns = 1
    NoInstance = NoInstance
PROPERTIES HealthyArePublished PoisonIsBuried
CHECK_DEADLOCK FALSE
