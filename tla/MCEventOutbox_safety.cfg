SPECIFICATION Spec
CONSTANTS
    Event <- ThreeEvents
    Instance = {i1, i2}
    Poison <- FirstEvent
    BatchSize = 2
    CleanupSize = 2
    MaxAttempts = 2
    MaxFaults = 1
    MaxCrashes = 1
    MaxDrops = 0
    MaxOverruns = 1
    NoInstance = NoInstance
SYMMETRY InstanceSymmetry
INVARIANTS TypeOK LogIsWhole
PROPERTIES SettledForever ChargedByItsClaimant ImplementsDeliveryLog
CHECK_DEADLOCK FALSE
