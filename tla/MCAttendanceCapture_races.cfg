SPECIFICATION FairSpec
CONSTANTS
    User = {ana}
    Capture = {1, 2}
    Request = {r1, r2}
    NoCapture = 0
    NoUser = NoUser
    MaxRevision = 2
    MaxCorrected = 1
    MaxFaults = 1
INVARIANTS TypeOK CapturesAreAccountedFor
PROPERTIES KeepsObservations PendingIsSettled
CHECK_DEADLOCK FALSE
