CONSTANTS
    Event = {e1, e2}
    Private = {}
    Client = {c1}
    Audience <- audience
    BatchSize = 1
    ReplayLimit = 2
    MaxConnects = 2
    MaxDrops = 1
    MaxFaults = 0
    MaxBreaks = 1
    NoCursor = NoCursor
SPECIFICATION Spec
INVARIANT NoLastingGap
CHECK_DEADLOCK FALSE
