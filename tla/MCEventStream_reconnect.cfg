CONSTANTS
    Event = {e1, e2, e3}
    Private = {}
    Client = {c1}
    Audience <- audience
    BatchSize = 1
    ReplayLimit = 1
    MaxConnects = 2
    MaxDrops = 1
    MaxFaults = 0
    MaxBreaks = 1
    NoCursor = NoCursor
SPECIFICATION Spec
SYMMETRY symmetry
INVARIANTS TypeOK NoGapUnlessCrossed StreamsAreServed NothingIsForgotten
CONSTRAINT Uncrossed
CHECK_DEADLOCK FALSE
