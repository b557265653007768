CONSTANTS
    Event = {e1}
    Private = {}
    Client = {c1}
    Audience <- audience
    BatchSize = 1
    ReplayLimit = 1
    MaxConnects = 2
    MaxDrops = 2
    MaxFaults = 1
    MaxBreaks = 0
    NoCursor = NoCursor
SPECIFICATION FairSpec
PROPERTIES EveryoneIsTold BrokerComesBack
CHECK_DEADLOCK FALSE
