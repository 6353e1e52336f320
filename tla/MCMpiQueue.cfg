CONSTANTS
    max_threads = 2
    NRecv = 1
    NSend = 1
    KindSets <- TradesOrRemaps
    max_size = 2
    PostedSize = 4
    MaxRegions = 2
    MaxExchanges = 1
SPECIFICATION FairSpec
INVARIANTS
    TypeOK
    GroupsOutliveWrites
    NoRequestLost
    SleepsOnlyWhenIdle
PROPERTIES
    ReturnsAfterCompletion
    OnlyLostWakeupStops
    ManagerReturns
CHECK_DEADLOCK FALSE
