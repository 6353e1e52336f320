CONSTANTS
    NPES = 2
    active_threads = 2
    PoolSize = 3
    Rounds = {1, 2, 3}
    NSums = 2
    MaxRegions = 3
    QueueModes = {TRUE, FALSE}
SPECIFICATION MCSpec
INVARIANTS
    SumsMatch
PROPERTIES
    AllSummed
