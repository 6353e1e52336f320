CONSTANTS
    NPES = 2
    active_threads = 2
    PoolSize = 3
    Rounds = {2}
    NSums = 1
    MaxRegions = 1
    QueueModes = {TRUE}
SPECIFICATION Spec
INVARIANTS
    SumsMatch
