CONSTANTS
    MaxStates = 8
    Threads = {1, 2, 3}
    Coalesce = {1, 2}
    Skips = {1, 2, 3}
    QueueModes = {TRUE, FALSE}
    Blocks = {1, 2}
    MaxVcycles = 2
SPECIFICATION MCSpec
INVARIANTS
    TypeOK
    ReadsSettledPotential
    UpdatesAreComplete
    SkipperIsExact
PROPERTIES
    CyclesEnd
