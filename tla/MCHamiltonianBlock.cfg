CONSTANTS
    MaxStates = 8
    MaxThreads = 3
    QueueModes = {TRUE, FALSE}
SPECIFICATION MCSpec
INVARIANTS
    TypeOK
    OwnNonlocalPart
    AllApplied
