CONSTANTS
    MaxStates = 8
    MaxThreads = 3
    QueueModes = {TRUE}
SPECIFICATION Spec
INVARIANTS
    OwnNonlocalPart
