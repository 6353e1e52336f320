CONSTANTS
    t1 = t1
    t2 = t2
    t3 = t3
    Threads <- MCThreads
    GenMod = 3
    MaxRounds = 5
SPECIFICATION FairSpec
INVARIANTS
    TypeOK
    NobodyPassesAlone
    OneGenerationBehind
PROPERTIES
    EveryoneReturns
    PhaseSpec
