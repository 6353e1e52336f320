CONSTANTS
    THREADS_PER_NODE = 3
    MaxRegions = 2
    MaxRounds = 2
    ParkedAtStart = TRUE
SPECIFICATION FairSpec
INVARIANTS
    TypeOK
    JobsCountsBusy
    QuietOutside
PROPERTIES
    ReturnsWhenAllDone
    SleepsOnlyWithoutTask
    RegionsEnd
    AllJoined
