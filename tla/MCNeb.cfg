CONSTANTS
    ImageCounts = {2, 3, 4}
    max_steps = 3
SPECIFICATION MCSpec
INVARIANTS
    TypeOK
    BetweenItsNeighbours
    StopTogether
    RestartsAreClose
PROPERTIES
    AllDone
