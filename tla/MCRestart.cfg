CONSTANTS
    NPES = 2
    max_md_steps = 2
    max_scf_steps = 3
    Checkpoints = {0, 2}
    MaxHalvings = 1
    MaxCrashes = 2
SPECIFICATION Spec
INVARIANTS
    EveryFileHasACopy
    RestartIsClose
    HalfStepIsShort
    EndsWell
PROPERTIES
    ResetFindsStart
    JobEnds
