CONSTANTS
    NPES = 2
    max_md_steps = 2
    max_scf_steps = 2
    Checkpoints = {0, 2}
    MaxHalvings = 1
    MaxCrashes = 0
SPECIFICATION Spec
INVARIANTS
    ExtrapolatesFromStepBefore
