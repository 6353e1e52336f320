CONSTANTS
    ImageCounts = {3}
    max_steps = 2
SPECIFICATION Spec
INVARIANTS
    ConvergedMeansRelaxed
CHECK_DEADLOCK FALSE
