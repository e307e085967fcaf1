\* A round of a schedule with two tasks.
CONSTANTS
    Tasks = {t1, t2}
    Submitter = submitter
    IsSchedul = TRUE
SPECIFICATION Spec
SYMMETRY TaskSymmetry
CHECK_DEADLOCK FALSE
INVARIANT OnCompleteMeansAllCompleted
