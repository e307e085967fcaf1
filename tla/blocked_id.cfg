\* A task is dropped from the queue of a schedule that stops.
CONSTANTS
    Schedules = {sa, sb}
    Callers = {c1}
    Unreliable = {}
    Ids = {i1}
    Futures = {f1, f2}
    NoFuture = NoFuture
    NoOne = NoOne
SPECIFICATION Spec
SYMMETRY ConflictSymmetry
INVARIANT SkippedForTheLiving
