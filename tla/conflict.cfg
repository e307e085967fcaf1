\* Two schedules and an external caller share two ids; one of them stops at a time.
CONSTANTS
    Schedules = {sa, sb}
    Callers = {c1}
    Unreliable = {c1}
    Ids = {i1, i2}
    Futures = {f1, f2, f3}
    NoFuture = NoFuture
    NoOne = NoOne
SPECIFICATION Spec
CONSTRAINT OneTrouble
SYMMETRY ConflictSymmetry
INVARIANTS
    TypeOK
    OneTaskPerId
    StoppedHoldsNoId
