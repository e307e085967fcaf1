\* A round of a schedule with three tasks, no symmetry because of the liveness.
CONSTANTS
    Tasks = {t1, t2, t3}
    Submitter = submitter
    IsSchedul = TRUE
SPECIFICATION FairSpec
CHECK_DEADLOCK FALSE
INVARIANTS
    TypeOK
    CountNeverNegative
    ReportedInFull
    ExtraReportsAreEarly
    OneReport
    StableResults
    ReleasedAfterAll
    NobodyLeftWaiting
    LatchFollowsWork
PROPERTIES
    WaitEnds
    EventuallyReported
