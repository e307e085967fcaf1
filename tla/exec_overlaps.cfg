\* An exec request during a round.
CONSTANTS
    Threads = {th1, th2}
    Slots = {s1, s2}
    NoBatch = NoBatch
    NoThread = NoThread
    Configs <- CronOnly
SPECIFICATION SerialSpec
SYMMETRY LifecycleSymmetry
INVARIANT ReExecAfterCompletion
