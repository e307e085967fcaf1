\* Two starts before the first round.
CONSTANTS
    Threads = {th1, th2}
    Slots = {s1}
    NoBatch = NoBatch
    NoThread = NoThread
    Configs <- MixedConfigs
SPECIFICATION Spec
SYMMETRY LifecycleSymmetry
INVARIANT OneScheduleThread
