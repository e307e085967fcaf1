\* Started only when the last thread is through; user code and tasks return.
CONSTANTS
    Threads = {th1, th2}
    Slots = {s1, s2}
    NoBatch = NoBatch
    NoThread = NoThread
    Configs <- MixedConfigs
SPECIFICATION FairSerialSpec
INVARIANTS
    TypeOK
    NeverWedged
    SubmitsToLivePool
    StoppedMeansQuiet
    StoppedMeansFresh
    GoesOnForever
    StopReachesThread
PROPERTIES
    KeepsGoing
    TerminationEnds
    
    BookingTaken
    LifeKept
