\* A stop that meets the thread between its check and switchState.
CONSTANTS
    Threads = {th1, th2}
    Slots = {s1}
    NoBatch = NoBatch
    NoThread = NoThread
    Configs <- CronOnly
SPECIFICATION SerialSpec
PROPERTY StopIsFinal
