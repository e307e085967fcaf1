\* A call of submitBatch in which every task is counted before it can finish.
CONSTANTS
    Tasks = {t1, t2, t3}
    Submitter = submitter
    IsSchedul = FALSE
SPECIFICATION OrderlySpec
CHECK_DEADLOCK FALSE
PROPERTIES
    PromiseKept
