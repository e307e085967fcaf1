\* Two workers, two days, queues of three, and the values one and two of saveday.
CONSTANTS
    Workers = {w1, w2}
    Queues = {q1, q2, q3}
    NoQueue = NoQueue
    Limit = 3
    Overcount = 2
    SaveDays = {1, 2}
    MaxDay = 2
SPECIFICATION Spec
SYMMETRY StatisticsSymmetry
INVARIANTS
    TypeOK
    QueueBounded
    DaysBounded
