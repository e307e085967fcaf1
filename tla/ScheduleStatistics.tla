------------------------- MODULE ScheduleStatistics -------------------------
(***************************************************************************)
(* The results of a schedule's tasks, kept per day: the workers that ended *)
(* a task record it at once, without a lock, in a queue for the day that   *)
(* is kept short by whoever adds to it.  The queues of successes and of    *)
(* failures are in two maps, and the days they are for in one list, which  *)
(* the worker that puts a day's queue in place extends and trims.          *)
(***************************************************************************)
EXTENDS Integers, Sequences, FiniteSets

CONSTANTS Workers,    \* threads of the schedule's pool
          Queues,     \* bound: queue objects that are referenced together
          NoQueue,    \* a day without a queue
          Limit,      \* results kept per queue, 10 in the code
          Overcount,  \* bound: results that a size() counts too many
          SaveDays,   \* values of the option saveday
          MaxDay      \* bound: days that pass

ASSUME StatisticsAssumption ==
    /\ IsFiniteSet(Workers)
    /\ NoQueue \notin Queues
    /\ Limit \in Nat \ {0}
    /\ Overcount \in Nat
    /\ SaveDays \subseteq Nat \ {0}
    /\ MaxDay \in Nat \ {0}

Kinds == {"success", "failed"}
Days == 1..MaxDay

VARIABLES
    today,         \* the day of System.currentTimeMillis()
    saveDay,       \* statConfigMap's STAT_DAY
    dayHasSaved,   \* the list both maps share
    statMap,       \* successMap and failedMap
    size,          \* how many results each queue holds
    pc,            \* where each worker is in record
    kind, day,     \* of the result a worker records
    queue,         \* the local queue
    surplus,       \* what the loop has yet to poll
    overtaken,     \* workers whose size() goes over a queue that others poll
    disturbed      \* history: two threads at the list together, or a shorter saveDay

locals == <<pc, kind, day, queue, surplus, overtaken>>
vars == <<today, saveDay, dayHasSaved, statMap, size, locals, disturbed>>

Goto(w, step) == pc' = [pc EXCEPT ![w] = step]

\* The method is left and its locals are gone.
Return(w) ==
    /\ kind' = [kind EXCEPT ![w] = "success"]
    /\ day' = [day EXCEPT ![w] = 1]
    /\ queue' = [queue EXCEPT ![w] = NoQueue]
    /\ surplus' = [surplus EXCEPT ![w] = 0]
    /\ Goto(w, "idle")
    /\ UNCHANGED overtaken

\* Threads at dayHasSaved, which is a LinkedList and not synchronized.
AtList == {w \in Workers : pc[w] \in {"saveDay", "trim"}}

\* A queue object nobody refers to stands for a new one.
Fresh(q) ==
    /\ \A k \in Kinds, d \in Days : statMap[k][d] # q
    /\ \A w \in Workers : queue[w] # q

Init ==
    /\ today = 1
    /\ saveDay \in SaveDays
    /\ dayHasSaved = <<>>
    /\ statMap = [k \in Kinds |-> [d \in Days |-> NoQueue]]
    /\ size = [q \in Queues |-> 0]
    /\ pc = [w \in Workers |-> "idle"]
    /\ kind = [w \in Workers |-> "success"]
    /\ day = [w \in Workers |-> 1]
    /\ queue = [w \in Workers |-> NoQueue]
    /\ surplus = [w \in Workers |-> 0]
    /\ overtaken = {}
    /\ disturbed = FALSE

-----------------------------------------------------------------------------
(* record                                                                  *)

\* The counter of the kind goes up and the day is read.
Record(w, k) ==
    /\ pc[w] = "idle"
    /\ kind' = [kind EXCEPT ![w] = k]
    /\ day' = [day EXCEPT ![w] = today]
    /\ Goto(w, "get")
    /\ UNCHANGED <<today, saveDay, dayHasSaved, statMap, size, queue, surplus, overtaken,
                   disturbed>>

Kept(w) == statMap[kind[w]][day[w]]

GetQueue(w) ==
    /\ pc[w] = "get"
    /\ queue' = [queue EXCEPT ![w] = Kept(w)]
    /\ Goto(w, IF Kept(w) = NoQueue THEN "put" ELSE "add")
    /\ UNCHANGED <<today, saveDay, dayHasSaved, statMap, size, kind, day, surplus, overtaken,
                   disturbed>>

\* putIfAbsent finds the queue of another worker.
UseExisting(w) ==
    /\ pc[w] = "put" /\ Kept(w) # NoQueue
    /\ queue' = [queue EXCEPT ![w] = Kept(w)]
    /\ Goto(w, "add")
    /\ UNCHANGED <<today, saveDay, dayHasSaved, statMap, size, kind, day, surplus, overtaken,
                   disturbed>>

\* putIfAbsent puts the new queue in place: this worker sees to the saved days.
PutQueue(w, q) ==
    /\ pc[w] = "put" /\ Kept(w) = NoQueue
    /\ Fresh(q)
    /\ statMap' = [statMap EXCEPT ![kind[w]][day[w]] = q]
    /\ queue' = [queue EXCEPT ![w] = q]
    /\ size' = [size EXCEPT ![q] = 0]
    /\ disturbed' = (disturbed \/ AtList # {})
    /\ Goto(w, "saveDay")
    /\ UNCHANGED <<today, saveDay, dayHasSaved, kind, day, surplus, overtaken>>

\* dayHasSaved.add; a node that two threads link at once can be lost.
SaveDay(w) ==
    /\ pc[w] = "saveDay"
    /\ \/ dayHasSaved' = Append(dayHasSaved, day[w])
       \/ AtList # {w} /\ UNCHANGED dayHasSaved
    /\ Goto(w, "trim")
    /\ UNCHANGED <<today, saveDay, statMap, size, kind, day, queue, surplus, overtaken,
                   disturbed>>

Last == dayHasSaved[Len(dayHasSaved)]

\* Mutant of Trim: the list is trimmed and the map is not.
TrimListOnly(w) ==
    /\ pc[w] = "trim" /\ Len(dayHasSaved) > saveDay
    /\ dayHasSaved' = SubSeq(dayHasSaved, 1, Len(dayHasSaved) - 1)
    /\ UNCHANGED <<today, saveDay, statMap, size, locals, disturbed>>

\* Too many days: removeLast takes the day at the end, where add puts it, and
\* the worker's own map forgets it.
Trim(w) ==
    /\ pc[w] = "trim" /\ Len(dayHasSaved) > saveDay
    /\ dayHasSaved' = SubSeq(dayHasSaved, 1, Len(dayHasSaved) - 1)
    /\ statMap' = [statMap EXCEPT ![kind[w]][Last] = NoQueue]
    /\ UNCHANGED <<today, saveDay, size, locals, disturbed>>

EndTrim(w) ==
    /\ pc[w] = "trim" /\ Len(dayHasSaved) <= saveDay
    /\ Goto(w, "add")
    /\ UNCHANGED <<today, saveDay, dayHasSaved, statMap, size, kind, day, queue, surplus, overtaken,
                   disturbed>>

\* Once two threads were at the list together, its links can be so broken that
\* removeLast, or the removal of the null it returns, throws out of record.
TrimFails(w) ==
    /\ pc[w] = "trim" /\ disturbed
    /\ Return(w)
    /\ UNCHANGED <<today, saveDay, dayHasSaved, statMap, size, disturbed>>

\* The queue may be out of the map by now; the result goes into it all the same.
Add(w) ==
    /\ pc[w] = "add"
    /\ size' = [size EXCEPT ![queue[w]] = @ + 1]
    /\ Goto(w, "measure")
    /\ UNCHANGED <<today, saveDay, dayHasSaved, statMap, kind, day, queue, surplus, overtaken,
                   disturbed>>

\* size() is a walk over the linked queue: it counts what is in the queue when
\* it ends, and can count as well what others polled while it was under way.
Counted(w) ==
    {size[queue[w]] + more : more \in IF w \in overtaken THEN 0..Overcount ELSE {0}}

MeasureAgainst(w, limit) ==
    /\ pc[w] = "measure"
    /\ \E num \in Counted(w) : surplus' = [surplus EXCEPT ![w] = num - limit]
    /\ overtaken' = overtaken \ {w}
    /\ Goto(w, "poll")
    /\ UNCHANGED <<today, saveDay, dayHasSaved, statMap, size, kind, day, queue, disturbed>>

\* Mutant of Measure: one result more is kept.
MeasureOneMore(w) == MeasureAgainst(w, Limit + 1)

\* The surplus is computed once, and polled whatever others poll.
Measure(w) == MeasureAgainst(w, Limit)

\* Mutant of Poll: the loop's index is not advanced.
PollOn(w) ==
    /\ pc[w] = "poll" /\ surplus[w] > 0
    /\ size' = [size EXCEPT ![queue[w]] = @ - 1]
    /\ UNCHANGED <<today, saveDay, dayHasSaved, statMap, locals, disturbed>>

\* The oldest result goes; an empty queue has none.
Poll(w) ==
    /\ pc[w] = "poll" /\ surplus[w] > 0
    /\ size' = [size EXCEPT ![queue[w]] = IF @ > 0 THEN @ - 1 ELSE 0]
    /\ surplus' = [surplus EXCEPT ![w] = @ - 1]
    /\ overtaken' = overtaken \cup {v \in Workers : pc[v] = "measure" /\ queue[v] = queue[w]}
    /\ UNCHANGED <<today, saveDay, dayHasSaved, statMap, pc, kind, day, queue, disturbed>>

EndRecord(w) ==
    /\ pc[w] = "poll" /\ surplus[w] <= 0
    /\ Return(w)
    /\ UNCHANGED <<today, saveDay, dayHasSaved, statMap, size, disturbed>>

-----------------------------------------------------------------------------
SetSaveDay(n) ==
    /\ n # saveDay
    /\ saveDay' = n
    /\ disturbed' = (disturbed \/ n < saveDay)
    /\ UNCHANGED <<today, dayHasSaved, statMap, size, locals>>

NextDay ==
    /\ today < MaxDay
    /\ today' = today + 1
    /\ UNCHANGED <<saveDay, dayHasSaved, statMap, size, locals, disturbed>>

RecordStep(w) ==
    \/ \E k \in Kinds : Record(w, k)
    \/ GetQueue(w) \/ UseExisting(w)
    \/ \E q \in Queues : PutQueue(w, q)
    \/ SaveDay(w) \/ Trim(w) \/ EndTrim(w) \/ TrimFails(w)
    \/ Add(w) \/ Measure(w) \/ Poll(w) \/ EndRecord(w)

Next ==
    \/ \E w \in Workers : RecordStep(w)
    \/ \E n \in SaveDays : SetSaveDay(n)
    \/ NextDay

Spec == Init /\ [][Next]_vars

-----------------------------------------------------------------------------
TypeOK ==
    /\ today \in Days
    /\ saveDay \in SaveDays
    /\ dayHasSaved \in Seq(Days)
    /\ statMap \in [Kinds -> [Days -> Queues \cup {NoQueue}]]
    /\ size \in [Queues -> Nat]
    /\ pc \in [Workers -> {"idle", "get", "put", "saveDay", "trim", "add", "measure", "poll"}]
    /\ kind \in [Workers -> Kinds]
    /\ day \in [Workers -> Days]
    /\ queue \in [Workers -> Queues \cup {NoQueue}]
    /\ surplus \in [Workers -> Int]
    /\ overtaken \subseteq Workers
    /\ disturbed \in BOOLEAN

\* Workers that have added to a queue and not yet cut it down.
Cutting(q) == {w \in Workers : queue[w] = q /\ pc[w] \in {"measure", "poll"}}

\* However the workers' adding, measuring and polling interleaves, a queue holds
\* at most Limit results once nobody is at work on it, and more only by one for
\* each worker that is.
QueueBounded ==
    \A q \in Queues : size[q] <= Limit + Cardinality(Cutting(q))

\* As long as the list of days is not touched by two threads at once, nor
\* saveDay lowered, it names exactly the queues the two maps keep, so that
\* there are no more than saveDay of them once the list is trimmed.
DaysBounded ==
    ~disturbed /\ AtList = {} =>
        /\ Len(dayHasSaved) <= saveDay
        /\ \A d \in Days :
              Cardinality({k \in Kinds : statMap[k][d] # NoQueue})
                = Cardinality({i \in DOMAIN dayHasSaved : dayHasSaved[i] = d})
=============================================================================
