---------------------- MODULE ScheduleStatisticsProofs ----------------------
(***************************************************************************)
(* A queue of results is bounded for any number of workers that add to it  *)
(* and cut it down at the same time.                                       *)
(***************************************************************************)
EXTENDS ScheduleStatistics, FiniteSetTheorems, TLAPS

\* A worker past the look-up has a queue.
HasQueue ==
    \A w \in Workers :
        pc[w] \in {"saveDay", "trim", "add", "measure", "poll"} => queue[w] \in Queues

\* Workers that know their surplus of a queue.
Polling(q) == {w \in Workers : queue[w] = q /\ pc[w] = "poll"}

\* What q holds beyond Limit is there for the cutting workers outside A, or is
\* known to one of A.
Covered(q, A) ==
    LET more == Limit + Cardinality(Cutting(q) \ A)
    IN \/ size[q] <= more
       \/ \E w \in A : size[q] <= more + surplus[w]

\* Of the workers at a queue, the last to measure has seen what all before it
\* added; so whichever of those that poll are left out of the count, one of them
\* polls for the others.
AllCovered == \A q \in Queues : \A A \in SUBSET Polling(q) : Covered(q, A)

SInv == TypeOK /\ HasQueue /\ AllCovered

-----------------------------------------------------------------------------
LEMMA InitHolds == Init => SInv
<1> SUFFICES ASSUME Init PROVE SInv
  OBVIOUS
<1> USE StatisticsAssumption DEF Init
<1>1. TypeOK
  <2>1. 1 \in Days /\ "success" \in Kinds
    BY DEF Days, Kinds
  <2>2. dayHasSaved \in Seq(Days)
    OBVIOUS
  <2>3. statMap \in [Kinds -> [Days -> Queues \cup {NoQueue}]]
    OBVIOUS
  <2>4. disturbed \in BOOLEAN
    OBVIOUS
  <2>5. QED
    BY <2>1, <2>2, <2>3, <2>4 DEF TypeOK
<1>2. HasQueue
  BY DEF HasQueue
<1>3. ASSUME NEW q \in Queues, NEW A \in SUBSET Polling(q) PROVE Covered(q, A)
  <2>1. Cutting(q) \ A = {}
    BY DEF Cutting
  <2>2. Cardinality(Cutting(q) \ A) = 0
    BY <2>1, FS_EmptySet
  <2>3. QED
    BY <2>2 DEF Covered
<1>4. QED
  BY <1>1, <1>2, <1>3 DEF SInv, AllCovered

LEMMA SubSeqTyped ==
  ASSUME NEW S, NEW s \in Seq(S), Len(s) > 0
  PROVE  SubSeq(s, 1, Len(s) - 1) \in Seq(S)
<1>1. Len(s) \in Nat /\ \A i \in 1..Len(s) : s[i] \in S
  OBVIOUS
<1>2. SubSeq(s, 1, Len(s) - 1) = [i \in 1..(Len(s) - 1) |-> s[i]]
  BY <1>1
<1>3. QED
  BY <1>1, <1>2

LEMMA NextTyped == TypeOK /\ HasQueue /\ [Next]_vars => TypeOK' /\ HasQueue'
<1> SUFFICES ASSUME TypeOK, HasQueue, [Next]_vars PROVE TypeOK' /\ HasQueue'
  OBVIOUS
<1> USE StatisticsAssumption DEF TypeOK, HasQueue, Goto, locals
<1>1. ASSUME NEW w \in Workers, NEW k \in Kinds, Record(w, k) PROVE TypeOK' /\ HasQueue'
  BY <1>1 DEF Record
<1>2. ASSUME NEW w \in Workers, GetQueue(w) PROVE TypeOK' /\ HasQueue'
  <2>1. Kept(w) \in Queues \cup {NoQueue}
    BY DEF Kept
  <2>2. QED
    BY <1>2, <2>1 DEF GetQueue
<1>3. ASSUME NEW w \in Workers, UseExisting(w) PROVE TypeOK' /\ HasQueue'
  <2>1. Kept(w) \in Queues \cup {NoQueue}
    BY DEF Kept
  <2>2. QED
    BY <1>3, <2>1 DEF UseExisting
<1>4. ASSUME NEW w \in Workers, NEW q \in Queues, PutQueue(w, q) PROVE TypeOK' /\ HasQueue'
  <2>1. statMap' \in [Kinds -> [Days -> Queues \cup {NoQueue}]]
    BY <1>4 DEF PutQueue
  <2>2. disturbed' \in BOOLEAN
    BY <1>4 DEF PutQueue
  <2>3. QED
    BY <1>4, <2>1, <2>2 DEF PutQueue
<1>5. ASSUME NEW w \in Workers, SaveDay(w) PROVE TypeOK' /\ HasQueue'
  <2>1. Append(dayHasSaved, day[w]) \in Seq(Days)
    OBVIOUS
  <2>2. dayHasSaved' \in Seq(Days)
    BY <1>5, <2>1 DEF SaveDay
  <2>3. QED
    BY <1>5, <2>2 DEF SaveDay
<1>6. ASSUME NEW w \in Workers, Trim(w) PROVE TypeOK' /\ HasQueue'
  <2>1. Len(dayHasSaved) \in 1..Len(dayHasSaved) /\ Last \in Days
    BY <1>6 DEF Trim, Last
  <2>2. dayHasSaved' \in Seq(Days)
    BY <1>6, <2>1, SubSeqTyped DEF Trim
  <2>3. statMap' \in [Kinds -> [Days -> Queues \cup {NoQueue}]]
    BY <1>6, <2>1 DEF Trim
  <2>4. QED
    BY <1>6, <2>2, <2>3 DEF Trim
<1>7. ASSUME NEW w \in Workers, EndTrim(w) PROVE TypeOK' /\ HasQueue'
  BY <1>7 DEF EndTrim
<1>8. ASSUME NEW w \in Workers, TrimFails(w) \/ EndRecord(w) PROVE TypeOK' /\ HasQueue'
  <2>1. 1 \in Days /\ "success" \in Kinds
    BY DEF Days, Kinds
  <2>2. Return(w) /\ UNCHANGED <<today, saveDay, dayHasSaved, statMap, size, disturbed>>
    BY <1>8 DEF TrimFails, EndRecord
  <2>3. HasQueue'
    BY <2>2 DEF Return
  <2>4. QED
    BY <2>1, <2>2, <2>3 DEF Return
<1>9. ASSUME NEW w \in Workers, Add(w) PROVE TypeOK' /\ HasQueue'
  <2>1. queue[w] \in Queues
    BY <1>9 DEF Add
  <2>2. size' \in [Queues -> Nat]
    BY <1>9, <2>1 DEF Add
  <2>3. QED
    BY <1>9, <2>2 DEF Add
<1>10. ASSUME NEW w \in Workers, Measure(w) PROVE TypeOK' /\ HasQueue'
  <2>1. queue[w] \in Queues
    BY <1>10 DEF Measure, MeasureAgainst
  <2>2. surplus' \in [Workers -> Int]
    BY <1>10, <2>1 DEF Measure, MeasureAgainst, Counted
  <2>3. QED
    BY <1>10, <2>2 DEF Measure, MeasureAgainst
<1>11. ASSUME NEW w \in Workers, Poll(w) PROVE TypeOK' /\ HasQueue'
  <2>1. queue[w] \in Queues
    BY <1>11 DEF Poll
  <2>2. size' \in [Queues -> Nat] /\ surplus' \in [Workers -> Int]
    BY <1>11, <2>1 DEF Poll
  <2>3. QED
    BY <1>11, <2>2 DEF Poll
<1>12. ASSUME NEW n \in SaveDays, SetSaveDay(n) PROVE TypeOK' /\ HasQueue'
  <2>1. disturbed' \in BOOLEAN
    BY <1>12 DEF SetSaveDay
  <2>2. QED
    BY <1>12, <2>1 DEF SetSaveDay
<1>13. CASE NextDay
  BY <1>13 DEF NextDay, Days
<1>14. CASE UNCHANGED vars
  BY <1>14 DEF vars
<1>15. QED
  BY <1>1, <1>2, <1>3, <1>4, <1>5, <1>6, <1>7, <1>8, <1>9, <1>10, <1>11, <1>12, <1>13, <1>14
     DEF Next, RecordStep

-----------------------------------------------------------------------------
(* The bound                                                               *)

LEMMA SetsOfWorkers ==
  \A B \in SUBSET Workers : IsFiniteSet(B) /\ Cardinality(B) \in Nat
  BY StatisticsAssumption, FS_Subset, FS_CardinalityType

\* Steps that change neither the size of a queue nor who cuts it down.
LEMMA QuietCovered ==
  ASSUME AllCovered, NEW q \in Queues, NEW A \in SUBSET (Polling(q)'),
         Cutting(q)' = Cutting(q), Polling(q)' = Polling(q), size' = size, surplus' = surplus
  PROVE  Covered(q, A)'
  BY DEF AllCovered, Covered

\* A worker that enters or leaves record, or is at the map or the list.
LEMMA ElsewhereCovered ==
  ASSUME TypeOK, AllCovered, NEW q \in Queues, NEW A \in SUBSET (Polling(q)'),
         NEW w \in Workers, NEW step, Goto(w, step), size' = size,
         pc[w] \notin {"measure", "poll"}, step \notin {"measure", "poll"},
         \A v \in Workers \ {w} : queue'[v] = queue[v] /\ surplus'[v] = surplus[v]
  PROVE  Covered(q, A)'
<1>1. \A v \in Workers \ {w} : pc'[v] = pc[v]
  BY DEF Goto, TypeOK
<1>2. pc'[w] = step
  BY DEF Goto, TypeOK
<1>3. Cutting(q)' = Cutting(q) /\ Polling(q)' = Polling(q)
  BY <1>1, <1>2 DEF Cutting, Polling
<1>4. Covered(q, A) /\ w \notin A /\ A \subseteq Workers
  BY <1>3 DEF AllCovered, Polling
<1>5. \A v \in A : surplus'[v] = surplus[v]
  BY <1>4
<1>6. QED
  BY <1>3, <1>4, <1>5 DEF Covered

LEMMA AddCovered ==
  ASSUME TypeOK, HasQueue, AllCovered, NEW q \in Queues, NEW A \in SUBSET (Polling(q)'),
         NEW w \in Workers, Add(w)
  PROVE  Covered(q, A)'
<1>1. /\ pc[w] = "add" /\ pc'[w] = "measure"
      /\ \A v \in Workers \ {w} : pc'[v] = pc[v]
      /\ queue' = queue /\ surplus' = surplus /\ queue[w] \in Queues
  BY DEF Add, Goto, TypeOK, HasQueue
<1>2. Polling(q)' = Polling(q)
  BY <1>1 DEF Polling
<1>3. Covered(q, A)
  BY <1>2 DEF AllCovered
<1>4. CASE queue[w] # q
  <2>1. Cutting(q)' = Cutting(q)
    BY <1>1, <1>4 DEF Cutting
  <2>2. size'[q] = size[q]
    BY <1>4 DEF Add, TypeOK
  <2>3. QED
    BY <1>1, <1>3, <2>1, <2>2 DEF Covered
<1>5. CASE queue[w] = q
  <2>1. size'[q] = size[q] + 1 /\ size[q] \in Nat
    BY <1>5 DEF Add, TypeOK
  <2>2. Cutting(q)' \ A = (Cutting(q) \ A) \cup {w} /\ w \notin Cutting(q)
    BY <1>1, <1>2, <1>5 DEF Cutting, Polling
  <2>3. Cardinality(Cutting(q)' \ A) = Cardinality(Cutting(q) \ A) + 1
    <3>1. IsFiniteSet(Cutting(q) \ A)
      BY SetsOfWorkers DEF Cutting
    <3>2. QED
      BY <2>2, <3>1, FS_AddElement
  <2>4. Cardinality(Cutting(q) \ A) \in Nat
    BY SetsOfWorkers DEF Cutting
  <2>5. \A v \in A : surplus[v] \in Int
    BY <1>2 DEF TypeOK, Polling
  <2> DEFINE c == Cardinality(Cutting(q) \ A)
  <2>6. Limit \in Nat
    BY StatisticsAssumption
  <2>7. CASE size[q] <= Limit + c
    <3>1. size'[q] <= Limit + (c + 1)
      BY <2>1, <2>4, <2>6, <2>7
    <3>2. QED
      BY <2>3, <3>1 DEF Covered
  <2>8. ASSUME NEW v \in A, size[q] <= Limit + c + surplus[v] PROVE Covered(q, A)'
    <3>1. size'[q] <= Limit + (c + 1) + surplus'[v]
      BY <1>1, <2>1, <2>4, <2>5, <2>6, <2>8
    <3>2. QED
      BY <2>3, <3>1 DEF Covered
  <2>9. QED
    BY <1>3, <2>7, <2>8 DEF Covered
<1>6. QED
  BY <1>4, <1>5

LEMMA MeasureCovered ==
  ASSUME TypeOK, HasQueue, AllCovered, NEW q \in Queues, NEW A \in SUBSET (Polling(q)'),
         NEW w \in Workers, Measure(w)
  PROVE  Covered(q, A)'
<1>1. /\ pc[w] = "measure" /\ pc'[w] = "poll"
      /\ \A v \in Workers \ {w} : pc'[v] = pc[v] /\ surplus'[v] = surplus[v]
      /\ queue' = queue /\ size' = size /\ queue[w] \in Queues
      /\ surplus'[w] \in Int /\ surplus'[w] >= size[queue[w]] - Limit
  <2>1. PICK num \in Counted(w) : surplus' = [surplus EXCEPT ![w] = num - Limit]
    BY DEF Measure, MeasureAgainst
  <2>2. queue[w] \in Queues
    BY DEF Measure, MeasureAgainst, HasQueue
  <2>3. num \in Int /\ num >= size[queue[w]] /\ Limit \in Int
    BY <2>2, StatisticsAssumption DEF Counted, TypeOK
  <2>4. QED
    BY <2>1, <2>2, <2>3 DEF Measure, MeasureAgainst, Goto, TypeOK
<1>2. Cutting(q)' = Cutting(q)
  BY <1>1 DEF Cutting
<1>3. A \subseteq Polling(q) \cup {w} /\ A \subseteq Workers
  BY <1>1 DEF Polling
<1>4. Cardinality(Cutting(q) \ A) \in Nat
  BY SetsOfWorkers DEF Cutting
<1>5. CASE w \in A
  <2>1. queue[w] = q
    BY <1>1, <1>5 DEF Polling
  <2>2. size[q] \in Nat /\ Limit \in Nat
    BY StatisticsAssumption DEF TypeOK
  <2>3. size[q] <= Limit + Cardinality(Cutting(q) \ A) + surplus'[w]
    BY <1>1, <1>4, <2>1, <2>2
  <2>4. QED
    BY <1>1, <1>2, <1>5, <2>3 DEF Covered
<1>6. CASE w \notin A
  <2>1. Covered(q, A)
    BY <1>3, <1>6 DEF AllCovered
  <2>2. \A v \in A : surplus'[v] = surplus[v]
    BY <1>1, <1>3, <1>6
  <2>3. QED
    BY <1>1, <1>2, <2>1, <2>2 DEF Covered
<1>7. QED
  BY <1>5, <1>6

LEMMA PollCovered ==
  ASSUME TypeOK, HasQueue, AllCovered, NEW q \in Queues, NEW A \in SUBSET (Polling(q)'),
         NEW w \in Workers, Poll(w)
  PROVE  Covered(q, A)'
<1>1. /\ pc' = pc /\ queue' = queue /\ queue[w] \in Queues
      /\ \A v \in Workers \ {w} : surplus'[v] = surplus[v]
      /\ surplus'[w] = surplus[w] - 1 /\ pc[w] = "poll"
  BY DEF Poll, TypeOK, HasQueue
<1>2. Cutting(q)' = Cutting(q) /\ Polling(q)' = Polling(q)
  BY <1>1 DEF Cutting, Polling
<1>3. Covered(q, A) /\ A \subseteq Workers
  BY <1>2 DEF AllCovered, Polling
<1>4. Cardinality(Cutting(q) \ A) \in Nat
  BY SetsOfWorkers DEF Cutting
<1>5. size[q] \in Nat /\ Limit \in Nat /\ \A v \in Workers : surplus[v] \in Int
  BY StatisticsAssumption DEF TypeOK
<1>6. CASE queue[w] # q
  <2>1. size'[q] = size[q] /\ w \notin A
    BY <1>2, <1>6 DEF Poll, TypeOK, Polling
  <2>2. \A v \in A : surplus'[v] = surplus[v]
    BY <1>1, <1>3, <2>1
  <2>3. QED
    BY <1>2, <1>3, <2>1, <2>2 DEF Covered
<1>7. CASE queue[w] = q /\ size[q] = 0
  <2>1. size'[q] = 0
    BY <1>7 DEF Poll, TypeOK
  <2>2. QED
    BY <1>2, <1>4, <1>5, <2>1 DEF Covered
<1>8. CASE queue[w] = q /\ size[q] > 0
  <2>1. size'[q] = size[q] - 1
    BY <1>8 DEF Poll, TypeOK
  <2>2. CASE size[q] <= Limit + Cardinality(Cutting(q) \ A)
    BY <1>2, <1>4, <1>5, <2>1, <2>2 DEF Covered
  <2>3. ASSUME NEW v \in A, size[q] <= Limit + Cardinality(Cutting(q) \ A) + surplus[v]
        PROVE  Covered(q, A)'
    <3>1. surplus'[v] \in {surplus[v], surplus[v] - 1} /\ surplus[v] \in Int
      BY <1>1, <1>3, <1>5
    <3>2. size'[q] <= Limit + Cardinality(Cutting(q) \ A) + surplus'[v]
      BY <1>4, <1>5, <2>1, <2>3, <3>1
    <3>3. QED
      BY <1>2, <3>2 DEF Covered
  <2>4. QED
    BY <1>3, <2>2, <2>3 DEF Covered
<1>9. QED
  BY <1>5, <1>6, <1>7, <1>8

LEMMA EndCovered ==
  ASSUME TypeOK, HasQueue, AllCovered, NEW q \in Queues, NEW A \in SUBSET (Polling(q)'),
         NEW w \in Workers, EndRecord(w)
  PROVE  Covered(q, A)'
<1>1. /\ pc[w] = "poll" /\ pc'[w] = "idle" /\ surplus[w] <= 0 /\ size' = size
      /\ \A v \in Workers \ {w} :
            pc'[v] = pc[v] /\ queue'[v] = queue[v] /\ surplus'[v] = surplus[v]
  BY DEF EndRecord, Return, Goto, TypeOK
<1>2. w \notin A /\ A \subseteq Polling(q) /\ A \subseteq Workers
  BY <1>1 DEF Polling
<1>3. \A v \in A : surplus'[v] = surplus[v]
  BY <1>1, <1>2
<1>4. CASE queue[w] # q
  <2>1. Cutting(q)' = Cutting(q)
    BY <1>1, <1>4 DEF Cutting
  <2>2. Covered(q, A)
    BY <1>2 DEF AllCovered
  <2>3. QED
    BY <1>1, <1>3, <2>1, <2>2 DEF Covered
<1>5. CASE queue[w] = q
  <2> DEFINE B == A \cup {w}
  <2>1. Cutting(q)' \ A = Cutting(q) \ B
    BY <1>1, <1>5 DEF Cutting
  <2>2. B \in SUBSET Polling(q)
    BY <1>1, <1>2, <1>5 DEF Polling
  <2>3. Covered(q, B)
    BY <2>2 DEF AllCovered
  <2>4. Cardinality(Cutting(q) \ B) \in Nat
    BY SetsOfWorkers DEF Cutting
  <2>5. size[q] \in Nat /\ Limit \in Nat /\ surplus[w] \in Int
    BY StatisticsAssumption DEF TypeOK
  <2>6. \/ size[q] <= Limit + Cardinality(Cutting(q) \ B)
        \/ \E v \in A : size[q] <= Limit + Cardinality(Cutting(q) \ B) + surplus[v]
    BY <1>1, <2>3, <2>4, <2>5 DEF Covered
  <2>7. QED
    BY <1>1, <1>3, <2>1, <2>6 DEF Covered
<1>6. QED
  BY <1>4, <1>5

\* A queue that is put in place is empty.
LEMMA PutCovered ==
  ASSUME TypeOK, AllCovered, NEW q \in Queues, NEW A \in SUBSET (Polling(q)'),
         NEW w \in Workers, NEW r \in Queues, PutQueue(w, r)
  PROVE  Covered(q, A)'
<1>1. /\ pc[w] = "put" /\ pc'[w] = "saveDay" /\ surplus' = surplus
      /\ \A v \in Workers \ {w} : pc'[v] = pc[v] /\ queue'[v] = queue[v]
  BY DEF PutQueue, Goto, TypeOK
<1>2. Cutting(q)' = Cutting(q) /\ Polling(q)' = Polling(q)
  BY <1>1 DEF Cutting, Polling
<1>3. Covered(q, A)
  BY <1>2 DEF AllCovered
<1>4. CASE q = r
  <2>1. size'[q] = 0
    BY <1>4 DEF PutQueue, TypeOK
  <2>2. Cardinality(Cutting(q) \ A) \in Nat /\ Limit \in Nat
    BY SetsOfWorkers, StatisticsAssumption DEF Cutting
  <2>3. QED
    BY <1>2, <2>1, <2>2 DEF Covered
<1>5. CASE q # r
  <2>1. size'[q] = size[q]
    BY <1>5 DEF PutQueue, TypeOK
  <2>2. QED
    BY <1>1, <1>2, <1>3, <2>1 DEF Covered
<1>6. QED
  BY <1>4, <1>5

LEMMA NextCovered == SInv /\ [Next]_vars => AllCovered'
<1> SUFFICES ASSUME TypeOK, HasQueue, AllCovered, [Next]_vars,
                    NEW q \in Queues, NEW A \in SUBSET (Polling(q)')
             PROVE  Covered(q, A)'
  BY DEF SInv, AllCovered
<1>1. ASSUME NEW w \in Workers, NEW k \in Kinds, Record(w, k) PROVE Covered(q, A)'
  BY <1>1, ElsewhereCovered DEF Record
<1>2. ASSUME NEW w \in Workers, GetQueue(w) PROVE Covered(q, A)'
  <2> DEFINE step == IF Kept(w) = NoQueue THEN "put" ELSE "add"
  <2>1. Goto(w, step) /\ step \notin {"measure", "poll"}
    BY <1>2 DEF GetQueue
  <2>2. \A v \in Workers \ {w} : queue'[v] = queue[v] /\ surplus'[v] = surplus[v]
    BY <1>2 DEF GetQueue, TypeOK
  <2>3. size' = size /\ pc[w] \notin {"measure", "poll"}
    BY <1>2 DEF GetQueue
  <2> HIDE DEF step
  <2>4. QED
    BY <2>1, <2>2, <2>3, ElsewhereCovered
<1>3. ASSUME NEW w \in Workers, UseExisting(w) PROVE Covered(q, A)'
  <2>1. \A v \in Workers \ {w} : queue'[v] = queue[v] /\ surplus'[v] = surplus[v]
    BY <1>3 DEF UseExisting, TypeOK
  <2>2. QED
    BY <1>3, <2>1, ElsewhereCovered DEF UseExisting
<1>4. ASSUME NEW w \in Workers, SaveDay(w) \/ EndTrim(w) PROVE Covered(q, A)'
  BY <1>4, ElsewhereCovered DEF SaveDay, EndTrim
<1>5. ASSUME NEW w \in Workers, TrimFails(w) PROVE Covered(q, A)'
  <2>1. \A v \in Workers \ {w} : queue'[v] = queue[v] /\ surplus'[v] = surplus[v]
    BY <1>5 DEF TrimFails, Return, TypeOK
  <2>2. QED
    BY <1>5, <2>1, ElsewhereCovered DEF TrimFails, Return
<1>6. ASSUME UNCHANGED <<size, locals>> PROVE Covered(q, A)'
  BY <1>6, QuietCovered DEF locals, Cutting, Polling
<1>7. ASSUME NEW w \in Workers, Trim(w) PROVE Covered(q, A)'
  BY <1>6, <1>7 DEF Trim
<1>8. ASSUME NEW n \in SaveDays, SetSaveDay(n) PROVE Covered(q, A)'
  BY <1>6, <1>8 DEF SetSaveDay
<1>9. CASE NextDay \/ UNCHANGED vars
  BY <1>6, <1>9 DEF NextDay, vars
<1>10. QED
  BY <1>1, <1>2, <1>3, <1>4, <1>5, <1>7, <1>8, <1>9,
     AddCovered, MeasureCovered, PollCovered, EndCovered, PutCovered DEF Next, RecordStep

-----------------------------------------------------------------------------
(* What is left of a queue                                                 *)

LEMMA BoundHolds == SInv => QueueBounded
<1> SUFFICES ASSUME SInv, NEW q \in Queues
             PROVE  size[q] <= Limit + Cardinality(Cutting(q))
  BY DEF QueueBounded
<1>1. Covered(q, {})
  BY DEF SInv, AllCovered
<1>2. Cutting(q) \ {} = Cutting(q)
  OBVIOUS
<1>3. QED
  BY <1>1, <1>2 DEF Covered

-----------------------------------------------------------------------------
(* The list of days                                                        *)

KeptFor(d) == {k \in Kinds : statMap[k][d] # NoQueue}
Places(d) == {i \in DOMAIN dayHasSaved : dayHasSaved[i] = d}

\* The list names a day as often as the maps have a queue for it, or once less.
Agrees(d) == Cardinality(KeptFor(d)) = Cardinality(Places(d))
Behind(d) == Cardinality(KeptFor(d)) = Cardinality(Places(d)) + 1

AllAgree == \A d \in Days : Agrees(d)

\* A worker that has put a queue in place and not yet named its day.
Naming(w) ==
    pc[w] = "saveDay" =>
        /\ Len(dayHasSaved) <= saveDay
        /\ Kept(w) # NoQueue
        /\ Behind(day[w])
        /\ \A d \in Days \ {day[w]} : Agrees(d)

\* A worker that has: days are too many by one at most, and the last is its own.
Trimming(w) ==
    pc[w] = "trim" =>
        /\ AllAgree
        /\ \/ Len(dayHasSaved) <= saveDay
           \/ Len(dayHasSaved) = saveDay + 1 /\ Last = day[w] /\ Kept(w) # NoQueue

\* One worker at a time is at the list.
Listed ==
    ~disturbed =>
        /\ \A w, u \in AtList : w = u
        /\ AtList = {} => Len(dayHasSaved) <= saveDay /\ AllAgree
        /\ \A w \in Workers : Naming(w) /\ Trimming(w)

LEMMA DaysTyped ==
  ASSUME TypeOK
  PROVE  /\ Len(dayHasSaved) \in Nat /\ DOMAIN dayHasSaved = 1..Len(dayHasSaved)
         /\ saveDay \in Nat \ {0}
         /\ \A d \in Days : /\ IsFiniteSet(Places(d)) /\ Cardinality(Places(d)) \in Nat
                            /\ IsFiniteSet(KeptFor(d)) /\ Cardinality(KeptFor(d)) \in Nat
<1>1. Len(dayHasSaved) \in Nat /\ DOMAIN dayHasSaved = 1..Len(dayHasSaved)
  BY DEF TypeOK
<1>2. saveDay \in Nat \ {0}
  BY StatisticsAssumption DEF TypeOK
<1>3. ASSUME NEW d \in Days PROVE IsFiniteSet(Places(d)) /\ Cardinality(Places(d)) \in Nat
  <2>1. IsFiniteSet(1..Len(dayHasSaved))
    BY <1>1, FS_Interval
  <2>2. Places(d) \in SUBSET (1..Len(dayHasSaved))
    BY <1>1 DEF Places
  <2>3. QED
    BY <2>1, <2>2, FS_Subset, FS_CardinalityType
<1>4. ASSUME NEW d \in Days PROVE IsFiniteSet(KeptFor(d)) /\ Cardinality(KeptFor(d)) \in Nat
  <2>1. IsFiniteSet({"success"} \cup {"failed"})
    BY FS_Singleton, FS_AddElement
  <2>2. KeptFor(d) \in SUBSET ({"success"} \cup {"failed"})
    BY DEF KeptFor, Kinds
  <2>3. QED
    BY <2>1, <2>2, FS_Subset, FS_CardinalityType
<1>5. QED
  BY <1>1, <1>2, <1>3, <1>4

LEMMA InitListed == Init => Listed
<1> SUFFICES ASSUME Init PROVE Listed
  OBVIOUS
<1>1. AtList = {} /\ \A w \in Workers : pc[w] = "idle"
  BY DEF Init, AtList
<1>2. Len(dayHasSaved) <= saveDay
  BY StatisticsAssumption DEF Init
<1>3. ASSUME NEW d \in Days PROVE Agrees(d)
  <2>1. KeptFor(d) = {} /\ Places(d) = {}
    BY <1>3 DEF Init, KeptFor, Places
  <2>2. QED
    BY <2>1 DEF Agrees
<1>4. QED
  BY <1>1, <1>2, <1>3 DEF Listed, AllAgree, Naming, Trimming

\* Steps away from the list and the maps.
LEMMA AwayListed ==
  ASSUME TypeOK, Listed, UNCHANGED <<dayHasSaved, statMap>>, AtList' = AtList,
         \A w \in AtList : pc'[w] = pc[w] /\ kind'[w] = kind[w] /\ day'[w] = day[w],
         ~disturbed' => ~disturbed /\ saveDay' \in Nat /\ saveDay <= saveDay'
  PROVE  Listed'
<1> SUFFICES ASSUME ~disturbed' PROVE Listed'
  BY DEF Listed
<1>1. ~disturbed /\ saveDay' \in Nat /\ saveDay \in Nat /\ saveDay <= saveDay'
      /\ Len(dayHasSaved) \in Nat
  BY DaysTyped
<1>2. \A d : (Agrees(d)' <=> Agrees(d)) /\ (Behind(d)' <=> Behind(d))
  BY DEF Agrees, Behind, KeptFor, Places
<1>3. AllAgree' <=> AllAgree
  BY <1>2 DEF AllAgree, Days
<1>4. Last' = Last
  BY DEF Last
<1>5. AtList' = {} => Len(dayHasSaved)' <= saveDay' /\ AllAgree'
  BY <1>1, <1>3 DEF Listed
<1>6. ASSUME NEW w \in Workers PROVE Naming(w)'
  <2> SUFFICES ASSUME pc'[w] = "saveDay" PROVE Naming(w)'
    BY DEF Naming
  <2>1. pc[w] = "saveDay" /\ kind'[w] = kind[w] /\ day'[w] = day[w]
    BY DEF AtList
  <2>2. Naming(w)
    BY <1>1 DEF Listed
  <2>3. \A d \in Days \ {day[w]} : Agrees(d)'
    BY <1>2, <2>1, <2>2 DEF Naming
  <2>4. Behind(day[w])'
    <3>1. Behind(day[w])
      BY <2>1, <2>2 DEF Naming
    <3>2. QED
      BY <2>1, <3>1 DEF Behind, KeptFor, Places
  <2>5. QED
    BY <1>1, <2>1, <2>2, <2>3, <2>4 DEF Naming, Kept, Behind, KeptFor, Places, Days
<1>7. ASSUME NEW w \in Workers PROVE Trimming(w)'
  <2> SUFFICES ASSUME pc'[w] = "trim" PROVE Trimming(w)'
    BY DEF Trimming
  <2>1. pc[w] = "trim" /\ kind'[w] = kind[w] /\ day'[w] = day[w]
    BY DEF AtList
  <2>2. Trimming(w)
    BY <1>1 DEF Listed
  <2>3. Kept(w)' = Kept(w)
    BY <2>1 DEF Kept
  <2>4. CASE Len(dayHasSaved) <= saveDay'
    BY <1>3, <2>1, <2>2, <2>4 DEF Trimming
  <2>5. CASE ~(Len(dayHasSaved) <= saveDay')
    <3>1. Len(dayHasSaved) = saveDay + 1 /\ Last = day[w] /\ Kept(w) # NoQueue
      BY <1>1, <2>1, <2>2, <2>5 DEF Trimming
    <3>2. saveDay' = saveDay
      BY <1>1, <2>5, <3>1
    <3>3. QED
      BY <1>3, <1>4, <2>1, <2>2, <2>3, <3>1, <3>2 DEF Trimming
  <2>6. QED
    BY <2>4, <2>5
<1>8. QED
  BY <1>1, <1>5, <1>6, <1>7 DEF Listed

\* Steps of the only worker at the list, which leave the others away from it.
LEMMA AloneListed ==
  ASSUME TypeOK, NEW w \in Workers, AtList \subseteq {w},
         \A v \in Workers \ {w} : pc'[v] = pc[v],
         pc'[w] \notin {"saveDay", "trim"} => Len(dayHasSaved)' <= saveDay' /\ AllAgree',
         Naming(w)', Trimming(w)'
  PROVE  Listed'
<1>1. \A v \in Workers \ {w} : pc'[v] \notin {"saveDay", "trim"}
  BY DEF AtList
<1>2. AtList' \subseteq {w}
  BY <1>1 DEF AtList
<1>3. \A v \in Workers : Naming(v)' /\ Trimming(v)'
  BY <1>1 DEF Naming, Trimming
<1>4. AtList' = {} => Len(dayHasSaved)' <= saveDay' /\ AllAgree'
  BY DEF AtList
<1>5. QED
  BY <1>2, <1>3, <1>4 DEF Listed

LEMMA PutListed ==
  ASSUME TypeOK, Listed, NEW w \in Workers, NEW q \in Queues, PutQueue(w, q)
  PROVE  Listed'
<1> SUFFICES ASSUME ~disturbed' PROVE Listed'
  BY DEF Listed
<1>1. ~disturbed /\ AtList = {}
  BY DEF PutQueue
<1>2. Len(dayHasSaved) <= saveDay /\ AllAgree
  BY <1>1 DEF Listed
<1>3. day[w] \in Days /\ kind[w] \in Kinds /\ q # NoQueue /\ statMap[kind[w]][day[w]] = NoQueue
  BY StatisticsAssumption DEF TypeOK, PutQueue, Kept
<1>4. \A k \in Kinds, d \in Days :
          statMap'[k][d] = IF k = kind[w] /\ d = day[w] THEN q ELSE statMap[k][d]
  BY <1>3 DEF PutQueue, TypeOK
<1>5. /\ dayHasSaved' = dayHasSaved /\ saveDay' = saveDay /\ day' = day /\ kind' = kind
      /\ pc'[w] = "saveDay" /\ \A v \in Workers \ {w} : pc'[v] = pc[v]
  BY DEF PutQueue, Goto, TypeOK
<1>6. \A d : Places(d)' = Places(d)
  BY <1>5 DEF Places
<1>7. \A d \in Days \ {day[w]} : Agrees(d)'
  <2> SUFFICES ASSUME NEW d \in Days \ {day[w]} PROVE Agrees(d)'
    OBVIOUS
  <2>1. KeptFor(d)' = KeptFor(d)
    BY <1>4 DEF KeptFor
  <2>2. Agrees(d)
    BY <1>2 DEF AllAgree
  <2>3. QED
    BY <1>6, <2>1, <2>2 DEF Agrees
<1>8. Behind(day[w])'
  <2>1. KeptFor(day[w])' = KeptFor(day[w]) \cup {kind[w]} /\ kind[w] \notin KeptFor(day[w])
    BY <1>3, <1>4, <1>5 DEF KeptFor
  <2>2. Cardinality(KeptFor(day[w])') = Cardinality(KeptFor(day[w])) + 1
    BY <1>3, <2>1, DaysTyped, FS_AddElement
  <2>3. Agrees(day[w])
    BY <1>2, <1>3 DEF AllAgree
  <2>4. Places(day[w])' = Places(day[w])
    BY <1>5 DEF Places
  <2>5. QED
    BY <2>2, <2>3, <2>4 DEF Agrees, Behind
<1>9. Naming(w)'
  <2>1. Kept(w)' # NoQueue
    BY <1>3, <1>4, <1>5 DEF Kept
  <2>2. \A d \in (Days \ {day[w]})' : Agrees(d)'
    BY <1>5, <1>7 DEF Days
  <2>3. QED
    BY <1>2, <1>5, <1>8, <2>1, <2>2 DEF Naming
<1>10. Trimming(w)'
  BY <1>5 DEF Trimming
<1>11. QED
  BY <1>1, <1>5, <1>9, <1>10, AloneListed

LEMMA SaveListed ==
  ASSUME TypeOK, Listed, NEW w \in Workers, SaveDay(w)
  PROVE  Listed'
<1> SUFFICES ASSUME ~disturbed' PROVE Listed'
  BY DEF Listed
<1>1. ~disturbed /\ w \in AtList
  BY DEF SaveDay, AtList
<1>2. AtList = {w}
  BY <1>1 DEF Listed
<1>3. Naming(w) /\ pc[w] = "saveDay"
  BY <1>1 DEF Listed, SaveDay
<1>4. /\ dayHasSaved' = Append(dayHasSaved, day[w])
      /\ saveDay' = saveDay /\ day' = day /\ kind' = kind /\ statMap' = statMap
      /\ pc'[w] = "trim" /\ \A v \in Workers \ {w} : pc'[v] = pc[v]
  BY <1>2 DEF SaveDay, Goto, TypeOK
<1>5. dayHasSaved \in Seq(Days) /\ day[w] \in Days /\ Len(dayHasSaved) \in Nat /\ saveDay \in Nat
  BY DaysTyped DEF TypeOK
<1>6. /\ Len(dayHasSaved') = Len(dayHasSaved) + 1
      /\ DOMAIN dayHasSaved' = (DOMAIN dayHasSaved) \cup {Len(dayHasSaved) + 1}
      /\ Len(dayHasSaved) + 1 \notin DOMAIN dayHasSaved
      /\ dayHasSaved'[Len(dayHasSaved) + 1] = day[w]
      /\ \A i \in DOMAIN dayHasSaved : dayHasSaved'[i] = dayHasSaved[i]
  BY <1>4, <1>5
<1>7. \A d : KeptFor(d)' = KeptFor(d)
  BY <1>4 DEF KeptFor
<1>8. \A d \in Days \ {day[w]} : Agrees(d)'
  <2> SUFFICES ASSUME NEW d \in Days \ {day[w]} PROVE Agrees(d)'
    OBVIOUS
  <2>1. Places(d)' = Places(d)
    BY <1>6 DEF Places
  <2>2. Agrees(d)
    BY <1>3 DEF Naming
  <2>3. QED
    BY <1>7, <2>1, <2>2 DEF Agrees
<1>9. Agrees(day[w])'
  <2>1. /\ Places(day[w])' = Places(day[w]) \cup {Len(dayHasSaved) + 1}
        /\ Len(dayHasSaved) + 1 \notin Places(day[w])
    BY <1>4, <1>6 DEF Places
  <2>2. Cardinality(Places(day[w])') = Cardinality(Places(day[w])) + 1
    BY <1>5, <2>1, DaysTyped, FS_AddElement
  <2>3. Behind(day[w])
    BY <1>3 DEF Naming
  <2>4. KeptFor(day[w])' = KeptFor(day[w])
    BY <1>4 DEF KeptFor
  <2>5. QED
    BY <2>2, <2>3, <2>4 DEF Agrees, Behind
<1>10. AllAgree'
  <2>1. \A d \in Days \ {day[w]} : Agrees(d)'
    BY <1>8
  <2>2. ASSUME NEW d \in Days, d = day[w] PROVE Agrees(d)'
    <3>1. KeptFor(d)' = KeptFor(day[w])' /\ Places(d)' = Places(day[w])'
      BY <1>4, <2>2 DEF KeptFor, Places
    <3>2. QED
      BY <1>9, <3>1 DEF Agrees
  <2>3. QED
    BY <2>1, <2>2 DEF AllAgree, Days
<1>11. Trimming(w)'
  <2>1. Last' = day[w]
    BY <1>6 DEF Last
  <2>2. Kept(w)' # NoQueue
    BY <1>3, <1>4 DEF Naming, Kept
  <2>3. Len(dayHasSaved') <= saveDay \/ Len(dayHasSaved') = saveDay + 1
    BY <1>3, <1>5, <1>6 DEF Naming
  <2>4. QED
    BY <1>4, <1>10, <2>1, <2>2, <2>3 DEF Trimming
<1>12. Naming(w)'
  BY <1>4 DEF Naming
<1>13. QED
  BY <1>2, <1>4, <1>11, <1>12, AloneListed

LEMMA TrimListed ==
  ASSUME TypeOK, Listed, NEW w \in Workers, Trim(w)
  PROVE  Listed'
<1> SUFFICES ASSUME ~disturbed' PROVE Listed'
  BY DEF Listed
<1>1. ~disturbed /\ w \in AtList
  BY DEF Trim, AtList
<1>2. AtList = {w}
  BY <1>1 DEF Listed
<1>3. Trimming(w) /\ pc[w] = "trim" /\ Len(dayHasSaved) > saveDay
  BY <1>1 DEF Listed, Trim
<1> DEFINE n == Len(dayHasSaved)
<1>4. dayHasSaved \in Seq(Days) /\ day[w] \in Days /\ n \in Nat /\ saveDay \in Nat \ {0}
  BY DaysTyped DEF TypeOK
<1>5. n = saveDay + 1 /\ dayHasSaved[n] = day[w] /\ Kept(w) # NoQueue /\ AllAgree
  BY <1>3, <1>4 DEF Trimming, Last
<1>6. /\ dayHasSaved' = SubSeq(dayHasSaved, 1, n - 1)
      /\ statMap' = [statMap EXCEPT ![kind[w]][day[w]] = NoQueue]
      /\ saveDay' = saveDay /\ day' = day /\ kind' = kind /\ pc' = pc
  BY <1>5 DEF Trim, Last, locals
<1>7. /\ Len(dayHasSaved') = n - 1
      /\ DOMAIN dayHasSaved = (DOMAIN dayHasSaved') \cup {n}
      /\ n \notin DOMAIN dayHasSaved'
      /\ \A i \in DOMAIN dayHasSaved' : dayHasSaved'[i] = dayHasSaved[i]
  BY <1>4, <1>5, <1>6
<1>8. kind[w] \in Kinds /\ statMap[kind[w]][day[w]] # NoQueue
  BY <1>5 DEF TypeOK, Kept
<1>9. \A k \in Kinds, d \in Days :
          statMap'[k][d] = IF k = kind[w] /\ d = day[w] THEN NoQueue ELSE statMap[k][d]
  BY <1>4, <1>6, <1>8 DEF TypeOK
<1>10. ASSUME NEW d \in Days, d # day[w] PROVE Agrees(d)'
  <2>1. KeptFor(d)' = KeptFor(d)
    BY <1>9, <1>10 DEF KeptFor
  <2>2. Places(d)' = Places(d)
    BY <1>5, <1>7, <1>10 DEF Places
  <2>3. Agrees(d)
    BY <1>5 DEF AllAgree
  <2>4. QED
    BY <2>1, <2>2, <2>3 DEF Agrees
<1>11. ASSUME NEW d \in Days, d = day[w] PROVE Agrees(d)'
  <2>1. KeptFor(d)' = KeptFor(d) \ {kind[w]} /\ kind[w] \in KeptFor(d)
    BY <1>8, <1>9, <1>11 DEF KeptFor
  <2>2. Places(d)' = Places(d) \ {n} /\ n \in Places(d)
    BY <1>5, <1>7, <1>11 DEF Places
  <2>3. Cardinality(KeptFor(d)') = Cardinality(KeptFor(d)) - 1
    <3>1. IsFiniteSet(KeptFor(d))
      BY DaysTyped
    <3>2. Cardinality(KeptFor(d) \ {kind[w]}) = Cardinality(KeptFor(d)) - 1
      BY <2>1, <3>1, FS_RemoveElement, Zenon
    <3>3. QED
      BY <2>1, <3>2
  <2>4. Cardinality(Places(d)') = Cardinality(Places(d)) - 1
    BY <2>2, DaysTyped, FS_RemoveElement
  <2>5. Agrees(d)
    BY <1>5 DEF AllAgree
  <2>6. QED
    BY <2>3, <2>4, <2>5 DEF Agrees
<1>12. AllAgree'
  BY <1>10, <1>11 DEF AllAgree, Days
<1>13. Trimming(w)' /\ Naming(w)'
  BY <1>3, <1>4, <1>5, <1>6, <1>7, <1>12 DEF Trimming, Naming
<1>14. QED
  BY <1>2, <1>3, <1>6, <1>13, AloneListed

LEMMA EndTrimListed ==
  ASSUME TypeOK, Listed, NEW w \in Workers, EndTrim(w)
  PROVE  Listed'
<1> SUFFICES ASSUME ~disturbed' PROVE Listed'
  BY DEF Listed
<1>1. ~disturbed /\ w \in AtList
  BY DEF EndTrim, AtList
<1>2. AtList = {w} /\ Trimming(w) /\ pc[w] = "trim"
  BY <1>1 DEF Listed, EndTrim
<1>3. /\ UNCHANGED <<dayHasSaved, saveDay, statMap>> /\ Len(dayHasSaved) <= saveDay
      /\ pc'[w] = "add" /\ \A v \in Workers \ {w} : pc'[v] = pc[v]
  BY DEF EndTrim, Goto, TypeOK
<1>4. \A d : Agrees(d)' <=> Agrees(d)
  BY <1>3 DEF Agrees, KeptFor, Places
<1>5. AllAgree'
  BY <1>2, <1>4 DEF Trimming, AllAgree, Days
<1>6. Naming(w)' /\ Trimming(w)'
  BY <1>3 DEF Naming, Trimming
<1>7. QED
  BY <1>2, <1>3, <1>5, <1>6, AloneListed

LEMMA NextListed ==
  ASSUME TypeOK, Listed, [Next]_vars
  PROVE  Listed'
<1>1. saveDay \in Nat
  BY DaysTyped
<1>2. ASSUME NEW w \in Workers, w \notin AtList, pc'[w] \notin {"saveDay", "trim"},
             UNCHANGED <<dayHasSaved, statMap, saveDay, disturbed>>,
             \A v \in Workers \ {w} : pc'[v] = pc[v] /\ kind'[v] = kind[v] /\ day'[v] = day[v]
      PROVE  Listed'
  <2>1. AtList' = AtList
    BY <1>2 DEF AtList
  <2>2. \A v \in AtList : pc'[v] = pc[v] /\ kind'[v] = kind[v] /\ day'[v] = day[v]
    BY <1>2 DEF AtList
  <2>3. QED
    BY <1>1, <1>2, <2>1, <2>2, AwayListed
<1>3. ASSUME NEW w \in Workers, NEW k \in Kinds, Record(w, k) PROVE Listed'
  BY <1>2, <1>3 DEF Record, Goto, AtList, TypeOK
<1>4. ASSUME NEW w \in Workers, GetQueue(w) PROVE Listed'
  BY <1>2, <1>4 DEF GetQueue, Goto, AtList, TypeOK
<1>5. ASSUME NEW w \in Workers, UseExisting(w) PROVE Listed'
  BY <1>2, <1>5 DEF UseExisting, Goto, AtList, TypeOK
<1>6. ASSUME NEW w \in Workers, Add(w) PROVE Listed'
  BY <1>2, <1>6 DEF Add, Goto, AtList, TypeOK
<1>7. ASSUME NEW w \in Workers, Measure(w) PROVE Listed'
  BY <1>2, <1>7 DEF Measure, MeasureAgainst, Goto, AtList, TypeOK
<1>8. ASSUME NEW w \in Workers, EndRecord(w) PROVE Listed'
  BY <1>2, <1>8 DEF EndRecord, Return, Goto, AtList, TypeOK
<1>9. ASSUME NEW w \in Workers, Poll(w) PROVE Listed'
  BY <1>2, <1>9 DEF Poll, AtList
<1>10. ASSUME NEW w \in Workers, TrimFails(w) PROVE Listed'
  BY <1>10 DEF TrimFails, Listed
<1>11. ASSUME NEW n \in SaveDays, SetSaveDay(n) PROVE Listed'
  <2>1. UNCHANGED <<dayHasSaved, statMap, pc, kind, day>> /\ AtList' = AtList
    BY <1>11 DEF SetSaveDay, locals, AtList
  <2>2. ~disturbed' => ~disturbed /\ saveDay' \in Nat /\ saveDay <= saveDay'
    <3>1. saveDay' = n /\ n \in Nat
      BY <1>11, StatisticsAssumption DEF SetSaveDay
    <3>2. ~disturbed' => ~disturbed /\ ~(n < saveDay)
      BY <1>11, Zenon DEF SetSaveDay
    <3>3. ~(n < saveDay) => saveDay <= n
      BY <1>1, <3>1
    <3>4. QED
      BY <3>1, <3>2, <3>3
  <2>3. QED
    BY <2>1, <2>2, AwayListed
<1>12. CASE NextDay \/ UNCHANGED vars
  <2>1. UNCHANGED <<dayHasSaved, statMap, pc, kind, day, saveDay, disturbed>> /\ AtList' = AtList
    BY <1>12 DEF NextDay, vars, locals, AtList
  <2>2. QED
    BY <1>1, <2>1, AwayListed
<1>13. QED
  BY <1>3, <1>4, <1>5, <1>6, <1>7, <1>8, <1>9, <1>10, <1>11, <1>12,
     PutListed, SaveListed, TrimListed, EndTrimListed DEF Next, RecordStep

-----------------------------------------------------------------------------
(* Theorems                                                                *)

\* The inductive invariant, which holds the types.
THEOREM StatisticsInvariant == Spec => []SInv
<1>1. SInv /\ [Next]_vars => SInv'
  BY NextTyped, NextCovered DEF SInv
<1>2. QED
  BY InitHolds, <1>1, PTL DEF Spec

\* Every variable of record has its type, and its locals are there when used.
THEOREM StatisticsTyped == Spec => []TypeOK
<1>1. SInv => TypeOK
  BY DEF SInv
<1>2. QED
  BY StatisticsInvariant, <1>1, PTL

\* The loop of record (126-129) bounds a queue: with nobody at work on it, it
\* holds Limit results at most, however many workers raced.
THEOREM QueuesAreBounded == Spec => []QueueBounded
<1>1. SInv => QueueBounded
  BY BoundHolds
<1>2. QED
  BY StatisticsInvariant, <1>1, PTL

\* The worker that puts a queue in place names its day and trims the list
\* (112-119): while one does so at a time, list and maps agree, and no more
\* than saveDay queues are kept.
THEOREM DaysAreBounded == Spec => []DaysBounded
<1>1. TypeOK /\ Listed => DaysBounded
  BY DEF Listed, DaysBounded, AllAgree, Agrees, KeptFor, Places
<1>2. TypeOK /\ Listed /\ [Next]_vars => Listed'
  BY NextListed
<1>3. QED
  BY StatisticsTyped, InitListed, <1>1, <1>2, PTL DEF Spec
=============================================================================
