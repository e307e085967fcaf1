------------------------- MODULE TaskConflictProofs -------------------------
(***************************************************************************)
(* What conflict detection guarantees for any number of schedules, callers *)
(* and ids: one task per id, and no id kept by a schedule that terminated. *)
(***************************************************************************)
EXTENDS TaskConflict, TLAPS

\* A future that is not done is the one the map holds for its id, unless the
\* loop that submitted it failed before the put.
InMap ==
    \A f \in Futures : ~done[f] =>
        /\ stage[f] # "ended"
        /\ f \in unrecorded \/ submitMap[taskId[f]] = f

\* The pool of a schedule that is stopped is empty.
Emptied ==
    \A s \in Schedules : pc[s] = "stopped" =>
        \A f \in Futures : pool[f] = s => stage[f] \notin {"queued", "running"}

CInv == TypeOK /\ InMap /\ Emptied

-----------------------------------------------------------------------------
LEMMA InitTyped == Init => TypeOK
  BY ConflictAssumption DEF Init, TypeOK, Submitters

LEMMA NextTyped == TypeOK /\ [Next]_vars => TypeOK'
<1> SUFFICES ASSUME TypeOK, [Next]_vars PROVE TypeOK'
  OBVIOUS
<1> USE ConflictAssumption DEF TypeOK, futures, cleaning, Goto, Submitters
<1>1. ASSUME NEW p \in Submitters, NEW ids \in SUBSET Ids, Begin(p, ids) PROVE TypeOK'
  BY <1>1 DEF Begin
<1>2. ASSUME NEW p \in Submitters, NEW i \in Ids, Skip(p, i) PROVE TypeOK'
  BY <1>2 DEF Skip
<1>3. ASSUME NEW p \in Submitters, NEW i \in Ids, NEW f \in Futures, NEW s \in Schedules,
             Admit(p, i, f, s) \/ AdmitUnrecorded(p, i, f, s)
      PROVE TypeOK'
  <2>1. CASE Admit(p, i, f, s)
    BY <2>1 DEF Admit
  <2>2. CASE AdmitUnrecorded(p, i, f, s)
    BY <2>2 DEF AdmitUnrecorded
  <2>3. QED
    BY <1>3, <2>1, <2>2
<1>4. ASSUME NEW p \in Submitters, EndLoop(p) PROVE TypeOK'
  BY <1>4 DEF EndLoop
<1>5. ASSUME NEW s \in Schedules, WaitCompleted(s) PROVE TypeOK'
  BY <1>5 DEF WaitCompleted
<1>6. ASSUME NEW s \in Schedules, WaitInterrupted(s) PROVE TypeOK'
  BY <1>6 DEF WaitInterrupted
<1>7. ASSUME NEW s \in Schedules, NEW f \in Futures, CleanOne(s, f) PROVE TypeOK'
  BY <1>7 DEF CleanOne
<1>8. ASSUME NEW s \in Schedules,
             LastClean(s) \/ EndClean(s) \/ CleanFails(s) \/ Clear(s) \/ LastClear(s)
      PROVE TypeOK'
  <2>1. CASE LastClean(s)
    BY <2>1 DEF LastClean
  <2>2. CASE EndClean(s) \/ CleanFails(s)
    BY <2>2 DEF EndClean, CleanFails, LeaveLoop
  <2>3. CASE Clear(s)
    BY <2>3 DEF Clear
  <2>4. CASE LastClear(s)
    BY <2>4 DEF LastClear
  <2>5. QED
    BY <1>8, <2>1, <2>2, <2>3, <2>4
<1>9. ASSUME NEW s \in Schedules, Terminate(s) PROVE TypeOK'
  <2>1. CASE Shutdown(s) \/ AwaitTermination(s) \/ GetState(s) \/ Restart(s)
    BY <2>1 DEF Shutdown, AwaitTermination, BecomeStopped, GetState, Restart
  <2>2. CASE CancelTasks(s) \/ CancelFails(s)
    <3>1. \E fs : Cancel(fs)
      BY <2>2 DEF CancelTasks, CancelFails
    <3>2. done' \in [Futures -> BOOLEAN]
      BY <3>1 DEF Cancel
    <3>3. pc' \in [Submitters -> {"idle", "submit", "wait", "clean", "clear", "closing",
                                 "cancelled", "stopping", "died", "stopped"}]
      BY <2>2 DEF CancelTasks, CancelFails
    <3>4. UNCHANGED <<submitMap, submitFutures, stage, taskId, pool, unrecorded, lock, todo,
                      left, last>>
      BY <2>2 DEF CancelTasks, CancelFails
    <3>5. QED
      BY <3>2, <3>3, <3>4
  <2>3. CASE ShutdownNow(s)
    <3>1. stage' \in [Futures -> {"ended", "queued", "running", "dropped"}]
      BY <2>3 DEF ShutdownNow
    <3>2. QED
      BY <2>3, <3>1 DEF ShutdownNow
  <2>4. QED
    BY <1>9, <2>1, <2>2, <2>3 DEF Terminate
<1>10. ASSUME NEW f \in Futures, StartTask(f) \/ EndTask(f) PROVE TypeOK'
  BY <1>10 DEF StartTask, EndTask
<1>11. CASE UNCHANGED vars
  BY <1>11 DEF vars
<1>12. QED
  BY <1>1, <1>2, <1>3, <1>4, <1>5, <1>6, <1>7, <1>8, <1>9, <1>10, <1>11
     DEF Next, Submit, Clean

\* Types of the map, the futures and the threads that use them.
THEOREM TypeCorrect == Spec => []TypeOK
  BY InitTyped, NextTyped, PTL DEF Spec

-----------------------------------------------------------------------------
LEMMA InitInvariant == Init => CInv
  BY InitTyped, ConflictAssumption DEF Init, CInv, InMap, Emptied, Submitters

\* A recorded future that is not done is never pushed out of the map: an id is put in
\* again only when it is free, and removed only when what the map holds is done.
LEMMA InMapStep == CInv /\ [Next]_vars => InMap'
<1> SUFFICES ASSUME CInv, [Next]_vars PROVE InMap'
  OBVIOUS
<1> USE ConflictAssumption DEF CInv, TypeOK, InMap, futures, cleaning
<1>1. ASSUME NEW p \in Submitters, NEW i \in Ids, NEW f \in Futures, NEW s \in Schedules,
             Admit(p, i, f, s)
      PROVE InMap'
  <2> SUFFICES ASSUME NEW g \in Futures, ~done'[g]
               PROVE stage'[g] # "ended" /\ (g \in unrecorded' \/ submitMap'[taskId'[g]] = g)
    OBVIOUS
  <2>1. CASE g = f
    BY <1>1, <2>1 DEF Admit
  <2>2. CASE g # f
    <3>1. ~done[g] /\ taskId'[g] = taskId[g] /\ stage'[g] = stage[g]
      BY <1>1, <2>2 DEF Admit
    <3>2. g \in unrecorded \/ taskId[g] # i
      BY <1>1, <3>1 DEF Admit, Alive
    <3>3. QED
      BY <1>1, <3>1, <3>2 DEF Admit
  <2>3. QED
    BY <2>1, <2>2
<1>2. ASSUME NEW p \in Submitters, NEW i \in Ids, NEW f \in Futures, NEW s \in Schedules,
             AdmitUnrecorded(p, i, f, s)
      PROVE InMap'
  BY <1>2 DEF AdmitUnrecorded
<1>3. ASSUME NEW s \in Schedules, NEW f \in Futures, CleanOne(s, f) PROVE InMap'
  <2> SUFFICES ASSUME NEW g \in Futures, ~done'[g]
               PROVE stage'[g] # "ended" /\ (g \in unrecorded' \/ submitMap'[taskId'[g]] = g)
    OBVIOUS
  <2>1. ~done[g] /\ taskId'[g] = taskId[g] /\ stage'[g] = stage[g]
    BY <1>3 DEF CleanOne
  <2>2. CASE taskId[g] = taskId[f]
    BY <1>3, <2>1, <2>2 DEF CleanOne, Alive
  <2>3. CASE taskId[g] # taskId[f]
    BY <1>3, <2>1, <2>3 DEF CleanOne
  <2>4. QED
    BY <2>1, <2>2, <2>3
<1>4. ASSUME NEW s \in Schedules, ShutdownNow(s) PROVE InMap'
  BY <1>4 DEF ShutdownNow, InPool
<1>5. ASSUME NEW s \in Schedules, CancelTasks(s) \/ CancelFails(s) PROVE InMap'
  BY <1>5 DEF CancelTasks, CancelFails, Cancel
<1>6. ASSUME NEW f \in Futures, StartTask(f) \/ EndTask(f) PROVE InMap'
  BY <1>6 DEF StartTask, EndTask
<1>7. ASSUME NEW p \in Submitters, NEW ids \in SUBSET Ids, Begin(p, ids) PROVE InMap'
  BY <1>7 DEF Begin
<1>8. ASSUME NEW p \in Submitters, (\E i \in Ids : Skip(p, i)) \/ EndLoop(p) PROVE InMap'
  BY <1>8 DEF Skip, EndLoop
<1>9. ASSUME NEW s \in Schedules,
             \/ WaitCompleted(s) \/ WaitInterrupted(s) \/ LastClean(s)
             \/ EndClean(s) \/ CleanFails(s) \/ Clear(s) \/ LastClear(s)
      PROVE InMap'
  BY <1>9 DEF WaitCompleted, WaitInterrupted, LastClean, EndClean, CleanFails, LeaveLoop,
              Clear, LastClear
<1>10. ASSUME NEW s \in Schedules,
             Shutdown(s) \/ AwaitTermination(s) \/ GetState(s) \/ Restart(s)
      PROVE InMap'
  BY <1>10 DEF Shutdown, AwaitTermination, BecomeStopped, GetState, Restart
<1>11. CASE UNCHANGED vars
  BY <1>11 DEF vars
<1>12. QED
  BY <1>1, <1>2, <1>3, <1>4, <1>5, <1>6, <1>7, <1>8, <1>9, <1>10, <1>11
     DEF Next, Submit, Clean, Terminate

\* Nothing enters the pool of a schedule between its termination and its start.
LEMMA EmptiedStep == CInv /\ [Next]_vars => Emptied'
<1> SUFFICES ASSUME CInv, [Next]_vars, NEW s \in Schedules, NEW f \in Futures,
                    pc'[s] = "stopped", pool'[f] = s
             PROVE stage'[f] \notin {"queued", "running"}
  BY DEF Emptied
<1> USE ConflictAssumption DEF CInv, TypeOK, Emptied, futures, cleaning, Goto, Submitters
<1>1. ASSUME NEW p \in Submitters, NEW i \in Ids, NEW g \in Futures, NEW t \in Schedules,
             Admit(p, i, g, t) \/ AdmitUnrecorded(p, i, g, t)
      PROVE stage'[f] \notin {"queued", "running"}
  <2>1. t # s
    BY <1>1 DEF Admit, AdmitUnrecorded, PoolOpen
  <2>2. QED
    BY <1>1, <2>1 DEF Admit, AdmitUnrecorded
<1>2. ASSUME NEW t \in Schedules, AwaitTermination(t) \/ GetState(t)
      PROVE stage'[f] \notin {"queued", "running"}
  BY <1>2 DEF AwaitTermination, BecomeStopped, GetState, PoolTerminated, InPool
<1>3. ASSUME NEW t \in Schedules, NEW g \in Futures, CleanOne(t, g)
      PROVE stage'[f] \notin {"queued", "running"}
  BY <1>3 DEF CleanOne
<1>4. ASSUME NEW t \in Schedules,
             \/ WaitCompleted(t) \/ WaitInterrupted(t) \/ LastClean(t)
             \/ EndClean(t) \/ CleanFails(t) \/ Clear(t) \/ LastClear(t)
      PROVE stage'[f] \notin {"queued", "running"}
  BY <1>4 DEF WaitCompleted, WaitInterrupted, LastClean, EndClean, CleanFails, LeaveLoop,
              Clear, LastClear
<1>5. ASSUME NEW t \in Schedules, Shutdown(t) \/ CancelTasks(t) \/ CancelFails(t) \/ Restart(t)
      PROVE stage'[f] \notin {"queued", "running"}
  BY <1>5 DEF Shutdown, CancelTasks, CancelFails, Restart
<1>6. ASSUME NEW t \in Schedules, ShutdownNow(t)
      PROVE stage'[f] \notin {"queued", "running"}
  BY <1>6 DEF ShutdownNow, InPool
<1>7. ASSUME NEW g \in Futures, StartTask(g) \/ EndTask(g)
      PROVE stage'[f] \notin {"queued", "running"}
  BY <1>7 DEF StartTask, EndTask
<1>8. ASSUME NEW p \in Submitters, NEW ids \in SUBSET Ids, Begin(p, ids)
      PROVE stage'[f] \notin {"queued", "running"}
  BY <1>8 DEF Begin
<1>9. ASSUME NEW p \in Submitters, (\E i \in Ids : Skip(p, i)) \/ EndLoop(p)
      PROVE stage'[f] \notin {"queued", "running"}
  BY <1>9 DEF Skip, EndLoop
<1>10. CASE UNCHANGED vars
  BY <1>10 DEF vars
<1>11. QED
  BY <1>1, <1>2, <1>3, <1>4, <1>5, <1>6, <1>7, <1>8, <1>9, <1>10
     DEF Next, Submit, Clean, Terminate

\* The inductive invariant of conflict detection.
THEOREM Invariant == Spec => []CInv
<1>1. CInv /\ [Next]_vars => CInv'
  BY NextTyped, InMapStep, EmptiedStep DEF CInv
<1>2. QED
  BY InitInvariant, <1>1, PTL DEF Spec

\* No two tasks with one id are queued or executing, unless one is cancelled or
\* was never put into the map.
THEOREM IdsAreExclusive == Spec => []OneTaskPerId
<1>1. CInv => OneTaskPerId
  BY DEF CInv, InMap, OneTaskPerId
<1>2. QED
  BY Invariant, <1>1, PTL

\* A schedule that terminated keeps no id but those of tasks that were dropped.
THEOREM StoppedLetsGo == Spec => []StoppedHoldsNoId
<1>1. CInv => StoppedHoldsNoId
  BY ConflictAssumption DEF CInv, TypeOK, InMap, Emptied, StoppedHoldsNoId, Alive
<1>2. QED
  BY Invariant, <1>1, PTL

-----------------------------------------------------------------------------
\* An id whose task was dropped from the queue of a pool by shutdownNow.
Dropped(i) == Alive(i) /\ stage[submitMap[i]] = "dropped"

\* A dropped future is never done and never taken for a new one, and the map
\* gives up only what is done.
LEMMA DroppedStep ==
  ASSUME CInv, [Next]_vars, NEW i \in Ids, Dropped(i)
  PROVE  Dropped(i)' /\ submitMap'[i] = submitMap[i]
<1> USE ConflictAssumption DEF CInv, TypeOK, Dropped, Alive, futures, cleaning
<1>1. ASSUME NEW p \in Submitters, NEW j \in Ids, NEW f \in Futures, NEW s \in Schedules,
             Admit(p, j, f, s) \/ AdmitUnrecorded(p, j, f, s)
      PROVE Dropped(i)' /\ submitMap'[i] = submitMap[i]
  <2>1. j # i /\ f # submitMap[i]
    BY <1>1 DEF Admit, AdmitUnrecorded, Fresh
  <2>2. QED
    BY <1>1, <2>1 DEF Admit, AdmitUnrecorded
<1>2. ASSUME NEW s \in Schedules, NEW f \in Futures, CleanOne(s, f)
      PROVE Dropped(i)' /\ submitMap'[i] = submitMap[i]
  BY <1>2 DEF CleanOne
<1>3. ASSUME NEW s \in Schedules, CancelTasks(s) \/ CancelFails(s)
      PROVE Dropped(i)' /\ submitMap'[i] = submitMap[i]
  BY <1>3 DEF CancelTasks, CancelFails, Cancel, Started
<1>4. ASSUME NEW s \in Schedules, ShutdownNow(s)
      PROVE Dropped(i)' /\ submitMap'[i] = submitMap[i]
  BY <1>4 DEF ShutdownNow, InPool
<1>5. ASSUME NEW f \in Futures, StartTask(f) \/ EndTask(f)
      PROVE Dropped(i)' /\ submitMap'[i] = submitMap[i]
  BY <1>5 DEF StartTask, EndTask
<1>6. ASSUME NEW p \in Submitters, NEW ids \in SUBSET Ids, Begin(p, ids)
      PROVE Dropped(i)' /\ submitMap'[i] = submitMap[i]
  BY <1>6 DEF Begin
<1>7. ASSUME NEW p \in Submitters, (\E j \in Ids : Skip(p, j)) \/ EndLoop(p)
      PROVE Dropped(i)' /\ submitMap'[i] = submitMap[i]
  BY <1>7 DEF Skip, EndLoop
<1>8. ASSUME NEW s \in Schedules,
             \/ WaitCompleted(s) \/ WaitInterrupted(s) \/ LastClean(s)
             \/ EndClean(s) \/ CleanFails(s) \/ Clear(s) \/ LastClear(s)
      PROVE Dropped(i)' /\ submitMap'[i] = submitMap[i]
  BY <1>8 DEF WaitCompleted, WaitInterrupted, LastClean, EndClean, CleanFails, LeaveLoop,
              Clear, LastClear
<1>9. ASSUME NEW s \in Schedules,
             Shutdown(s) \/ AwaitTermination(s) \/ GetState(s) \/ Restart(s)
      PROVE Dropped(i)' /\ submitMap'[i] = submitMap[i]
  BY <1>9 DEF Shutdown, AwaitTermination, BecomeStopped, GetState, Restart
<1>10. CASE UNCHANGED vars
  BY <1>10 DEF vars
<1>11. QED
  BY <1>1, <1>2, <1>3, <1>4, <1>5, <1>6, <1>7, <1>8, <1>9, <1>10
     DEF Next, Submit, Clean, Terminate

\* The id of a dropped task is blocked for ever: no cleaning, stop or restart
\* of any schedule frees it, and no schedule or caller can put it in again.
THEOREM BlockedForEver ==
  Spec => [][\A i \in Ids : Dropped(i) => Dropped(i)' /\ submitMap'[i] = submitMap[i]]_vars
<1>1. CInv /\ [Next]_vars =>
        [\A i \in Ids : Dropped(i) => Dropped(i)' /\ submitMap'[i] = submitMap[i]]_vars
  BY DroppedStep
<1>2. QED
  BY <1>1, Invariant, PTL DEF Spec
=============================================================================
