---------------------------- MODULE TaskConflict ----------------------------
(***************************************************************************)
(* Conflict detection: submitMap, which all schedules share, says for a    *)
(* task id which future was submitted last, and a task whose id has a      *)
(* future that is not done is left out.  Schedules put their tasks in at   *)
(* each round and forget the finished ones behind it; callers of           *)
(* submitBatch only put tasks in.  Both hold the lock of the map for a     *)
(* whole loop, while workers start and finish tasks beside it.             *)
(***************************************************************************)
EXTENDS FiniteSets

CONSTANTS Schedules,   \* schedules with enableTaskConflict, each with its pool
          Callers,     \* external threads that call submitBatch
          Unreliable,  \* those of both whose collections may refuse it.remove()
          Ids,         \* task ids
          Futures,     \* bound: TimedFuture objects that are referenced together
          NoFuture,    \* null: an id submitMap does not hold
          NoOne        \* the lock of submitMap is free

ASSUME ConflictAssumption ==
    /\ Schedules \cap Callers = {}
    /\ Unreliable \subseteq Schedules \cup Callers
    /\ NoFuture \notin Futures
    /\ NoOne \notin Schedules \cup Callers

VARIABLES
    submitMap,       \* the future submitted last for an id
    submitFutures,   \* per schedule, the futures it has yet to forget
    stage,           \* where each future's task is
    done,            \* isDone of each future, TRUE as well once it is cancelled
    taskId, pool,    \* of each future: its task's id, the schedule it runs in
    unrecorded,      \* futures of tasks in a pool that never got into the map
    lock,            \* who holds the lock of submitMap
    pc,              \* where each submitting thread is
    todo,            \* tasks the loop has yet to look at, by their ids
    left,            \* futures that a cleaning has yet to look at
    last             \* where a schedule's old thread is with its last cleaning

futures == <<stage, done, taskId, pool, unrecorded>>
cleaning == <<left, last>>
vars == <<submitMap, submitFutures, futures, lock, pc, todo, cleaning>>

Submitters == Schedules \cup Callers

Goto(p, step) == pc' = [pc EXCEPT ![p] = step]

\* isTaskAlive
Alive(i) == submitMap[i] # NoFuture /\ ~done[submitMap[i]]

\* A future object that nothing refers to any more stands for a new one.
Fresh(f) ==
    /\ stage[f] = "ended"
    /\ \A i \in Ids : submitMap[i] # f
    /\ \A s \in Schedules : f \notin submitFutures[s]
    /\ f \notin left

Init ==
    /\ submitMap = [i \in Ids |-> NoFuture]
    /\ submitFutures = [s \in Schedules |-> {}]
    /\ stage = [f \in Futures |-> "ended"]
    /\ done = [f \in Futures |-> TRUE]
    /\ taskId \in {[f \in Futures |-> i] : i \in Ids}
    /\ pool \in {[f \in Futures |-> s] : s \in Schedules}
    /\ unrecorded = {}
    /\ lock = NoOne
    /\ pc = [p \in Submitters |-> "idle"]
    /\ todo = [p \in Submitters |-> {}]
    /\ left = {} /\ last = [s \in Schedules |-> "none"]

-----------------------------------------------------------------------------
(* scheduleWithConflict and submitWithConflict                             *)

\* A round or a batch with these ids begins with taking the lock.
Begin(p, ids) ==
    /\ pc[p] = "idle" /\ lock = NoOne
    /\ lock' = p
    /\ todo' = [todo EXCEPT ![p] = ids]
    /\ Goto(p, "submit")
    /\ UNCHANGED <<submitMap, submitFutures, futures, cleaning>>

\* A task whose id is taken is left out.
Skip(p, i) ==
    /\ pc[p] = "submit" /\ i \in todo[p]
    /\ Alive(i)
    /\ todo' = [todo EXCEPT ![p] = @ \ {i}]
    /\ UNCHANGED <<submitMap, submitFutures, futures, lock, pc, cleaning>>

\* A pool takes tasks until shutdown, and again after the next start.
PoolOpen(s) ==
    pc[s] \notin {"closing", "cancelled", "stopping", "died", "stopped"}

\* Mutant of Admit: the future belongs to whoever submits it.
AdmitForCaller(p, i, f, s) ==
    /\ pc[p] = "submit" /\ i \in todo[p]
    /\ ~Alive(i)
    /\ Fresh(f)
    /\ p \in Callers => PoolOpen(s)
    /\ stage' = [stage EXCEPT ![f] = "queued"]
    /\ done' = [done EXCEPT ![f] = FALSE]
    /\ taskId' = [taskId EXCEPT ![f] = i]
    /\ pool' = [pool EXCEPT ![f] = p]
    /\ submitMap' = [submitMap EXCEPT ![i] = f]
    /\ todo' = [todo EXCEPT ![p] = @ \ {i}]
    /\ UNCHANGED <<unrecorded, submitFutures, lock, pc, cleaning>>

\* The task goes to a pool, a schedule's to its own, and into the map.  A
\* worker may start it before it is in the map, but only lock holders look.
Admit(p, i, f, s) ==
    /\ pc[p] = "submit" /\ i \in todo[p]
    /\ ~Alive(i)
    /\ Fresh(f)
    /\ p \in Schedules => s = p
    /\ p \in Callers => PoolOpen(s)
    /\ stage' = [stage EXCEPT ![f] = "queued"]
    /\ done' = [done EXCEPT ![f] = FALSE]
    /\ taskId' = [taskId EXCEPT ![f] = i]
    /\ pool' = [pool EXCEPT ![f] = s]
    /\ submitMap' = [submitMap EXCEPT ![i] = f]
    /\ submitFutures' = IF p \in Schedules
                        THEN [submitFutures EXCEPT ![p] = @ \cup {f}] ELSE submitFutures
    /\ todo' = [todo EXCEPT ![p] = @ \ {i}]
    /\ UNCHANGED <<unrecorded, lock, pc, cleaning>>

\* it.remove() throws after the pool took the task: the collection cannot be
\* changed, or somebody else changes it.  The exception ends the loop before the
\* put, and the lock is given back.
AdmitUnrecorded(p, i, f, s) ==
    /\ pc[p] = "submit" /\ i \in todo[p]
    /\ p \in Unreliable
    /\ ~Alive(i)
    /\ Fresh(f)
    /\ p \in Schedules => s = p
    /\ p \in Callers => PoolOpen(s)
    /\ stage' = [stage EXCEPT ![f] = "queued"]
    /\ done' = [done EXCEPT ![f] = FALSE]
    /\ taskId' = [taskId EXCEPT ![f] = i]
    /\ pool' = [pool EXCEPT ![f] = s]
    /\ unrecorded' = unrecorded \cup {f}
    /\ lock' = NoOne
    /\ todo' = [todo EXCEPT ![p] = {}]
    /\ Goto(p, IF p \in Schedules THEN "wait" ELSE "idle")
    /\ UNCHANGED <<submitMap, submitFutures, cleaning>>

\* The loop is over, or ended by a rejection that leaves the rest out.
EndLoop(p) ==
    /\ pc[p] = "submit"
    /\ lock' = NoOne
    /\ todo' = [todo EXCEPT ![p] = {}]
    /\ Goto(p, IF p \in Schedules THEN "wait" ELSE "idle")
    /\ UNCHANGED <<submitMap, submitFutures, futures, cleaning>>

-----------------------------------------------------------------------------
(* cleanCompletedFutures: the loop under the lock, then the clear without  *)

\* The round's latch is open: inside the last task, before its future is done,
\* or earlier (see CompleteLatch), so tasks may still run.
WaitCompleted(s) ==
    /\ pc[s] = "wait" /\ lock = NoOne
    /\ lock' = s
    /\ left' = submitFutures[s]
    /\ Goto(s, "clean")
    /\ UNCHANGED <<submitMap, submitFutures, futures, todo, last>>

\* An interrupt ends the wait without cleaning; the futures are kept.
WaitInterrupted(s) ==
    /\ pc[s] = "wait"
    /\ Goto(s, "idle")
    /\ UNCHANGED <<submitMap, submitFutures, futures, lock, todo, cleaning>>

\* The old thread of a schedule that is stopped, and may be started again by
\* now, cleans too.
LastClean(s) ==
    /\ last[s] = "due" /\ lock = NoOne
    /\ lock' = s
    /\ left' = submitFutures[s]
    /\ last' = [last EXCEPT ![s] = "clean"]
    /\ UNCHANGED <<submitMap, submitFutures, futures, pc, todo>>

InLoop(s) == pc[s] = "clean" \/ last[s] = "clean"

\* Mutant of CleanOne: what the map holds now is not looked at again.
CleanOneBlindly(s, f) ==
    /\ InLoop(s) /\ f \in left /\ NoFuture \notin left
    /\ left' = left \ {f}
    /\ submitMap' = [submitMap EXCEPT ![taskId[f]] = NoFuture]
    /\ UNCHANGED <<submitFutures, futures, lock, pc, todo, last>>

\* Another schedule may have put a task of the same id in since, so the map's
\* own future is asked.
CleanOne(s, f) ==
    /\ InLoop(s) /\ f \in left /\ NoFuture \notin left
    /\ left' = left \ {f}
    /\ submitMap' = IF Alive(taskId[f]) THEN submitMap
                    ELSE [submitMap EXCEPT ![taskId[f]] = NoFuture]
    /\ UNCHANGED <<submitFutures, futures, lock, pc, todo, last>>

\* The loop is over or left by an exception, the lock is given back, and the
\* schedule's thread or its old one goes on.
LeaveLoop(s, next, lastNext) ==
    /\ lock' = NoOne /\ left' = {}
    /\ \/ pc[s] = "clean" /\ Goto(s, next) /\ UNCHANGED last
       \/ last[s] = "clean" /\ last' = [last EXCEPT ![s] = lastNext] /\ UNCHANGED pc
    /\ UNCHANGED <<submitMap, submitFutures, futures, todo>>

EndClean(s) == left = {} /\ InLoop(s) /\ LeaveLoop(s, "clear", "clear")

\* The list is broken, or its iterator finds that the other thread clears it:
\* the exception ends the round, or the old thread, without clearing the list.
Broken(s) == NoFuture \in submitFutures[s] \/ "clear" \in {pc[s], last[s]}
CleanFails(s) == Broken(s) /\ InLoop(s) /\ LeaveLoop(s, "idle", "none")

Clear(s) ==
    /\ pc[s] = "clear"
    /\ submitFutures' = [submitFutures EXCEPT ![s] = {}]
    /\ Goto(s, "idle")
    /\ UNCHANGED <<submitMap, futures, lock, todo, cleaning>>

\* The old thread's clear meets the list of the new one, which loses what it
\* holds; a new future that is being added just then may end up behind nulls.
LastClear(s) ==
    /\ last[s] = "clear"
    /\ last' = [last EXCEPT ![s] = "none"]
    /\ \/ submitFutures' = [submitFutures EXCEPT ![s] = {}]
       \/ /\ pc[s] = "submit"
          /\ \E f \in submitFutures[s] \ {NoFuture} :
                /\ submitFutures[s] # {f}
                /\ submitFutures' = [submitFutures EXCEPT ![s] = {NoFuture, f}]
    /\ UNCHANGED <<submitMap, futures, lock, pc, todo, left>>

-----------------------------------------------------------------------------
(* terminate and waitShutDown                                              *)

\* shutdown: no more tasks, those in the pool go on.
Shutdown(s) ==
    /\ pc[s] = "idle"
    /\ Goto(s, "closing")
    /\ UNCHANGED <<submitMap, submitFutures, futures, lock, todo, cleaning>>

Started(s) == {f \in submitFutures[s] \ {NoFuture} : stage[f] = "running"}

Cancel(fs) == done' = [f \in Futures |-> done[f] \/ f \in fs]

\* STOPPING is seen: futures whose task has started are cancelled, which makes
\* them done while the task may go on.
CancelTasks(s) ==
    /\ pc[s] = "closing" /\ NoFuture \notin submitFutures[s]
    /\ Cancel(Started(s))
    /\ Goto(s, "cancelled")
    /\ UNCHANGED <<submitMap, submitFutures, stage, taskId, pool, unrecorded, lock, todo, cleaning>>

\* The loop over the list throws: the thread ends before shutdownNow.
CancelFails(s) ==
    /\ pc[s] = "closing" /\ Broken(s)
    /\ \E fs \in SUBSET Started(s) : Cancel(fs)
    /\ Goto(s, "died")
    /\ UNCHANGED <<submitMap, submitFutures, stage, taskId, pool, unrecorded, lock, todo, cleaning>>

InPool(s, where) == {f \in Futures : pool[f] = s /\ stage[f] = where}

\* shutdownNow empties the queue; the futures in it will never be done.
ShutdownNow(s) ==
    /\ pc[s] = "cancelled"
    /\ stage' = [f \in Futures |->
                   IF f \in InPool(s, "queued") THEN "dropped" ELSE stage[f]]
    /\ Goto(s, "stopping")
    /\ UNCHANGED <<submitMap, submitFutures, done, taskId, pool, unrecorded, lock, todo, cleaning>>

PoolTerminated(s) == InPool(s, "queued") \cup InPool(s, "running") = {}

\* STOPPED is visible, by getState or the thread itself, and the last cleaning
\* is still to come.  Bound: one old thread at a time.
BecomeStopped(s) ==
    /\ pc[s] \in {"closing", "stopping"} /\ last[s] = "none"
    /\ last' = [last EXCEPT ![s] = "due"]
    /\ Goto(s, "stopped")
    /\ UNCHANGED <<submitMap, submitFutures, futures, lock, todo, left>>

\* Mutant of AwaitTermination: its result is not looked at.
AwaitTerminationBriefly(s) == BecomeStopped(s)

AwaitTermination(s) == PoolTerminated(s) /\ BecomeStopped(s)

\* Only getState can show STOPPED when the thread died on the way.
GetState(s) ==
    /\ pc[s] = "died" /\ PoolTerminated(s)
    /\ Goto(s, "stopped")
    /\ UNCHANGED <<submitMap, submitFutures, futures, lock, todo, cleaning>>

\* scheduleStart with a new pool; the last cleaning may still be to come.
Restart(s) ==
    /\ pc[s] = "stopped"
    /\ Goto(s, "idle")
    /\ UNCHANGED <<submitMap, submitFutures, futures, lock, todo, cleaning>>

-----------------------------------------------------------------------------
(* The workers: FutureTask.run of a TimedFuture                            *)

StartTask(f) ==
    /\ stage[f] = "queued"
    /\ stage' = [stage EXCEPT ![f] = "running"]
    /\ UNCHANGED <<submitMap, submitFutures, done, taskId, pool, unrecorded, lock, pc, todo,
                   cleaning>>

EndTask(f) ==
    /\ stage[f] = "running"
    /\ stage' = [stage EXCEPT ![f] = "ended"]
    /\ done' = [done EXCEPT ![f] = TRUE]
    /\ unrecorded' = unrecorded \ {f}
    /\ UNCHANGED <<submitMap, submitFutures, taskId, pool, lock, pc, todo, cleaning>>

-----------------------------------------------------------------------------
Submit(p) ==
    \/ \E ids \in SUBSET Ids \ {{}} : Begin(p, ids)
    \/ \E i \in Ids : Skip(p, i)
    \/ \E i \in Ids, f \in Futures, s \in Schedules :
          Admit(p, i, f, s) \/ AdmitUnrecorded(p, i, f, s)
    \/ EndLoop(p)

Clean(s) ==
    \/ WaitCompleted(s) \/ WaitInterrupted(s) \/ LastClean(s)
    \/ \E f \in Futures : CleanOne(s, f)
    \/ EndClean(s) \/ CleanFails(s) \/ Clear(s) \/ LastClear(s)

Terminate(s) ==
    \/ Shutdown(s) \/ CancelTasks(s) \/ CancelFails(s) \/ ShutdownNow(s)
    \/ AwaitTermination(s) \/ GetState(s) \/ Restart(s)

Next ==
    \/ \E p \in Submitters : Submit(p)
    \/ \E s \in Schedules : Clean(s) \/ Terminate(s)
    \/ \E f \in Futures : StartTask(f) \/ EndTask(f)

Spec == Init /\ [][Next]_vars

-----------------------------------------------------------------------------
TypeOK ==
    /\ submitMap \in [Ids -> Futures \cup {NoFuture}]
    /\ submitFutures \in [Schedules -> SUBSET (Futures \cup {NoFuture})]
    /\ stage \in [Futures -> {"ended", "queued", "running", "dropped"}]
    /\ done \in [Futures -> BOOLEAN]
    /\ taskId \in [Futures -> Ids]
    /\ pool \in [Futures -> Schedules]
    /\ unrecorded \subseteq Futures
    /\ lock \in Submitters \cup {NoOne}
    /\ pc \in [Submitters -> {"idle", "submit", "wait", "clean", "clear", "closing",
                              "cancelled", "stopping", "died", "stopped"}]
    /\ todo \in [Submitters -> SUBSET Ids]
    /\ left \in SUBSET (Futures \cup {NoFuture})
    /\ last \in [Schedules -> {"none", "due", "clean", "clear"}]

\* Whatever schedules and callers submit, and whoever cleans the map when, no
\* two tasks with one id are in the pools together, waiting or executing,
\* unless one was cancelled and does not answer, or was handed over by a loop
\* that failed before it could put it into the map.
OneTaskPerId ==
    \A f, g \in Futures :
        /\ stage[f] \in {"queued", "running"} /\ stage[g] \in {"queued", "running"}
        /\ taskId[f] = taskId[g]
        /\ ~done[f] /\ ~done[g]
        /\ f \notin unrecorded /\ g \notin unrecorded
        => f = g

\* A schedule that terminated holds no id any more but those of tasks that
\* were dropped from its queue, whatever its list of futures went through.
StoppedHoldsNoId ==
    \A s \in Schedules, i \in Ids :
        pc[s] = "stopped" /\ Alive(i) /\ pool[submitMap[i]] = s
            => stage[submitMap[i]] = "dropped"

\* A task is left out because, as the warning says, a task with its id is still
\* alive: it is in a pool's queue or executing.
SkippedForTheLiving ==
    \A p \in Submitters : pc[p] = "submit" =>
        \A i \in todo[p] : Alive(i) => stage[submitMap[i]] \in {"queued", "running"}
=============================================================================
