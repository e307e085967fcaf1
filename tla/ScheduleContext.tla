-------------------------- MODULE ScheduleContext --------------------------
(***************************************************************************)
(* The life of one schedule: ScheduleContext with its ScheduleThread, its  *)
(* pool, and the requests start, stop, execute-now and query-state.        *)
(*                                                                         *)
(* Requests and switchState synchronize on the context; everything the     *)
(* schedule's thread does between two such sections interleaves with them, *)
(* so each of its reads and writes of shared fields is an action.  A round *)
(* of tasks is one unit of work in the pool, and a thread waiting for its  *)
(* round is released when that unit is done, or is at work (CompleteLatch  *)
(* has the detail: its LatchFollowsWork is what is used here).             *)
(***************************************************************************)
EXTENDS FiniteSets

CONSTANTS Threads,     \* ScheduleThread objects, reused once they ended
          Slots,       \* bound: rounds whose tasks can be in the pool together
          NoBatch,     \* the thread waits for no round (null or empty)
          NoThread,    \* scheduleThread before the first start
          Configs      \* configurations of the schedule to consider

Kinds == {"cron", "fixedRate", "fixedDelay", "none"}

ConfigType == [kind : Kinds,             \* the first that is set, in this order
               cronEnds : BOOLEAN,       \* the cron expression has a last date
               execOnLoad : BOOLEAN,
               initialDelay : BOOLEAN,   \* an initialDelay is set
               deadTime : BOOLEAN,       \* a deadTime is set
               ignoreExec : BOOLEAN]     \* ignoreExecRequestWhenRunning

ASSUME LifecycleAssumption ==
    /\ Configs \subseteq ConfigType
    /\ NoBatch \notin Slots
    /\ NoThread \notin Threads

VARIABLES
    state, isFirstRun, nextTimeHasSated, scheduleThread,
    nextTime,      \* 0 is "none", a time that has come "due", one to come "later"
    pool,          \* the current TimedExecutorPool
    work,          \* the rounds' tasks in the pool
    pc,            \* where each ScheduleThread is
    interrupted,   \* its interrupt flag
    cur,           \* the round it is waiting for
    raised,        \* what runSchedul is going to throw after its finally block
    closing,       \* waitShutDown's local isStopping
    expired,       \* deadTime has passed
    cronOver,      \* getTimeAfter has no time left to return
    conf,          \* the schedule's configuration
    booking        \* an exec request holds the lock and has booked, but not
                   \* yet written nextTime

context == <<state, isFirstRun, nextTime, nextTimeHasSated, scheduleThread>>
tasks == <<pool, work>>
locals == <<interrupted, cur, raised, closing>>
environment == <<expired, cronOver, conf, booking>>
vars == <<context, tasks, pc, locals, environment>>

Steps == {"dead", "top", "begin", "delay", "run", "create", "calc", "set", "wait",
          "after", "sleepy", "sleeping", "exit", "shutdown", "closeCheck",
          "closeAwait", "terminated", "reset"}

Alive == {th \in Threads : pc[th] # "dead"}

\* Those with a state still to write.
Working == {th \in Threads : pc[th] \notin {"dead", "reset"}}

\* Inside terminate(), up to the write of STOPPED.
ClosingSteps == {"shutdown", "closeCheck", "closeAwait", "terminated"}

Live(s) == work[s] \in {"queued", "running"}

\* cron and fixedRate compute the next time before they wait for the round.
CalcFirst == conf.kind \in {"cron", "fixedRate"}

\* synchronized (ScheduleContext.this): every such section but the booking is
\* one step.
LockFree == ~booking

Goto(th, step) == pc' = [pc EXCEPT ![th] = step]
SetInterrupt(th, b) == interrupted' = [interrupted EXCEPT ![th] = b]

\* The thread no longer waits for its round; a finished one is forgotten.
Leave(th) ==
    /\ cur' = [cur EXCEPT ![th] = NoBatch]
    /\ work' = [s \in Slots |->
                  IF s = cur[th] /\ ~Live(s) THEN "free" ELSE work[s]]

Init ==
    /\ state = "INITED" /\ isFirstRun = TRUE /\ nextTimeHasSated = FALSE
    /\ nextTime = "none" /\ scheduleThread = NoThread
    /\ pool = "running"
    /\ work = [s \in Slots |-> "free"]
    /\ pc = [th \in Threads |-> "dead"]
    /\ interrupted = [th \in Threads |-> FALSE]
    /\ cur = [th \in Threads |-> NoBatch]
    /\ raised = [th \in Threads |-> "none"]
    /\ closing = [th \in Threads |-> FALSE]
    /\ expired = FALSE /\ cronOver = FALSE
    /\ conf \in Configs
    /\ booking = FALSE

-----------------------------------------------------------------------------
(* Requests, each synchronized on the context                              *)

\* Mutant of ScheduleStart: the pool is not refreshed.
ScheduleStartOldPool(th) ==
    /\ LockFree
    /\ state \in {"INITED", "STOPPED"}
    /\ pc[th] = "dead"
    /\ scheduleThread' = th
    /\ Goto(th, "top")
    /\ UNCHANGED <<state, isFirstRun, nextTime, nextTimeHasSated, tasks, locals, environment>>

\* Mutant of ScheduleStart: the field keeps the first thread.
ScheduleStartUnrecorded(th) ==
    /\ LockFree
    /\ state \in {"INITED", "STOPPED"}
    /\ pc[th] = "dead"
    /\ pool' = IF pool = "terminated" THEN "running" ELSE pool
    /\ scheduleThread' = IF scheduleThread = NoThread THEN th ELSE scheduleThread
    /\ Goto(th, "top")
    /\ UNCHANGED <<state, isFirstRun, nextTime, nextTimeHasSated, work, locals, environment>>

\* scheduleStart accepts INITED and STOPPED, whatever threads there are, and
\* does not change the state.
ScheduleStart(th) ==
    /\ LockFree
    /\ state \in {"INITED", "STOPPED"}
    /\ pc[th] = "dead"
    /\ pool' = IF pool = "terminated" THEN "running" ELSE pool
    /\ scheduleThread' = th
    /\ Goto(th, "top")
    /\ UNCHANGED <<state, isFirstRun, nextTime, nextTimeHasSated, work, locals, environment>>

\* Interrupting a thread that ended, or none, has no effect.
InterruptSchedule ==
    interrupted' = [th \in Threads |->
                      interrupted[th] \/ (th = scheduleThread /\ th \in Alive)]

ScheduleStop ==
    /\ LockFree
    /\ state \in {"RUNNING", "SLEEPING"}
    /\ InterruptSchedule
    /\ IF pool = "terminated"
       THEN state' = "STOPPED" /\ isFirstRun' = TRUE
       ELSE state' = "STOPPING" /\ UNCHANGED isFirstRun
    /\ UNCHANGED <<nextTime, nextTimeHasSated, scheduleThread, tasks, pc, cur, raised,
                   closing, environment>>

\* scheduleRun while SLEEPING wakes the thread.
ExecWhenSleeping ==
    /\ LockFree
    /\ state = "SLEEPING"
    /\ InterruptSchedule
    /\ UNCHANGED <<context, tasks, pc, cur, raised, closing, environment>>

\* scheduleRun while RUNNING books the next round; the thread looks at the
\* booking and at nextTime without the lock.
BookExec ==
    /\ LockFree
    /\ state = "RUNNING"
    /\ ~conf.ignoreExec
    /\ ~nextTimeHasSated
    /\ nextTimeHasSated' = TRUE
    /\ booking' = TRUE
    /\ UNCHANGED <<state, isFirstRun, nextTime, scheduleThread, tasks, pc, locals, expired,
                   cronOver, conf>>

\* The booked time is now; the result of the message being dropped, the
\* request goes on into the case of SLEEPING.
WriteBooking ==
    /\ booking
    /\ booking' = FALSE
    /\ nextTime' = "due"
    /\ InterruptSchedule
    /\ UNCHANGED <<state, isFirstRun, nextTimeHasSated, scheduleThread, tasks, pc, cur, raised,
                   closing, expired, cronOver, conf>>

\* Mutant of GetState: the pool is not asked.
GetStateAtOnce ==
    /\ LockFree
    /\ state = "STOPPING"
    /\ state' = "STOPPED"
    /\ isFirstRun' = TRUE
    /\ UNCHANGED <<nextTime, nextTimeHasSated, scheduleThread, tasks, pc, locals, environment>>

\* getState, called by every page refresh, promotes STOPPING.
GetState ==
    /\ LockFree
    /\ state = "STOPPING" /\ pool = "terminated"
    /\ state' = "STOPPED"
    /\ isFirstRun' = TRUE
    /\ UNCHANGED <<nextTime, nextTimeHasSated, scheduleThread, tasks, pc, locals, environment>>

-----------------------------------------------------------------------------
(* ScheduleThread.run, the loop up to the round                            *)

CheckStopping(th) ==
    /\ LockFree
    /\ pc[th] = "top"
    /\ Goto(th, IF state = "STOPPING" THEN "shutdown" ELSE "begin")
    /\ UNCHANGED <<context, tasks, locals, environment>>

DeadTimeOver == conf.deadTime /\ expired

DeadTime(th) ==
    /\ pc[th] = "begin" /\ DeadTimeOver
    /\ Goto(th, "shutdown")
    /\ UNCHANGED <<context, tasks, locals, environment>>

\* Mutant of FirstPass: it computes no next time.
FirstPassIdle(th) ==
    /\ pc[th] = "begin" /\ ~DeadTimeOver
    /\ isFirstRun
    /\ isFirstRun' = FALSE
    /\ Goto(th, IF conf.execOnLoad THEN "run" ELSE IF conf.initialDelay THEN "delay" ELSE "after")
    /\ UNCHANGED <<state, nextTime, nextTimeHasSated, scheduleThread, tasks, locals, environment>>

\* The first pass runs at once, after a delay, or only computes the next time.
FirstPass(th) ==
    /\ pc[th] = "begin" /\ ~DeadTimeOver
    /\ isFirstRun
    /\ isFirstRun' = FALSE
    /\ Goto(th, IF conf.execOnLoad THEN "run"
                ELSE IF conf.initialDelay THEN "delay"
                ELSE IF CalcFirst THEN "calc" ELSE "wait")
    /\ UNCHANGED <<state, nextTime, nextTimeHasSated, scheduleThread, tasks, locals, environment>>

LaterPass(th) ==
    /\ pc[th] = "begin" /\ ~DeadTimeOver
    /\ ~isFirstRun
    /\ Goto(th, "run")
    /\ UNCHANGED <<context, tasks, locals, environment>>

\* sleep(initialDelay); an interrupt is kept for the end of the pass.
InitialDelay(th) ==
    /\ pc[th] = "delay"
    /\ Goto(th, IF interrupted[th] THEN "after" ELSE "run")
    /\ UNCHANGED <<context, tasks, locals, environment>>

-----------------------------------------------------------------------------
(* runSchedul                                                              *)

SwitchRunning(th) ==
    /\ LockFree
    /\ pc[th] = "run"
    /\ state' = "RUNNING"
    /\ Goto(th, "create")
    /\ UNCHANGED <<isFirstRun, nextTime, nextTimeHasSated, scheduleThread, tasks, locals,
                   environment>>

AfterCreate == IF CalcFirst THEN "calc" ELSE "wait"

\* newSchedulTasks has a task and the pool takes it.
CreateTasks(th, s) ==
    /\ pc[th] = "create"
    /\ pool = "running"
    /\ work[s] = "free"
    /\ work' = [work EXCEPT ![s] = "queued"]
    /\ cur' = [cur EXCEPT ![th] = s]
    /\ Goto(th, AfterCreate)
    /\ UNCHANGED <<context, pool, interrupted, raised, closing, environment>>

\* No task: there is none, all are skipped or rejected, or newSchedulTasks
\* throws an Exception, which is only logged.
CreateNothing(th) ==
    /\ pc[th] = "create"
    /\ Goto(th, AfterCreate)
    /\ UNCHANGED <<context, tasks, locals, environment>>

\* newSchedulTasks answers an interrupt with InterruptedException.
CreateInterrupted(th) ==
    /\ pc[th] = "create" /\ interrupted[th]
    /\ SetInterrupt(th, FALSE)
    /\ raised' = [raised EXCEPT ![th] = "interrupted"]
    /\ Goto(th, AfterCreate)
    /\ UNCHANGED <<context, tasks, cur, closing, environment>>

\* newSchedulTasks throws an Error; the finally block still waits.
CreateError(th) ==
    /\ pc[th] = "create"
    /\ raised' = [raised EXCEPT ![th] = "error"]
    /\ Goto(th, AfterCreate)
    /\ UNCHANGED <<context, tasks, interrupted, cur, closing, environment>>

\* onComplete of a round that is already over throws an Error: the rest of the
\* finally block is skipped.
CompleteError(th) ==
    /\ pc[th] = "create"
    /\ raised' = [raised EXCEPT ![th] = "error"]
    /\ Goto(th, "after")
    /\ UNCHANGED <<context, tasks, interrupted, cur, closing, environment>>

-----------------------------------------------------------------------------
(* caculateNextTime and waitTaskCompleted                                  *)

\* Mutant of TakeRequest: the booking is looked at, not taken.
LookAtRequest(th) ==
    /\ pc[th] = "calc"
    /\ Goto(th, IF ~nextTimeHasSated THEN "set" ELSE IF CalcFirst THEN "wait" ELSE "after")
    /\ UNCHANGED <<context, tasks, locals, environment>>

\* nextTimeHasSated.compareAndSet(true, false): a booked time is kept.
TakeRequest(th) ==
    /\ pc[th] = "calc"
    /\ nextTimeHasSated' = FALSE
    /\ Goto(th, IF ~nextTimeHasSated THEN "set" ELSE IF CalcFirst THEN "wait" ELSE "after")
    /\ UNCHANGED <<state, isFirstRun, nextTime, scheduleThread, tasks, locals, environment>>

\* Mutant of SetNextTime: no next time is written as null.
SetNextTimeNull(th) ==
    /\ pc[th] = "set"
    /\ ~(conf.kind = "cron" /\ cronOver)
    /\ nextTime' = IF conf.kind = "none" THEN "null" ELSE "later"
    /\ Goto(th, IF CalcFirst THEN "wait" ELSE "after")
    /\ UNCHANGED <<state, isFirstRun, nextTimeHasSated, scheduleThread, tasks, locals,
                   environment>>

\* The write of nextTime; a time computed from lastTime may be past at once.
SetNextTime(th) ==
    /\ pc[th] = "set"
    /\ ~(conf.kind = "cron" /\ cronOver)
    /\ nextTime' = IF conf.kind = "none" THEN "none" ELSE "later"
    /\ Goto(th, IF CalcFirst THEN "wait" ELSE "after")
    /\ UNCHANGED <<state, isFirstRun, nextTimeHasSated, scheduleThread, tasks, locals,
                   environment>>

\* getTimeAfter returns null: the NullPointerException replaces what the try
\* block raised, the round is not waited for, and nextTime stays as it was.
CronExhausted(th) ==
    /\ pc[th] = "set"
    /\ conf.kind = "cron" /\ cronOver
    /\ raised' = [raised EXCEPT ![th] = "none"]
    /\ Leave(th)
    /\ Goto(th, "after")
    /\ UNCHANGED <<context, pool, interrupted, closing, environment>>

AfterWait == IF CalcFirst THEN "after" ELSE IF conf.kind = "fixedDelay" THEN "calc" ELSE "set"

\* The latch of the round is open, or there is nothing to wait for.
WaitCompleted(th) ==
    /\ pc[th] = "wait"
    /\ cur[th] # NoBatch => work[cur[th]] = "done" /\ ~interrupted[th]
    /\ Leave(th)
    /\ Goto(th, AfterWait)
    /\ UNCHANGED <<context, pool, interrupted, raised, closing, environment>>

\* A task that outran its count has opened the latch early: some tasks of the
\* round have been executed, the others go on.
WaitOutrun(th) ==
    /\ pc[th] = "wait"
    /\ cur[th] # NoBatch /\ ~interrupted[th]
    /\ work[cur[th]] = "running"
    /\ Leave(th)
    /\ Goto(th, AfterWait)
    /\ UNCHANGED <<context, pool, interrupted, raised, closing, environment>>


\* An interrupt ends the wait and is kept; the round's tasks go on.
WaitInterrupted(th) ==
    /\ pc[th] = "wait"
    /\ cur[th] # NoBatch /\ interrupted[th]
    /\ Leave(th)
    /\ Goto(th, AfterWait)
    /\ UNCHANGED <<context, pool, interrupted, raised, closing, environment>>

-----------------------------------------------------------------------------
(* ScheduleThread.run, the end of a pass                                   *)

\* Any Throwable that is no Exception terminates the schedule.
TerminateOnError(th) ==
    /\ pc[th] = "after" /\ raised[th] = "error"
    /\ raised' = [raised EXCEPT ![th] = "none"]
    /\ Goto(th, "shutdown")
    /\ UNCHANGED <<context, tasks, interrupted, cur, closing, environment>>

\* Thread.interrupted() reads and clears the flag.
EndOfPass(th) ==
    /\ pc[th] = "after" /\ raised[th] # "error"
    /\ nextTime # "none"
    /\ Goto(th, IF nextTime = "later" /\ ~interrupted[th] /\ raised[th] = "none"
                THEN "sleepy" ELSE "top")
    /\ SetInterrupt(th, FALSE)
    /\ raised' = [raised EXCEPT ![th] = "none"]
    /\ UNCHANGED <<context, tasks, cur, closing, environment>>

LastPass(th) ==
    /\ pc[th] = "after" /\ raised[th] # "error"
    /\ nextTime = "none"
    /\ Goto(th, "exit")
    /\ UNCHANGED <<context, tasks, locals, environment>>

SwitchSleeping(th) ==
    /\ LockFree
    /\ pc[th] = "sleepy"
    /\ state' = "SLEEPING"
    /\ Goto(th, "sleeping")
    /\ UNCHANGED <<isFirstRun, nextTime, nextTimeHasSated, scheduleThread, tasks, locals,
                   environment>>

\* Mutant of WakeUp: the wait has no time limit.
WakeUpByInterrupt(th) ==
    /\ pc[th] = "sleeping" /\ interrupted[th]
    /\ SetInterrupt(th, FALSE)
    /\ Goto(th, "top")
    /\ UNCHANGED <<context, tasks, cur, raised, closing, environment>>

\* wait(waitTime) ends with the time computed before, spuriously, or by an
\* interrupt, which it clears.
WakeUp(th) ==
    /\ pc[th] = "sleeping"
    /\ SetInterrupt(th, FALSE)
    /\ Goto(th, "top")
    /\ UNCHANGED <<context, tasks, cur, raised, closing, environment>>

Forget(th) ==
    /\ SetInterrupt(th, FALSE)
    /\ cur' = [cur EXCEPT ![th] = NoBatch]
    /\ raised' = [raised EXCEPT ![th] = "none"]
    /\ closing' = [closing EXCEPT ![th] = FALSE]

\* Mutant of SwitchInited: the thread ends without switchState.
EndWithoutSwitch(th) ==
    /\ pc[th] = "exit"
    /\ Forget(th)
    /\ Goto(th, "dead")
    /\ UNCHANGED <<context, tasks, environment>>

\* The thread ends and the pool stays.
SwitchInited(th) ==
    /\ LockFree
    /\ pc[th] = "exit"
    /\ state' = "INITED"
    /\ Forget(th)
    /\ Goto(th, "dead")
    /\ UNCHANGED <<isFirstRun, nextTime, nextTimeHasSated, scheduleThread, tasks, environment>>

-----------------------------------------------------------------------------
(* terminate and waitShutDown                                              *)

\* Mutant of Shutdown: the pool is not shut down.
ShutdownForgotten(th) ==
    /\ pc[th] = "shutdown"
    /\ Goto(th, "closeCheck")
    /\ UNCHANGED <<context, tasks, locals, environment>>

Shutdown(th) ==
    /\ pc[th] = "shutdown"
    /\ pool' = IF pool = "running" THEN "shutdown" ELSE pool
    /\ Goto(th, "closeCheck")
    /\ UNCHANGED <<context, work, locals, environment>>

\* Once STOPPING is seen, running tasks are cancelled, which they may answer
\* or not, and shutdownNow drops those that did not start.
CancelTasks(th) ==
    /\ LockFree
    /\ pc[th] = "closeCheck"
    /\ IF state = "STOPPING" /\ ~closing[th]
       THEN /\ closing' = [closing EXCEPT ![th] = TRUE]
            /\ pool' = IF pool = "running" THEN "shutdown" ELSE pool
            /\ work' = [s \in Slots |->
                          IF work[s] # "queued" THEN work[s]
                          ELSE IF \E u \in Threads : cur[u] = s THEN "lost" ELSE "free"]
       ELSE UNCHANGED <<closing, pool, work>>
    /\ Goto(th, "closeAwait")
    /\ UNCHANGED <<context, interrupted, cur, raised, environment>>

\* handleCancel throws an Error, or the list of futures changes under the loop:
\* the thread dies before shutdownNow, with nothing dropped.
CancelFails(th) ==
    /\ LockFree
    /\ pc[th] = "closeCheck"
    /\ state = "STOPPING" /\ ~closing[th]
    /\ (\E s \in Slots : work[s] = "running") \/ (\E u \in Working : u # th)
    /\ Forget(th)
    /\ Goto(th, "dead")
    /\ UNCHANGED <<context, tasks, environment>>

\* Mutant of AwaitTermination: its result is not looked at.
AwaitTerminationBriefly(th) ==
    /\ pc[th] = "closeAwait"
    /\ Goto(th, "terminated")
    /\ UNCHANGED <<context, tasks, locals, environment>>

AwaitTermination(th) ==
    /\ pc[th] = "closeAwait"
    /\ pool = "terminated"
    /\ Goto(th, "terminated")
    /\ UNCHANGED <<context, tasks, locals, environment>>

\* An interrupt, or a day without termination: look at the state again.  A
\* pool that is terminated is noticed before an interrupt is.
AwaitAgain(th) ==
    /\ pc[th] = "closeAwait"
    /\ pool # "terminated"
    /\ SetInterrupt(th, FALSE)
    /\ Goto(th, "closeCheck")
    /\ UNCHANGED <<context, tasks, cur, raised, closing, environment>>

\* onTerminate throws an Error: the thread dies before switchState(STOPPED).
TerminateError(th) ==
    /\ pc[th] = "terminated"
    /\ Forget(th)
    /\ Goto(th, "dead")
    /\ UNCHANGED <<context, tasks, environment>>

\* onTerminate returns or throws an Exception, then switchState(STOPPED).
SwitchStopped(th) ==
    /\ LockFree
    /\ pc[th] = "terminated"
    /\ state' = "STOPPED"
    /\ Goto(th, "reset")
    /\ UNCHANGED <<isFirstRun, nextTime, nextTimeHasSated, scheduleThread, tasks, locals,
                   environment>>

\* Mutant of ResetFirstRun: isFirstRun is not set.
ResetFirstRunForgotten(th) ==
    /\ pc[th] = "reset"
    /\ Forget(th)
    /\ Goto(th, "dead")
    /\ UNCHANGED <<context, tasks, environment>>

\* isFirstRun is set outside the lock, after the state.
ResetFirstRun(th) ==
    /\ pc[th] = "reset"
    /\ isFirstRun' = TRUE
    /\ Forget(th)
    /\ Goto(th, "dead")
    /\ UNCHANGED <<state, nextTime, nextTimeHasSated, scheduleThread, tasks, environment>>

-----------------------------------------------------------------------------
(* The pool and the clock                                                  *)

StartTask(s) ==
    /\ work[s] = "queued"
    /\ work' = [work EXCEPT ![s] = "running"]
    /\ UNCHANGED <<context, pool, pc, locals, environment>>

FinishTask(s) ==
    /\ work[s] = "running"
    /\ work' = [work EXCEPT ![s] = IF \E th \in Threads : cur[th] = s THEN "done" ELSE "free"]
    /\ UNCHANGED <<context, pool, pc, locals, environment>>

\* The round's last worker gets an Error from onComplete: the tasks are over
\* and the latch stays closed.
LastTaskFails(s) ==
    /\ work[s] = "running"
    /\ work' = [work EXCEPT ![s] = IF \E th \in Threads : cur[th] = s THEN "failed" ELSE "free"]
    /\ UNCHANGED <<context, pool, pc, locals, environment>>

PoolTerminates ==
    /\ pool = "shutdown"
    /\ \A s \in Slots : ~Live(s)
    /\ pool' = "terminated"
    /\ UNCHANGED <<context, work, pc, locals, environment>>

NextTimeComes ==
    /\ nextTime = "later"
    /\ nextTime' = "due"
    /\ UNCHANGED <<state, isFirstRun, nextTimeHasSated, scheduleThread, tasks, pc, locals,
                   environment>>

DeadTimePasses ==
    /\ conf.deadTime /\ ~expired
    /\ expired' = TRUE
    /\ UNCHANGED <<context, tasks, pc, locals, cronOver, conf, booking>>

CronEnds ==
    /\ conf.cronEnds /\ ~cronOver
    /\ cronOver' = TRUE
    /\ UNCHANGED <<context, tasks, pc, locals, expired, conf, booking>>

-----------------------------------------------------------------------------
Request == ScheduleStop \/ ExecWhenSleeping \/ BookExec \/ WriteBooking \/ GetState

Pass(th) ==
    \/ CheckStopping(th) \/ DeadTime(th) \/ FirstPass(th) \/ LaterPass(th) \/ InitialDelay(th)
    \/ SwitchRunning(th)
    \/ \E s \in Slots : CreateTasks(th, s)
    \/ CreateNothing(th) \/ CreateInterrupted(th)
    \/ CreateError(th) \/ CompleteError(th)
    \/ TakeRequest(th) \/ SetNextTime(th) \/ CronExhausted(th)
    \/ WaitCompleted(th) \/ WaitOutrun(th) \/ WaitInterrupted(th)
    \/ TerminateOnError(th) \/ EndOfPass(th) \/ LastPass(th)
    \/ SwitchSleeping(th) \/ WakeUp(th) \/ SwitchInited(th)

Close(th) ==
    \/ Shutdown(th) \/ CancelTasks(th) \/ CancelFails(th) \/ AwaitTermination(th)
    \/ TerminateError(th) \/ SwitchStopped(th) \/ ResetFirstRun(th)

PoolStep ==
    \/ PoolTerminates
    \/ \E s \in Slots : StartTask(s) \/ FinishTask(s) \/ LastTaskFails(s)

Clock == NextTimeComes \/ DeadTimePasses \/ CronEnds

Next ==
    \/ Request
    \/ \E th \in Threads : ScheduleStart(th) \/ Pass(th) \/ Close(th) \/ AwaitAgain(th)
    \/ PoolStep
    \/ Clock

Spec == Init /\ [][Next]_vars

\* Threads are scheduled, timed waits end, user code returns, the pool runs its
\* tasks and a request that books writes the time and gives the lock back.
\* Requests, dead times and the day's timeout owe nothing.
Fairness ==
    /\ \A th \in Threads : WF_vars(Pass(th) \/ Close(th))
    /\ \A s \in Slots : WF_vars(StartTask(s) \/ FinishTask(s))
    /\ WF_vars(PoolTerminates) /\ WF_vars(WriteBooking)

\* A schedule that is only started after the thread before has written its
\* last state: STOPPED or INITED, and not the STOPPED that getState promotes.
SerialStart == Working # {} => Working' \subseteq Working
SerialSpec == Init /\ [][Next /\ SerialStart]_vars
FairSerialSpec == SerialSpec /\ Fairness

-----------------------------------------------------------------------------
TypeOK ==
    /\ state \in {"INITED", "RUNNING", "SLEEPING", "STOPPING", "STOPPED"}
    /\ isFirstRun \in BOOLEAN /\ nextTimeHasSated \in BOOLEAN
    /\ nextTime \in {"none", "due", "later"}
    /\ scheduleThread \in Threads \cup {NoThread}
    /\ pool \in {"running", "shutdown", "terminated"}
    /\ work \in [Slots -> {"free", "queued", "running", "done", "failed", "lost"}]
    /\ pc \in [Threads -> Steps]
    /\ interrupted \in [Threads -> BOOLEAN]
    /\ cur \in [Threads -> Slots \cup {NoBatch}]
    /\ raised \in [Threads -> {"none", "interrupted", "error"}]
    /\ closing \in [Threads -> BOOLEAN]
    /\ expired \in BOOLEAN /\ cronOver \in BOOLEAN
    /\ conf \in Configs /\ booking \in BOOLEAN

\* However starts, stops, passes and handlers' Errors interleave, there is a way
\* out of a state that refuses a start: a thread that is still in its loop, or a
\* pool that is shut down, so that once its tasks are over STOPPED is written by
\* the thread, or, where an Error has killed it on the way, by the next stop or
\* query of the state.
NeverWedged ==
    state \in {"RUNNING", "SLEEPING", "STOPPING"} =>
        \/ \E th \in Working : pc[th] \notin ClosingSteps \ {"shutdown"}
        \/ pool # "running"

\* A schedule that is started only when none of its threads is left never
\* hands a round to a pool that is shut down, where it would be rejected and
\* silently dropped, after any number of stops, dead times and restarts.
SubmitsToLivePool ==
    \A th \in Threads : pc[th] = "create" => pool = "running"

\* STOPPED is not shown while tasks of the schedule are queued or running.
StoppedMeansQuiet ==
    state = "STOPPED" => \A s \in Slots : ~Live(s)

\* A stopped schedule gets a new pool and a first pass from its next start, with
\* two exceptions: between STOPPED and its write of isFirstRun the old thread has
\* left a window in which a start makes a later pass, with a round at once; and
\* a schedule whose dead time is over makes no pass at all.
StoppedMeansFresh ==
    state = "STOPPED" /\ Working = {} =>
        /\ pool = "terminated"
        /\ isFirstRun \/ (\E th \in Threads : pc[th] = "reset") \/ DeadTimeOver

\* A stop reaches the thread wherever it blocks: as long as STOPPING stands, a
\* thread that sleeps or waits for its round has an interrupt pending, so that
\* it comes to its check; no start, error or early wake-up in between has sent
\* the interrupt to another thread or taken it away.
StopReachesThread ==
    state = "STOPPING" =>
        \A th \in Working :
            pc[th] = "sleeping" \/ (pc[th] = "wait" /\ cur[th] # NoBatch) => interrupted[th]

\* The schedule as those see it who look at its state: what the threads, the
\* pool and the requests do together implements the promise.
Life == INSTANCE SchedulePromise WITH
    shown <- state,
    started <- Working # {},
    open <- pool = "running",
    busy <- \E s \in Slots : Live(s)

LifeKept == Life!Spec

\* Waiting for a latch that nobody will open, until an interrupt comes.
Stuck(th) ==
    /\ pc[th] = "wait" /\ ~interrupted[th]
    /\ cur[th] # NoBatch /\ work[cur[th]] = "failed"

\* A schedule keeps going: whatever interrupts it, each of its threads comes
\* to its next round, again and again, or to its end; it hangs nowhere but on
\* the latch that an Error of onComplete in the last worker leaves closed.
KeepsGoing ==
    \A th \in Threads : []<>(pc[th] \in {"run", "dead"} \/ Stuck(th))

\* STOPPED is shown, or will be to the next stop or query: the thread has died
\* of a handler's Error, and its pool has terminated.
StoppedOrLeft == state = "STOPPED" \/ (Working = {} /\ pool = "terminated")


\* A schedule with a period never ends by itself: its thread leaves the loop
\* only if there is no date left, or if a booking that it took before the time
\* was written came before it had ever computed one (see the README).
GoesOnForever ==
    \A th \in Threads :
        pc[th] = "exit" =>
            \/ conf.kind = "none" \/ cronOver
            \/ ~conf.ignoreExec /\ (conf.execOnLoad \/ conf.initialDelay)

\* An exec that was booked while RUNNING is taken up by the next computation of
\* the thread, or its thread ends or hangs on a closed latch first, whatever
\* stops and errors follow.
BookingTaken ==
    nextTimeHasSated /\ conf.kind # "none" ~>
        ~nextTimeHasSated \/ \A th \in Working : Stuck(th)

\* Once its thread has begun to terminate, the schedule reaches STOPPED, or its
\* pool terminates behind a thread that a handler's Error has killed: no task,
\* interrupt or Error on the way keeps the pool open or STOPPED out of reach.
TerminationEnds ==
    (\E th \in Threads : pc[th] = "shutdown") ~> StoppedOrLeft

\* STOPPING, which the state's comment calls being stopped, leads to STOPPED
\* and to nothing else.
StopIsFinal == [][state = "STOPPING" => state' \in {"STOPPING", "STOPPED"}]_state

\* A schedule that was started is not started a second time.
OneScheduleThread == \A th, u \in Alive : th = u

\* An exec request accepted while RUNNING re-executes after completion.
ReExecAfterCompletion ==
    \A th \in Threads : pc[th] = "create" /\ nextTimeHasSated => \A s \in Slots : ~Live(s)
=============================================================================
