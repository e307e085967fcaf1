--------------------------- MODULE CompleteLatch ---------------------------
(***************************************************************************)
(* One batch of tasks: a round of a schedule (ScheduleThread.runSchedul)   *)
(* or one call of ScheduleContext.submitBatch.  The submitting thread      *)
(* hands the tasks to the pool one by one and the pool's workers execute   *)
(* them; every participant ends with checkComplete, and the one that sees  *)
(* itself last reports the batch (onComplete) and opens the latch.         *)
(*                                                                         *)
(* ScheduleContext.submit first hands the task to the pool and then counts *)
(* it, two steps a worker can run between; the decrement and the read of   *)
(* hasSubmitCompleted in checkComplete are two steps as well.  Every       *)
(* shared access is therefore an action of its own.                        *)
(***************************************************************************)
EXTENDS Integers, FiniteSets

CONSTANTS Tasks,        \* the tasks newSchedulTasks or the caller provides
          Submitter,    \* the thread that submits them
          IsSchedul     \* TRUE: a schedule's round, which waits for the latch

ASSUME BatchAssumption ==
    /\ IsFiniteSet(Tasks)
    /\ Submitter \notin Tasks
    /\ IsSchedul \in BOOLEAN

VARIABLES
    hasSubmitCompleted,  \* CompleteLatch.hasSubmitCompleted
    taskNotCompleted,    \* CompleteLatch.taskNotCompleted
    latch,               \* CompleteLatch.latch, a CountDownLatch(1)
    list,                \* CompleteLatch.list: the tasks whose result it holds
    pc,                  \* where each participant is
    isLast,              \* checkComplete's local isLastTaskComplete
    counted,             \* history: tasks increaseTaskNotCompleted was called for
    calls,               \* history: the calls of onComplete and what they were given
    early                \* history: tasks that called checkComplete before being counted

shared == <<hasSubmitCompleted, taskNotCompleted, latch, list>>
history == <<counted, calls, early>>
vars == <<shared, pc, isLast, history>>

\* The participants of checkComplete: the workers, named by the task they
\* execute, and the submitting thread.
Procs == Tasks \cup {Submitter}

\* Steps of checkComplete, the same for every participant.
CheckSteps == {"check", "flag", "complete", "completing", "countDown"}

SubmitterSteps == {"next", "increase", "submitCompleted", "await",
                   "released", "abandoned", "returned", "failed"} \cup CheckSteps

TaskSteps == {"offered", "skipped", "ignored", "queued", "lost", "executing",
              "record", "done", "failed"} \cup CheckSteps

\* Tasks the pool has taken.
Accepted == {t \in Tasks : pc[t] \notin {"offered", "skipped", "ignored"}}

\* Participants whose decrement of taskNotCompleted is behind them.
Unchecked == {"next", "increase", "submitCompleted", "offered", "skipped",
              "ignored", "queued", "lost", "executing", "check"}
Checked == {p \in Procs : pc[p] \notin Unchecked}

Goto(p, step) == pc' = [pc EXCEPT ![p] = step]

Init ==
    /\ hasSubmitCompleted = FALSE
    /\ taskNotCompleted = 1
    /\ latch = 1
    /\ list = {}
    /\ pc = [p \in Procs |-> IF p = Submitter THEN "next" ELSE "offered"]
    /\ isLast = [p \in Procs |-> FALSE]
    /\ counted = {}
    /\ calls = {}
    /\ early = {}

-----------------------------------------------------------------------------
(* The submitting thread: scheduleWithConflict, scheduleWithNoConflict,    *)
(* submitWithConflict, submitWithNoConflict                                *)

\* isTaskAlive: a task with this id is still running for some schedule, so
\* this one is left out of the batch.
Skip(t) ==
    /\ pc[Submitter] = "next"
    /\ pc[t] = "offered"
    /\ Goto(t, "skipped")
    /\ UNCHANGED <<shared, isLast, history>>

\* submit, first half: the pool takes the task; a worker may start it at once.
Submit(t) ==
    /\ pc[Submitter] = "next"
    /\ pc[t] = "offered"
    /\ pc' = [pc EXCEPT ![t] = "queued", ![Submitter] = "increase"]
    /\ UNCHANGED <<shared, isLast, history>>

\* Mutant of Increase: the task is not counted.
IncreaseForgotten ==
    /\ pc[Submitter] = "increase"
    /\ counted' = Accepted
    /\ Goto(Submitter, "next")
    /\ UNCHANGED <<shared, isLast, calls, early>>

\* submit, second half: the task that was just handed over is counted.
Increase ==
    /\ pc[Submitter] = "increase"
    /\ taskNotCompleted' = taskNotCompleted + 1
    /\ counted' = Accepted
    /\ Goto(Submitter, "next")
    /\ UNCHANGED <<hasSubmitCompleted, latch, list, isLast, calls, early>>

\* Mutant of LeaveLoop: the method returns without its finally block.
LeaveLoopAtOnce ==
    /\ pc[Submitter] = "next"
    /\ pc' = [p \in Procs |->
                IF p = Submitter THEN IF IsSchedul THEN "await" ELSE "returned"
                ELSE IF pc[p] = "offered" THEN "ignored" ELSE pc[p]]
    /\ UNCHANGED <<shared, isLast, history>>

\* The loop is left because every task was dealt with, or early, with what
\* remains ignored: the pool rejects a task (queue full, pool shut down) or
\* newSchedulTasks or the iterator throws.
LeaveLoop ==
    /\ pc[Submitter] = "next"
    /\ pc' = [p \in Procs |->
                IF p = Submitter THEN "submitCompleted"
                ELSE IF pc[p] = "offered" THEN "ignored" ELSE pc[p]]
    /\ UNCHANGED <<shared, isLast, history>>

\* Mutant of SubmitCompleted: the flag stays as it was.
SubmitCompletedForgotten ==
    /\ pc[Submitter] = "submitCompleted"
    /\ Goto(Submitter, "check")
    /\ UNCHANGED <<shared, isLast, history>>

\* The finally block: submitCompleted, then on to checkComplete.
SubmitCompleted ==
    /\ pc[Submitter] = "submitCompleted"
    /\ hasSubmitCompleted' = TRUE
    /\ Goto(Submitter, "check")
    /\ UNCHANGED <<taskNotCompleted, latch, list, isLast, history>>

-----------------------------------------------------------------------------
(* A worker: Task.call                                                     *)

Start(t) ==
    /\ pc[t] = "queued"
    /\ Goto(t, "executing")
    /\ UNCHANGED <<shared, isLast, history>>

\* The task never starts: shutdownNow drops it from the queue, or it is
\* cancelled first.  checkComplete is then never called for it.
Discard(t) ==
    /\ pc[t] = "queued"
    /\ Goto(t, "lost")
    /\ UNCHANGED <<shared, isLast, history>>

\* doCall keeps every Throwable in the result, so a task that runs always
\* adds one, a cancelled one included.
AddResult(t) ==
    /\ pc[t] = "executing"
    /\ list' = list \cup {t}
    /\ Goto(t, "check")
    /\ UNCHANGED <<hasSubmitCompleted, taskNotCompleted, latch, isLast, history>>

Record(t) ==
    /\ pc[t] = "record"
    /\ Goto(t, "done")
    /\ UNCHANGED <<shared, isLast, history>>

-----------------------------------------------------------------------------
(* checkComplete                                                           *)

\* What follows checkComplete: the schedule's thread waits for the latch,
\* submitBatch returns, a worker goes on to the statistics.
AfterCheck(p) ==
    IF p # Submitter THEN "record" ELSE IF IsSchedul THEN "await" ELSE "returned"

\* Mutant of Decrement: the last but one takes itself for the last.
DecrementOffByOne(p) ==
    /\ pc[p] = "check"
    /\ taskNotCompleted' = taskNotCompleted - 1
    /\ isLast' = [isLast EXCEPT ![p] = (taskNotCompleted - 1 <= 1)]
    /\ early' = IF p \in Tasks \ counted THEN early \cup {p} ELSE early
    /\ Goto(p, "flag")
    /\ UNCHANGED <<hasSubmitCompleted, latch, list, counted, calls>>

\* hasTaskCompleted: decrementAndGet() == 0.
Decrement(p) ==
    /\ pc[p] = "check"
    /\ taskNotCompleted' = taskNotCompleted - 1
    /\ isLast' = [isLast EXCEPT ![p] = (taskNotCompleted - 1 = 0)]
    /\ early' = IF p \in Tasks \ counted THEN early \cup {p} ELSE early
    /\ Goto(p, "flag")
    /\ UNCHANGED <<hasSubmitCompleted, latch, list, counted, calls>>

\* Mutants of ReadSubmitted: the result of the decrement is not looked at; the
\* latch is opened without a report.
ReadSubmittedOnly(p) ==
    /\ pc[p] = "flag"
    /\ Goto(p, IF hasSubmitCompleted THEN "complete" ELSE AfterCheck(p))
    /\ UNCHANGED <<shared, isLast, history>>

ReadSubmittedUnreported(p) ==
    /\ pc[p] = "flag"
    /\ Goto(p, IF isLast[p] /\ hasSubmitCompleted THEN "countDown" ELSE AfterCheck(p))
    /\ UNCHANGED <<shared, isLast, history>>

\* hasSubmitCompleted is read after the decrement.
ReadSubmitted(p) ==
    /\ pc[p] = "flag"
    /\ Goto(p, IF isLast[p] /\ hasSubmitCompleted THEN "complete" ELSE AfterCheck(p))
    /\ UNCHANGED <<shared, isLast, history>>

\* onComplete is handed getList(), the list itself and not a copy.
OnComplete(p) ==
    /\ pc[p] = "complete"
    /\ calls' = calls \cup {[by |-> p, results |-> list]}
    /\ Goto(p, "completing")
    /\ UNCHANGED <<shared, isLast, counted, early>>

\* The handler returns; an Exception is caught and logged.
OnCompleteReturns(p) ==
    /\ pc[p] = "completing"
    /\ Goto(p, "countDown")
    /\ UNCHANGED <<shared, isLast, history>>

\* An Error is not caught: the participant leaves without opening the latch.
OnCompleteThrows(p) ==
    /\ pc[p] = "completing"
    /\ Goto(p, "failed")
    /\ UNCHANGED <<shared, isLast, history>>

\* Mutants of CountDown: a latch that counts below zero; none at all.
CountDownTwice(p) ==
    /\ pc[p] = "countDown"
    /\ latch' = latch - 1
    /\ Goto(p, AfterCheck(p))
    /\ UNCHANGED <<hasSubmitCompleted, taskNotCompleted, list, isLast, history>>

CountDownForgotten(p) ==
    /\ pc[p] = "countDown"
    /\ Goto(p, AfterCheck(p))
    /\ UNCHANGED <<shared, isLast, history>>

\* taskCompleted
CountDown(p) ==
    /\ pc[p] = "countDown"
    /\ latch' = 0
    /\ Goto(p, AfterCheck(p))
    /\ UNCHANGED <<hasSubmitCompleted, taskNotCompleted, list, isLast, history>>

-----------------------------------------------------------------------------
(* waitTaskCompleted without an over-time                                  *)

\* Mutant of Await: the wait is timed and its result is not looked at.
AwaitTimed ==
    /\ pc[Submitter] = "await"
    /\ Goto(Submitter, "released")
    /\ UNCHANGED <<shared, isLast, history>>

Await ==
    /\ pc[Submitter] = "await"
    /\ latch = 0
    /\ Goto(Submitter, "released")
    /\ UNCHANGED <<shared, isLast, history>>

\* scheduleStop or scheduleRun interrupts the waiting schedule.
Interrupted ==
    /\ pc[Submitter] = "await"
    /\ Goto(Submitter, "abandoned")
    /\ UNCHANGED <<shared, isLast, history>>

-----------------------------------------------------------------------------
Check(p) ==
    \/ Decrement(p)
    \/ ReadSubmitted(p)
    \/ OnComplete(p)
    \/ OnCompleteReturns(p)
    \/ OnCompleteThrows(p)
    \/ CountDown(p)

Worker(t) == Start(t) \/ Discard(t) \/ AddResult(t) \/ Record(t)

Submitting ==
    \/ \E t \in Tasks : Skip(t) \/ Submit(t)
    \/ Increase
    \/ LeaveLoop
    \/ SubmitCompleted

Next ==
    \/ Submitting
    \/ Await
    \/ Interrupted
    \/ \E t \in Tasks : Worker(t)
    \/ \E p \in Procs : Check(p)

Spec == Init /\ [][Next]_vars

\* Threads are scheduled and the user's onComplete and exec return.  Nothing
\* obliges the pool to keep a queued task or anyone to interrupt the wait.
Fairness ==
    /\ WF_vars(Submitting)
    /\ WF_vars(Await)
    /\ \A t \in Tasks : WF_vars(Start(t)) /\ WF_vars(AddResult(t)) /\ WF_vars(Record(t))
    /\ \A p \in Procs : WF_vars(Check(p))

FairSpec == Spec /\ Fairness

\* The executions in which no worker outruns the counting of its task, that
\* is, increaseTaskNotCompleted always comes before that task's decrement.
OrderlySpec == Init /\ [][Next /\ early' = {}]_vars

-----------------------------------------------------------------------------
TypeOK ==
    /\ hasSubmitCompleted \in BOOLEAN
    /\ taskNotCompleted \in Int
    /\ latch \in {0, 1}
    /\ list \in SUBSET Tasks
    /\ pc \in [Procs -> SubmitterSteps \cup TaskSteps]
    /\ pc[Submitter] \in SubmitterSteps
    /\ \A t \in Tasks : pc[t] \in TaskSteps
    /\ isLast \in [Procs -> BOOLEAN]
    /\ counted \in SUBSET Tasks
    /\ calls \in SUBSET [by : Procs, results : SUBSET Tasks]
    /\ early \in SUBSET Tasks

\* Every participant that has something to do with the batch is done with it.
BatchOver == Accepted \cup {Submitter} \subseteq
    {p \in Procs : pc[p] \in {"record", "done", "failed", "await", "released",
                             "abandoned", "returned"}}

\* The number of tasks not completed, which checkComplete compares with zero,
\* never passes below zero, whatever the order in which workers and the
\* submitter reach the counter: taskNotCompleted starts at one for the
\* submitter, and only one task at a time can be decremented before it is
\* counted.
CountNeverNegative == taskNotCompleted >= 0

\* No batch is forgotten: when every accepted task and the submitter are
\* through checkComplete, onComplete was called with the result of every
\* accepted task.
ReportedInFull == BatchOver => \E c \in calls : c.results = Accepted

\* A report that is not the last one needs a task that outran its own count:
\* onComplete is called at most once more than there are such tasks.
ExtraReportsAreEarly == Cardinality(calls) <= 1 + Cardinality(early)

\* As long as no task outruns its own count, onComplete is called once, for
\* the whole batch and after the last submission.
OneReport ==
    early = {} => \A c, d \in calls : c = d /\ c.results = Accepted /\ hasSubmitCompleted

\* As long as no task outruns its own count, the list handed to onComplete
\* does not change while the handler works on it, although it is the list
\* the workers add to.
StableResults ==
    early = {} => \A c \in calls : pc[c.by] = "completing" => list = c.results

\* As long as no task outruns its own count, the schedule's thread leaves
\* its wait only when every accepted task was executed and reported.
ReleasedAfterAll ==
    (early = {} /\ pc[Submitter] = "released") =>
        /\ list = Accepted
        /\ \E c \in calls : c.results = Accepted /\ pc[c.by] # "completing"

\* No wake-up is lost, whatever outran what: while the schedule's thread waits
\* for a latch that is not open, a task waits or executes or a participant is
\* inside checkComplete, unless a task was dropped or the handler raised an
\* Error.
NobodyLeftWaiting ==
    (pc[Submitter] = "await" /\ latch = 1) =>
        \/ \E p \in Procs : pc[p] \in {"queued", "executing"} \cup CheckSteps
        \/ \E t \in Tasks : pc[t] = "lost"
        \/ \E p \in Procs : pc[p] = "failed"

\* The latch, opened too early or not, is never open before a task of the round
\* was executed, and not before the last submission: the wait of a schedule's
\* thread can end early, but not before its round is at work.
LatchFollowsWork ==
    latch = 0 => hasSubmitCompleted /\ (list # {} \/ Accepted = {})

\* The batch as its user sees it.  In the executions where no task outruns its
\* own count, the counter, the flag and the latch implement it.
Promise == INSTANCE BatchPromise WITH
    open <- ~hasSubmitCompleted,
    accepted <- Accepted,
    executed <- list,
    reported <- calls # {},
    released <- (latch = 0)

PromiseKept == Promise!Spec

\* Every batch is reported in full sooner or later, whatever the workers do,
\* unless a task was dropped from the pool.
EventuallyReported ==
    <>[](\/ \E c \in calls : c.results = Accepted /\ hasSubmitCompleted
         \/ \E t \in Tasks : pc[t] = "lost")

\* What CompleteHandler says: the event of all tasks being completed, which
\* is given the result set of the round.
OnCompleteMeansAllCompleted ==
    \A c \in calls : c.results = Accepted /\ hasSubmitCompleted

\* The schedule's thread is not left waiting: it leaves the wait unless a
\* task was dropped from the pool or the handler raised an Error.
WaitEnds ==
    pc[Submitter] = "await" ~>
        \/ pc[Submitter] # "await"
        \/ \E t \in Tasks : pc[t] = "lost"
        \/ \E p \in Procs : pc[p] = "failed"
=============================================================================
