----------------------- MODULE ScheduleContextProofs -----------------------
(***************************************************************************)
(* Proofs about the life of a schedule, for any number of threads, rounds  *)
(* in the pool and configurations.                                         *)
(***************************************************************************)
EXTENDS ScheduleContext, TLAPS

LEMMA InitTyped == Init => TypeOK
  BY LifecycleAssumption DEF Init, TypeOK, Steps

LEMMA NextTyped == TypeOK /\ [Next]_vars => TypeOK'
<1> SUFFICES ASSUME TypeOK, [Next]_vars PROVE TypeOK'
  OBVIOUS
<1> USE DEF TypeOK, Steps, Goto, SetInterrupt, context, tasks, locals, environment
<1>1. CASE Request
  <2>1. CASE ScheduleStop
    BY <2>1 DEF ScheduleStop, InterruptSchedule
  <2>2. CASE ExecWhenSleeping
    BY <2>2 DEF ExecWhenSleeping, InterruptSchedule
  <2>3. CASE BookExec
    BY <2>3 DEF BookExec
  <2>4. CASE GetState
    BY <2>4 DEF GetState
  <2>5. CASE WriteBooking
    BY <2>5 DEF WriteBooking, InterruptSchedule
  <2> QED BY <1>1, <2>1, <2>2, <2>3, <2>4, <2>5 DEF Request
<1>2. ASSUME NEW th \in Threads, ScheduleStart(th) PROVE TypeOK'
  BY <1>2 DEF ScheduleStart
<1>3. ASSUME NEW th \in Threads, Pass(th) PROVE TypeOK'
  <2>1. CASE CheckStopping(th)
    BY <2>1 DEF CheckStopping
  <2>2. CASE DeadTime(th)
    BY <2>2 DEF DeadTime
  <2>3. CASE FirstPass(th)
    BY <2>3 DEF FirstPass, CalcFirst
  <2>4. CASE LaterPass(th)
    BY <2>4 DEF LaterPass
  <2>5. CASE InitialDelay(th)
    BY <2>5 DEF InitialDelay
  <2>6. CASE SwitchRunning(th)
    BY <2>6 DEF SwitchRunning
  <2>7. CASE CreateNothing(th)
    BY <2>7 DEF CreateNothing, AfterCreate
  <2>8. CASE CreateInterrupted(th)
    BY <2>8 DEF CreateInterrupted, AfterCreate
  <2>9. CASE CreateError(th)
    BY <2>9 DEF CreateError, AfterCreate
  <2>10. CASE CompleteError(th)
    BY <2>10 DEF CompleteError
  <2>11. CASE TakeRequest(th)
    <3>1. pc' \in [Threads -> Steps]
      BY <2>11 DEF TakeRequest
    <3>2. nextTimeHasSated' \in BOOLEAN
      BY <2>11 DEF TakeRequest
    <3> QED BY <2>11, <3>1, <3>2 DEF TakeRequest
  <2>12. CASE SetNextTime(th)
    BY <2>12 DEF SetNextTime
  <2>13. CASE CronExhausted(th)
    BY <2>13 DEF CronExhausted, Leave
  <2>14. CASE WaitCompleted(th)
    BY <2>14 DEF WaitCompleted, Leave, AfterWait
  <2>15. CASE WaitInterrupted(th)
    BY <2>15 DEF WaitInterrupted, Leave, AfterWait
  <2>16. CASE TerminateOnError(th)
    BY <2>16 DEF TerminateOnError
  <2>17. CASE EndOfPass(th)
    BY <2>17 DEF EndOfPass
  <2>18. CASE LastPass(th)
    BY <2>18 DEF LastPass
  <2>19. CASE SwitchSleeping(th)
    BY <2>19 DEF SwitchSleeping
  <2>20. CASE WakeUp(th)
    BY <2>20 DEF WakeUp
  <2>21. CASE SwitchInited(th)
    BY <2>21 DEF SwitchInited, Forget
  <2>22. ASSUME NEW s \in Slots, CreateTasks(th, s) PROVE TypeOK'
    BY <2>22 DEF CreateTasks, AfterCreate
  <2>23. CASE WaitOutrun(th)
    BY <2>23 DEF WaitOutrun, Leave, AfterWait
  <2> QED BY <1>3, <2>1, <2>2, <2>3, <2>4, <2>5, <2>6, <2>7, <2>8, <2>9, <2>10, <2>11, <2>12, <2>13, <2>14, <2>15, <2>16, <2>17, <2>18, <2>19, <2>20, <2>21, <2>22, <2>23 DEF Pass
<1>4. ASSUME NEW th \in Threads, Close(th) PROVE TypeOK'
  <2>1. CASE Shutdown(th)
    BY <2>1 DEF Shutdown
  <2>2. CASE CancelTasks(th)
    <3>1. pc' \in [Threads -> Steps]
      BY <2>2 DEF CancelTasks
    <3>2. closing' \in [Threads -> BOOLEAN]
      BY <2>2 DEF CancelTasks
    <3>3. /\ pool' \in {"running", "shutdown", "terminated"}
          /\ work' \in [Slots -> {"free", "queued", "running", "done", "failed", "lost"}]
      BY <2>2 DEF CancelTasks
    <3> QED BY <2>2, <3>1, <3>2, <3>3 DEF CancelTasks
  <2>3. CASE AwaitTermination(th)
    BY <2>3 DEF AwaitTermination
  <2>4. CASE SwitchStopped(th)
    BY <2>4 DEF SwitchStopped
  <2>5. CASE ResetFirstRun(th)
    BY <2>5 DEF ResetFirstRun, Forget
  <2>6. CASE CancelFails(th)
    BY <2>6 DEF CancelFails, Forget
  <2>7. CASE TerminateError(th)
    BY <2>7 DEF TerminateError, Forget
  <2> QED BY <1>4, <2>1, <2>2, <2>3, <2>4, <2>5, <2>6, <2>7 DEF Close
<1>5. ASSUME NEW th \in Threads, AwaitAgain(th) PROVE TypeOK'
  BY <1>5 DEF AwaitAgain
<1>6. CASE PoolStep
  <2>1. CASE PoolTerminates
    BY <2>1 DEF PoolTerminates
  <2>2. ASSUME NEW s \in Slots, StartTask(s) PROVE TypeOK'
    BY <2>2 DEF StartTask
  <2>3. ASSUME NEW s \in Slots, FinishTask(s) PROVE TypeOK'
    BY <2>3 DEF FinishTask
  <2>4. ASSUME NEW s \in Slots, LastTaskFails(s) PROVE TypeOK'
    BY <2>4 DEF LastTaskFails
  <2> QED BY <1>6, <2>1, <2>2, <2>3, <2>4 DEF PoolStep
<1>7. CASE Clock
  <2>1. CASE NextTimeComes
    BY <2>1 DEF NextTimeComes
  <2>2. CASE DeadTimePasses
    BY <2>2 DEF DeadTimePasses
  <2>3. CASE CronEnds
    BY <2>3 DEF CronEnds
  <2> QED BY <1>7, <2>1, <2>2, <2>3 DEF Clock
<1>8. CASE UNCHANGED vars
  BY <1>8 DEF vars
<1> QED BY <1>1, <1>2, <1>3, <1>4, <1>5, <1>6, <1>7, <1>8 DEF Next

\* Type correctness of a schedule, whatever requests come.
THEOREM TypeCorrect == Spec => []TypeOK
<1>1. Init => TypeOK
  BY InitTyped
<1>2. TypeOK /\ [Next]_vars => TypeOK'
  BY NextTyped
<1> QED BY <1>1, <1>2, PTL DEF Spec

-----------------------------------------------------------------------------
(* A schedule is never wedged                                              *)

LEMMA WedgedInit == Init => NeverWedged
  BY DEF Init, NeverWedged

LEMMA WedgedStep == TypeOK /\ NeverWedged /\ [Next]_vars => NeverWedged'
<1> SUFFICES ASSUME TypeOK, NeverWedged, [Next]_vars PROVE NeverWedged'
  OBVIOUS
<1> USE DEF NeverWedged, Working, ClosingSteps, TypeOK, Goto, SetInterrupt, context, tasks, locals, environment
<1>1. CASE Request
  <2>1. CASE ScheduleStop
    BY <2>1 DEF ScheduleStop, InterruptSchedule
  <2>2. CASE ExecWhenSleeping
    BY <2>2 DEF ExecWhenSleeping, InterruptSchedule
  <2>3. CASE BookExec
    BY <2>3 DEF BookExec
  <2>4. CASE GetState
    BY <2>4 DEF GetState
  <2>5. CASE WriteBooking
    BY <2>5 DEF WriteBooking, InterruptSchedule
  <2> QED BY <1>1, <2>1, <2>2, <2>3, <2>4, <2>5 DEF Request
<1>2. ASSUME NEW th \in Threads, ScheduleStart(th) PROVE NeverWedged'
  BY <1>2 DEF ScheduleStart
<1>3. ASSUME NEW th \in Threads, Pass(th) PROVE NeverWedged'
  <2>1. CASE CheckStopping(th)
    BY <2>1 DEF CheckStopping
  <2>2. CASE DeadTime(th)
    BY <2>2 DEF DeadTime
  <2>3. CASE FirstPass(th)
    BY <2>3 DEF FirstPass, CalcFirst
  <2>4. CASE LaterPass(th)
    BY <2>4 DEF LaterPass
  <2>5. CASE InitialDelay(th)
    BY <2>5 DEF InitialDelay
  <2>6. CASE SwitchRunning(th)
    BY <2>6 DEF SwitchRunning
  <2>7. CASE CreateNothing(th)
    BY <2>7 DEF CreateNothing, AfterCreate
  <2>8. CASE CreateInterrupted(th)
    BY <2>8 DEF CreateInterrupted, AfterCreate
  <2>9. CASE CreateError(th)
    BY <2>9 DEF CreateError, AfterCreate
  <2>10. CASE CompleteError(th)
    BY <2>10 DEF CompleteError
  <2>11. CASE TakeRequest(th)
    BY <2>11 DEF TakeRequest
  <2>12. CASE SetNextTime(th)
    BY <2>12 DEF SetNextTime
  <2>13. CASE CronExhausted(th)
    BY <2>13 DEF CronExhausted, Leave
  <2>14. CASE WaitCompleted(th)
    BY <2>14 DEF WaitCompleted, Leave, AfterWait
  <2>15. CASE WaitInterrupted(th)
    BY <2>15 DEF WaitInterrupted, Leave, AfterWait
  <2>16. CASE TerminateOnError(th)
    BY <2>16 DEF TerminateOnError
  <2>17. CASE EndOfPass(th)
    BY <2>17 DEF EndOfPass
  <2>18. CASE LastPass(th)
    BY <2>18 DEF LastPass
  <2>19. CASE SwitchSleeping(th)
    BY <2>19 DEF SwitchSleeping
  <2>20. CASE WakeUp(th)
    BY <2>20 DEF WakeUp
  <2>21. CASE SwitchInited(th)
    BY <2>21 DEF SwitchInited, Forget
  <2>22. ASSUME NEW s \in Slots, CreateTasks(th, s) PROVE NeverWedged'
    BY <2>22 DEF CreateTasks, AfterCreate
  <2>23. CASE WaitOutrun(th)
    BY <2>23 DEF WaitOutrun, Leave, AfterWait
  <2> QED BY <1>3, <2>1, <2>2, <2>3, <2>4, <2>5, <2>6, <2>7, <2>8, <2>9, <2>10, <2>11, <2>12, <2>13, <2>14, <2>15, <2>16, <2>17, <2>18, <2>19, <2>20, <2>21, <2>22, <2>23 DEF Pass
<1>4. ASSUME NEW th \in Threads, Close(th) PROVE NeverWedged'
  <2>1. CASE Shutdown(th)
    BY <2>1 DEF Shutdown
  <2>2. CASE CancelTasks(th)
    BY <2>2 DEF CancelTasks
  <2>3. CASE AwaitTermination(th)
    BY <2>3 DEF AwaitTermination
  <2>4. CASE SwitchStopped(th)
    BY <2>4 DEF SwitchStopped
  <2>5. CASE ResetFirstRun(th)
    BY <2>5 DEF ResetFirstRun, Forget
  <2>6. CASE CancelFails(th)
    BY <2>6 DEF CancelFails, Forget
  <2>7. CASE TerminateError(th)
    BY <2>7 DEF TerminateError, Forget
  <2> QED BY <1>4, <2>1, <2>2, <2>3, <2>4, <2>5, <2>6, <2>7 DEF Close
<1>5. ASSUME NEW th \in Threads, AwaitAgain(th) PROVE NeverWedged'
  BY <1>5 DEF AwaitAgain
<1>6. CASE PoolStep
  <2>1. CASE PoolTerminates
    BY <2>1 DEF PoolTerminates
  <2>2. ASSUME NEW s \in Slots, StartTask(s) PROVE NeverWedged'
    BY <2>2 DEF StartTask
  <2>3. ASSUME NEW s \in Slots, FinishTask(s) PROVE NeverWedged'
    BY <2>3 DEF FinishTask
  <2>4. ASSUME NEW s \in Slots, LastTaskFails(s) PROVE NeverWedged'
    BY <2>4 DEF LastTaskFails
  <2> QED BY <1>6, <2>1, <2>2, <2>3, <2>4 DEF PoolStep
<1>7. CASE Clock
  <2>1. CASE NextTimeComes
    BY <2>1 DEF NextTimeComes
  <2>2. CASE DeadTimePasses
    BY <2>2 DEF DeadTimePasses
  <2>3. CASE CronEnds
    BY <2>3 DEF CronEnds
  <2> QED BY <1>7, <2>1, <2>2, <2>3 DEF Clock
<1>8. CASE UNCHANGED vars
  BY <1>8 DEF vars
<1> QED BY <1>1, <1>2, <1>3, <1>4, <1>5, <1>6, <1>7, <1>8 DEF Next

\* However requests, passes, terminations and deaths by an Error interleave, and
\* however many threads were started, a state that refuses a start has a thread
\* in its loop, or a pool that is shut down, to leave it by.
THEOREM AlwaysUnwedged == Spec => []NeverWedged
<1>1. Init => TypeOK /\ NeverWedged
  BY InitTyped, WedgedInit
<1>2. TypeOK /\ NeverWedged /\ [Next]_vars => TypeOK' /\ NeverWedged'
  BY NextTyped, WedgedStep
<1> QED BY <1>1, <1>2, PTL DEF Spec

-----------------------------------------------------------------------------
(* A schedule that is started serially                                     *)

\* Between pool.shutdown() and the end of terminate.
Shutting == {"closeCheck", "closeAwait", "terminated"}

\* There is one thread that still writes the state.
OneWorking == \A th, u \in Working : th = u

\* The pool is shut down by the working thread alone, which then waits for
\* its end; nothing is left in a terminated pool.
PoolFollows ==
    /\ \A th \in Working : /\ pc[th] \notin Shutting => pool = "running"
                           /\ pc[th] \in Shutting => pool # "running"
                           /\ pc[th] = "terminated" => pool = "terminated"
    /\ Working = {} /\ pool = "shutdown" => state = "STOPPING"
    /\ pool = "terminated" => \A s \in Slots : ~Live(s)

\* Rounds are handed over, and Errors carried to the end of the pass, in other
\* states than STOPPED; the thread that wrote STOPPED leaves a terminated pool
\* and makes the next pass a first one, and a thread that terminates while an
\* earlier STOPPED still stands does so because the dead time is over.
StoppedFollows ==
    /\ \A th \in Threads :
          /\ raised[th] = "error" => pc[th] \in {"calc", "set", "wait", "after"}
          /\ pc[th] = "create" \/ raised[th] = "error" => state # "STOPPED"
    /\ state = "STOPPED" => \A s \in Slots : ~Live(s)
    /\ state = "STOPPED" /\ Working = {} => pool = "terminated"
    /\ state = "STOPPED" /\ (\A th \in Working : pc[th] \in ClosingSteps) =>
          isFirstRun \/ (\E th \in Threads : pc[th] = "reset") \/ DeadTimeOver

SInv == TypeOK /\ NeverWedged /\ OneWorking /\ PoolFollows /\ StoppedFollows

LEMMA SerialInit == Init => SInv
<1> SUFFICES ASSUME Init PROVE SInv
  OBVIOUS
<1>1. Working = {}
  BY DEF Init, Working
<1> QED BY <1>1, InitTyped, WedgedInit DEF Init, SInv, OneWorking, PoolFollows, StoppedFollows, Live

\* A serial start finds no other working thread.
LEMMA StartAlone ==
  ASSUME TypeOK, [Next /\ SerialStart]_vars, NEW th \in Threads, ScheduleStart(th)
  PROVE  Working = {} /\ Working' = {th}
<1>1. pc[th] = "dead" /\ pc' = [pc EXCEPT ![th] = "top"]
  BY DEF ScheduleStart, Goto
<1>2. th \notin Working /\ Working' = Working \cup {th}
  BY <1>1 DEF Working, TypeOK
<1>3. pc' # pc
  BY <1>1 DEF TypeOK
<1>4. SerialStart
  BY <1>3 DEF vars
<1> QED BY <1>2, <1>4 DEF SerialStart

LEMMA OneWorkingStep == SInv /\ [Next /\ SerialStart]_vars => OneWorking'
<1> SUFFICES ASSUME SInv, [Next /\ SerialStart]_vars PROVE OneWorking'
  OBVIOUS
<1> USE DEF SInv, OneWorking, Working, TypeOK, Goto, SetInterrupt, context, tasks, locals,
        environment, SerialStart
<1>1. CASE Request
  <2>1. CASE ScheduleStop
    BY <2>1 DEF ScheduleStop, InterruptSchedule
  <2>2. CASE ExecWhenSleeping
    BY <2>2 DEF ExecWhenSleeping, InterruptSchedule
  <2>3. CASE BookExec
    BY <2>3 DEF BookExec
  <2>4. CASE GetState
    BY <2>4 DEF GetState
  <2>5. CASE WriteBooking
    BY <2>5 DEF WriteBooking, InterruptSchedule
  <2> QED BY <1>1, <2>1, <2>2, <2>3, <2>4, <2>5 DEF Request
<1>2. ASSUME NEW th \in Threads, ScheduleStart(th) PROVE OneWorking'
  <2>1. Working' = {th}
    BY <1>2, StartAlone
  <2> QED BY <2>1
<1>3. ASSUME NEW th \in Threads, Pass(th) PROVE OneWorking'
  <2>1. CASE CheckStopping(th)
    BY <2>1 DEF CheckStopping
  <2>2. CASE DeadTime(th)
    BY <2>2 DEF DeadTime
  <2>3. CASE FirstPass(th)
    BY <2>3 DEF FirstPass, CalcFirst
  <2>4. CASE LaterPass(th)
    BY <2>4 DEF LaterPass
  <2>5. CASE InitialDelay(th)
    BY <2>5 DEF InitialDelay
  <2>6. CASE SwitchRunning(th)
    BY <2>6 DEF SwitchRunning
  <2>7. CASE CreateNothing(th)
    BY <2>7 DEF CreateNothing, AfterCreate
  <2>8. CASE CreateInterrupted(th)
    BY <2>8 DEF CreateInterrupted, AfterCreate
  <2>9. CASE CreateError(th)
    BY <2>9 DEF CreateError, AfterCreate
  <2>10. CASE CompleteError(th)
    BY <2>10 DEF CompleteError
  <2>11. CASE TakeRequest(th)
    BY <2>11 DEF TakeRequest
  <2>12. CASE SetNextTime(th)
    BY <2>12 DEF SetNextTime
  <2>13. CASE CronExhausted(th)
    BY <2>13 DEF CronExhausted, Leave
  <2>14. CASE WaitCompleted(th)
    BY <2>14 DEF WaitCompleted, Leave, AfterWait
  <2>15. CASE WaitInterrupted(th)
    BY <2>15 DEF WaitInterrupted, Leave, AfterWait
  <2>16. CASE TerminateOnError(th)
    BY <2>16 DEF TerminateOnError
  <2>17. CASE EndOfPass(th)
    BY <2>17 DEF EndOfPass
  <2>18. CASE LastPass(th)
    BY <2>18 DEF LastPass
  <2>19. CASE SwitchSleeping(th)
    BY <2>19 DEF SwitchSleeping
  <2>20. CASE WakeUp(th)
    BY <2>20 DEF WakeUp
  <2>21. CASE SwitchInited(th)
    BY <2>21 DEF SwitchInited, Forget
  <2>22. ASSUME NEW s \in Slots, CreateTasks(th, s) PROVE OneWorking'
    BY <2>22 DEF CreateTasks, AfterCreate
  <2>23. CASE WaitOutrun(th)
    BY <2>23 DEF WaitOutrun, Leave, AfterWait
  <2> QED BY <1>3, <2>1, <2>2, <2>3, <2>4, <2>5, <2>6, <2>7, <2>8, <2>9, <2>10, <2>11, <2>12, <2>13, <2>14, <2>15, <2>16, <2>17, <2>18, <2>19, <2>20, <2>21, <2>22, <2>23 DEF Pass
<1>4. ASSUME NEW th \in Threads, Close(th) PROVE OneWorking'
  <2>1. CASE Shutdown(th)
    BY <2>1 DEF Shutdown
  <2>2. CASE CancelTasks(th)
    BY <2>2 DEF CancelTasks
  <2>3. CASE AwaitTermination(th)
    BY <2>3 DEF AwaitTermination
  <2>4. CASE SwitchStopped(th)
    BY <2>4 DEF SwitchStopped
  <2>5. CASE ResetFirstRun(th)
    BY <2>5 DEF ResetFirstRun, Forget
  <2>6. CASE CancelFails(th)
    BY <2>6 DEF CancelFails, Forget
  <2>7. CASE TerminateError(th)
    BY <2>7 DEF TerminateError, Forget
  <2> QED BY <1>4, <2>1, <2>2, <2>3, <2>4, <2>5, <2>6, <2>7 DEF Close
<1>5. ASSUME NEW th \in Threads, AwaitAgain(th) PROVE OneWorking'
  BY <1>5 DEF AwaitAgain
<1>6. CASE PoolStep
  <2>1. CASE PoolTerminates
    BY <2>1 DEF PoolTerminates
  <2>2. ASSUME NEW s \in Slots, StartTask(s) PROVE OneWorking'
    BY <2>2 DEF StartTask
  <2>3. ASSUME NEW s \in Slots, FinishTask(s) PROVE OneWorking'
    BY <2>3 DEF FinishTask
  <2>4. ASSUME NEW s \in Slots, LastTaskFails(s) PROVE OneWorking'
    BY <2>4 DEF LastTaskFails
  <2> QED BY <1>6, <2>1, <2>2, <2>3, <2>4 DEF PoolStep
<1>7. CASE Clock
  <2>1. CASE NextTimeComes
    BY <2>1 DEF NextTimeComes
  <2>2. CASE DeadTimePasses
    BY <2>2 DEF DeadTimePasses
  <2>3. CASE CronEnds
    BY <2>3 DEF CronEnds
  <2> QED BY <1>7, <2>1, <2>2, <2>3 DEF Clock
<1>8. CASE UNCHANGED vars
  BY <1>8 DEF vars
<1> QED BY <1>1, <1>2, <1>3, <1>4, <1>5, <1>6, <1>7, <1>8 DEF Next

LEMMA PoolFollowsStep == SInv /\ [Next /\ SerialStart]_vars => PoolFollows'
<1> SUFFICES ASSUME SInv, [Next /\ SerialStart]_vars PROVE PoolFollows'
  OBVIOUS
<1> USE DEF SInv, OneWorking, PoolFollows, Working, Shutting, Live, TypeOK, Goto, SetInterrupt,
        context, tasks, locals, environment, SerialStart
<1>1. CASE Request
  <2>1. CASE ScheduleStop
    BY <2>1 DEF ScheduleStop, InterruptSchedule
  <2>2. CASE ExecWhenSleeping
    BY <2>2 DEF ExecWhenSleeping, InterruptSchedule
  <2>3. CASE BookExec
    BY <2>3 DEF BookExec
  <2>4. CASE GetState
    BY <2>4 DEF GetState
  <2>5. CASE WriteBooking
    BY <2>5 DEF WriteBooking, InterruptSchedule
  <2> QED BY <1>1, <2>1, <2>2, <2>3, <2>4, <2>5 DEF Request
<1>2. ASSUME NEW th \in Threads, ScheduleStart(th) PROVE PoolFollows'
  <2>1. Working = {} /\ Working' = {th}
    BY <1>2, StartAlone
  <2>2. pool' = "running" /\ pc'[th] = "top"
    BY <1>2, <2>1 DEF ScheduleStart
  <2> QED BY <2>1, <2>2
<1>3. ASSUME NEW th \in Threads, Pass(th) PROVE PoolFollows'
  <2>1. CASE CheckStopping(th)
    BY <2>1 DEF CheckStopping
  <2>2. CASE DeadTime(th)
    BY <2>2 DEF DeadTime
  <2>3. CASE FirstPass(th)
    BY <2>3 DEF FirstPass, CalcFirst
  <2>4. CASE LaterPass(th)
    BY <2>4 DEF LaterPass
  <2>5. CASE InitialDelay(th)
    BY <2>5 DEF InitialDelay
  <2>6. CASE SwitchRunning(th)
    BY <2>6 DEF SwitchRunning
  <2>7. CASE CreateNothing(th)
    BY <2>7 DEF CreateNothing, AfterCreate
  <2>8. CASE CreateInterrupted(th)
    BY <2>8 DEF CreateInterrupted, AfterCreate
  <2>9. CASE CreateError(th)
    BY <2>9 DEF CreateError, AfterCreate
  <2>10. CASE CompleteError(th)
    BY <2>10 DEF CompleteError
  <2>11. CASE TakeRequest(th)
    BY <2>11 DEF TakeRequest
  <2>12. CASE SetNextTime(th)
    BY <2>12 DEF SetNextTime
  <2>13. CASE CronExhausted(th)
    BY <2>13 DEF CronExhausted, Leave
  <2>14. CASE WaitCompleted(th)
    BY <2>14 DEF WaitCompleted, Leave, AfterWait
  <2>15. CASE WaitInterrupted(th)
    BY <2>15 DEF WaitInterrupted, Leave, AfterWait
  <2>16. CASE TerminateOnError(th)
    BY <2>16 DEF TerminateOnError
  <2>17. CASE EndOfPass(th)
    BY <2>17 DEF EndOfPass
  <2>18. CASE LastPass(th)
    BY <2>18 DEF LastPass
  <2>19. CASE SwitchSleeping(th)
    BY <2>19 DEF SwitchSleeping
  <2>20. CASE WakeUp(th)
    BY <2>20 DEF WakeUp
  <2>21. CASE SwitchInited(th)
    BY <2>21 DEF SwitchInited, Forget
  <2>22. ASSUME NEW s \in Slots, CreateTasks(th, s) PROVE PoolFollows'
    BY <2>22 DEF CreateTasks, AfterCreate
  <2>23. CASE WaitOutrun(th)
    BY <2>23 DEF WaitOutrun, Leave, AfterWait
  <2> QED BY <1>3, <2>1, <2>2, <2>3, <2>4, <2>5, <2>6, <2>7, <2>8, <2>9, <2>10, <2>11, <2>12, <2>13, <2>14, <2>15, <2>16, <2>17, <2>18, <2>19, <2>20, <2>21, <2>22, <2>23 DEF Pass
<1>4. ASSUME NEW th \in Threads, Close(th) PROVE PoolFollows'
  <2>1. CASE Shutdown(th)
    BY <2>1 DEF Shutdown
  <2>2. CASE CancelTasks(th)
    BY <2>2 DEF CancelTasks
  <2>3. CASE AwaitTermination(th)
    BY <2>3 DEF AwaitTermination
  <2>4. CASE SwitchStopped(th)
    BY <2>4 DEF SwitchStopped
  <2>5. CASE ResetFirstRun(th)
    BY <2>5 DEF ResetFirstRun, Forget
  <2>6. CASE CancelFails(th)
    BY <2>6 DEF CancelFails, Forget
  <2>7. CASE TerminateError(th)
    BY <2>7 DEF TerminateError, Forget
  <2> QED BY <1>4, <2>1, <2>2, <2>3, <2>4, <2>5, <2>6, <2>7 DEF Close
<1>5. ASSUME NEW th \in Threads, AwaitAgain(th) PROVE PoolFollows'
  BY <1>5 DEF AwaitAgain
<1>6. CASE PoolStep
  <2>1. CASE PoolTerminates
    BY <2>1 DEF PoolTerminates
  <2>2. ASSUME NEW s \in Slots, StartTask(s) PROVE PoolFollows'
    BY <2>2 DEF StartTask
  <2>3. ASSUME NEW s \in Slots, FinishTask(s) PROVE PoolFollows'
    BY <2>3 DEF FinishTask
  <2>4. ASSUME NEW s \in Slots, LastTaskFails(s) PROVE PoolFollows'
    BY <2>4 DEF LastTaskFails
  <2> QED BY <1>6, <2>1, <2>2, <2>3, <2>4 DEF PoolStep
<1>7. CASE Clock
  <2>1. CASE NextTimeComes
    BY <2>1 DEF NextTimeComes
  <2>2. CASE DeadTimePasses
    BY <2>2 DEF DeadTimePasses
  <2>3. CASE CronEnds
    BY <2>3 DEF CronEnds
  <2> QED BY <1>7, <2>1, <2>2, <2>3 DEF Clock
<1>8. CASE UNCHANGED vars
  BY <1>8 DEF vars
<1> QED BY <1>1, <1>2, <1>3, <1>4, <1>5, <1>6, <1>7, <1>8 DEF Next

LEMMA StoppedFollowsStep == SInv /\ [Next /\ SerialStart]_vars => StoppedFollows'
<1> SUFFICES ASSUME SInv, [Next /\ SerialStart]_vars PROVE StoppedFollows'
  OBVIOUS
<1> USE DEF SInv, OneWorking, PoolFollows, StoppedFollows, NeverWedged, Working, ClosingSteps,
        Shutting, DeadTimeOver, Live, TypeOK, Goto, SetInterrupt, context, tasks, locals,
        environment, SerialStart
<1>1. CASE Request
  <2>1. CASE ScheduleStop
    BY <2>1 DEF ScheduleStop, InterruptSchedule
  <2>2. CASE ExecWhenSleeping
    BY <2>2 DEF ExecWhenSleeping, InterruptSchedule
  <2>3. CASE BookExec
    BY <2>3 DEF BookExec
  <2>4. CASE GetState
    BY <2>4 DEF GetState
  <2>5. CASE WriteBooking
    BY <2>5 DEF WriteBooking, InterruptSchedule
  <2> QED BY <1>1, <2>1, <2>2, <2>3, <2>4, <2>5 DEF Request
<1>2. ASSUME NEW th \in Threads, ScheduleStart(th) PROVE StoppedFollows'
  BY <1>2 DEF ScheduleStart
<1>3. ASSUME NEW th \in Threads, Pass(th) PROVE StoppedFollows'
  <2>1. CASE CheckStopping(th)
    BY <2>1 DEF CheckStopping
  <2>2. CASE DeadTime(th)
    BY <2>2 DEF DeadTime
  <2>3. CASE FirstPass(th)
    BY <2>3 DEF FirstPass, CalcFirst
  <2>4. CASE LaterPass(th)
    BY <2>4 DEF LaterPass
  <2>5. CASE InitialDelay(th)
    BY <2>5 DEF InitialDelay
  <2>6. CASE SwitchRunning(th)
    BY <2>6 DEF SwitchRunning
  <2>7. CASE CreateNothing(th)
    BY <2>7 DEF CreateNothing, AfterCreate
  <2>8. CASE CreateInterrupted(th)
    BY <2>8 DEF CreateInterrupted, AfterCreate
  <2>9. CASE CreateError(th)
    BY <2>9 DEF CreateError, AfterCreate
  <2>10. CASE CompleteError(th)
    BY <2>10 DEF CompleteError
  <2>11. CASE TakeRequest(th)
    BY <2>11 DEF TakeRequest
  <2>12. CASE SetNextTime(th)
    BY <2>12 DEF SetNextTime
  <2>13. CASE CronExhausted(th)
    BY <2>13 DEF CronExhausted, Leave
  <2>14. CASE WaitCompleted(th)
    BY <2>14 DEF WaitCompleted, Leave, AfterWait
  <2>15. CASE WaitInterrupted(th)
    BY <2>15 DEF WaitInterrupted, Leave, AfterWait
  <2>16. CASE TerminateOnError(th)
    BY <2>16 DEF TerminateOnError
  <2>17. CASE EndOfPass(th)
    BY <2>17 DEF EndOfPass
  <2>18. CASE LastPass(th)
    BY <2>18 DEF LastPass
  <2>19. CASE SwitchSleeping(th)
    BY <2>19 DEF SwitchSleeping
  <2>20. CASE WakeUp(th)
    BY <2>20 DEF WakeUp
  <2>21. CASE SwitchInited(th)
    BY <2>21 DEF SwitchInited, Forget
  <2>22. ASSUME NEW s \in Slots, CreateTasks(th, s) PROVE StoppedFollows'
    BY <2>22 DEF CreateTasks, AfterCreate
  <2>23. CASE WaitOutrun(th)
    BY <2>23 DEF WaitOutrun, Leave, AfterWait
  <2> QED BY <1>3, <2>1, <2>2, <2>3, <2>4, <2>5, <2>6, <2>7, <2>8, <2>9, <2>10, <2>11, <2>12, <2>13, <2>14, <2>15, <2>16, <2>17, <2>18, <2>19, <2>20, <2>21, <2>22, <2>23 DEF Pass
<1>4. ASSUME NEW th \in Threads, Close(th) PROVE StoppedFollows'
  <2>1. CASE Shutdown(th)
    BY <2>1 DEF Shutdown
  <2>2. CASE CancelTasks(th)
    BY <2>2 DEF CancelTasks
  <2>3. CASE AwaitTermination(th)
    BY <2>3 DEF AwaitTermination
  <2>4. CASE SwitchStopped(th)
    BY <2>4 DEF SwitchStopped
  <2>5. CASE ResetFirstRun(th)
    BY <2>5 DEF ResetFirstRun, Forget
  <2>6. CASE CancelFails(th)
    BY <2>6 DEF CancelFails, Forget
  <2>7. CASE TerminateError(th)
    BY <2>7 DEF TerminateError, Forget
  <2> QED BY <1>4, <2>1, <2>2, <2>3, <2>4, <2>5, <2>6, <2>7 DEF Close
<1>5. ASSUME NEW th \in Threads, AwaitAgain(th) PROVE StoppedFollows'
  BY <1>5 DEF AwaitAgain
<1>6. CASE PoolStep
  <2>1. CASE PoolTerminates
    BY <2>1 DEF PoolTerminates
  <2>2. ASSUME NEW s \in Slots, StartTask(s) PROVE StoppedFollows'
    BY <2>2 DEF StartTask
  <2>3. ASSUME NEW s \in Slots, FinishTask(s) PROVE StoppedFollows'
    BY <2>3 DEF FinishTask
  <2>4. ASSUME NEW s \in Slots, LastTaskFails(s) PROVE StoppedFollows'
    BY <2>4 DEF LastTaskFails
  <2> QED BY <1>6, <2>1, <2>2, <2>3, <2>4 DEF PoolStep
<1>7. CASE Clock
  <2>1. CASE NextTimeComes
    BY <2>1 DEF NextTimeComes
  <2>2. CASE DeadTimePasses
    BY <2>2 DEF DeadTimePasses
  <2>3. CASE CronEnds
    BY <2>3 DEF CronEnds
  <2> QED BY <1>7, <2>1, <2>2, <2>3 DEF Clock
<1>8. CASE UNCHANGED vars
  BY <1>8 DEF vars
<1> QED BY <1>1, <1>2, <1>3, <1>4, <1>5, <1>6, <1>7, <1>8 DEF Next

THEOREM SerialInvariant == SerialSpec => []SInv
<1>1. Init => SInv
  BY SerialInit
<1>2. SInv /\ [Next /\ SerialStart]_vars => SInv'
  <2>1. [Next /\ SerialStart]_vars => [Next]_vars
    OBVIOUS
  <2> QED BY <2>1, NextTyped, WedgedStep, OneWorkingStep, PoolFollowsStep, StoppedFollowsStep
          DEF SInv
<1> QED BY <1>1, <1>2, PTL DEF SerialSpec

\* Started serially, no round is handed to a pool that is shut down.
THEOREM RoundsReachPool == SerialSpec => []SubmitsToLivePool
<1>1. SInv => SubmitsToLivePool
  BY DEF SInv, PoolFollows, SubmitsToLivePool, Working, Shutting
<1> QED BY <1>1, SerialInvariant, PTL

\* Started serially, STOPPED means that no task is left.
THEOREM StoppedIsQuiet == SerialSpec => []StoppedMeansQuiet
<1>1. SInv => StoppedMeansQuiet
  BY DEF SInv, StoppedFollows, StoppedMeansQuiet
<1> QED BY <1>1, SerialInvariant, PTL

\* Started serially, a schedule that shows STOPPED and has no thread before that
\* write has a terminated pool and a first pass ahead, but for the window before
\* the write of isFirstRun and a dead time that is over.
THEOREM StoppedIsFresh == SerialSpec => []StoppedMeansFresh
<1>1. SInv => StoppedMeansFresh
  BY DEF SInv, StoppedFollows, StoppedMeansFresh
<1> QED BY <1>1, SerialInvariant, PTL
-----------------------------------------------------------------------------
(* A schedule with a period goes on                                        *)

\* No booking can be taken up before its time is written and before the
\* thread has ever computed one.
Unhurried == conf.ignoreExec \/ ~(conf.execOnLoad \/ conf.initialDelay)

Waking == {"top", "begin", "delay"}
Computing == {"calc", "set", "wait"}

\* While no time was ever computed, nothing is booked, no pass is at its end,
\* and a thread that has not come to its round was not interrupted.
GoesOn ==
    conf.kind # "none" /\ ~cronOver /\ Unhurried =>
        /\ \A th \in Threads : pc[th] # "exit"
        /\ nextTime = "none" =>
              /\ ~nextTimeHasSated /\ ~booking
              /\ \A th \in Threads :
                    /\ pc[th] \notin {"sleepy", "sleeping"}
                    /\ pc[th] = "after" => raised[th] = "error"
                    /\ pc[th] = "wait" => ~CalcFirst
                    /\ pc[th] \in Waking => state \in {"INITED", "STOPPED"}
                    /\ pc[th] \in Waking \cup {"dead"} => ~interrupted[th]
              /\ \/ conf.ignoreExec
                 \/ /\ state \in {"INITED", "STOPPED"}
                    /\ \A th \in Threads : pc[th] \notin {"run", "create", "delay", "after"}
                    /\ isFirstRun \/ \E th \in Threads : pc[th] \in Computing

LEMMA GoesOnStep == SInv /\ GoesOn /\ [Next /\ SerialStart]_vars => GoesOn'
<1> SUFFICES ASSUME SInv, GoesOn, [Next /\ SerialStart]_vars PROVE GoesOn'
  OBVIOUS
<1> USE DEF SInv, OneWorking, GoesOn, Unhurried, CalcFirst, Waking, Computing, Working, TypeOK,
        Goto, SetInterrupt, context, tasks, locals, environment
<1>1. CASE Request
  <2>1. CASE ScheduleStop
    BY <2>1 DEF ScheduleStop, InterruptSchedule, Alive
  <2>2. CASE ExecWhenSleeping
    BY <2>2 DEF ExecWhenSleeping, InterruptSchedule, Alive
  <2>3. CASE BookExec
    BY <2>3 DEF BookExec
  <2>4. CASE GetState
    BY <2>4 DEF GetState
  <2>5. CASE WriteBooking
    BY <2>5 DEF WriteBooking
  <2> QED BY <1>1, <2>1, <2>2, <2>3, <2>4, <2>5 DEF Request
<1>2. ASSUME NEW th \in Threads, ScheduleStart(th) PROVE GoesOn'
  <2>1. Working = {}
    BY <1>2, StartAlone
  <2> QED BY <1>2, <2>1 DEF ScheduleStart
<1>3. ASSUME NEW th \in Threads, Pass(th) PROVE GoesOn'
  <2>1. CASE CheckStopping(th)
    BY <2>1 DEF CheckStopping
  <2>2. CASE DeadTime(th)
    BY <2>2 DEF DeadTime
  <2>3. CASE FirstPass(th)
    BY <2>3 DEF FirstPass, CalcFirst
  <2>4. CASE LaterPass(th)
    BY <2>4 DEF LaterPass
  <2>5. CASE InitialDelay(th)
    BY <2>5 DEF InitialDelay
  <2>6. CASE SwitchRunning(th)
    BY <2>6 DEF SwitchRunning
  <2>7. CASE CreateNothing(th)
    BY <2>7 DEF CreateNothing, AfterCreate
  <2>8. CASE CreateInterrupted(th)
    BY <2>8 DEF CreateInterrupted, AfterCreate
  <2>9. CASE CreateError(th)
    BY <2>9 DEF CreateError, AfterCreate
  <2>10. CASE CompleteError(th)
    BY <2>10 DEF CompleteError
  <2>11. CASE TakeRequest(th)
    BY <2>11 DEF TakeRequest
  <2>12. CASE SetNextTime(th)
    BY <2>12 DEF SetNextTime
  <2>13. CASE CronExhausted(th)
    BY <2>13 DEF CronExhausted, Leave
  <2>14. CASE WaitCompleted(th)
    BY <2>14 DEF WaitCompleted, Leave, AfterWait
  <2>15. CASE WaitInterrupted(th)
    BY <2>15 DEF WaitInterrupted, Leave, AfterWait
  <2>16. CASE TerminateOnError(th)
    BY <2>16 DEF TerminateOnError
  <2>17. CASE EndOfPass(th)
    BY <2>17 DEF EndOfPass
  <2>18. CASE LastPass(th)
    BY <2>18 DEF LastPass
  <2>19. CASE SwitchSleeping(th)
    BY <2>19 DEF SwitchSleeping
  <2>20. CASE WakeUp(th)
    BY <2>20 DEF WakeUp
  <2>21. CASE SwitchInited(th)
    BY <2>21 DEF SwitchInited, Forget
  <2>22. ASSUME NEW s \in Slots, CreateTasks(th, s) PROVE GoesOn'
    BY <2>22 DEF CreateTasks, AfterCreate
  <2>23. CASE WaitOutrun(th)
    BY <2>23 DEF WaitOutrun, Leave, AfterWait
  <2> QED BY <1>3, <2>1, <2>2, <2>3, <2>4, <2>5, <2>6, <2>7, <2>8, <2>9, <2>10, <2>11, <2>12, <2>13, <2>14, <2>15, <2>16, <2>17, <2>18, <2>19, <2>20, <2>21, <2>22, <2>23 DEF Pass
<1>4. ASSUME NEW th \in Threads, Close(th) PROVE GoesOn'
  <2>1. CASE Shutdown(th)
    BY <2>1 DEF Shutdown
  <2>2. CASE CancelTasks(th)
    BY <2>2 DEF CancelTasks
  <2>3. CASE AwaitTermination(th)
    BY <2>3 DEF AwaitTermination
  <2>4. CASE SwitchStopped(th)
    BY <2>4 DEF SwitchStopped
  <2>5. CASE ResetFirstRun(th)
    BY <2>5 DEF ResetFirstRun, Forget
  <2>6. CASE CancelFails(th)
    BY <2>6 DEF CancelFails, Forget
  <2>7. CASE TerminateError(th)
    BY <2>7 DEF TerminateError, Forget
  <2> QED BY <1>4, <2>1, <2>2, <2>3, <2>4, <2>5, <2>6, <2>7 DEF Close
<1>5. ASSUME NEW th \in Threads, AwaitAgain(th) PROVE GoesOn'
  BY <1>5 DEF AwaitAgain
<1>6. CASE PoolStep
  <2>1. CASE PoolTerminates
    BY <2>1 DEF PoolTerminates
  <2>2. ASSUME NEW s \in Slots, StartTask(s) PROVE GoesOn'
    BY <2>2 DEF StartTask
  <2>3. ASSUME NEW s \in Slots, FinishTask(s) PROVE GoesOn'
    BY <2>3 DEF FinishTask
  <2>4. ASSUME NEW s \in Slots, LastTaskFails(s) PROVE GoesOn'
    BY <2>4 DEF LastTaskFails
  <2> QED BY <1>6, <2>1, <2>2, <2>3, <2>4 DEF PoolStep
<1>7. CASE Clock
  <2>1. CASE NextTimeComes
    BY <2>1 DEF NextTimeComes
  <2>2. CASE DeadTimePasses
    BY <2>2 DEF DeadTimePasses
  <2>3. CASE CronEnds
    BY <2>3 DEF CronEnds
  <2> QED BY <1>7, <2>1, <2>2, <2>3 DEF Clock
<1>8. CASE UNCHANGED vars
  BY <1>8 DEF vars
<1> QED BY <1>1, <1>2, <1>3, <1>4, <1>5, <1>6, <1>7, <1>8 DEF Next

\* Started serially, a schedule with a period whose rounds wait for its times
\* never leaves its loop by itself.
THEOREM PeriodGoesOn == SerialSpec => []GoesOnForever
<1>1. Init => GoesOn
  BY DEF Init, GoesOn, Waking
<1>2. SInv /\ GoesOn /\ [Next /\ SerialStart]_vars => GoesOn'
  BY GoesOnStep
<1>3. GoesOn => GoesOnForever
  BY DEF GoesOn, GoesOnForever, Unhurried
<1> QED BY <1>1, <1>2, <1>3, SerialInvariant, PTL DEF SerialSpec
-----------------------------------------------------------------------------
(* A stop reaches the thread                                               *)

\* A thread waits for a round that it made in this pass, and has computed
\* the next time before only in the kinds that do.
RoundAhead == {"calc", "set", "wait"}

\* The working thread is the one requests interrupt, and from the round on it
\* keeps the interrupt of a stop until it blocks no more.
StopKept ==
    /\ \A th \in Working : scheduleThread = th
    /\ \A th \in Threads :
          /\ pc[th] \notin RoundAhead => cur[th] = NoBatch
          /\ pc[th] \in {"calc", "set"} /\ cur[th] # NoBatch => CalcFirst
    /\ state = "STOPPING" =>
          \A th \in Working :
             \/ pc[th] \in {"create", "sleeping"}
             \/ pc[th] \in RoundAhead /\ cur[th] # NoBatch
             => interrupted[th]

LEMMA StopKeptStep == SInv /\ StopKept /\ [Next /\ SerialStart]_vars => StopKept'
<1> SUFFICES ASSUME SInv, StopKept, [Next /\ SerialStart]_vars PROVE StopKept'
  OBVIOUS
<1> USE LifecycleAssumption
    DEF SInv, OneWorking, StopKept, RoundAhead, CalcFirst, Working, TypeOK, Goto, SetInterrupt,
        context, tasks, locals, environment
<1>1. CASE Request
  <2>1. CASE ScheduleStop
    BY <2>1 DEF ScheduleStop, InterruptSchedule, Alive
  <2>2. CASE ExecWhenSleeping
    BY <2>2 DEF ExecWhenSleeping, InterruptSchedule, Alive
  <2>3. CASE BookExec
    BY <2>3 DEF BookExec
  <2>4. CASE GetState
    BY <2>4 DEF GetState
  <2>5. CASE WriteBooking
    BY <2>5 DEF WriteBooking, InterruptSchedule, Alive
  <2> QED BY <1>1, <2>1, <2>2, <2>3, <2>4, <2>5 DEF Request
<1>2. ASSUME NEW th \in Threads, ScheduleStart(th) PROVE StopKept'
  <2>1. Working' = {th}
    BY <1>2, StartAlone
  <2> QED BY <1>2, <2>1 DEF ScheduleStart
<1>3. ASSUME NEW th \in Threads, Pass(th) PROVE StopKept'
  <2>1. CASE CheckStopping(th)
    BY <2>1 DEF CheckStopping
  <2>2. CASE DeadTime(th)
    BY <2>2 DEF DeadTime
  <2>3. CASE FirstPass(th)
    BY <2>3 DEF FirstPass, CalcFirst
  <2>4. CASE LaterPass(th)
    BY <2>4 DEF LaterPass
  <2>5. CASE InitialDelay(th)
    BY <2>5 DEF InitialDelay
  <2>6. CASE SwitchRunning(th)
    BY <2>6 DEF SwitchRunning
  <2>7. CASE CreateNothing(th)
    BY <2>7 DEF CreateNothing, AfterCreate
  <2>8. CASE CreateInterrupted(th)
    BY <2>8 DEF CreateInterrupted, AfterCreate
  <2>9. CASE CreateError(th)
    BY <2>9 DEF CreateError, AfterCreate
  <2>10. CASE CompleteError(th)
    BY <2>10 DEF CompleteError
  <2>11. CASE TakeRequest(th)
    BY <2>11 DEF TakeRequest
  <2>12. CASE SetNextTime(th)
    BY <2>12 DEF SetNextTime
  <2>13. CASE CronExhausted(th)
    BY <2>13 DEF CronExhausted, Leave
  <2>14. CASE WaitCompleted(th)
    BY <2>14 DEF WaitCompleted, Leave, AfterWait
  <2>15. CASE WaitInterrupted(th)
    BY <2>15 DEF WaitInterrupted, Leave, AfterWait
  <2>16. CASE TerminateOnError(th)
    BY <2>16 DEF TerminateOnError
  <2>17. CASE EndOfPass(th)
    BY <2>17 DEF EndOfPass
  <2>18. CASE LastPass(th)
    BY <2>18 DEF LastPass
  <2>19. CASE SwitchSleeping(th)
    BY <2>19 DEF SwitchSleeping
  <2>20. CASE WakeUp(th)
    BY <2>20 DEF WakeUp
  <2>21. CASE SwitchInited(th)
    BY <2>21 DEF SwitchInited, Forget
  <2>22. ASSUME NEW s \in Slots, CreateTasks(th, s) PROVE StopKept'
    BY <2>22 DEF CreateTasks, AfterCreate
  <2>23. CASE WaitOutrun(th)
    BY <2>23 DEF WaitOutrun, Leave, AfterWait
  <2> QED BY <1>3, <2>1, <2>2, <2>3, <2>4, <2>5, <2>6, <2>7, <2>8, <2>9, <2>10, <2>11, <2>12, <2>13, <2>14, <2>15, <2>16, <2>17, <2>18, <2>19, <2>20, <2>21, <2>22, <2>23 DEF Pass
<1>4. ASSUME NEW th \in Threads, Close(th) PROVE StopKept'
  <2>1. CASE Shutdown(th)
    BY <2>1 DEF Shutdown
  <2>2. CASE CancelTasks(th)
    BY <2>2 DEF CancelTasks
  <2>3. CASE AwaitTermination(th)
    BY <2>3 DEF AwaitTermination
  <2>4. CASE SwitchStopped(th)
    BY <2>4 DEF SwitchStopped
  <2>5. CASE ResetFirstRun(th)
    BY <2>5 DEF ResetFirstRun, Forget
  <2>6. CASE CancelFails(th)
    BY <2>6 DEF CancelFails, Forget
  <2>7. CASE TerminateError(th)
    BY <2>7 DEF TerminateError, Forget
  <2> QED BY <1>4, <2>1, <2>2, <2>3, <2>4, <2>5, <2>6, <2>7 DEF Close
<1>5. ASSUME NEW th \in Threads, AwaitAgain(th) PROVE StopKept'
  BY <1>5 DEF AwaitAgain
<1>6. CASE PoolStep
  <2>1. CASE PoolTerminates
    BY <2>1 DEF PoolTerminates
  <2>2. ASSUME NEW s \in Slots, StartTask(s) PROVE StopKept'
    BY <2>2 DEF StartTask
  <2>3. ASSUME NEW s \in Slots, FinishTask(s) PROVE StopKept'
    BY <2>3 DEF FinishTask
  <2>4. ASSUME NEW s \in Slots, LastTaskFails(s) PROVE StopKept'
    BY <2>4 DEF LastTaskFails
  <2> QED BY <1>6, <2>1, <2>2, <2>3, <2>4 DEF PoolStep
<1>7. CASE Clock
  <2>1. CASE NextTimeComes
    BY <2>1 DEF NextTimeComes
  <2>2. CASE DeadTimePasses
    BY <2>2 DEF DeadTimePasses
  <2>3. CASE CronEnds
    BY <2>3 DEF CronEnds
  <2> QED BY <1>7, <2>1, <2>2, <2>3 DEF Clock
<1>8. CASE UNCHANGED vars
  BY <1>8 DEF vars
<1> QED BY <1>1, <1>2, <1>3, <1>4, <1>5, <1>6, <1>7, <1>8 DEF Next

\* Started serially, a thread that blocks while STOPPING stands has the
\* interrupt of the stop pending.
THEOREM StopReaches == SerialSpec => []StopReachesThread
<1>1. Init => StopKept
  BY DEF Init, StopKept, RoundAhead, Working
<1>2. SInv /\ StopKept /\ [Next /\ SerialStart]_vars => StopKept'
  BY StopKeptStep
<1>3. StopKept => StopReachesThread
  BY DEF StopKept, StopReachesThread, RoundAhead
<1> QED BY <1>1, <1>2, <1>3, SerialInvariant, PTL DEF SerialSpec
-----------------------------------------------------------------------------
(* Refinement: a schedule that is started serially does what               *)
(* SchedulePromise says.                                                   *)

\* Each step of the threads, the pool and the requests is a step of the
\* promise or leaves what it speaks of alone.
LEMMA LifeStep ==
  ASSUME SInv, [Next /\ SerialStart]_vars
  PROVE  [Life!Next]_<<state, Working # {}, pool = "running", \E s \in Slots : Live(s)>>
<1> DEFINE view == <<state, Working # {}, pool = "running", \E s \in Slots : Live(s)>>
           Step == Life!Next \/ UNCHANGED view
<1> SUFFICES Step
  OBVIOUS
<1> USE DEF SInv, OneWorking, PoolFollows, StoppedFollows, NeverWedged, Working, Shutting, Live,
        TypeOK, Goto, SetInterrupt, context, tasks, locals, environment
<1>1. CASE Request
  <2>1. CASE ScheduleStop
    BY <2>1 DEF ScheduleStop, Life!Stop, Life!Stopped, Life!Next
  <2>2. CASE ExecWhenSleeping
    BY <2>2 DEF ExecWhenSleeping
  <2>3. CASE BookExec
    BY <2>3 DEF BookExec
  <2>4. CASE GetState
    BY <2>4 DEF GetState, Life!Stopped, Life!Next
  <2>5. CASE WriteBooking
    BY <2>5 DEF WriteBooking
  <2> QED BY <1>1, <2>1, <2>2, <2>3, <2>4, <2>5 DEF Request
<1>2. ASSUME NEW th \in Threads, ScheduleStart(th) PROVE Step
  <2>1. Working = {} /\ Working' = {th}
    BY <1>2, StartAlone
  <2> QED BY <1>2, <2>1 DEF ScheduleStart, Life!Start, Life!Next
<1>3. ASSUME NEW th \in Threads, Pass(th) PROVE Step
  <2>1. CASE CheckStopping(th)
    BY <2>1 DEF CheckStopping, Life!Next
  <2>2. CASE DeadTime(th)
    BY <2>2 DEF DeadTime, Life!Next
  <2>3. CASE FirstPass(th)
    BY <2>3 DEF FirstPass, CalcFirst, Life!Next
  <2>4. CASE LaterPass(th)
    BY <2>4 DEF LaterPass, Life!Next
  <2>5. CASE InitialDelay(th)
    BY <2>5 DEF InitialDelay, Life!Next
  <2>6. CASE SwitchRunning(th)
    BY <2>6 DEF SwitchRunning, Life!Go, Life!Next
  <2>7. CASE CreateNothing(th)
    BY <2>7 DEF CreateNothing, AfterCreate, Life!Next
  <2>8. CASE CreateInterrupted(th)
    BY <2>8 DEF CreateInterrupted, AfterCreate, Life!Next
  <2>9. CASE CreateError(th)
    BY <2>9 DEF CreateError, AfterCreate, Life!Next
  <2>10. CASE CompleteError(th)
    BY <2>10 DEF CompleteError, Life!Next
  <2>11. CASE TakeRequest(th)
    BY <2>11 DEF TakeRequest, Life!Next
  <2>12. CASE SetNextTime(th)
    BY <2>12 DEF SetNextTime, Life!Next
  <2>13. CASE CronExhausted(th)
    BY <2>13 DEF CronExhausted, Leave, Life!Next
  <2>14. CASE WaitCompleted(th)
    BY <2>14 DEF WaitCompleted, Leave, AfterWait, Life!Next
  <2>15. CASE WaitOutrun(th)
    BY <2>15 DEF WaitOutrun, Leave, AfterWait, Life!Next
  <2>16. CASE WaitInterrupted(th)
    BY <2>16 DEF WaitInterrupted, Leave, AfterWait, Life!Next
  <2>17. CASE TerminateOnError(th)
    BY <2>17 DEF TerminateOnError, Life!Next
  <2>18. CASE EndOfPass(th)
    BY <2>18 DEF EndOfPass, Life!Next
  <2>19. CASE LastPass(th)
    BY <2>19 DEF LastPass, Life!Next
  <2>20. CASE SwitchSleeping(th)
    BY <2>20 DEF SwitchSleeping, Life!Go, Life!Next
  <2>21. CASE WakeUp(th)
    BY <2>21 DEF WakeUp, Life!Next
  <2>22. CASE SwitchInited(th)
    BY <2>22 DEF SwitchInited, Forget, Life!End, Life!Next
  <2>23. ASSUME NEW s \in Slots, CreateTasks(th, s) PROVE Step
    BY <2>23 DEF CreateTasks, AfterCreate, Life!Submit, Life!Next
  <2> QED BY <1>3, <2>1, <2>2, <2>3, <2>4, <2>5, <2>6, <2>7, <2>8, <2>9, <2>10, <2>11, <2>12, <2>13, <2>14, <2>15, <2>16, <2>17, <2>18, <2>19, <2>20, <2>21, <2>22, <2>23 DEF Pass
<1>4. ASSUME NEW th \in Threads, Close(th) PROVE Step
  <2>1. CASE Shutdown(th)
    BY <2>1 DEF Shutdown, Life!Close, Life!Next
  <2>2. CASE CancelTasks(th)
    BY <2>2 DEF CancelTasks, Life!Drain, Life!Next
  <2>3. CASE AwaitTermination(th)
    BY <2>3 DEF AwaitTermination
  <2>4. CASE SwitchStopped(th)
    BY <2>4 DEF SwitchStopped, Life!Stopped, Life!Next
  <2>5. CASE ResetFirstRun(th)
    BY <2>5 DEF ResetFirstRun, Forget
  <2>6. CASE CancelFails(th)
    BY <2>6 DEF CancelFails, Forget, Life!Abandon, Life!Next
  <2>7. CASE TerminateError(th)
    BY <2>7 DEF TerminateError, Forget, Life!Abandon, Life!Next
  <2> QED BY <1>4, <2>1, <2>2, <2>3, <2>4, <2>5, <2>6, <2>7 DEF Close
<1>5. ASSUME NEW th \in Threads, AwaitAgain(th) PROVE Step
  BY <1>5 DEF AwaitAgain
<1>6. CASE PoolStep
  <2>1. CASE PoolTerminates
    BY <2>1 DEF PoolTerminates
  <2>2. ASSUME NEW s \in Slots, StartTask(s) PROVE UNCHANGED view
    BY <2>2 DEF StartTask
  <2>3. ASSUME NEW s \in Slots, FinishTask(s) PROVE Step
    BY <2>3 DEF FinishTask, Life!Drain, Life!Next
  <2>4. ASSUME NEW s \in Slots, LastTaskFails(s) PROVE Step
    BY <2>4 DEF LastTaskFails, Life!Drain, Life!Next
  <2> QED BY <1>6, <2>1, <2>2, <2>3, <2>4 DEF PoolStep
<1>7. CASE Clock
  <2>1. CASE NextTimeComes
    BY <2>1 DEF NextTimeComes
  <2>2. CASE DeadTimePasses
    BY <2>2 DEF DeadTimePasses
  <2>3. CASE CronEnds
    BY <2>3 DEF CronEnds
  <2> QED BY <1>7, <2>1, <2>2, <2>3 DEF Clock
<1>8. CASE UNCHANGED vars
  BY <1>8 DEF vars
<1> QED BY <1>1, <1>2, <1>3, <1>4, <1>5, <1>6, <1>7, <1>8 DEF Next

\* Started serially, a schedule implements the promise, for any threads,
\* rounds and configurations.
THEOREM LifeKeepsPromise == SerialSpec => LifeKept
<1>1. Init => Life!Init
  BY DEF Init, Life!Init, Working, Live
<1>2. SInv /\ [Next /\ SerialStart]_vars =>
        [Life!Next]_<<state, Working # {}, pool = "running", \E s \in Slots : Live(s)>>
  BY LifeStep
<1> QED BY <1>1, <1>2, SerialInvariant, PTL DEF SerialSpec, LifeKept, Life!Spec, Life!promise

\* What the promise means, told by the abstract specification alone: STOPPED
\* is shown only while nothing is queued or running, and is left only when a
\* start has put a new pool in place.
THEOREM PromiseMeansQuiet ==
  LifeKept => /\ []StoppedMeansQuiet
              /\ [][state = "STOPPED" /\ state' # "STOPPED" =>
                      Working # {} /\ pool = "running"]_state
<1> DEFINE view == <<state, Working # {}, pool = "running", \E s \in Slots : Live(s)>>
           Leaves == state = "STOPPED" /\ state' # "STOPPED" => Working # {} /\ pool = "running"
<1>1. Life!Init => StoppedMeansQuiet
  BY DEF Life!Init, StoppedMeansQuiet
<1>2. ASSUME [Life!Next]_view PROVE (StoppedMeansQuiet => StoppedMeansQuiet') /\ [Leaves]_state
  <2>1. CASE Life!Start
    BY <2>1 DEF Life!Start, StoppedMeansQuiet
  <2>2. CASE Life!Go
    BY <2>2 DEF Life!Go, StoppedMeansQuiet
  <2>3. CASE Life!Submit
    BY <2>3 DEF Life!Submit, StoppedMeansQuiet
  <2>4. CASE Life!Drain
    BY <2>4 DEF Life!Drain, StoppedMeansQuiet
  <2>5. CASE Life!Stop
    BY <2>5 DEF Life!Stop, StoppedMeansQuiet
  <2>6. CASE Life!Close
    BY <2>6 DEF Life!Close, StoppedMeansQuiet
  <2>7. CASE Life!Stopped
    BY <2>7 DEF Life!Stopped, StoppedMeansQuiet
  <2>8. CASE Life!End
    BY <2>8 DEF Life!End, StoppedMeansQuiet
  <2>9. CASE Life!Abandon
    BY <2>9 DEF Life!Abandon, StoppedMeansQuiet
  <2>10. CASE UNCHANGED view
    BY <2>10 DEF StoppedMeansQuiet
  <2> QED BY <1>2, <2>1, <2>2, <2>3, <2>4, <2>5, <2>6, <2>7, <2>8, <2>9, <2>10 DEF Life!Next
<1>3. LifeKept => []StoppedMeansQuiet
  BY <1>1, <1>2, PTL DEF LifeKept, Life!Spec, Life!promise
<1>4. LifeKept => [][Leaves]_state
  BY <1>2, PTL DEF LifeKept, Life!Spec, Life!promise
<1> QED BY <1>3, <1>4
=============================================================================
