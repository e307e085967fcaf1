-------------------------- MODULE SchedulePromise --------------------------
(***************************************************************************)
(* What one schedule promises those who look at its state and send it      *)
(* requests, without threads, interrupts and next times: rounds are made   *)
(* and slept after only while the schedule is started and its pool open;   *)
(* once the pool is closed nothing enters it any more, and STOPPED is      *)
(* shown when it is closed and empty and not before; after STOPPED only a  *)
(* start, with an open pool, leads to another round.  A thread that closes *)
(* the pool may die of an Error, and what it showed stays until a request  *)
(* finds the pool empty.  A stop is not kept here: a round or a sleep may  *)
(* overtake it (see StopIsFinal).                                          *)
(***************************************************************************)
VARIABLES shown,     \* the state getState answers
          started,   \* a thread is on its way to a last state
          open,      \* the pool takes tasks
          busy       \* tasks are queued or running

promise == <<shown, started, open, busy>>

Init ==
    /\ shown = "INITED" /\ started = FALSE
    /\ open = TRUE /\ busy = FALSE

Start ==
    /\ shown \in {"INITED", "STOPPED"} /\ ~started
    /\ started' = TRUE /\ open' = TRUE
    /\ UNCHANGED <<shown, busy>>

\* A round begins, or the wait for the next one.
Go ==
    /\ started /\ open
    /\ shown' \in {"RUNNING", "SLEEPING"}
    /\ UNCHANGED <<started, open, busy>>

Submit ==
    /\ started /\ open /\ shown # "STOPPED"
    /\ busy' = TRUE
    /\ UNCHANGED <<shown, started, open>>

\* The last task ends or is dropped.
Drain ==
    /\ busy
    /\ busy' = FALSE
    /\ UNCHANGED <<shown, started, open>>

Stop ==
    /\ started
    /\ shown \in {"RUNNING", "SLEEPING"}
    /\ shown' = "STOPPING"
    /\ UNCHANGED <<started, open, busy>>

Close ==
    /\ started /\ open
    /\ open' = FALSE
    /\ UNCHANGED <<shown, started, busy>>

\* Seen by a request, or by the thread, which is then through.
Stopped ==
    /\ ~open /\ ~busy
    /\ shown' = "STOPPED"
    /\ started' \in {started, FALSE}
    /\ UNCHANGED <<open, busy>>

\* The thread dies while it terminates: what is shown stays until a request
\* finds the pool empty.
Abandon ==
    /\ started /\ ~open
    /\ started' = FALSE
    /\ UNCHANGED <<shown, open, busy>>

\* A schedule without a further date leaves, and its pool stays open.
End ==
    /\ started /\ open
    /\ shown' = "INITED" /\ started' = FALSE
    /\ UNCHANGED <<open, busy>>

Next == Start \/ Go \/ Submit \/ Drain \/ Stop \/ Close \/ Stopped \/ Abandon \/ End

Spec == Init /\ [][Next]_promise
=============================================================================
