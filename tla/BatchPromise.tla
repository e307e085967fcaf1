---------------------------- MODULE BatchPromise ----------------------------
(***************************************************************************)
(* What a batch of tasks promises its user, without threads, counters or   *)
(* latches: tasks are accepted while the submission is open, every         *)
(* accepted task is executed, then the batch is reported, once, and only   *)
(* then is whoever waits for it released.  CompleteHandler documents the   *)
(* report as the event of all tasks being completed, and CompleteLatch the *)
(* release as waiting for all tasks to be submitted and executed.          *)
(***************************************************************************)
EXTENDS FiniteSets

CONSTANT Tasks

VARIABLES open,       \* more tasks may be accepted
          accepted,   \* tasks that belong to the batch
          executed,   \* tasks whose result is known
          reported,   \* onComplete was called
          released    \* the latch is open

Init ==
    /\ open = TRUE
    /\ accepted = {}
    /\ executed = {}
    /\ reported = FALSE
    /\ released = FALSE

Accept(t) ==
    /\ open
    /\ t \notin accepted
    /\ accepted' = accepted \cup {t}
    /\ UNCHANGED <<open, executed, reported, released>>

Execute(t) ==
    /\ t \in accepted \ executed
    /\ executed' = executed \cup {t}
    /\ UNCHANGED <<open, accepted, reported, released>>

Close ==
    /\ open
    /\ open' = FALSE
    /\ UNCHANGED <<accepted, executed, reported, released>>

Report ==
    /\ ~open /\ ~reported
    /\ executed = accepted
    /\ reported' = TRUE
    /\ UNCHANGED <<open, accepted, executed, released>>

Release ==
    /\ reported /\ ~released
    /\ released' = TRUE
    /\ UNCHANGED <<open, accepted, executed, reported>>

Next ==
    \/ \E t \in Tasks : Accept(t) \/ Execute(t)
    \/ Close
    \/ Report
    \/ Release

Spec == Init /\ [][Next]_<<open, accepted, executed, reported, released>>
=============================================================================
