------------------------- MODULE MCScheduleContext -------------------------
(* Instances of ScheduleContext for TLC. *)
EXTENDS ScheduleContext, TLC

Config(kind) == [kind |-> kind, cronEnds |-> FALSE, execOnLoad |-> FALSE,
                 initialDelay |-> FALSE, deadTime |-> FALSE, ignoreExec |-> FALSE]

\* One configuration per kind of timing, between them every option.
MixedConfigs == {
    [Config("cron") EXCEPT !.cronEnds = TRUE, !.execOnLoad = TRUE, !.ignoreExec = TRUE],
    [Config("fixedRate") EXCEPT !.initialDelay = TRUE],
    [Config("fixedDelay") EXCEPT !.deadTime = TRUE],
    [Config("none") EXCEPT !.execOnLoad = TRUE]}

CronOnly == {Config("cron")}

\* Threads and slots are interchangeable; sound for the safety runs only.
LifecycleSymmetry == Permutations(Threads) \cup Permutations(Slots)
=============================================================================
