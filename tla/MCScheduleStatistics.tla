------------------------ MODULE MCScheduleStatistics ------------------------
(* Instances of ScheduleStatistics for TLC. *)
EXTENDS ScheduleStatistics, TLC

\* Workers and queues are interchangeable.
StatisticsSymmetry == Permutations(Workers) \cup Permutations(Queues)
=============================================================================
