-------------------------- MODULE MCScheduleConfig --------------------------
(* Instances of ScheduleConfig for TLC. *)
EXTENDS ScheduleConfig

\* Core size and maximum are raised, lowered and refused, alone and together.
SizeAsks == {{<<"core", 2>>}, {<<"core", 3>>}, {<<"max", 1>>, <<"core", 2>>},
             {<<"max", 0>>, <<"core", 1>>}, {}}

OneOrTwo == [k \in Options |-> IF k = "core" THEN 1 ELSE 2]
=============================================================================
