-------------------------- MODULE MCCompleteLatch --------------------------
(* Instances of CompleteLatch for TLC. *)
EXTENDS CompleteLatch, TLC

\* Tasks are interchangeable; sound for the safety runs only.
TaskSymmetry == Permutations(Tasks)
=============================================================================
