--------------------------- MODULE MCTaskConflict ---------------------------
(* Instances of TaskConflict for TLC. *)
EXTENDS TaskConflict, TLC

\* Schedules, ids and futures are interchangeable; safety runs only.
ConflictSymmetry ==
    Permutations(Schedules) \cup Permutations(Ids) \cup Permutations(Futures)

\* One trouble at a time: a schedule between a shutdown and the end of its last
\* cleaning, or a task in a pool that never got into the map.
Stops(s) == last[s] # "none" \/ ~PoolOpen(s)
OneTrouble ==
    /\ \A s, u \in Schedules : Stops(s) /\ Stops(u) => s = u
    /\ \A f, g \in unrecorded : f = g
    /\ unrecorded # {} => \A s \in Schedules : ~Stops(s)
=============================================================================
