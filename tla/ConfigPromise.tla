--------------------------- MODULE ConfigPromise ---------------------------
(***************************************************************************)
(* What saving the options of a schedule promises: a restart brings back   *)
(* the options that were in force when the last save was answered, and     *)
(* nothing else.  It promises nothing once a save has begun and not ended. *)
(***************************************************************************)
CONSTANTS Configs,    \* the options a schedule can have
          Defaults,   \* those it has without a cache
          Unknown     \* nothing is promised

VARIABLES live,       \* the options in force
          saved,      \* what a restart brings back
          up          \* the application is running

vars == <<live, saved, up>>

Init == live = Defaults /\ saved = Defaults /\ up = TRUE

Change == up /\ live' \in Configs /\ UNCHANGED <<saved, up>>
BeginSave == up /\ saved' = Unknown /\ UNCHANGED <<live, up>>
EndSave == up /\ saved' = live /\ UNCHANGED <<live, up>>
Stop == up /\ up' = FALSE /\ live' = Defaults /\ UNCHANGED saved

\* By hand, while the application is down.
Discard == ~up /\ saved' = Defaults /\ UNCHANGED <<live, up>>

Restart ==
    /\ ~up /\ up' = TRUE
    /\ live' \in Configs /\ saved' = live'
    /\ saved # Unknown => live' = saved

Next == Change \/ BeginSave \/ EndSave \/ Stop \/ Discard \/ Restart

Spec == Init /\ [][Next]_vars
=============================================================================
