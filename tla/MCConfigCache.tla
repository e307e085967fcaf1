--------------------------- MODULE MCConfigCache ---------------------------
(* Instances of ConfigCache for TLC. *)
EXTENDS ConfigCache, TLC

\* A request that is refused, before or after it has set a core size above
\* the maximum; one that lowers the core size; one whose core size raises the
\* maximum it has just set, or is lowered to it.
CacheAsks == {{<<"core", 3>>, <<"max", 0>>}, {<<"max", 1>>}, {<<"max", 2>>, <<"core", 3>>}}

Ones == [k \in Options |-> 1]

\* Requests are interchangeable; all properties of the run are safety.
RequestSymmetry == Permutations(Requests)

\* At most two of the requests and scheduleStart are under way together.
TwoHandlers == starting = "no" \/ \E r \in Requests : Idle(r)

\* A text other than the first is put into the map only while none of them
\* have overlapped.
TextAlone == overlap => setting = {} /\ text = FirstText /\ fileText = FirstText /\ ~misfit
=============================================================================
