--------------------------- MODULE ScheduleConfig --------------------------
(***************************************************************************)
(* The options threadCore and threadMax of a schedule: the map they are    *)
(* kept in, the pool they govern, the requests that save options, and the  *)
(* refresh that makes a new pool when a stopped schedule is started.       *)
(*                                                                         *)
(* Neither saveConfig nor the setters lock anything: each read and write   *)
(* of the map or the pool is a step of its own, and requests interleave.   *)
(***************************************************************************)
EXTENDS Integers, FiniteSets

CONSTANTS Requests,   \* threads that handle saveConfig
          Asks,       \* what a request may ask: sets of <<option, value>>
          Defaults,   \* the options the annotation gives
          NoOption    \* no option is being set

Options == {"core", "max"}
Other(k) == IF k = "core" THEN "max" ELSE "core"
Sizes == Nat \ {0}
Configs == [Options -> Sizes]

\* What the constructor of ThreadPoolExecutor asks of its sizes.
WellFormed(c) == c["core"] <= c["max"]

ASSUME ConfigAssumption ==
    /\ \A a \in Asks : a \subseteq Options \X Int
    /\ Defaults \in Configs /\ WellFormed(Defaults)
    /\ NoOption \notin Options \X Int

VARIABLES
    conf,       \* confMap
    pool,       \* the sizes of the current pool
    over,       \* the pool is terminated
    step,       \* where each request is
    todo,       \* the options it has not come to
    now,        \* the option it is setting
    seen,       \* the setter's local copy of the other option
    starting,   \* where scheduleStart is
    fresh,      \* the sizes it has read for the new pool
    overlap,    \* history: two of them have been under way together
    alone       \* history: since all was quiet only one has been under way

request == <<step, todo, now, seen>>
refreshing == <<starting, fresh>>
history == <<overlap, alone>>
configVars == <<conf, pool, over, request, refreshing, history>>

Steps == {"idle", "apply", "put", "look", "fit", "compare", "core", "max", "save"}

Idle(r) == step[r] = "idle"
Quiet == (\A r \in Requests : Idle(r)) /\ starting = "no"

Goto(r, s) == step' = [step EXCEPT ![r] = s]

Begin == overlap' = (overlap \/ ~Quiet) /\ alone' = Quiet

Key(r) == now[r][1]
Value(r) == now[r][2]

\* Do the value a setter puts and a value of the other option go together?
Fits(k, v, w) == IF k = "core" THEN v <= w ELSE w <= v

\* What the setter writes to the pool.
Target(r, k) == IF k = Key(r) THEN Value(r) ELSE seen[r]

Init ==
    /\ conf = Defaults /\ pool = Defaults /\ over = FALSE
    /\ step = [r \in Requests |-> "idle"]
    /\ todo = [r \in Requests |-> {}]
    /\ now = [r \in Requests |-> NoOption]
    /\ seen = [r \in Requests |-> 0]
    /\ starting = "no" /\ fresh = [k \in Options |-> 0]
    /\ overlap = FALSE /\ alone = TRUE

-----------------------------------------------------------------------------
(* saveConfig: the options of a request, in any order (a HashMap)          *)

Ask(r, a) ==
    /\ Idle(r)
    /\ todo' = [todo EXCEPT ![r] = a]
    /\ Goto(r, "apply")
    /\ Begin
    /\ UNCHANGED <<conf, pool, over, now, seen, refreshing>>

\* A request ends, with an answer or an exception.
Forget(r) ==
    /\ Goto(r, "idle")
    /\ todo' = [todo EXCEPT ![r] = {}]
    /\ now' = [now EXCEPT ![r] = NoOption]
    /\ seen' = [seen EXCEPT ![r] = 0]

\* A value below 1, or another option of the request that is refused: an
\* exception ends the request, and what it has set so far stays set.
Refuse(r) ==
    /\ step[r] = "apply"
    /\ Forget(r)
    /\ UNCHANGED <<conf, pool, over, refreshing, history>>

SameValue(r, o) ==
    /\ step[r] = "apply"
    /\ o \in todo[r] /\ o[2] \in Sizes
    /\ o[2] = conf[o[1]]
    /\ todo' = [todo EXCEPT ![r] = @ \ {o}]
    /\ UNCHANGED <<conf, pool, over, step, now, seen, refreshing, history>>

\* Mutant of NewValue: the value is not checked.
NewValueUnchecked(r, o) ==
    /\ step[r] = "apply"
    /\ o \in todo[r]
    /\ o[2] # conf[o[1]]
    /\ todo' = [todo EXCEPT ![r] = @ \ {o}]
    /\ now' = [now EXCEPT ![r] = o]
    /\ Goto(r, "put")
    /\ UNCHANGED <<conf, pool, over, seen, refreshing, history>>

NewValue(r, o) ==
    /\ step[r] = "apply"
    /\ o \in todo[r] /\ o[2] \in Sizes
    /\ o[2] # conf[o[1]]
    /\ todo' = [todo EXCEPT ![r] = @ \ {o}]
    /\ now' = [now EXCEPT ![r] = o]
    /\ Goto(r, "put")
    /\ UNCHANGED <<conf, pool, over, seen, refreshing, history>>

PutOption(r) ==
    /\ step[r] = "put"
    /\ conf' = [conf EXCEPT ![Key(r)] = Value(r)]
    /\ Goto(r, "look")
    /\ UNCHANGED <<pool, over, todo, now, seen, refreshing, history>>

ReadOther(r) ==
    /\ step[r] = "look"
    /\ seen' = [seen EXCEPT ![r] = conf[Other(Key(r))]]
    /\ Goto(r, "fit")
    /\ UNCHANGED <<conf, pool, over, todo, now, refreshing, history>>

\* Mutant of FitOther: the other option is left as it is.
FitNothing(r) ==
    /\ step[r] = "fit"
    /\ Goto(r, "compare")
    /\ UNCHANGED <<conf, pool, over, todo, now, seen, refreshing, history>>

\* A maximum below the core size is raised to it, a core size above the
\* maximum is lowered to it.
FitOther(r) ==
    /\ step[r] = "fit"
    /\ IF Fits(Key(r), Value(r), seen[r])
       THEN UNCHANGED <<conf, seen>>
       ELSE /\ conf' = [conf EXCEPT ![Other(Key(r))] = Value(r)]
            /\ seen' = [seen EXCEPT ![r] = Value(r)]
    /\ Goto(r, "compare")
    /\ UNCHANGED <<pool, over, todo, now, refreshing, history>>

\* A setter ends: the request goes on with its next option.
SetterReturns(r) ==
    /\ Goto(r, "apply")
    /\ now' = [now EXCEPT ![r] = NoOption]
    /\ seen' = [seen EXCEPT ![r] = 0]
    /\ UNCHANGED <<conf, over, todo, refreshing, history>>

PoolAgrees(r) ==
    /\ step[r] = "compare" /\ pool[Key(r)] = Value(r)
    /\ SetterReturns(r)
    /\ UNCHANGED pool

PoolDiffers(r) ==
    /\ step[r] = "compare" /\ pool[Key(r)] # Value(r)
    /\ Goto(r, "core")
    /\ UNCHANGED <<conf, pool, over, todo, now, seen, refreshing, history>>

\* Up to Java 8 the pool takes any core size; Java 9 refuses one above its
\* maximum.
ResizeCore(r) ==
    /\ step[r] = "core"
    /\ pool' = [pool EXCEPT !["core"] = Target(r, "core")]
    /\ Goto(r, "max")
    /\ UNCHANGED <<conf, over, todo, now, seen, refreshing, history>>

ResizeMax(r) ==
    /\ step[r] = "max"
    /\ Target(r, "max") >= pool["core"]
    /\ pool' = [pool EXCEPT !["max"] = Target(r, "max")]
    /\ SetterReturns(r)

\* The pool refuses a maximum below its core size: the request fails.
ResizeRefused(r) ==
    /\ step[r] = "max"
    /\ Target(r, "max") < pool["core"]
    /\ Forget(r)
    /\ UNCHANGED <<conf, pool, over, refreshing, history>>

Applied(r) ==
    /\ step[r] = "apply" /\ todo[r] = {}
    /\ Goto(r, "save")
    /\ UNCHANGED <<conf, pool, over, todo, now, seen, refreshing, history>>

-----------------------------------------------------------------------------
(* scheduleStart of a schedule whose pool is terminated                    *)

PoolTerminates ==
    /\ ~over
    /\ over' = TRUE
    /\ UNCHANGED <<conf, pool, request, refreshing, history>>

StartSchedule ==
    /\ over /\ starting = "no"
    /\ starting' = "core"
    /\ Begin
    /\ UNCHANGED <<conf, pool, over, request, fresh>>

RefreshReads(k) ==
    /\ starting = k /\ k \in Options
    /\ fresh' = [fresh EXCEPT ![k] = conf[k]]
    /\ starting' = IF k = "core" THEN "max" ELSE "new"
    /\ UNCHANGED <<conf, pool, over, request, history>>

RefreshEnds ==
    /\ starting' = "no"
    /\ fresh' = [k \in Options |-> 0]

\* Mutant of RefreshPool: the new pool keeps the sizes of the old one.
RefreshOldSizes ==
    /\ starting = "new" /\ WellFormed(fresh)
    /\ pool' = Defaults
    /\ over' = FALSE
    /\ RefreshEnds
    /\ UNCHANGED <<conf, request, history>>

RefreshPool ==
    /\ starting = "new" /\ WellFormed(fresh)
    /\ pool' = fresh
    /\ over' = FALSE
    /\ RefreshEnds
    /\ UNCHANGED <<conf, request, history>>

\* The constructor throws: there is no new pool, and no start.
RefreshRefused ==
    /\ starting = "new" /\ ~WellFormed(fresh)
    /\ RefreshEnds
    /\ UNCHANGED <<conf, pool, over, request, history>>

-----------------------------------------------------------------------------
Setter(r) ==
    \/ \E a \in Asks : Ask(r, a)
    \/ Refuse(r)
    \/ \E o \in todo[r] : SameValue(r, o) \/ NewValue(r, o)
    \/ PutOption(r) \/ ReadOther(r) \/ FitOther(r)
    \/ PoolAgrees(r) \/ PoolDiffers(r)
    \/ ResizeCore(r) \/ ResizeMax(r) \/ ResizeRefused(r)
    \/ Applied(r)

Refresh ==
    \/ PoolTerminates \/ StartSchedule
    \/ RefreshReads("core") \/ RefreshReads("max")
    \/ RefreshPool \/ RefreshRefused

\* The answer; ConfigCache has what saveConfig does before it.
Answer(r) ==
    /\ step[r] = "save"
    /\ Forget(r)
    /\ UNCHANGED <<conf, pool, over, refreshing, history>>

Next == Refresh \/ \E r \in Requests : Setter(r) \/ Answer(r)

Spec == Init /\ [][Next]_configVars

-----------------------------------------------------------------------------
OptionsOK ==
    /\ conf \in Configs /\ pool \in Configs /\ over \in BOOLEAN
    /\ step \in [Requests -> Steps]
    /\ todo \in [Requests -> SUBSET (Options \X Int)]
    /\ now \in [Requests -> (Options \X Sizes) \cup {NoOption}]
    /\ seen \in [Requests -> Nat]
    /\ starting \in {"no", "core", "max", "new"}
    /\ fresh \in [Options -> Nat]
    /\ overlap \in BOOLEAN /\ alone \in BOOLEAN

\* The options go together and are those the pool works with whenever nobody
\* is changing them, whichever requests were answered, refused half-way or
\* stopped by the pool, as long as no two of them overlapped.
OptionsInForce ==
    Quiet /\ ~overlap => WellFormed(conf) /\ pool = conf

\* That the setters read first and decide later can be ignored: whatever
\* overlapped, the options that are left go together.
RacesAreHarmless ==
    Quiet => WellFormed(conf)
=============================================================================
