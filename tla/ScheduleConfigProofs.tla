----------------------- MODULE ScheduleConfigProofs ------------------------
(***************************************************************************)
(* Proofs about the options of a schedule, for any number of requests and  *)
(* whatever they ask.                                                      *)
(***************************************************************************)
EXTENDS ScheduleConfig, TLAPS

\* Steps of a setter that has changed the map.
Mid == {"look", "fit", "compare", "core", "max"}

\* A setter works on one option with a value the pool can take.
SetterTyped ==
    \A r \in Requests :
        /\ step[r] \in Mid \cup {"put"} => now[r] \in Options \X Sizes
        /\ step[r] \in {"fit", "compare", "core", "max"} => seen[r] \in Sizes

\* At most one request or start is under way.
Solo ==
    /\ \A r, q \in Requests : ~Idle(r) /\ ~Idle(q) => r = q
    /\ starting # "no" => \A r \in Requests : Idle(r)

History == ~overlap \/ alone => Solo

Settled == WellFormed(conf) /\ pool = conf

\* What a setter knows while nobody else changes the map or the pool.
SetterKnows(r) ==
    /\ step[r] = "put" => Value(r) # conf[Key(r)]
    /\ step[r] \in Mid => conf[Key(r)] = Value(r)
    /\ step[r] \in {"look", "fit", "compare"} => pool[Key(r)] # Value(r)
    /\ step[r] = "fit" => seen[r] = conf[Other(Key(r))]
    /\ step[r] \in {"compare", "core", "max"} =>
          seen[r] = conf[Other(Key(r))] /\ WellFormed(conf)
    /\ step[r] = "max" => pool["core"] = conf["core"]

RefreshKnows ==
    /\ starting \in {"max", "new"} => fresh["core"] = conf["core"]
    /\ starting = "new" => fresh["max"] = conf["max"]

Undisturbed ==
    /\ (\A r \in Requests : step[r] \notin Mid) => Settled
    /\ \A r \in Requests : SetterKnows(r)
    /\ RefreshKnows

FreshTyped ==
    /\ starting \in {"max", "new"} => fresh["core"] \in Sizes
    /\ starting = "new" => fresh["max"] \in Sizes

OptionsInv ==
    /\ OptionsOK /\ SetterTyped /\ FreshTyped
    /\ History
    /\ ~overlap => Undisturbed

LEMMA InitInv == Init => OptionsInv
<1> SUFFICES ASSUME Init PROVE OptionsInv
  OBVIOUS
<1>1. OptionsOK
  BY ConfigAssumption DEF Init, OptionsOK, Steps, Configs
<1>2. SetterTyped /\ FreshTyped /\ History /\ Undisturbed
  BY ConfigAssumption
     DEF Init, SetterTyped, FreshTyped, History, Solo, Idle, Undisturbed, Settled,
         SetterKnows, RefreshKnows, Mid
<1> QED BY <1>1, <1>2 DEF OptionsInv

\* A setter's steps keep the types.
LEMMA SetterTypes ==
  ASSUME OptionsInv, NEW r \in Requests, Setter(r) \/ Answer(r)
  PROVE  OptionsOK'
<1> USE DEF OptionsInv, OptionsOK, Options, Configs, Sizes, Steps, Goto, request, refreshing, history, SetterTyped, Mid, Key, Value, Other
<1>1. ASSUME NEW a \in Asks, Ask(r, a) PROVE OptionsOK'
  BY <1>1, ConfigAssumption DEF Ask, Begin, Quiet
<1>2. ASSUME NEW o \in todo[r], SameValue(r, o) PROVE OptionsOK'
  BY <1>2 DEF SameValue
<1>3. ASSUME NEW o \in todo[r], NewValue(r, o) PROVE OptionsOK'
  BY <1>3 DEF NewValue
<1>4. CASE Refuse(r)
  BY <1>4 DEF Refuse, Forget
<1>5. CASE PutOption(r)
  BY <1>5 DEF PutOption
<1>6. CASE ReadOther(r)
  BY <1>6 DEF ReadOther
<1>7. CASE FitOther(r)
  BY <1>7 DEF FitOther, Fits
<1>8. CASE PoolAgrees(r)
  BY <1>8 DEF PoolAgrees, SetterReturns
<1>9. CASE PoolDiffers(r)
  BY <1>9 DEF PoolDiffers
<1>10. CASE ResizeCore(r)
  BY <1>10 DEF ResizeCore, Target
<1>11. CASE ResizeMax(r)
  BY <1>11 DEF ResizeMax, SetterReturns, Target
<1>12. CASE ResizeRefused(r)
  BY <1>12 DEF ResizeRefused, Forget
<1>13. CASE Applied(r)
  BY <1>13 DEF Applied
<1>14. CASE Answer(r)
  BY <1>14 DEF Answer, Forget
<1> QED BY <1>1, <1>2, <1>3, <1>4, <1>5, <1>6, <1>7, <1>8, <1>9, <1>10, <1>11, <1>12, <1>13, <1>14 DEF Setter

\* So does a refresh.
LEMMA RefreshTypes ==
  ASSUME OptionsInv, Refresh
  PROVE  OptionsOK'
<1> USE DEF OptionsInv, OptionsOK, Options, Configs, Sizes, Steps, Goto, request, refreshing, history, FreshTyped, WellFormed
<1>1. CASE PoolTerminates
  BY <1>1 DEF PoolTerminates
<1>2. CASE StartSchedule
  BY <1>2 DEF StartSchedule, Begin, Quiet
<1>3. CASE RefreshPool
  BY <1>3 DEF RefreshPool, RefreshEnds
<1>4. CASE RefreshRefused
  BY <1>4 DEF RefreshRefused, RefreshEnds
<1>5. ASSUME NEW k \in Options, RefreshReads(k) PROVE OptionsOK'
  BY <1>5 DEF RefreshReads
<1> QED BY <1>1, <1>2, <1>3, <1>4, <1>5 DEF Refresh

\* A setter's locals hold options and sizes.
LEMMA SetterStaysTyped ==
  ASSUME OptionsInv, NEW r \in Requests, Setter(r) \/ Answer(r)
  PROVE  SetterTyped' /\ FreshTyped'
<1> USE DEF OptionsInv, OptionsOK, Options, Configs, Sizes, Steps, Goto, request, refreshing, history, SetterTyped, FreshTyped, Mid, Key, Value, Other
<1>1. ASSUME NEW a \in Asks, Ask(r, a) PROVE SetterTyped' /\ FreshTyped'
  BY <1>1, ConfigAssumption DEF Ask, Begin, Quiet
<1>2. ASSUME NEW o \in todo[r], SameValue(r, o) PROVE SetterTyped' /\ FreshTyped'
  BY <1>2 DEF SameValue
<1>3. ASSUME NEW o \in todo[r], NewValue(r, o) PROVE SetterTyped' /\ FreshTyped'
  BY <1>3 DEF NewValue
<1>4. CASE Refuse(r)
  BY <1>4 DEF Refuse, Forget
<1>5. CASE PutOption(r)
  BY <1>5 DEF PutOption
<1>6. CASE ReadOther(r)
  BY <1>6 DEF ReadOther
<1>7. CASE FitOther(r)
  BY <1>7 DEF FitOther, Fits
<1>8. CASE PoolAgrees(r)
  BY <1>8 DEF PoolAgrees, SetterReturns
<1>9. CASE PoolDiffers(r)
  BY <1>9 DEF PoolDiffers
<1>10. CASE ResizeCore(r)
  BY <1>10 DEF ResizeCore, Target
<1>11. CASE ResizeMax(r)
  BY <1>11 DEF ResizeMax, SetterReturns, Target
<1>12. CASE ResizeRefused(r)
  BY <1>12 DEF ResizeRefused, Forget
<1>13. CASE Applied(r)
  BY <1>13 DEF Applied
<1>14. CASE Answer(r)
  BY <1>14 DEF Answer, Forget
<1> QED BY <1>1, <1>2, <1>3, <1>4, <1>5, <1>6, <1>7, <1>8, <1>9, <1>10, <1>11, <1>12, <1>13, <1>14 DEF Setter

\* And a refresh's.
LEMMA RefreshStaysTyped ==
  ASSUME OptionsInv, Refresh
  PROVE  SetterTyped' /\ FreshTyped'
<1> USE DEF OptionsInv, OptionsOK, Options, Configs, Sizes, Steps, Goto, request, refreshing, history, SetterTyped, FreshTyped, Mid
<1>1. CASE PoolTerminates
  BY <1>1 DEF PoolTerminates
<1>2. CASE StartSchedule
  BY <1>2 DEF StartSchedule, Begin, Quiet
<1>3. CASE RefreshPool
  BY <1>3 DEF RefreshPool, RefreshEnds
<1>4. CASE RefreshRefused
  BY <1>4 DEF RefreshRefused, RefreshEnds
<1>5. ASSUME NEW k \in Options, RefreshReads(k) PROVE SetterTyped' /\ FreshTyped'
  BY <1>5 DEF RefreshReads
<1> QED BY <1>1, <1>2, <1>3, <1>4, <1>5 DEF Refresh

\* Overlaps are recorded.
LEMMA SetterHistory ==
  ASSUME OptionsInv, NEW r \in Requests, Setter(r) \/ Answer(r)
  PROVE  History'
<1> USE DEF OptionsInv, OptionsOK, Options, Configs, Sizes, Steps, Goto, request, refreshing, history, History, Solo, Idle
<1>1. ASSUME NEW a \in Asks, Ask(r, a) PROVE History'
  BY <1>1, ConfigAssumption DEF Ask, Begin, Quiet
<1>2. ASSUME NEW o \in todo[r], SameValue(r, o) PROVE History'
  BY <1>2 DEF SameValue
<1>3. ASSUME NEW o \in todo[r], NewValue(r, o) PROVE History'
  BY <1>3 DEF NewValue
<1>4. CASE Refuse(r)
  BY <1>4 DEF Refuse, Forget
<1>5. CASE PutOption(r)
  BY <1>5 DEF PutOption
<1>6. CASE ReadOther(r)
  BY <1>6 DEF ReadOther
<1>7. CASE FitOther(r)
  BY <1>7 DEF FitOther, Fits
<1>8. CASE PoolAgrees(r)
  BY <1>8 DEF PoolAgrees, SetterReturns
<1>9. CASE PoolDiffers(r)
  BY <1>9 DEF PoolDiffers
<1>10. CASE ResizeCore(r)
  BY <1>10 DEF ResizeCore, Target
<1>11. CASE ResizeMax(r)
  BY <1>11 DEF ResizeMax, SetterReturns, Target
<1>12. CASE ResizeRefused(r)
  BY <1>12 DEF ResizeRefused, Forget
<1>13. CASE Applied(r)
  BY <1>13 DEF Applied
<1>14. CASE Answer(r)
  BY <1>14 DEF Answer, Forget
<1> QED BY <1>1, <1>2, <1>3, <1>4, <1>5, <1>6, <1>7, <1>8, <1>9, <1>10, <1>11, <1>12, <1>13, <1>14 DEF Setter

\* A refresh that overlaps is recorded.
LEMMA RefreshHistory ==
  ASSUME OptionsInv, Refresh
  PROVE  History'
<1> USE DEF OptionsInv, OptionsOK, Options, Configs, Sizes, Steps, Goto, request, refreshing, history, History, Solo, Idle
<1>1. CASE PoolTerminates
  BY <1>1 DEF PoolTerminates
<1>2. CASE StartSchedule
  BY <1>2 DEF StartSchedule, Begin, Quiet
<1>3. CASE RefreshPool
  BY <1>3 DEF RefreshPool, RefreshEnds
<1>4. CASE RefreshRefused
  BY <1>4 DEF RefreshRefused, RefreshEnds
<1>5. ASSUME NEW k \in Options, RefreshReads(k) PROVE History'
  BY <1>5 DEF RefreshReads
<1> QED BY <1>1, <1>2, <1>3, <1>4, <1>5 DEF Refresh

\* While one request is under way, the others and scheduleStart are idle.
LEMMA OneSetter ==
  ASSUME OptionsInv, ~overlap, NEW r \in Requests, ~Idle(r)
  PROVE  /\ \A q \in Requests \ {r} : step[q] = "idle"
         /\ starting = "no"
         /\ step[r] \notin Mid => Settled
  BY DEF OptionsInv, History, Solo, Idle, Undisturbed, Mid

\* Undisturbed, a setter leaves the options settled when it returns.
LEMMA SetterUndisturbed ==
  ASSUME OptionsInv, NEW r \in Requests, Setter(r) \/ Answer(r), ~overlap'
  PROVE  Undisturbed'
<1>1. ASSUME NEW a \in Asks, Ask(r, a) PROVE Undisturbed'
  <2>1. ~overlap /\ Quiet
    BY <1>1 DEF Ask, Begin, OptionsInv, OptionsOK
  <2>2. Undisturbed
    BY <2>1 DEF OptionsInv
  <2> QED
    BY <1>1, <2>1, <2>2
       DEF Ask, Quiet, Idle, Undisturbed, Settled, SetterKnows, RefreshKnows, Mid,
           OptionsInv, OptionsOK, Goto, Key, Value, refreshing
<1>2. ASSUME ~(\E a \in Asks : Ask(r, a)) PROVE Undisturbed'
  <2>1. ~overlap /\ ~Idle(r)
    BY <1>2 DEF Setter, Answer, Idle, history, Refuse, SameValue, NewValue, PutOption, ReadOther,
                FitOther, PoolAgrees, PoolDiffers, SetterReturns, ResizeCore, ResizeMax,
                ResizeRefused, Applied
  <2>2. Undisturbed /\ (\A q \in Requests \ {r} : step[q] = "idle") /\ starting = "no"
        /\ (step[r] \notin Mid => Settled)
    BY <2>1, OneSetter DEF OptionsInv
  <2>3. OptionsOK /\ SetterTyped
    BY DEF OptionsInv
  <2>4. SetterKnows(r)
    BY <2>2 DEF Undisturbed
  <2> DEFINE Next1 == (step'[r] \notin Mid => Settled') /\ SetterKnows(r)'
  <2>5. ASSUME Next1, starting' = starting, \A q \in Requests \ {r} : step'[q] = step[q]
        PROVE  Undisturbed'
    BY <2>2, <2>5 DEF Undisturbed, SetterKnows, RefreshKnows, Mid
  <2> HIDE DEF Next1
  <2>6. starting' = starting /\ \A q \in Requests \ {r} : step'[q] = step[q]
    BY <1>2, <2>3 DEF OptionsOK, Setter, Answer, refreshing, Goto, Forget, Refuse, SameValue,
         NewValue, PutOption, ReadOther, FitOther, PoolAgrees, PoolDiffers, SetterReturns,
         ResizeCore, ResizeMax, ResizeRefused, Applied
  <2> USE <2>2, <2>3, <2>4
  <2> USE DEF OptionsOK, Options, Configs, Sizes, Goto, Key, Value, Other, Mid, Settled,
              WellFormed, SetterKnows, SetterTyped, Next1
  <2>7. ASSUME NEW o \in todo[r], SameValue(r, o) PROVE Next1
    BY <2>7 DEF SameValue
  <2>8. ASSUME NEW o \in todo[r], NewValue(r, o) PROVE Next1
    BY <2>8 DEF NewValue
  <2>9. ASSUME Refuse(r) PROVE Next1
    BY <2>9 DEF Refuse, Forget
  <2>10. ASSUME PutOption(r) PROVE Next1
    BY <2>10 DEF PutOption
  <2>11. ASSUME ReadOther(r) PROVE Next1
    BY <2>11 DEF ReadOther
  <2>12. ASSUME FitOther(r) PROVE Next1
    BY <2>12 DEF FitOther, Fits
  <2>13. ASSUME PoolAgrees(r) PROVE Next1
    BY <2>13 DEF PoolAgrees, SetterReturns
  <2>14. ASSUME PoolDiffers(r) PROVE Next1
    BY <2>14 DEF PoolDiffers
  <2>15. ASSUME ResizeCore(r) PROVE Next1
    BY <2>15 DEF ResizeCore, Target
  <2>16. ASSUME ResizeMax(r) PROVE Next1
    BY <2>16 DEF ResizeMax, SetterReturns, Target
  <2>17. ASSUME ResizeRefused(r) PROVE Next1
    BY <2>17 DEF ResizeRefused, Forget, Target
  <2>18. ASSUME Applied(r) PROVE Next1
    BY <2>18 DEF Applied
  <2>19. ASSUME Answer(r) PROVE Next1
    BY <2>19 DEF Answer, Forget
  <2> QED BY <1>2, <2>5, <2>6, <2>7, <2>8, <2>9, <2>10, <2>11, <2>12, <2>13, <2>14, <2>15, <2>16, <2>17, <2>18, <2>19 DEF Setter
<1> QED BY <1>1, <1>2

\* Undisturbed, a refresh makes a pool with the options in the map.
LEMMA RefreshUndisturbed ==
  ASSUME OptionsInv, Refresh, ~overlap'
  PROVE  Undisturbed'
<1>1. ~overlap /\ Undisturbed /\ OptionsOK /\ History
  BY DEF OptionsInv, OptionsOK, Refresh, PoolTerminates, StartSchedule, Begin, RefreshReads,
         RefreshPool, RefreshRefused, history
<1> USE <1>1
<1> USE DEF Undisturbed, Settled, SetterKnows, RefreshKnows, Mid, OptionsOK, Options, Configs,
            Sizes, Key, Value, request, refreshing, History, Solo, Idle
<1>2. CASE PoolTerminates
  BY <1>2 DEF PoolTerminates
<1>3. CASE StartSchedule
  BY <1>3 DEF StartSchedule
<1>4. ASSUME NEW k \in Options, RefreshReads(k) PROVE Undisturbed'
  BY <1>4 DEF RefreshReads
<1>5. CASE RefreshPool
  <2>1. fresh = conf
    BY <1>5 DEF RefreshPool
  <2> QED BY <1>5, <2>1 DEF RefreshPool, RefreshEnds
<1>6. CASE RefreshRefused
  BY <1>6 DEF RefreshRefused, RefreshEnds
<1> QED BY <1>2, <1>3, <1>4, <1>5, <1>6 DEF Refresh

LEMMA SetterInv ==
  ASSUME OptionsInv, NEW r \in Requests, Setter(r) \/ Answer(r)
  PROVE  OptionsInv'
BY SetterTypes, SetterStaysTyped, SetterHistory, SetterUndisturbed DEF OptionsInv

LEMMA RefreshInv ==
  ASSUME OptionsInv, Refresh
  PROVE  OptionsInv'
BY RefreshTypes, RefreshStaysTyped, RefreshHistory, RefreshUndisturbed DEF OptionsInv

LEMMA StutterInv ==
  ASSUME OptionsInv, UNCHANGED configVars
  PROVE  OptionsInv'
BY DEF OptionsInv, configVars, request, refreshing, history, OptionsOK, SetterTyped, FreshTyped,
       History, Solo, Idle, Undisturbed, Settled, SetterKnows, RefreshKnows, Key, Value

LEMMA InvSuffices == OptionsInv => OptionsOK /\ OptionsInForce
BY DEF OptionsInv, Undisturbed, Settled, OptionsInForce, Quiet, Idle, Mid

LEMMA SpecInv == Spec => []OptionsInv
<1>1. OptionsInv /\ [Next]_configVars => OptionsInv'
  BY SetterInv, RefreshInv, StutterInv DEF Next
<1> QED BY InitInv, <1>1, PTL DEF Spec

\* The map and the pool hold sizes a pool can have, whatever requests ask and
\* however their setters interleave.
THEOREM OptionsTyped == Spec => []OptionsOK
BY SpecInv, InvSuffices, PTL

\* While no two of the requests and starts overlap, the options go together
\* and are those of the pool whenever nobody is changing them.
THEOREM OptionsStayInForce == Spec => []OptionsInForce
BY SpecInv, InvSuffices, PTL
=============================================================================
