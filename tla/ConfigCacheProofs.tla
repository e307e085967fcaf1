------------------------- MODULE ConfigCacheProofs -------------------------
(***************************************************************************)
(* Proofs about the cache file, for any number of requests, any crashes    *)
(* and failing writes: the application can be started again, and finds the *)
(* options of the last save that was answered.                             *)
(***************************************************************************)
EXTENDS ConfigCache, ScheduleConfigProofs

FileOK ==
    /\ file \in Configs \cup {Absent, Torn}
    /\ writing \in [Requests -> {"no", "copy", "write"}]
    /\ copy \in [Requests -> Configs]
    /\ unread \in [Requests -> SUBSET Entries]
    /\ streams \subseteq Requests
    /\ up \in BOOLEAN /\ spoiled \in BOOLEAN

TextOK ==
    /\ text \in Texts /\ fileText \in Texts
    /\ setting \subseteq Requests
    /\ copyText \in [Requests -> Texts]
    /\ misfit \in BOOLEAN

\* Only a request that saves is writing, and nothing runs while it is down.
SaveSteps ==
    /\ \A r \in Requests : writing[r] # "no" => step[r] = "save" /\ spoiled
    /\ ~up => (\A r \in Requests : Idle(r)) /\ starting = "no"

\* A save with nothing else under way copies the options as they are, and its
\* stream is the only one on the file.
SaveKnows(r) ==
    /\ writing[r] = "copy" =>
          streams = {} /\ \A k \in Options \ unread[r] : copy[r][k] = conf[k]
    /\ writing[r] = "write" => streams = {r} /\ copy[r] = conf

FileInv ==
    /\ ~spoiled => file # Torn
    /\ ~spoiled /\ ~overlap => WellFormed(Loaded)

\* A request sets the fields before it saves, and copies the whole map before
\* it writes.
TextSteps ==
    /\ \A r \in setting : ~Idle(r) /\ writing[r] = "no"
    /\ \A r \in Requests : writing[r] = "write" => unread[r] = {}

\* Unless one is put that the fields have not yet been set to, the texts in the
\* map, in the copy of a save and in the file are such that the fields take.
TextFits ==
    ~overlap /\ ~misfit =>
        /\ up /\ setting = {} => text \in FieldTexts
        /\ \A r \in Requests :
              writing[r] # "no" /\ "text" \notin unread[r] => copyText[r] \in FieldTexts
        /\ ~spoiled /\ file # Absent => fileText \in FieldTexts

TextInv == TextOK /\ TextSteps /\ TextFits

CacheInv ==
    /\ OptionsInv /\ FileOK /\ SaveSteps
    /\ alone => \A r \in Requests : SaveKnows(r)
    /\ FileInv

AllInv == CacheInv /\ TextInv

LEMMA CacheInitInv == CacheInit => CacheInv
<1> SUFFICES ASSUME CacheInit PROVE CacheInv
  OBVIOUS
<1>1. OptionsInv
  BY InitInv DEF CacheInit
<1>2. FileOK /\ SaveSteps /\ FileInv /\ \A r \in Requests : SaveKnows(r)
  BY ConfigAssumption, CacheAssumption
     DEF CacheInit, Init, FileOK, SaveSteps, FileInv, SaveKnows, Loaded, Idle
<1> QED BY <1>1, <1>2 DEF CacheInv

\* A save that ends is, for the options, a request that is answered.
LEMMA SaveAnswers ==
  ASSUME CacheInv, NEW r \in Requests, step[r] = "save", EndSave(r)
  PROVE  Answer(r) /\ OptionsInv'
<1>1. Answer(r)
  BY DEF EndSave, Answer
<1> QED BY <1>1, SetterInv DEF CacheInv

\* The setters change neither the file nor what a save knows of it.
LEMMA SetterKeepsFile ==
  ASSUME CacheInv, up, UNCHANGED cacheVars, Refresh \/ \E r \in Requests : Setter(r)
  PROVE  CacheInv'
<1>1. OptionsInv'
  BY SetterInv, RefreshInv DEF CacheInv
<1>2. FileOK'
  BY DEF CacheInv, FileOK, cacheVars, saving
<1>3. overlap' \/ ~overlap
  <2>1. CASE Refresh
    BY <2>1 DEF Refresh, PoolTerminates, StartSchedule, Begin, RefreshReads, RefreshPool,
                RefreshRefused, history, CacheInv, OptionsInv, OptionsOK
  <2>2. ASSUME NEW r \in Requests, Setter(r) PROVE overlap' \/ ~overlap
    BY <2>2 DEF Setter, Ask, Begin, history, CacheInv, OptionsInv, OptionsOK, Refuse, SameValue,
                NewValue, PutOption, ReadOther, FitOther, PoolAgrees, PoolDiffers, SetterReturns,
                ResizeCore, ResizeMax, ResizeRefused, Applied
  <2> QED BY <2>1, <2>2
<1>4. FileInv'
  BY <1>3 DEF CacheInv, FileInv, Loaded, cacheVars
<1>5. \A q \in Requests : writing[q] # "no" => step'[q] = "save"
  <2>1. CASE Refresh
    BY <2>1 DEF Refresh, PoolTerminates, StartSchedule, RefreshReads, RefreshPool,
                RefreshRefused, request, CacheInv, SaveSteps
  <2>2. ASSUME NEW r \in Requests, Setter(r)
        PROVE \A q \in Requests : writing[q] # "no" => step'[q] = "save"
    BY <2>2 DEF Setter, Ask, Idle, Goto, Forget, CacheInv, OptionsInv, OptionsOK, SaveSteps,
                Refuse, SameValue,
                NewValue, PutOption, ReadOther, FitOther, PoolAgrees, PoolDiffers, SetterReturns,
                ResizeCore, ResizeMax, ResizeRefused, Applied
  <2> QED BY <2>1, <2>2
<1>6. SaveSteps'
  BY <1>5 DEF CacheInv, SaveSteps, cacheVars, saving
<1>7. ASSUME alone', NEW q \in Requests PROVE SaveKnows(q)'
  <2>1. CASE writing[q] = "no"
    BY <2>1 DEF SaveKnows, cacheVars, saving
  <2>2. CASE writing[q] # "no"
    <3>1. step[q] = "save" /\ ~Quiet
      BY <2>2 DEF CacheInv, SaveSteps, Quiet, Idle
    <3>2. alone /\ conf' = conf
      <4>1. CASE Refresh
        BY <3>1, <4>1, <1>7
           DEF Refresh, PoolTerminates, StartSchedule, Begin, RefreshReads, RefreshPool,
               RefreshRefused, history
      <4>2. ASSUME NEW r \in Requests, Setter(r) PROVE alone /\ conf' = conf
        <5>1. \A a \in Asks : ~Ask(r, a)
          BY <3>1, <1>7 DEF Ask, Begin
        <5>2. alone /\ ~Idle(r)
          BY <4>2, <5>1, <1>7
             DEF Setter, Idle, history, Refuse, SameValue, NewValue, PutOption, ReadOther,
                 FitOther, PoolAgrees, PoolDiffers, SetterReturns, ResizeCore, ResizeMax,
                 ResizeRefused, Applied
        <5>3. r = q
          BY <3>1, <5>2 DEF CacheInv, OptionsInv, History, Solo, Idle
        <5>4. FALSE
          BY <3>1, <5>1, <5>3, <4>2
             DEF Setter, Refuse, SameValue, NewValue, PutOption, ReadOther, FitOther, PoolAgrees,
                 PoolDiffers, SetterReturns, ResizeCore, ResizeMax, ResizeRefused, Applied
        <5> QED BY <5>4
      <4> QED BY <4>1, <4>2
    <3> QED BY <3>2 DEF CacheInv, SaveKnows, cacheVars, saving
  <2> QED BY <2>1, <2>2
<1> QED BY <1>1, <1>2, <1>4, <1>6, <1>7 DEF CacheInv

\* While a save is under way undisturbed, it is the only one.
LEMMA OneSave ==
  ASSUME CacheInv, alone, NEW r \in Requests, step[r] = "save", NEW q \in Requests, q # r
  PROVE  writing[q] = "no" /\ step[q] \notin Mid /\ step[r] \notin Mid
BY DEF CacheInv, OptionsInv, History, Solo, Idle, SaveSteps, Mid

LEMMA SaveInv ==
  ASSUME CacheInv, NEW r \in Requests, SerializeFile(r)
  PROVE  CacheInv'
<1> USE DEF CacheInv
<1>0. FileOK /\ OptionsOK /\ SaveSteps
  BY DEF OptionsInv
<1>1. CASE ClearFile(r)
  <2>1. OptionsInv'
    BY <1>1, StutterInv DEF ClearFile
  <2> USE DEF BeginsSave
  <2>2. FileOK' /\ SaveSteps' /\ FileInv'
    BY <1>0, <1>1
       DEF ClearFile, FileOK, SaveSteps, FileInv, configVars, request, refreshing, Idle
  <2>3. ASSUME alone', NEW q \in Requests PROVE SaveKnows(q)'
    <3>1. alone /\ conf' = conf /\ step[r] = "save"
      BY <1>1, <2>3 DEF ClearFile, configVars, history
    <3>2. CASE q = r
      BY <1>0, <1>1, <3>2 DEF ClearFile, SaveKnows, FileOK, Entries
    <3>3. CASE q # r
      BY <1>0, <1>1, <3>1, <3>3, OneSave DEF ClearFile, SaveKnows, FileOK
    <3> QED BY <3>2, <3>3
  <2> QED BY <2>1, <2>2, <2>3
<1>2. ASSUME NEW k \in Options, CopyOption(r, k) PROVE CacheInv'
  <2>1. OptionsInv'
    BY <1>2, StutterInv DEF CopyOption
  <2>2. FileOK'
    BY <1>0, <1>2 DEF CopyOption, FileOK, OptionsOK, Configs
  <2>3. SaveSteps' /\ FileInv'
    BY <1>0, <1>2
       DEF CopyOption, FileOK, SaveSteps, FileInv, Loaded, configVars, request, refreshing,
           history, Idle
  <2>4. ASSUME alone', NEW q \in Requests PROVE SaveKnows(q)'
    BY <1>0, <1>2, <2>4 DEF CopyOption, SaveKnows, FileOK, configVars, history, Configs
  <2> QED BY <2>1, <2>2, <2>3, <2>4
<1>3. CASE OpenFile(r)
  <2>1. OptionsInv'
    BY <1>3, StutterInv DEF OpenFile
  <2>2. FileOK' /\ SaveSteps' /\ FileInv'
    BY <1>0, <1>3
       DEF OpenFile, FileOK, SaveSteps, FileInv, configVars, request, refreshing, Idle
  <2>3. ASSUME alone', NEW q \in Requests PROVE SaveKnows(q)'
    <3>1. alone /\ conf' = conf /\ step[r] = "save"
      BY <1>0, <1>3, <2>3 DEF OpenFile, configVars, history, SaveSteps
    <3>2. CASE q = r
      <4>1. streams = {} /\ \A k \in Options : copy[r][k] = conf[k]
        BY <1>3, <3>1 DEF OpenFile, SaveKnows
      <4>2. copy[r] = conf
        BY <1>0, <4>1 DEF FileOK, OptionsOK, Configs
      <4> QED BY <1>0, <1>3, <3>1, <3>2, <4>1, <4>2 DEF OpenFile, SaveKnows, FileOK
    <3>3. CASE q # r
      BY <1>0, <1>3, <3>1, <3>3, OneSave DEF OpenFile, SaveKnows, FileOK
    <3> QED BY <3>2, <3>3
  <2> QED BY <2>1, <2>2, <2>3
<1>4. ASSUME EndSave(r), step[r] = "save", FileOK',
             spoiled' \/ (spoiled' = spoiled /\ file' = file) \/ (alone /\ file' = conf)
      PROVE  CacheInv'
  <2>1. OptionsInv'
    BY <1>4, SaveAnswers
  <2>2. SaveSteps'
    <3>1. ASSUME NEW q \in Requests, writing'[q] # "no" PROVE step'[q] = "save" /\ spoiled'
      <4>1. q # r /\ writing[q] # "no"
        BY <1>0, <1>4, <3>1 DEF EndSave, FileOK
      <4>2. ~alone /\ spoiled
        BY <1>0, <1>4, <4>1, OneSave DEF SaveSteps
      <4> QED BY <1>0, <1>4, <4>1, <4>2
              DEF EndSave, Forget, Goto, SaveSteps, OptionsOK
    <3>2. up' = up /\ up
      BY <1>0, <1>4 DEF EndSave, SaveSteps, Idle
    <3> QED BY <3>1, <3>2 DEF SaveSteps
  <2>3. FileInv'
    <3>1. conf' = conf /\ overlap' = overlap
      BY <1>4 DEF EndSave, history
    <3>2. ASSUME alone, file' = conf PROVE FileInv'
      <4>1. file' # Torn /\ file' # Absent
        BY <1>0, <3>2, CacheAssumption DEF OptionsOK
      <4>2. ~overlap => WellFormed(conf)
        BY <1>4, <3>2, OneSave DEF OptionsInv, Undisturbed, Settled, Mid
      <4> QED BY <3>1, <3>2, <4>1, <4>2 DEF FileInv, Loaded
    <3> QED BY <1>4, <3>1, <3>2 DEF FileInv, Loaded
  <2>4. ASSUME alone', NEW q \in Requests PROVE SaveKnows(q)'
    <3>1. CASE q = r
      BY <1>0, <1>4, <3>1 DEF EndSave, SaveKnows, FileOK
    <3>2. CASE q # r
      BY <1>0, <1>4, <2>4, <3>2, OneSave DEF EndSave, SaveKnows, FileOK, history
    <3> QED BY <3>1, <3>2
  <2> QED BY <1>4, <2>1, <2>2, <2>3, <2>4
<1>5. CASE WriteFile(r)
  <2>1. step[r] = "save" /\ EndSave(r)
    BY <1>0, <1>5 DEF WriteFile, SaveSteps
  <2>2. FileOK'
    BY <1>0, <1>5, ConfigAssumption DEF WriteFile, EndSave, FileOK, OptionsOK
  <2>3. alone => file' = conf
    BY <1>5 DEF WriteFile, SaveKnows
  <2> QED BY <1>4, <1>5, <2>1, <2>2, <2>3 DEF WriteFile
<1>6. CASE SaveFails(r) \/ SaveRefused(r)
  <2>1. step[r] = "save" /\ EndSave(r) /\ UNCHANGED <<file, spoiled>>
    BY <1>0, <1>6 DEF SaveFails, SaveRefused, BeginsSave, SaveSteps
  <2>2. FileOK'
    BY <1>0, <2>1, ConfigAssumption DEF EndSave, FileOK
  <2> QED BY <1>4, <2>1, <2>2
<1>7. CASE CopyText(r)
  <2>1. OptionsInv'
    BY <1>7, StutterInv DEF CopyText
  <2>2. FileOK' /\ SaveSteps' /\ FileInv'
    BY <1>0, <1>7
       DEF CopyText, FileOK, SaveSteps, FileInv, Loaded, configVars, request, refreshing,
           history, Idle
  <2>3. ASSUME alone', NEW q \in Requests PROVE SaveKnows(q)'
    BY <1>0, <1>7, <2>3 DEF CopyText, SaveKnows, FileOK, configVars, history, Options
  <2> QED BY <2>1, <2>2, <2>3
<1> QED BY <1>1, <1>2, <1>3, <1>5, <1>6, <1>7 DEF SerializeFile

\* Of a process that ends only the file is left.
LEMMA CrashInv ==
  ASSUME CacheInv, Crash
  PROVE  CacheInv'
<1> USE DEF CacheInv, Crash, RefreshEnds
<1>1. OptionsOK' /\ FileOK'
  BY ConfigAssumption DEF OptionsInv, OptionsOK, FileOK, Steps, history
<1>2. SetterTyped' /\ FreshTyped' /\ History' /\ Undisturbed'
  BY ConfigAssumption
     DEF SetterTyped, FreshTyped, History, Solo, Idle, Undisturbed, Settled, SetterKnows,
         RefreshKnows, Mid
<1>3. SaveSteps' /\ FileInv' /\ \A r \in Requests : SaveKnows(r)'
  BY DEF SaveSteps, FileInv, Loaded, SaveKnows, Idle, history
<1> QED BY <1>1, <1>2, <1>3 DEF OptionsInv

LEMMA BootInv ==
  ASSUME CacheInv, Boot
  PROVE  CacheInv'
<1> USE DEF CacheInv, Boot, Begins, Loads
<1>1. Loaded \in Configs
  BY ConfigAssumption DEF FileOK, Loaded
<1>2. OptionsOK' /\ FileOK'
  BY <1>1 DEF OptionsInv, OptionsOK, FileOK, request, refreshing, saving
<1>3. \A r \in Requests : step'[r] = "idle" /\ writing'[r] = "no"
  BY DEF SaveSteps, Idle, request, saving, FileOK
<1>4. starting' = "no"
  BY DEF SaveSteps, refreshing
<1>5. SetterTyped' /\ FreshTyped' /\ History' /\ Undisturbed'
  BY <1>3, <1>4
     DEF SetterTyped, FreshTyped, History, Solo, Idle, Undisturbed, Settled, SetterKnows,
         RefreshKnows, Mid
<1>6. SaveSteps' /\ FileInv' /\ \A r \in Requests : SaveKnows(r)'
  BY <1>3 DEF SaveSteps, FileInv, Loaded, SaveKnows
<1> QED BY <1>2, <1>5, <1>6 DEF OptionsInv

LEMMA RemoveInv ==
  ASSUME CacheInv, RemoveFile
  PROVE  CacheInv'
<1>1. OptionsInv'
  BY StutterInv DEF CacheInv, RemoveFile
<1>2. FileOK' /\ SaveSteps' /\ FileInv' /\ (alone' => \A r \in Requests : SaveKnows(r)')
  BY ConfigAssumption, CacheAssumption
     DEF CacheInv, RemoveFile, FileOK, SaveSteps, FileInv, Loaded, SaveKnows, Idle, configVars,
         request, refreshing, history, saving
<1> QED BY <1>1, <1>2 DEF CacheInv

\* Steps at the fields of the bean, which touch neither sizes nor file.
LEMMA StillInv ==
  ASSUME CacheInv, UNCHANGED <<configVars, cacheVars>>
  PROVE  CacheInv'
<1>1. OptionsInv'
  BY StutterInv DEF CacheInv
<1> QED
  BY <1>1
     DEF CacheInv, FileOK, SaveSteps, FileInv, Loaded, SaveKnows, Idle, configVars, cacheVars,
         request, refreshing, history, saving

LEMMA FieldsRefuseInv ==
  ASSUME CacheInv, NEW r \in Requests, FieldsRefuse(r), writing[r] = "no"
  PROVE  CacheInv'
<1> USE DEF CacheInv
<1>1. Answer(r) /\ UNCHANGED cacheVars /\ step[r] = "save"
  BY DEF FieldsRefuse
<1>2. OptionsInv'
  BY <1>1, SetterInv
<1>3. /\ UNCHANGED <<conf, refreshing, history>>
      /\ step'[r] = "idle" /\ \A q \in Requests \ {r} : step'[q] = step[q]
  BY <1>1 DEF Answer, Forget, Goto, OptionsInv, OptionsOK
<1>4. FileOK' /\ FileInv' /\ \A q \in Requests : SaveKnows(q) => SaveKnows(q)'
  BY <1>1, <1>3 DEF FileOK, FileInv, Loaded, SaveKnows, cacheVars, saving, history
<1>5. SaveSteps'
  BY <1>1, <1>3 DEF SaveSteps, cacheVars, saving, refreshing, Idle
<1> QED BY <1>2, <1>3, <1>4, <1>5 DEF history

LEMMA CacheStep == AllInv /\ [CacheNext]_vars => CacheInv'
<1> SUFFICES ASSUME AllInv, [CacheNext]_vars PROVE CacheInv'
  OBVIOUS
<1>0. CacheInv
  BY DEF AllInv
<1>1. CASE UNCHANGED vars
  BY <1>0, <1>1, StillInv DEF vars
<1>2. ASSUME NEW r \in Requests, (\E t \in Texts : PutText(r, t)) \/ SetFields(r)
      PROVE  CacheInv'
  BY <1>0, <1>2, StillInv DEF PutText, SetFields
<1>3. ASSUME NEW r \in Requests, FieldsRefuse(r) PROVE CacheInv'
  BY <1>0, <1>3, FieldsRefuseInv DEF AllInv, TextInv, TextSteps, FieldsRefuse
<1>4. CASE up /\ UNCHANGED cacheVars /\ (Refresh \/ \E r \in Requests : Setter(r))
  BY <1>0, <1>4, SetterKeepsFile
<1> QED
  BY <1>0, <1>1, <1>2, <1>3, <1>4, SaveInv, CrashInv, BootInv, RemoveInv DEF CacheNext

-----------------------------------------------------------------------------
(* The text of the fields                                                  *)

\* A step of a setter is one of its own request, and clears no overlap.
LEMMA SetterIsOne ==
  ASSUME OptionsOK, NEW r \in Requests, Setter(r)
  PROVE  /\ \A q \in Requests \ {r} : step'[q] = step[q]
         /\ ~overlap' => ~overlap
BY DEF Setter, Ask, Begin, history, OptionsOK, Goto, Forget, Refuse, SameValue, NewValue,
       PutOption, ReadOther, FitOther, PoolAgrees, PoolDiffers, SetterReturns, ResizeCore,
       ResizeMax, ResizeRefused, Applied

LEMMA RefreshIsNone ==
  ASSUME OptionsOK, Refresh
  PROVE  step' = step /\ (~overlap' => ~overlap)
BY DEF Refresh, PoolTerminates, StartSchedule, Begin, RefreshReads, RefreshPool,
       RefreshRefused, history, request, OptionsOK

LEMMA SaveText ==
  ASSUME AllInv, NEW r \in Requests, SerializeFile(r)
  PROVE  TextInv'
<1> USE DEF AllInv, TextInv
<1>0. FileOK /\ OptionsOK /\ SaveSteps /\ History /\ TextOK /\ TextSteps /\ TextFits
  BY DEF CacheInv, OptionsInv
<1>1. writing[r] # "no" \/ BeginsSave(r) => r \notin setting
  BY <1>0 DEF TextSteps, BeginsSave
<1>2. CASE ClearFile(r)
  <2>1. /\ UNCHANGED <<step, overlap, up, text, setting, copyText, misfit>> /\ spoiled'
        /\ fileText' = FirstText /\ BeginsSave(r)
        /\ writing' = [writing EXCEPT ![r] = "copy"] /\ unread' = [unread EXCEPT ![r] = Entries]
    BY <1>2 DEF ClearFile, configVars, request, history
  <2> QED
    BY <1>0, <1>1, <2>1, CacheAssumption
       DEF TextOK, TextSteps, TextFits, FileOK, Idle, Entries
<1>3. ASSUME NEW k \in Options, CopyOption(r, k) PROVE TextInv'
  <2>1. /\ UNCHANGED <<step, overlap, up, file, writing, spoiled>> /\ UNCHANGED textVars
        /\ unread' = [unread EXCEPT ![r] = @ \ {k}] /\ k # "text" /\ writing[r] = "copy"
    BY <1>3 DEF CopyOption, configVars, request, history, Options
  <2> QED
    BY <1>0, <2>1 DEF TextOK, TextSteps, TextFits, FileOK, Idle, textVars
<1>4. CASE CopyText(r)
  <2>1. /\ UNCHANGED <<step, overlap, up, file, writing, spoiled>>
        /\ UNCHANGED <<text, setting, fileText, misfit>>
        /\ copyText' = [copyText EXCEPT ![r] = text]
        /\ unread' = [unread EXCEPT ![r] = @ \ {"text"}] /\ writing[r] = "copy" /\ up
    BY <1>4 DEF CopyText, configVars, request, history
  <2>2. ~overlap => setting = {}
    <3>1. step[r] = "save"
      BY <1>0, <2>1 DEF SaveSteps
    <3>2. ASSUME ~overlap, NEW q \in setting PROVE FALSE
      <4>1. q \in Requests /\ ~Idle(q) /\ writing[q] = "no"
        BY <1>0, <3>2 DEF TextOK, TextSteps
      <4> QED BY <1>0, <2>1, <3>1, <3>2, <4>1 DEF History, Solo, Idle
    <3> QED BY <3>2
  <2>3. TextFits'
    BY <1>0, <2>1, <2>2 DEF TextOK, TextFits, FileOK
  <2>4. TextOK' /\ TextSteps'
    BY <1>0, <2>1 DEF TextOK, TextSteps, FileOK, Idle
  <2> QED BY <2>3, <2>4
<1>5. CASE OpenFile(r)
  <2>1. /\ UNCHANGED <<step, overlap, up, unread, spoiled>> /\ UNCHANGED textVars
        /\ writing' = [writing EXCEPT ![r] = "write"] /\ unread[r] = {} /\ writing[r] = "copy"
    BY <1>5 DEF OpenFile, configVars, request, history
  <2>2. spoiled
    BY <1>0, <2>1 DEF SaveSteps
  <2> QED
    BY <1>0, <1>1, <2>1, <2>2 DEF TextOK, TextSteps, TextFits, FileOK, Idle, textVars
<1>6. ASSUME EndSave(r), up, r \notin setting, fileText' \in Texts,
             \/ UNCHANGED <<file, spoiled, fileText>>
             \/ spoiled'
             \/ fileText' = copyText[r] /\ writing[r] = "write"
      PROVE  TextInv'
  <2>1. /\ UNCHANGED <<overlap, up, unread, text, setting, misfit>>
        /\ \A q \in Requests \ {r} : step'[q] = step[q]
        /\ writing' = [writing EXCEPT ![r] = "no"]
        /\ copyText' = [copyText EXCEPT ![r] = FirstText]
    BY <1>0, <1>6 DEF EndSave, Forget, Goto, history, OptionsOK
  <2>2. TextOK' /\ TextSteps'
    BY <1>0, <1>6, <2>1, CacheAssumption DEF TextOK, TextSteps, FileOK, Idle
  <2>3. ~overlap /\ ~misfit /\ writing[r] = "write" => copyText[r] \in FieldTexts
    BY <1>0 DEF TextSteps, TextFits
  <2>4. TextFits'
    BY <1>0, <1>6, <2>1, <2>3 DEF TextOK, TextFits, FileOK
  <2> QED BY <2>2, <2>4
<1>7. CASE WriteFile(r)
  <2>1. EndSave(r) /\ up /\ writing[r] = "write" /\ (spoiled' \/ alone)
    BY <1>0, <1>7 DEF WriteFile, CacheInv, OptionsInv, OptionsOK
  <2>2. alone => fileText' = copyText[r]
    BY <1>7, <2>1 DEF WriteFile, CacheInv, SaveKnows
  <2>3. fileText' \in Texts
    BY <1>0, <1>7, CacheAssumption DEF WriteFile, TextOK
  <2> QED BY <1>1, <1>6, <2>1, <2>2, <2>3
<1>8. CASE SaveFails(r) \/ SaveRefused(r)
  <2>1. /\ EndSave(r) /\ up /\ UNCHANGED <<file, spoiled, fileText>>
        /\ writing[r] # "no" \/ BeginsSave(r)
    BY <1>8 DEF SaveFails, SaveRefused, BeginsSave
  <2> QED BY <1>0, <1>1, <1>6, <2>1 DEF TextOK
<1> QED BY <1>2, <1>3, <1>4, <1>5, <1>7, <1>8 DEF SerializeFile

LEMMA TextStep == AllInv /\ [CacheNext]_vars => TextInv'
<1> SUFFICES ASSUME AllInv, [CacheNext]_vars PROVE TextInv'
  OBVIOUS
<1> USE DEF AllInv, TextInv
<1>0. FileOK /\ OptionsOK /\ SaveSteps /\ TextOK /\ TextSteps /\ TextFits
  BY DEF CacheInv, OptionsInv
<1>1. CASE up /\ Refresh /\ UNCHANGED <<cacheVars, textVars>>
  BY <1>0, <1>1, RefreshIsNone
     DEF TextOK, TextSteps, TextFits, Idle, cacheVars, textVars, saving
<1>2. ASSUME NEW r \in Requests, up, Setter(r), LeaveText(r), UNCHANGED cacheVars
      PROVE  TextInv'
  <2>1. /\ \A q \in Requests \ {r} : step'[q] = step[q]
        /\ ~overlap' => ~overlap
    BY <1>0, <1>2, SetterIsOne
  <2>2. TextOK'
    BY <1>0, <1>2 DEF TextOK, LeaveText
  <2>3. TextSteps'
    BY <1>0, <1>2, <2>1 DEF TextOK, TextSteps, LeaveText, Idle, cacheVars, saving
  <2>4. ~misfit' => ~misfit
    BY <1>0, <1>2 DEF LeaveText, TextOK
  <2>5. ~misfit' /\ setting' = {} => setting = {} \/ text \in FieldTexts
    BY <1>2 DEF LeaveText
  <2>6. TextFits'
    BY <1>0, <1>2, <2>1, <2>4, <2>5 DEF TextFits, LeaveText, cacheVars, saving
  <2> QED BY <2>2, <2>3, <2>6
<1>3. ASSUME NEW r \in Requests, NEW t \in Texts, PutText(r, t) PROVE TextInv'
  <2>1. writing[r] = "no"
    BY <1>0, <1>3 DEF PutText, SaveSteps
  <2> QED
    BY <1>0, <1>3, <2>1
       DEF PutText, TextOK, TextSteps, TextFits, Idle, configVars, request, history, cacheVars,
           saving
<1>4. ASSUME NEW r \in Requests, SetFields(r) PROVE TextInv'
  BY <1>0, <1>4
     DEF SetFields, TextOK, TextSteps, TextFits, Idle, configVars, request, history, cacheVars,
         saving
<1>5. ASSUME NEW r \in Requests, FieldsRefuse(r) PROVE TextInv'
  <2>1. /\ step'[r] = "idle" /\ \A q \in Requests \ {r} : step'[q] = step[q]
        /\ r \in setting /\ text \notin FieldTexts /\ LeaveText(r) /\ UNCHANGED cacheVars
    BY <1>0, <1>5 DEF FieldsRefuse, Answer, Forget, Goto, OptionsOK
  <2>2. misfit' /\ setting' = setting \ {r}
    BY <2>1 DEF LeaveText
  <2> QED
    BY <1>0, <2>1, <2>2
       DEF LeaveText, TextOK, TextSteps, TextFits, Idle, cacheVars, saving
<1>6. CASE Crash
  <2>1. \A r \in Requests : writing'[r] = "no"
    BY <1>6 DEF Crash
  <2>2. setting' = {} /\ ~up' /\ UNCHANGED <<overlap, file, spoiled, fileText, misfit>>
    BY <1>6 DEF Crash, history
  <2>3. TextOK'
    BY <1>0, <1>6, CacheAssumption DEF Crash, TextOK
  <2> QED BY <1>0, <2>1, <2>2, <2>3 DEF TextSteps, TextFits
<1>7. CASE Boot
  <2>1. /\ file # Absent => fileText \in FieldTexts
        /\ text' = LoadedText /\ misfit' = (LoadedText \notin FieldTexts)
        /\ UNCHANGED <<step, file, writing, unread, setting, copyText, fileText>> /\ ~up
    BY <1>7 DEF Boot, Begins, Loads, request, saving
  <2>2. \A r \in Requests : Idle(r) /\ writing[r] = "no"
    BY <1>0, <2>1 DEF SaveSteps, Idle
  <2>3. TextOK' /\ TextSteps'
    BY <1>0, <2>1, <2>2, CacheAssumption DEF TextOK, TextSteps, LoadedText, Idle
  <2>4. TextFits'
    BY <2>1, <2>2 DEF TextFits
  <2> QED BY <2>3, <2>4
<1>8. CASE RemoveFile
  BY <1>0, <1>8, CacheAssumption
     DEF RemoveFile, TextOK, TextSteps, TextFits, Idle, configVars, request, history, saving
<1>9. CASE UNCHANGED vars
  BY <1>0, <1>9
     DEF vars, configVars, cacheVars, textVars, TextOK, TextSteps, TextFits, Idle, request,
         history, saving
<1> QED BY <1>1, <1>2, <1>3, <1>4, <1>5, <1>6, <1>7, <1>8, <1>9, SaveText DEF CacheNext

LEMMA TextInit == CacheInit => TextInv
BY CacheAssumption DEF CacheInit, TextInv, TextOK, TextSteps, TextFits

LEMMA CacheInvSuffices == AllInv => CacheOK /\ OptionsInForce /\ CanBoot
BY InvSuffices
   DEF AllInv, CacheInv, TextInv, TextOK, TextFits, CacheOK, FileOK, OptionsInv, CanBoot, FileInv,
       Loads

LEMMA CacheSpecInv == CacheSpec => []AllInv
<1>1. CacheInit => AllInv
  BY CacheInitInv, TextInit DEF AllInv
<1>2. AllInv /\ [CacheNext]_vars => AllInv'
  BY CacheStep, TextStep DEF AllInv
<1> QED BY <1>1, <1>2, PTL DEF CacheSpec

\* Types of the options and of the file, through crashes and restarts.
THEOREM CacheTyped == CacheSpec => []CacheOK
BY CacheSpecInv, CacheInvSuffices, PTL

\* The options go together and are the pool's, also after a restart.
THEOREM OptionsSurvive == CacheSpec => []OptionsInForce
BY CacheSpecInv, CacheInvSuffices, PTL

\* Unless a save failed, was cut off or overlapped, or the fields of the bean
\* do not take what the map was left with, the application can be started
\* again: the file loads, the fields take its text and the pool its options.
THEOREM AlwaysBoots == CacheSpec => []CanBoot
BY CacheSpecInv, CacheInvSuffices, PTL

-----------------------------------------------------------------------------
(* Every step is one that ConfigPromise allows, or changes nothing of it   *)

saved == IF spoiled THEN Unknown ELSE Loaded

LEMMA PromiseInit == CacheInit => Promise!Init
BY DEF CacheInit, Init, Promise!Init, Loaded

LEMMA PromiseStep ==
  ASSUME CacheInv, CacheInv', [CacheNext]_vars
  PROVE  [Promise!Next]_<<conf, saved, up>>
<1> USE DEF saved
<1>0. conf \in Configs /\ conf' \in Configs /\ conf # Absent
  BY CacheAssumption DEF CacheInv, OptionsInv, OptionsOK
<1>1. ASSUME up, UNCHANGED cacheVars PROVE Promise!Change
  BY <1>0, <1>1 DEF Promise!Change, cacheVars, Loaded
<1>2. ASSUME NEW r \in Requests, SerializeFile(r)
      PROVE  [Promise!Next]_<<conf, saved, up>>
  <2>1. CASE ClearFile(r)
    <3>1. Promise!BeginSave
      BY <2>1 DEF ClearFile, BeginsSave, Promise!BeginSave, configVars
    <3> QED BY <3>1 DEF Promise!Next
  <2>2. ASSUME NEW k \in Options, CopyOption(r, k) PROVE UNCHANGED <<conf, saved, up>>
    BY <2>2 DEF CopyOption, configVars, Loaded
  <2>6. CASE CopyText(r)
    BY <2>6 DEF CopyText, configVars, Loaded
  <2>3. CASE OpenFile(r)
    <3>1. spoiled
      BY <2>3 DEF OpenFile, CacheInv, SaveSteps
    <3> QED BY <2>3, <3>1 DEF OpenFile, configVars
  <2>4. CASE WriteFile(r)
    <3>1. spoiled /\ up /\ UNCHANGED <<conf, up>>
      BY <2>4 DEF WriteFile, EndSave, CacheInv, SaveSteps
    <3>2. CASE alone
      <4>1. file' = conf
        BY <2>4, <3>2 DEF WriteFile, CacheInv, SaveKnows
      <4>2. Promise!EndSave
        BY <1>0, <2>4, <3>1, <3>2, <4>1 DEF WriteFile, Promise!EndSave, Loaded
      <4> QED BY <4>2 DEF Promise!Next
    <3>3. CASE ~alone
      BY <2>4, <3>1, <3>3 DEF WriteFile
    <3> QED BY <3>2, <3>3
  <2>5. CASE SaveFails(r) \/ SaveRefused(r)
    BY <2>5 DEF SaveFails, SaveRefused, EndSave, Loaded
  <2> QED BY <1>2, <2>1, <2>2, <2>3, <2>4, <2>5, <2>6 DEF SerializeFile
<1>3. CASE Crash
  <2>1. Promise!Stop
    BY <1>3 DEF Crash, Promise!Stop, Loaded
  <2> QED BY <2>1 DEF Promise!Next
<1>4. CASE Boot
  <2>1. Promise!Restart
    BY <1>0, <1>4 DEF Boot, Begins, Promise!Restart, Loaded
  <2> QED BY <2>1 DEF Promise!Next
<1>5. CASE RemoveFile
  <2>1. Promise!Discard
    BY <1>5 DEF RemoveFile, Promise!Discard, Loaded, configVars
  <2> QED BY <2>1 DEF Promise!Next
<1>6. CASE UNCHANGED vars
  BY <1>6 DEF vars, configVars, cacheVars, Loaded
<1>7. ASSUME NEW r \in Requests, NEW t \in Texts, PutText(r, t) PROVE UNCHANGED <<conf, saved, up>>
  BY <1>7 DEF PutText, configVars, cacheVars, Loaded
<1>8. ASSUME NEW r \in Requests, SetFields(r) \/ FieldsRefuse(r)
      PROVE  UNCHANGED <<conf, saved, up>>
  BY <1>8 DEF SetFields, FieldsRefuse, Answer, configVars, cacheVars, Loaded
<1> QED BY <1>1, <1>2, <1>3, <1>4, <1>5, <1>6, <1>7, <1>8 DEF CacheNext, Promise!Next

\* The cache implements ConfigPromise: a restart brings back the options of
\* the last save that was answered undisturbed, whatever was set but not
\* saved, refused half-way, or lost with the process.
THEOREM CacheKeepsPromise == CacheSpec => KeepsPromise
<1>1. AllInv /\ AllInv' /\ [CacheNext]_vars
        => [Promise!Next]_<<conf, saved, up>>
  BY PromiseStep DEF AllInv
<1>2. CacheSpec => [][Promise!Next]_<<conf, saved, up>>
  BY <1>1, CacheSpecInv, PTL DEF CacheSpec
<1>3. CacheSpec => Promise!Init
  BY PromiseInit, PTL DEF CacheSpec
<1> QED BY <1>2, <1>3, PTL DEF KeepsPromise, Promise!Spec, Promise!vars, saved
=============================================================================
