---------------------------- MODULE ConfigCache ----------------------------
(***************************************************************************)
(* The cache file of a schedule's options: each request that saved options *)
(* writes them all to it, and the next start of the application reads it.  *)
(* The process may end between any two steps; what is in memory is lost.   *)
(*                                                                         *)
(* Beside the sizes the map holds the properties that @Value fields of the *)
(* schedule's bean name: their text, which is set to the fields by the     *)
(* request that changes it and by the next start.                          *)
(***************************************************************************)
EXTENDS ScheduleConfig

CONSTANTS Absent,     \* there is no file
          Torn,       \* it is empty or incomplete
          Unknown,    \* nothing is promised about a restart
          Texts,      \* what the properties of the bean's fields can hold
          FieldTexts, \* texts that convert to the types of the fields
          FirstText   \* the text without a cache

ASSUME CacheAssumption ==
    /\ Absent \notin Configs /\ Torn \notin Configs /\ Unknown \notin Configs
    /\ Absent # Torn
    /\ FieldTexts \subseteq Texts /\ FirstText \in Texts

VARIABLES
    file,       \* the cache file, a whole configuration or none
    writing,    \* where serializeFile is, of each request
    copy,       \* the request's copy of the map
    unread,     \* the options it has not copied yet
    streams,    \* requests with a stream on the file since it is a new one
    up,         \* the application is running
    spoiled,    \* history: a save was begun and has not ended undisturbed
    text,       \* what the map holds for the bean's fields
    setting,    \* requests that have changed it and not set the fields
    copyText,   \* the text in a request's copy of the map
    fileText,   \* and in the file
    misfit      \* history: a text the fields do not take was left in the map

saving == <<writing, copy, unread>>
cacheVars == <<file, saving, streams, up, spoiled>>
textVars == <<text, setting, copyText, fileText, misfit>>
vars == <<configVars, cacheVars, textVars>>

Entries == Options \cup {"text"}

CacheInit ==
    /\ Init
    /\ file = Absent
    /\ writing = [r \in Requests |-> "no"]
    /\ copy = [r \in Requests |-> Defaults]
    /\ unread = [r \in Requests |-> {}]
    /\ streams = {}
    /\ up = TRUE /\ spoiled = FALSE
    /\ text = FirstText /\ fileText = FirstText
    /\ setting = {}
    /\ copyText = [r \in Requests |-> FirstText]
    /\ misfit = (FirstText \notin FieldTexts)

-----------------------------------------------------------------------------
(* The fields of the bean                                                  *)

\* One of the entries of the request is a property: its text is put into the map.
PutText(r, t) ==
    /\ up /\ step[r] = "apply"
    /\ text' = t
    /\ setting' = setting \cup {r}
    /\ UNCHANGED <<configVars, cacheVars, copyText, fileText, misfit>>

\* A request that ends early leaves its text in the map and sets no field.
LeaveText(r) ==
    /\ setting' = IF step'[r] = "idle" THEN setting \ {r} ELSE setting
    /\ misfit' = (misfit \/ (r \in setting \ setting' /\ text \notin FieldTexts))
    /\ UNCHANGED <<text, copyText, fileText>>

\* valueEnvirmentField, when all options of the request are set.
SetFields(r) ==
    /\ up /\ step[r] = "save" /\ r \in setting
    /\ text \in FieldTexts
    /\ setting' = setting \ {r}
    /\ UNCHANGED <<configVars, cacheVars, text, copyText, fileText, misfit>>

\* A text that does not convert, or a field of another type than those listed:
\* an exception ends the request before it saves.
FieldsRefuse(r) ==
    /\ up /\ step[r] = "save" /\ r \in setting
    /\ text \notin FieldTexts
    /\ Answer(r)
    /\ LeaveText(r)
    /\ UNCHANGED cacheVars

-----------------------------------------------------------------------------
(* serializeFile                                                           *)

BeginsSave(r) == up /\ step[r] = "save" /\ r \notin setting /\ writing[r] = "no"

\* An old file is deleted or renamed; a stream still on it writes to no file
\* that is read again.
ClearFile(r) ==
    /\ BeginsSave(r)
    /\ file' = Absent /\ streams' = {}
    /\ writing' = [writing EXCEPT ![r] = "copy"]
    /\ unread' = [unread EXCEPT ![r] = Entries]
    /\ spoiled' = TRUE
    /\ fileText' = FirstText
    /\ UNCHANGED <<configVars, copy, up, text, setting, copyText, misfit>>

\* getConfMap copies the map entry by entry.
CopyOption(r, k) ==
    /\ up /\ writing[r] = "copy" /\ k \in unread[r]
    /\ copy' = [copy EXCEPT ![r][k] = conf[k]]
    /\ unread' = [unread EXCEPT ![r] = @ \ {k}]
    /\ UNCHANGED <<configVars, file, writing, streams, up, spoiled, textVars>>

CopyText(r) ==
    /\ up /\ writing[r] = "copy" /\ "text" \in unread[r]
    /\ copyText' = [copyText EXCEPT ![r] = text]
    /\ unread' = [unread EXCEPT ![r] = @ \ {"text"}]
    /\ UNCHANGED <<configVars, file, writing, copy, streams, up, spoiled>>
    /\ UNCHANGED <<text, setting, fileText, misfit>>

OpenFile(r) ==
    /\ up /\ writing[r] = "copy" /\ unread[r] = {}
    /\ file' = Torn /\ streams' = streams \cup {r}
    /\ writing' = [writing EXCEPT ![r] = "write"]
    /\ UNCHANGED <<configVars, copy, unread, up, spoiled, textVars>>

EndSave(r) ==
    /\ Forget(r)
    /\ writing' = [writing EXCEPT ![r] = "no"]
    /\ copy' = [copy EXCEPT ![r] = Defaults]
    /\ copyText' = [copyText EXCEPT ![r] = FirstText]
    /\ UNCHANGED <<conf, pool, over, refreshing, history, unread, streams, up>>
    /\ UNCHANGED <<text, setting, misfit>>

\* The bytes of streams that are on the file together may mix.
WriteFile(r) ==
    /\ up /\ writing[r] = "write"
    /\ \/ r \notin streams /\ UNCHANGED <<file, fileText>>
       \/ r \in streams /\ file' = copy[r] /\ fileText' = copyText[r]
       \/ r \in streams /\ streams # {r} /\ file' = Torn /\ fileText' = FirstText
    /\ spoiled' = ~alone
    /\ EndSave(r)

\* Opening or writing the file fails: the exception is printed, the file
\* stays as it is, and the request is answered like any other.
SaveFails(r) ==
    /\ up
    /\ \/ writing[r] = "write"
       \/ writing[r] = "copy" /\ unread[r] = {}
    /\ EndSave(r)
    /\ UNCHANGED <<file, spoiled, fileText>>

\* The directory cannot be made: an exception, before the file is touched.
SaveRefused(r) ==
    /\ BeginsSave(r)
    /\ EndSave(r)
    /\ UNCHANGED <<file, spoiled, fileText>>

SerializeFile(r) ==
    \/ ClearFile(r)
    \/ CopyText(r) \/ \E k \in Options : CopyOption(r, k)
    \/ OpenFile(r) \/ WriteFile(r) \/ SaveFails(r) \/ SaveRefused(r)

-----------------------------------------------------------------------------
(* The end of the process, and the start of the next                       *)

\* The annotation's options are all the next start begins with.
Crash ==
    /\ up /\ up' = FALSE
    /\ conf' = Defaults /\ pool' = Defaults /\ over' = FALSE
    /\ step' = [r \in Requests |-> "idle"]
    /\ todo' = [r \in Requests |-> {}]
    /\ now' = [r \in Requests |-> NoOption]
    /\ seen' = [r \in Requests |-> 0]
    /\ RefreshEnds
    /\ writing' = [r \in Requests |-> "no"]
    /\ copy' = [r \in Requests |-> Defaults]
    /\ unread' = [r \in Requests |-> {}]
    /\ streams' = {}
    /\ text' = FirstText /\ setting' = {}
    /\ copyText' = [r \in Requests |-> FirstText]
    /\ UNCHANGED <<history, file, spoiled, fileText, misfit>>

\* The file is put over the annotation's options, past the setters, and the
\* fields are set from it.
Loaded == IF file = Absent THEN Defaults ELSE file
LoadedText == IF file = Absent THEN FirstText ELSE fileText

Begins(c, t) ==
    /\ conf' = c /\ pool' = c /\ over' = FALSE
    /\ text' = t /\ misfit' = (t \notin FieldTexts)
    /\ overlap' = FALSE /\ alone' = TRUE /\ spoiled' = FALSE
    /\ UNCHANGED <<request, refreshing, file, saving, streams, setting, copyText, fileText>>

\* Mutant of Boot: the file is not read.
BootWithoutCache ==
    /\ ~up /\ up' = TRUE
    /\ file # Torn
    /\ Begins(Defaults, FirstText)

\* A file that does not load, one whose text the fields do not take, or options
\* the pool refuses, end the start of the application, this time and the next.
Loads ==
    /\ file # Torn
    /\ file # Absent => fileText \in FieldTexts
    /\ WellFormed(Loaded)

\* loadFromFile, then refresh.
Boot ==
    /\ ~up /\ up' = TRUE
    /\ Loads
    /\ Begins(Loaded, LoadedText)

\* Somebody deletes the file, the only way out of a start that fails.
RemoveFile ==
    /\ ~up /\ file # Absent
    /\ file' = Absent /\ spoiled' = FALSE
    /\ fileText' = FirstText
    /\ UNCHANGED <<configVars, saving, streams, up, text, setting, copyText, misfit>>

-----------------------------------------------------------------------------
CacheNext ==
    \/ up /\ Refresh /\ UNCHANGED <<cacheVars, textVars>>
    \/ \E r \in Requests :
          \/ up /\ Setter(r) /\ LeaveText(r) /\ UNCHANGED cacheVars
          \/ \E t \in Texts : PutText(r, t)
          \/ SetFields(r) \/ FieldsRefuse(r)
          \/ SerializeFile(r)
    \/ Crash \/ Boot \/ RemoveFile

CacheSpec == CacheInit /\ [][CacheNext]_vars

-----------------------------------------------------------------------------
CacheOK ==
    /\ OptionsOK
    /\ file \in Configs \cup {Absent, Torn}
    /\ writing \in [Requests -> {"no", "copy", "write"}]
    /\ copy \in [Requests -> Configs]
    /\ unread \in [Requests -> SUBSET Entries]
    /\ streams \subseteq Requests
    /\ up \in BOOLEAN /\ spoiled \in BOOLEAN
    /\ text \in Texts /\ fileText \in Texts
    /\ setting \subseteq Requests
    /\ copyText \in [Requests -> Texts]
    /\ misfit \in BOOLEAN

\* The application can be started again: the file loads, the fields of the bean
\* take its text, and the pool takes its options.  Excepted are a save that
\* failed, was cut off by the end of the process or overlapped with another
\* request, and a bean whose fields do not take what the map was left with: by
\* a request that was refused for it, or by the annotation from the first.
CanBoot == ~spoiled /\ ~overlap /\ ~misfit => Loads

\* An answered save is what a restart brings back: ConfigPromise, where the
\* promise is void from the moment a save clears the file until it, or a
\* later one, ends with nothing else having been under way.
Promise == INSTANCE ConfigPromise
           WITH live <- conf, saved <- IF spoiled THEN Unknown ELSE Loaded

KeepsPromise == Promise!Spec
=============================================================================
