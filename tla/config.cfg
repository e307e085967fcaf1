\* Two requests and scheduleStart, at most two of them together; crashes,
\* failing writes and restarts at any time.
CONSTANTS
    Requests = {r1, r2}
    NoOption = NoOption
    Absent = Absent
    Torn = Torn
    Unknown = Unknown
    Texts = {t1, t2}
    FieldTexts = {t1}
    FirstText = t1
    Asks <- CacheAsks
    Defaults <- Ones
SPECIFICATION CacheSpec
SYMMETRY RequestSymmetry
CONSTRAINTS TwoHandlers TextAlone
INVARIANTS
    CacheOK
    OptionsInForce
    CanBoot
PROPERTY
    KeepsPromise
