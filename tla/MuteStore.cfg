SPECIFICATION Spec
CONSTANTS
    t1 = t1
    t2 = t2
    i1 = i1
    i2 = i2
    Keys = {k1}
    Instances = {i1}
    Threads = {t1, t2}
    Home <- OneBot
    Recovering = {t2}
    Remote = TRUE
    MaxMutes = 2
    MaxTime = 2
    StaleAge = 0
    Retention = 1
INVARIANTS
    OneRecordPerKey
    LiftReportedOnce
    InSyncUndisturbed
PROPERTY
    NoFalseUnmuted
CHECK_DEADLOCK FALSE
