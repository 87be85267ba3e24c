SPECIFICATION LiveSpec
CONSTANTS
    t1 = t1
    t2 = t2
    i1 = i1
    i2 = i2
    Keys = {k1}
    Instances = {i1}
    Threads = {t1, t2}
    Home <- OneBot
    Recovering = {}
    Remote = FALSE
    MaxMutes = 2
    MaxTime = 1
    StaleAge = 0
    Retention = 1
CHECK_DEADLOCK FALSE
 
PROPERTY EventuallyCurrent
