SPECIFICATION Spec
CONSTANTS
    t1 = t1
    t2 = t2
    i1 = i1
    i2 = i2
    Instances = {i1, i2}
    Threads = {t1, t2}
    Home <- OneEach
    Main = {t1, t2}
    WebhookMode = {}
    Kinds = {"daily"}
    SeedOnFirstRun = TRUE
    Day = 2
    Target = 1
    Interval = 2
    MaxDelay = 1
    Timeout = 2
    Remote = FALSE
    OtherConfig = FALSE
    Start = 4
    MaxTime = 7
    MaxFaults = 1
INVARIANT OncePerOccurrence
CHECK_DEADLOCK FALSE
