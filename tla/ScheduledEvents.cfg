SPECIFICATION Spec
CONSTANTS
    t1 = t1
    t2 = t2
    i1 = i1
    i2 = i2
    Instances = {i1, i2}
    Threads = {t1, t2}
    Home <- OneEach
    Main = {t1}
    WebhookMode = {i2}
    Kinds = {"daily", "interval"}
    SeedOnFirstRun = TRUE
    Day = 2
    Target = 1
    Interval = 2
    MaxDelay = 1
    Timeout = 1
    Remote = TRUE
    OtherConfig = TRUE
    Start = 4
    MaxTime = 6
    MaxFaults = 2
INVARIANTS
    ExclusiveRun
    LockAccounted
    OnceUnlessOverlapping
PROPERTY
    ImplementsLease
CHECK_DEADLOCK FALSE
