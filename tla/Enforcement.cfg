SPECIFICATION Spec
CONSTANTS
    c1 = c1
    c2 = c2
    h1 = h1
    h2 = h2
    checker = checker
    NoChat = NoChat
    Chats = {c1, c2}
    Handlers = {h1}
    Checker = checker
    Modes = {TRUE, FALSE}
    Minutes = {0, 2}
    NightEnd = 1
    MinRestrict = 2
    Retention = 1
    Forever = 9
    MaxTime = 2
    MaxMutes = 2
    MaxFaults = 1
CHECK_DEADLOCK FALSE
INVARIANTS
    MutedIsRestricted
    FreeUnlessRecorded
