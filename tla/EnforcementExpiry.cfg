SPECIFICATION LiveSpec
CONSTANTS
    c1 = c1
    c2 = c2
    h1 = h1
    h2 = h2
    checker = checker
    NoChat = NoChat
    Chats = {c1}
    Handlers = {h1, h2}
    Checker = checker
    Modes = {FALSE}
    Minutes = {0, 2}
    NightEnd = 1
    MinRestrict = 2
    Retention = 1
    Forever = 9
    MaxTime = 3
    MaxMutes = 2
    MaxFaults = 1
CHECK_DEADLOCK FALSE
INVARIANTS
    MutedIsRestricted
    FreeUnlessRecorded
PROPERTY
    EventuallyFreed
