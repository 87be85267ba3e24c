SPECIFICATION Spec
CONSTANTS
    w1 = w1
    w2 = w2
    c1 = c1
    NoMessage = NoMessage
    Messages <- OneMessage
    Workers = {w1, w2}
    FirstReply = 1
    MaxReplies = 2
    MaxCalls = 2
    MaxFaults = 0
    MaxVersion = 1
    Plans <- ReportMuteWarn
    CSPlan <- DeleteOnly
SYMMETRY Symmetry
CHECK_DEADLOCK FALSE
INVARIANTS
    OtherRepliesKept
