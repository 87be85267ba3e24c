SPECIFICATION BotSpec
CONSTANTS
  Msgs = {m1, m2, m3}
  Pair = {m1, m2}
  Single = {m1}
  Excluded = {m2}
  MaxReplies = 1
  MaxOther = 1
  Items = {i1, i2}
  MaxTime = 5
  MaxPage = 4
  Users = {u1, u2}
  Writers = {u1}
  Findings = {f1}
  MaxEntries = 1
  Ttl = 1
  MaxAge = 3
  MaxModels = 2
  MaxSlips = 1
CHECK_DEADLOCK FALSE
INVARIANTS PinnedStays OriginalKept CountedOnce LeftOnlyIfRefused LimitUnlessOverlapping
    
INVARIANTS NotBlamedForQuote 
