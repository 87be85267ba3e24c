SPECIFICATION WebSpec
CONSTANTS
  Procs = {p1, p2}
  Tokens = {old, t1}
  Old = old
  SessionTtl = 1
  MaxTime = 3
  MaxFaults = 1
  Ips = {i1, i2}
  Codes = {c1}
  Links = {l1}
  NoIp = noIp
  MaxFailed = 2
  OtpTtl = 1
  Lockout = 2
  MaxGuesses = 3
  ConfigProcs = {q1}
  Handlers = {h1, h2}
  DefaultHours = 1
  MaxSaves = 2
CHECK_DEADLOCK FALSE
SYMMETRY Alike
INVARIANTS GuessesBounded StaysLoggedOut  
PROPERTY NewPasswordWorks
