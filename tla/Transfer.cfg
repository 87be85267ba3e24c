SPECIFICATION Spec
CONSTANTS
  Workers = {w1}
  MaxFaults = 1
  MaxWrites = 1
  MaxJobs = 2
CHECK_DEADLOCK FALSE
INVARIANTS  NothingGoesBack
