SPECIFICATION FairPoolSpec
CONSTANTS
  Servers = {1, 2}
  Rivals = {1, 2}
  Movers = {2}
  Callers = {c1}
  Threshold = 2
  Cooldown = 1
  MaxGens = 3
  MaxChanges = 2
  MaxFaults = 1
  None = None
INVARIANTS
  NothingLeaks
  RetryPending
  StaleIsReloading
CHECK_DEADLOCK FALSE
PROPERTY Recovers
