SPECIFICATION FairSpec
CONSTANTS
  Stable = {s1}
  Plain = {e1, e2}
  Clients = {c1}
  Buffer = 1
  Outages = {"append", "unknown", "lookup", "project"}
  None = None
  MaxForeign = 1
  MaxFaults = 2
CHECK_DEADLOCK FALSE
INVARIANTS
  HubTypeOK
  NoGap
  NoDuplicate
  LosslessButFailed
PROPERTY CatchesUp
