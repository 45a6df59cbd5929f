SPECIFICATION FairSpec
CONSTANTS
  None = None
  Calls = {c1}
  Requests = {r1, i1}
  InputRequests = {i1}
  Samples = {s1}
  MaxEffects = 5
  MaxAttempts = 3
  MaxMutations = 1
  MaxBatch = 1
  CancelReasons = {"interrupt", "other"}
  Recoveries = {}
  Converges = FALSE
  JournalRequired = FALSE
  CompletionRequired = FALSE
  WorkspaceChangeIntent = FALSE
  ConcurrentAsks = FALSE
  Shutdowns = FALSE
  Rejections = FALSE
  MaxCrashes = 1
  MaxFaults = 1
PROPERTIES
  TurnEnds
  RestartSettles
