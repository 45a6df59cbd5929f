SPECIFICATION RuntimeSpec
CONSTANTS
  None = None
  Calls = {c1}
  Requests = {}
  InputRequests = {}
  Samples = {s1}
  MaxEffects = 3
  MaxAttempts = 1
  MaxMutations = 1
  MaxBatch = 1
  CancelReasons = {"interrupt"}
  Recoveries = {}
  Converges = FALSE
  JournalRequired = FALSE
  CompletionRequired = FALSE
  WorkspaceChangeIntent = FALSE
  ConcurrentAsks = FALSE
  Shutdowns = FALSE
  Rejections = FALSE
  MaxCrashes = 0
  MaxFaults = 0
INVARIANT EndsExplicitly
