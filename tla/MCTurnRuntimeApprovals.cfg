SPECIFICATION RuntimeSpec
CONSTANTS
  None = None
  Calls = {c1, c2}
  Requests = {r1, r2}
  InputRequests = {}
  Samples = {s1}
  MaxEffects = 6
  MaxAttempts = 2
  MaxMutations = 1
  MaxBatch = 2
  CancelReasons = {"interrupt"}
  Recoveries = {}
  Converges = FALSE
  JournalRequired = FALSE
  CompletionRequired = FALSE
  WorkspaceChangeIntent = FALSE
  ConcurrentAsks = FALSE
  Shutdowns = TRUE
  Rejections = FALSE
  MaxCrashes = 1
  MaxFaults = 0
SYMMETRY Symmetry
INVARIANTS
  ResumedIsDurable
  ExecutionCovered
  RequestAnswerable
  StuckIsPoisoned
