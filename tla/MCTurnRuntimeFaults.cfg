SPECIFICATION RuntimeSpec
CONSTANTS
  None = None
  Calls = {c1}
  Requests = {i1, r1}
  InputRequests = {i1}
  Samples = {s1, s2}
  MaxEffects = 5
  MaxAttempts = 2
  MaxMutations = 1
  MaxBatch = 1
  CancelReasons = {"interrupt"}
  Recoveries = {}
  Converges = FALSE
  JournalRequired = TRUE
  CompletionRequired = FALSE
  WorkspaceChangeIntent = FALSE
  ConcurrentAsks = TRUE
  Shutdowns = FALSE
  Rejections = TRUE
  MaxCrashes = 1
  MaxFaults = 1
CHECK_DEADLOCK FALSE
SYMMETRY Symmetry
INVARIANTS
  RuntimeTypeOK
  RegistryCovers
  SingleSample
  CommittingFinishes
PROPERTY RejectionHolds
