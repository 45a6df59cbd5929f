SPECIFICATION Spec
CONSTANTS
  None = None
  Calls = {c1}
  Requests = {r1}
  Samples = {s1}
  MaxEffects = 3
  MaxAttempts = 1
  MaxMutations = 1
  MaxBatch = 1
  CancelReasons = {"interrupt"}
  Recoveries = {TRUE}
  Converges = TRUE
  JournalRequired = TRUE
  CompletionRequired = TRUE
  WorkspaceChangeIntent = TRUE
SYMMETRY Symmetry
CHECK_DEADLOCK FALSE
INVARIANTS
  TypeOK
  Valid
  NoOrphanEffect
  CompletedOutputReady
PROPERTY ImplementsLifecycle
