SPECIFICATION FairSubagentSpec
CONSTANTS
  Agents = {a1, a2}
  Residents = {a2}
  Closers = {a1}
  Writers = {a1}
  MaxParallel = 1
  MaxTurns = 2
  MaxAsks = 1
  MaxFaults = 1
  None = None
INVARIANTS
  TurnsHoldSlots
  WorktreesKept
  GraphFollows
  MergeIsFenced
CHECK_DEADLOCK FALSE
PROPERTIES
  EndedIsSettled
  CloseReturns
