SPECIFICATION SubagentSpec
CONSTANTS
  Agents = {a1, a2}
  Residents = {a1, a2}
  Closers = {}
  Writers = {}
  MaxParallel = 2
  MaxTurns = 2
  MaxAsks = 1
  MaxFaults = 0
  None = None
INVARIANT NeverHangs
CHECK_DEADLOCK FALSE
