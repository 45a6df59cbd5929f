SPECIFICATION FairGateSpec
CONSTANTS
  Turns = {t1}
  Reviews = {g1}
  Backgrounds = {b1}
  MaxConcurrent = 2
  Interval = 1
  MaxDelay = 2
  None = None
INVARIANTS
  GateTypeOK
  BackgroundYields
  BackgroundNeverHangs
  PacedApart
  RetryWaits
PROPERTY QueuedIsServed
