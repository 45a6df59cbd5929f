SPECIFICATION Spec
CONSTANTS
  Managers = {m1, m2}
  Turns = {t1, t2}
  Paths = {p1}
  Contents = {x}
  Absent = Absent
  None = None
  Shared = FALSE
  Merges = {t1}
  MaxMishaps = 0
CHECK_DEADLOCK FALSE
PROPERTY UndoesOnlyItsOwn
