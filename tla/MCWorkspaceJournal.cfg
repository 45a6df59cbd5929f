SPECIFICATION Spec
CONSTANTS
  Managers = {m1, m2}
  Turns = {t1, t2}
  Paths = {p1}
  Contents = {x, y}
  Absent = Absent
  None = None
  Shared = FALSE
  Merges = {}
  MaxMishaps = 1
SYMMETRY Symmetric
CONSTRAINT FewIdentities
CHECK_DEADLOCK FALSE
INVARIANTS
  JournalTypeOK
  RecordedIsUndoable
PROPERTY UndoesOnlyItsOwn
