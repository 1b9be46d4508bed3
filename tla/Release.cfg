SPECIFICATION Spec
CONSTANTS
  Files = {config, f}
  Config = config
  Releases = {r1, r2}
  Contents = {a, b}
  Absent = Absent
  Torn = Torn
  None = None
  MaxEdits = 1
SYMMETRY Symmetry
INVARIANTS Recoverable
PROPERTIES NothingLost AllOrNothing
CHECK_DEADLOCK FALSE
