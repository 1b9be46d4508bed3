SPECIFICATION Spec
CONSTANTS
  Nodes = {n1, n2}
  Coordinators = {c1, c2}
  Jobs = {"restart"}
  Flaky = {c1}
  Nothing = Nothing
SYMMETRY Symmetry
INVARIANTS OneService RolledBackInTime
PROPERTIES CleanupScoped
CHECK_DEADLOCK FALSE
