SPECIFICATION Spec
CONSTANTS
  Ranks = {r1, r2, r3}
  Settings = {x, y}
INVARIANTS NoSplit BackendEarned
PROPERTIES Decides
CHECK_DEADLOCK FALSE
