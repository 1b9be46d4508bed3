SPECIFICATION Spec
CONSTANTS
  Streams = {s1}
  MaxEpoch = 2
INVARIANTS StableInputSlot
CHECK_DEADLOCK FALSE
