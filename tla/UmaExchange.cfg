SPECIFICATION Spec
CONSTANTS
  Streams = {s1, s2}
  MaxEpoch = 3
INVARIANTS Exclusive StableUntilError TeardownOrder
PROPERTIES ImplementsCollective NobodyLeftWaiting Served
CHECK_DEADLOCK FALSE
