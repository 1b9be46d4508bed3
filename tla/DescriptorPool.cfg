SPECIFICATION PoolSpec
CONSTANTS
  Streams = {s1, s2}
  Count = 8
  MaxCalls = 4
  MaxWork = 7
SYMMETRY Symmetry
INVARIANTS DescriptorOwned
PROPERTIES ImplementsCollective
CHECK_DEADLOCK FALSE
