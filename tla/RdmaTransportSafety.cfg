SPECIFICATION Spec
CONSTANTS
  Ranks = {r1, r2, r3}
  UintMax = 4
  RecvDepth = 2
  EarlyReduce = FALSE
  NoResult = NoResult
SYMMETRY Symmetry
INVARIANTS TypeOK OperandIntact InputHeld NoFalseAlarm QueuesBounded Lockstep
PROPERTIES ImplementsAllReduce
CHECK_DEADLOCK FALSE
