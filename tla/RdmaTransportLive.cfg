SPECIFICATION LiveSpec
CONSTANTS
  Ranks = {r1, r2}
  UintMax = 6
  RecvDepth = 3
  EarlyReduce = TRUE
  NoResult = NoResult
PROPERTIES CallReturns AllRoundsComplete
CHECK_DEADLOCK FALSE
