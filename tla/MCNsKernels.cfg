SPECIFICATION Spec
CONSTANTS
  Problems <- SmallProblems
  QMin <- Lowest
  QMax = 7
  Frac = 8
  Left = 4
  MaxShift = 7
  MaxQ6 = 64
  IntMax = 1023
INVARIANTS InBounds MatchesReference CloseToFloat  NoInt32Overflow
CHECK_DEADLOCK FALSE
