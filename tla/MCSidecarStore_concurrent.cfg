SPECIFICATION Spec
CONSTANTS
  Procs = {p1, p2}
  Models <- TwoModels
  Blocks <- TwoBlocks
  Serialized = FALSE
PROPERTY VerifiedLoadIsTrue
