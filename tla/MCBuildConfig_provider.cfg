SPECIFICATION Spec
CONSTANTS
  Knobs <- AllKnobs
  AppModules = {"arm", "ns", "foreign"}
  Boards <- TwoBoards
  MaxConfigures = 2
INVARIANT ProviderKeepsItsLevel
CHECK_DEADLOCK FALSE
