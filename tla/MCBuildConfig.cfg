SPECIFICATION Spec
CONSTANTS
  Knobs <- AllKnobs
  AppModules = {"arm", "ns", "foreign"}
  Boards <- TwoBoards
  MaxConfigures = 2
INVARIANTS SelectedProviderLinked EveryBootReachesMain
           OptimizationOwned TracerAgrees
CHECK_DEADLOCK FALSE
