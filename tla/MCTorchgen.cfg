SPECIFICATION SpecCode
CONSTANTS
  ValidTags <- MCTags
  UngroupedOps <- MCUngrouped
  Hash <- MCHash
  Inputs <- MCInputs
  Plans <- MCPlans
  Repeated <- MCRepeated
  MaxRuns = 2
  Executed <- MCExecuted
  TensorSizes = {1, 2}
  TensorStrides = {"rows", "columns"}
  TensorTypes = {"float", "int"}
  Devices = {0, 1}
  CompositeKey = "CompositeExplicitAutogradNonFunctional"
INVARIANTS
  CompleteRunIsCurrent
  EveryCallResolves
  SelectedOperatorsRegistered
  GeneratedKernelsAgree
  FunctionalizationFaithful
  ResultsReturned
  ImplGetsWhatMetaAsked
  CallersStridesKept
CHECK_DEADLOCK FALSE
