SPECIFICATION Spec
CONSTANTS
  Models <- AnyModels
  Requests <- AllRequests
  Samples = 2
INVARIANTS OwnRecipeLowers SamplesUsed NoStubLeft NsOpsAreInt8
CHECK_DEADLOCK FALSE
