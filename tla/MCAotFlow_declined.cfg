SPECIFICATION Spec
CONSTANTS
  Models <- OneNode
  Requests <- NsRequests
  Samples = 1
INVARIANT DeclinedStaysCorrect
CHECK_DEADLOCK FALSE
