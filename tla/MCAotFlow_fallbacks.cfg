SPECIFICATION Spec
CONSTANTS
  Models <- OneNode
  Requests <- NsRequests
  Samples = 1
INVARIANT FallbacksReported
CHECK_DEADLOCK FALSE
