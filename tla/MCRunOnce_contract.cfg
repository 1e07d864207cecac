SPECIFICATION Spec
CONSTANTS
  Calls <- AnyCalls
  Names = {"cortex_m::quantized_add", "aten::mean", "EthosU"}
  NBuffers = 2
  Capacities = {0, 2}
  TracerEnabled = FALSE
  SizeMod = 8
  CycleMod = 4
  Ticks = {1}
  Handles = {0}
  KernelErrors = {"KernelFailed"}
  CanAbort = TRUE
INVARIANTS OverrunsWereTold EveryCallBracketedOnce
PROPERTIES ReturnKeepsContract ImplementsContract
