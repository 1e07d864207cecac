SPECIFICATION InsistentSpec
CONSTANTS
  Calls <- Profiling
  Names = {"cortex_m::quantized_add", "aten::mean", "EthosU"}
  NBuffers = 2
  Capacities = {0, 2, 3}
  TracerEnabled = TRUE
  SizeMod = 8
  CycleMod = 4
  Ticks = {1, 2}
  Handles = {0, 3}
  KernelErrors = {"KernelFailed"}
  CanAbort = TRUE
INVARIANTS BracketsMatch EveryCallBracketedOnce CyclesExact
PROPERTY CallsReturn GrowAndRetryConverges
