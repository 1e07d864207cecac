SPECIFICATION Spec
CONSTANTS
  MaxInt = 15
  Sizes <- AllSizes
  WeightSums <- AllWeightSums
INVARIANTS AreasInsideBuffer WeightSumsAligned WeightSumsSurvive RefusedOnlyIfUnrepresentable NoOverflow
