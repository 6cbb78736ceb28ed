CONSTANTS
  Word = 32768
  CompareFormats <- CompareTried
  MaxDomain = 300
  DirectLimit = 257
  CompareInputs <- CompareHeld
  ThresholdSets <- CompareThresholds
  CompareDraws = {1, 2}
  TruncateFormats <- TruncateTried
  TruncateInputs <- TruncateHeld
  TruncateDraws = {0, 1, 2}
  ModuliPairs <- ConvertModuli
  Tokens <- TokensTried
  MaxCalls = 2
SPECIFICATION Spec
INVARIANTS Compares TruncatesExactly Converts EvaluatesMasked TokenComputesOnce ComputesInClear
CHECK_DEADLOCK FALSE
