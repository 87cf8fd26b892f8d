SPECIFICATION Spec
CONSTANTS
  Sizes <- AllSizes
  EncodeSizes <- GoodSizes
  SamplesOf <- Samples
  CoefsOf <- Harmonics
  Quanta = {1, 16}
  Generations = 1
INVARIANTS LossIsBounded NoGenerationLoss TransformsAreCosine
CHECK_DEADLOCK FALSE
