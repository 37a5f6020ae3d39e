\* "-o 1" and "-o 3" with AdaMBEFinder.
CONSTANTS
  WordBits = 64
  DegreeRatio = 100
  NNs = {0, 1}
  Lines = {2, 3}
  Items = {2}
  Gaps = FALSE
  AsDocumented = TRUE
  Bounds = {1}
  OrdersRun = {1, 3}
  FindersRun = {"AdaMBE"}
SPECIFICATION SafetySpec
INVARIANT CountExact
