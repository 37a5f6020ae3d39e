\* "-x" and "-y" with AdaMBEFinder_DSB.
CONSTANTS
  WordBits = 64
  DegreeRatio = 100
  NNs = {2}
  Lines = {3}
  Items = {3}
  Gaps = FALSE
  AsDocumented = TRUE
  Bounds = {1, 2}
  OrdersRun = {2}
  FindersRun = {"DSB"}
SPECIFICATION SafetySpec
INVARIANT CountExact
