\* "-x" and "-y" with FmbeFinder.
CONSTANTS
  WordBits = 64
  DegreeRatio = 100
  NNs = {0}
  Lines = {2, 3}
  Items = {3}
  Gaps = FALSE
  AsDocumented = TRUE
  Bounds = {1, 2}
  OrdersRun = {2}
  FindersRun = {"FMBE"}
SPECIFICATION SafetySpec
INVARIANT CountExact
