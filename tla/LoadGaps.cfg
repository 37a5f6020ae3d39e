\* A file may leave out ids of R.  The run stops after Reorder.
CONSTANTS
  WordBits = 64
  DegreeRatio = 100
  NNs = {0}
  Lines = {2, 3}
  Items = {3}
  Gaps = TRUE
  AsDocumented = TRUE
  Bounds = {1}
  OrdersRun = {2}
  FindersRun = {}
SPECIFICATION SafetySpec
INVARIANT LogicIds
