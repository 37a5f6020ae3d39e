\* Every file of two or three lines and up to three R ids, every value of "-o",
\* "-x" and "-y" up to 3, and every serial finder.  The sides are swapped by
\* degree from a ratio of 1 on.
CONSTANTS
  WordBits = 64
  DegreeRatio = 1
  NNs = {0, 2}
  Lines = {2, 3}
  Items = {3}
  Gaps = FALSE
  Bounds = {1, 2, 3}
  AsDocumented = FALSE
  OrdersRun = {1, 2, 3}
  FindersRun = {"LMBC", "MBEA", "iMBEA", "FMBE", "PMBE", "DSB", "NC", "AdaMBE"}
SPECIFICATION Spec
INVARIANTS SameEdges NoSecondPush BicliquesKept
PROPERTIES Enumerates Peels Terminates
