\* Two vertices of R with the same list of more than NN vertices.
CONSTANTS
  WordBits = 64
  m = m
  w1 = w1
  Threads = {m, w1}
  Main = m
  MAX_TASK_NUM = 2
  MaxForks = 2
  LSize = 2
  RSize = 2
  NNs = {0, 1}
  LargeTwins = TRUE
SPECIFICATION Spec
INVARIANT CountExact
