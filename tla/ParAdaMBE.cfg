\* Three threads; forking stops at the third task, so that children are both
\* run and kept.  Four L vertices, for two levels of large children.
CONSTANTS
  WordBits = 64
  m = m
  w1 = w1
  w2 = w2
  Threads = {m, w1, w2}
  Main = m
  MAX_TASK_NUM = 2
  MaxForks = 9
  LSize = 4
  RSize = 3
  NNs = {0, 1, 2}
  LargeTwins = FALSE
SPECIFICATION Spec
SYMMETRY WorkerSymmetry
INVARIANT OneIndexEach
PROPERTIES Enumerates Schedules
