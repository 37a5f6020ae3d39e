CONSTANTS
  m = m
  w1 = w1
  w2 = w2
  Threads = {m, w1, w2}
  Main = m
  MAX_TASK_NUM = 2
  RSize = 5
  MaxForks = 4
SPECIFICATION FairSpec
INVARIANTS TypeOK Counted Bounded
PROPERTY Terminates
