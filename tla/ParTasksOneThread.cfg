\* "-t 1", the default: the only thread is the one that runs Execute.
\* The main loop's busy wait changes no state, so it counts as a deadlock.
CONSTANTS
  m = m
  Threads = {m}
  Main = m
  MAX_TASK_NUM = 1
  RSize = 5
  MaxForks = 3
SPECIFICATION FairSpec
PROPERTY Terminates
CHECK_DEADLOCK FALSE
