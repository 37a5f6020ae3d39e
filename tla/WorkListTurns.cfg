\* A ring of two slots that may turn while a warp is inside get or push_works.
CONSTANTS
  w1 = w1
  w2 = w2
  w3 = w3
  Warps = {w1, w2, w3}
  size = 2
  MaxPush = 1
  MaxTasks = 4
  NoTask = NoTask
SPECIFICATION Spec
INVARIANT WorkBacked
\* The bound MaxTasks may hold back a push of every warp.
CHECK_DEADLOCK FALSE
