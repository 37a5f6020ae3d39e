\* Three slots and three warps; the fourth task is pushed to the slot of the first.
CONSTANTS
  w1 = w1
  w2 = w2
  w3 = w3
  Warps = {w1, w2, w3}
  size = 3
  MaxPush = 2
  MaxTasks = 4
  NoTask = NoTask
SPECIFICATION FairSpec
INVARIANTS TypeOK ClaimsBacked InOrder
PROPERTIES KeepsTasks ClaimsServed
\* The bound MaxTasks may hold back a push of every warp.
CHECK_DEADLOCK FALSE
