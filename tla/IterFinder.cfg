\* All graphs of four vertices on each side, and all their tasks.
CONSTANTS
  Half = 64
  warpSize = 2
  USize = 4
  VSize = 4
  Most = 4
SPECIFICATION Spec
INVARIANTS CountsCurrent TasksShareOut
PROPERTY DoesTask
