\* Lists of 17 vertices, of which two share 16, where an int has halves of four
\* bits: as lists of 65537 vertices in halves of sixteen.
CONSTANTS
  Half = 16
  warpSize = 32
  USize = 17
  VSize = 2
  Most = 1
SPECIFICATION Spec
INVARIANT SubtreeDone
