\* All graphs of three and four R vertices and up to four L vertices; with five
\* for the two finders whose pruning needs more to go wrong; for AdaMBE with six
\* and long lists, so that one list leaves out the middle of another.
CONSTANTS
  WordBits = 64
  FindersRun = {"LMBC", "MBEA", "iMBEA", "FMBE", "PMBE", "DSB", "NC", "AdaMBE"}
  Wider = {"DSB", "NC"}
  WiderList = 2
  LSize = 4
  RSizes = {3, 4}
  Long = {"AdaMBE"}
  LongSize = 6
  LongRSize = 3
  LongList = 4
  NNs = {1, 4}
  MinLs = {1}
  MinRs = {1}
  Order = "RInc"
SPECIFICATION SafetySpec
INVARIANTS RootsComplete FramesClosed ListsExact ScratchClean
           Witnessed NodesCurrent RangesContained
PROPERTY Enumerates
