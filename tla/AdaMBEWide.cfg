\* Bitsets wider than the word whose shift makes them, NN > WordBits as in the
\* binaries MBE_80 to MBE_256, scaled down from 64 to 2 bits.
CONSTANTS
  WordBits = 2
  FindersRun = {"AdaMBE"}
  Wider = {}
  WiderList = 0
  LSize = 5
  RSizes = {3}
  Long = {}
  LongSize = 0
  LongRSize = 0
  LongList = 0
  NNs = {3}
  MinLs = {1}
  MinRs = {1}
  Order = "RInc"
SPECIFICATION SafetySpec
INVARIANT CountExact
