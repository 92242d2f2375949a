SPECIFICATION FairSpec
CONSTANTS
  a = a
  b = b
  Nul = Nul
  Char <- TwoChars
  N = 4
  Fifo = 1
  Limit = 3
  SerialExists = TRUE
INVARIANT
  RingSound
PROPERTIES
  AbsSpec
  GetcharReturns
