SPECIFICATION LibrarySpec
CONSTANTS
  NUL = "NUL"
  BUFSIZE = 4
  Call <- Outputs
  IntBits = 5
  LongBits = 7
  Text <- Texts
  Start <- Starts
  WORD = 2
  BYTE = 256
  LONG = 128
  NULL = NULL
  commands <- Names
  MAXARGS = 3
INVARIANTS
  ConversionRight
  Delivered
  Truncated
  ResultRight
  WordsRight
