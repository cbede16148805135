CONSTANTS
  TTYQ_BUF_LEN = 4
  NUL = NUL
  a = a
  Char <- TwoChars
  Ttys = {0, 1, 3}
  Nums = {0, 2, 4}
  MaxBacklog = 1
SPECIFICATION FairSpec
INVARIANT
  NeverEIO
PROPERTIES
  SerialIsFifo
  ReadReturns
