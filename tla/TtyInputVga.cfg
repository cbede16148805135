CONSTANTS
  TTYQ_BUF_LEN = 4
  NUL = NUL
  a = a
  Char <- TwoChars
  Ttys = {2, 3}
  Nums = {0, 1, 2}
  MaxBacklog = 4
SPECIFICATION FairSpec
INVARIANTS
  TypeOK
PROPERTIES
  VgaIsFifo
  ReadReturns
