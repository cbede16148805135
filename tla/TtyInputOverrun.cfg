CONSTANTS
  TTYQ_BUF_LEN = 4
  NUL = NUL
  a = a
  Char <- TwoChars
  Ttys = {2}
  Nums = {1}
  MaxBacklog = 4
SPECIFICATION Spec
INVARIANTS
  ReadWithinBuffer
