CONSTANTS
  TTYQ_BUF_LEN = 4
  NUL = NUL
  a = a
  b = b
  Blank = Blank
  Glyph <- Glyphs
  Char <- ScreenChars
  width = 2
  height = 2
  Calls <- AllCalls
SPECIFICATION FairSpec
INVARIANTS
  TypeOK
  InTransit
  WriteDelivers
  NeverSpins
  TextIsShown
  RubOut
  CursorShown
PROPERTIES
  WriteReturns
