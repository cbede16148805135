SPECIFICATION FairSpec
CONSTANTS
  NUL = NUL
  Blank = Blank
  a = a
  Glyph <- Glyphs
  Char <- TypedChars
  width = 2
  height = 3
  TTYQ_BUF_LEN = 3
  MaxBacklog = 3
  Noise = a
  MaxMouse = 1
INVARIANTS CleanAfterCursor LineShowsMessages
PROPERTY ScreenShowsTyping
