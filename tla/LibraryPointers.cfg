SPECIFICATION LibrarySpec
CONSTANTS
  Size = 6
  SIZE_MAX = 7
  Calls <- StringCalls
  Names <- FileNames
  Data <- BlocksOfData
  Archives <- TarArchives
  MaxBlocks = 9
  PRINTF_NTOA_BUFFER_SIZE = 32
  CharValues = 256
  ShortValues = 65536
  IntValues = 16777216
  PointerSize = 3
  PrintCalls <- SnprintfCalls
CHECK_DEADLOCK FALSE
INVARIANT PointersShown
