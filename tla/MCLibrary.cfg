SPECIFICATION Spec
CONSTANTS
  W = 9
  MemSize = 16
  Widths = {0, 5}
  Strings <- MCStrings
  MaxArgc = 4
  HEADER = 4
  ENTRY = 8
  ROUND = 4
  NAMELEN = 3
  ElfFiles <- MCElfFiles
  MaxFiles = 3
INVARIANTS BlocksMoved NumbersRoundTrip  BlobIndexed
CHECK_DEADLOCK FALSE
