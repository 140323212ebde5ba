SPECIFICATION Spec
CONSTANTS
  MAX_X = 2
  MAX_Y = 2
  C_BUFSIZE = 3
  Texts <- MCTexts
  Items <- MCItems
  Regions <- MCRegions
  Keys = {"d", "enter"}
  ReadLens = {1, 2, 3}
  Workloads <- MCWorkloads
  MaxOps = 3
  MaxKeys = 5
INVARIANTS CursorInRegion KeysInOrder LinesWhole
PROPERTY ImplementsConsoleSpec
CHECK_DEADLOCK FALSE
