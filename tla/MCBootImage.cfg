SPECIFICATION Spec
CONSTANTS
  SECT_SIZE = 4
  PARA = 2
  SEGMENT = 16
  TOP = 63
  Frees = {3, 6, 7}
  N_INFO = 8
  Files <- MCFiles
  MaxFiles = 3
  SPT = 3
  HEADS = 2
  TRACKS = 2
  MaxFaults = 3
INVARIANTS SectorsInOrder LoadedAsAsked
CHECK_DEADLOCK FALSE
