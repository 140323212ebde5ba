SPECIFICATION ProgramsSpec
CONSTANTS
  N_PROCS = 5
  Configs <- MCConfigs
  sh_procs <- MCsh_procs
  Lines <- MCLines
  Count = 2
  Iterations = 1
  RSeq = 3
  MaxShortages = 1
  MaxRespawns = 1
  MaxLines = 2
INVARIANT SequenceNumbers
PROPERTIES NoneLeftBehind Settles
CHECK_DEADLOCK FALSE
