SPECIFICATION Spec
CONSTANTS
  MaxStacks = 6
  N_PROCS = 4
  Q_STD = 1
  MaxQnodes = 8
  N_ENTRIES = 2
  InitPrios = {0, 1}
  PrioArgs = {128}
  SleepArgs = {0, 1}
  PidArgs = {0, 1, 2, 9}
  StatusArgs = {0}
  Calls = {"fork", "wait", "exit", "exec"}
  MaxPid = 4
  TimeMod = 2
INVARIANT FreeStacksUnowned
