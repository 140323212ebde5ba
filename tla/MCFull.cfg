SPECIFICATION Spec
CONSTANTS
  MaxStacks = 4
  N_PROCS = 4
  Q_STD = 2
  MaxQnodes = 4
  N_ENTRIES = 2
  InitPrios = {0, 1}
  PrioArgs = {3, 128}
  SleepArgs = {0, 1}
  PidArgs = {0, 1, 2, 9}
  StatusArgs = {0}
  Calls <- SyscallNames
  MaxPid = 4
  TimeMod = 2
INVARIANTS TypeOK SchedInv AlwaysSomeoneToRun
