SPECIFICATION FairSpec
CONSTANTS
  MaxStacks = 5
  N_PROCS = 4
  Q_STD = 1
  MaxQnodes = 8
  N_ENTRIES = 2
  InitPrios = {0}
  PrioArgs = {128}
  SleepArgs = {0, 1, 2}
  PidArgs = {0}
  StatusArgs = {0}
  Calls = {"fork", "wait", "exit", "sleep"}
  MaxPid = 5
  TimeMod = 3
INVARIANTS QueuesMatchStates SleepersSorted
PROPERTIES SleepersWake InitCollects HighPriorityRuns
