SPECIFICATION Spec
CONSTANTS
  MaxStacks = 6
  N_PROCS = 5
  N_ENTRIES = 2
  InitPrios <- StdOnly
  PrioArgs = {0}
  SleepArgs = {0, 1, 2}
  PidArgs = {0}
  StatusArgs = {0}
  Calls = {"fork", "wait", "exit", "bogus"}
  MaxPid = 6
  TimeMod = 1
  Q_STD = 1
  MaxQnodes = 4
INVARIANTS ZombiesQueued FamilyTree NoLostWakeup OnlyExhaustionPanics StacksOwned
PROPERTIES ReapReports ImplementsProcSpec
