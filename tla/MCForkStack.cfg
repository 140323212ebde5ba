SPECIFICATION Spec
CONSTANTS
  STACK_WDS = 6
  LowWords = 7
  Fill = {0, 13}
INVARIANT ChainFollowed
CHECK_DEADLOCK FALSE
