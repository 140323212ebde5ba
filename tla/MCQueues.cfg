SPECIFICATION Spec
CONSTANTS
  Queues = {0, 1}
  Data = {1, 2, 3}
  Key <- MCKey
  QNODES_PER_PAGE = 1
  MaxPages = 3
INVARIANTS NodesInOnePlace TailIsLast PanicsOnlyWhenOut
PROPERTY ImplementsQueueSpec
