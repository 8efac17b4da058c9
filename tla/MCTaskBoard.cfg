\* A writer of each kind on a board of two tasks, with one subtask, and three
\* connections for the six of them.
SPECIFICATION FairSpec
CONSTANTS
  a1 = a1
  a2 = a2
  b1 = b1
  board = board
  cli = cli
  sub1 = sub1
  sub2 = sub2
  reset = reset
  save = save
  delete = delete
  NULL = NULL
  Tasks = {a1, a2, b1}
  Trees <- MCTrees
  NewTree <- MCNewTree
  Subtasks = {1}
  Statuses = {"pending", "in_progress", "completed"}
  Requests = {board, cli, sub1, reset, save, delete}
  Kind <- MCKind
  Targets <- MCTargets
  Pool = 3
INVARIANTS
  DeadlockNeedsSave
PROPERTIES
  ImplementsBoard
  TombstoneUntouched
  RequestsEnd
CHECK_DEADLOCK FALSE
