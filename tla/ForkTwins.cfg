SPECIFICATION Spec
CONSTANTS
  NTasks = 2
  ForksAgain = FALSE
INVARIANT
  BranchesTellApart
CHECK_DEADLOCK FALSE
