SPECIFICATION Spec
CONSTANTS
  NTasks = 4
  ForksAgain = TRUE
INVARIANTS
  TypeOK
  ForkIsRightUnlessOvertaken
  BranchesNotExchanged
  AbortsOnlyGrandchildren
CHECK_DEADLOCK FALSE
