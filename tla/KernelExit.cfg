SPECIFICATION Spec
CONSTANTS
  NPages = 5
  NKBlks = 5
  NPrio = 2
  MaxTid = 5
  ExitBehindSpawn = TRUE
INVARIANT
  ExitedTaskLeavesQueues
