SPECIFICATION Spec
CONSTANTS
  Task = {sh, t1}
  Shell = sh
  Slice = 4
  Reload = 5
  CallTime = 2
  TickTime = 2
  LongCalls = TRUE
INVARIANT
  TaskGoesOn
