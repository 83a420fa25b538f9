SPECIFICATION Spec
CONSTANTS
  Task = {sh, t1, t2}
  Shell = sh
  Slice = 3
  Reload = 5
  CallTime = 2
  TickTime = 2
  LongCalls = FALSE
INVARIANTS
  TypeOK
  RegistersKept
  TaskGoesOn
  SliceNotPostponed
