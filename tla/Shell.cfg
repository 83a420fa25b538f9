SPECIFICATION Spec
CONSTANTS
  BufSize = 7
  Letter <- MCLetter
  CommandWord <- MCCommandWord
  DirWord <- MCDirWord
  TestKey <- MCTestKey
  BreakKey = "b"
INVARIANTS
  TypeOK
  LineStaysInside
PROPERTY
  ImplementsSession
CHECK_DEADLOCK FALSE
