SPECIFICATION Spec
CONSTANTS
  t1 = t1
  t2 = t2
  Tasks <- MCTasks
  Byte <- MCByte
  Messages <- MCMessages
  ReadSizes <- MCReadSizes
  Size = 3
  MaxBytes = 8
SYMMETRY Symmetric
INVARIANTS TypeOK MessagesUnbroken ReadsContiguous
PROPERTY ImplementsFifo
