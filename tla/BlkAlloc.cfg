SPECIFICATION Spec
CONSTANTS
  NBlks = 8
  NullStore = {"ignored", "aborts"}
INVARIANTS TypeOK WalkEnds NoBlockLost
