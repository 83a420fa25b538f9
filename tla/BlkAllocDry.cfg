SPECIFICATION Spec
CONSTANTS
  NBlks = 6
  NullStore = {"ignored"}
INVARIANT FreedBlockIsUsable
