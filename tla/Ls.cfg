SPECIFICATION FairSpec
CONSTANTS
  Names <- MCNames
  MaxEntries = 3
  Sizes <- MCSizes
INVARIANTS
  LsStaysInside
  LsShowsDirectory
PROPERTY
  LsEnds
CHECK_DEADLOCK FALSE
