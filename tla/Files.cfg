SPECIFICATION Spec
CONSTANTS
  Task = {0, 1}
  Shell = 0
  MAX_FD = 4
  OpenArgs = {"/tty0", "/ipc0", "/nosuch"}
  ChdirArgs = {"/dev", "..", "/tty0"}
INVARIANTS
  TypeOK
  TreeIsSpelled
  WildOnlyByMisuse
  GivenIsOpen
  ReachesDriver
  PathFollowsResults
CHECK_DEADLOCK FALSE
