SPECIFICATION FairListSpec
CONSTANTS
  NPages = 5
  NKBlks = 5
  NPrio = 3
  MaxTid = 5
  ExitBehindSpawn = FALSE
INVARIANTS
  TypeOK
  ReadyListsSound
  SomeTaskIsChosen
  ExitedTaskLeavesQueues
  PagesAccounted
  KBlksAccounted
  TableOpensOwnPage
  TidsUnique
  OnlyNewbornOvertaken
  LinksSpellLists
PROPERTY
  ActiveTablesStable
  WaitersMoveUp
  RoundRobin
