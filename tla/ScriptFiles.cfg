CONSTANTS
  Scripts = {"a", "b"}
  SystemFiles = {"lib"}
  NoName = "no name"
  Contents = {"one", "bad"}
  BadContents = {"bad"}
  Nothing = Nothing
  InitDisks <- MCDisks
  MaxOps = 3
SPECIFICATION FairSpec
INVARIANTS TablesAgree LoadedAsOnDisk AnswersOnTheirWay
PROPERTIES NoIdleReload CallsAnswered
CHECK_DEADLOCK FALSE
