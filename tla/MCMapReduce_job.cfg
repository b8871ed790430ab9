SPECIFICATION FairSpec
CONSTANTS
  MtLevel = 3
  MaxRounds = 2
  NumItems = 2
  NumKeys = 1
  Emits <- MCEmits
CHECK_DEADLOCK FALSE
INVARIANTS
  TypeOK
  ReducesWholeGroups
  ResultComplete
PROPERTIES
  StageAdvances
  ReportsAdvance
  RoundsImplemented
  JobImplemented
  JobEnds
