SPECIFICATION TestsSpec
CONSTANTS
  MtLevel = 1
  MaxRounds = 2
  NumItems = 1
  NumKeys = 1
  Content <- MCContent
  Emits <- MCEmits
CHECK_DEADLOCK FALSE
INVARIANTS
  NothingMissed
