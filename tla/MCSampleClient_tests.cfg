SPECIFICATION TestsFairSpec
CONSTANTS
  MtLevel = 2
  MaxRounds = 2
  NumItems = 1
  NumKeys = 2
  Content <- MCContent
  Emits <- MCEmits
CHECK_DEADLOCK FALSE
INVARIANTS
  ResultComplete
  
  NothingReducedWithoutAll
PROPERTIES
  TestsEnd
