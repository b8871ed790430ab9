SPECIFICATION Spec
CONSTANTS
  MtLevel = 2
  MaxRounds = 2
  NumItems = 1
  NumKeys = 1
  Emits <- MCEmits
CHECK_DEADLOCK FALSE
PROPERTIES
  PercentAdvances
