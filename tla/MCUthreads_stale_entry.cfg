SPECIFICATION Spec
CONSTANTS
  MaxThreadNum = 3
  NumObj = 3
  MaxEntries = 3
  QuantaWrap = 1
  PreemptibleCalls = FALSE
  Ops = {"spawn", "terminate", "block"}
INVARIANT SuspendedIsBlocked
CHECK_DEADLOCK FALSE
