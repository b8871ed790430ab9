SPECIFICATION Spec
CONSTANTS
  MaxThreadNum = 3
  NumObj = 3
  MaxEntries = 3
  QuantaWrap = 1
  PreemptibleCalls = FALSE
  Ops = {"spawn", "terminate", "lock"}
INVARIANT HolderIsLive
CHECK_DEADLOCK FALSE
