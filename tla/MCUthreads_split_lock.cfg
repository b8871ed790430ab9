SPECIFICATION Spec
CONSTANTS
  MaxThreadNum = 3
  NumObj = 3
  MaxEntries = 3
  QuantaWrap = 1
  PreemptibleCalls = TRUE
  Ops = {"spawn", "lock", "unlock"}
INVARIANT MutualExclusion
CHECK_DEADLOCK FALSE
