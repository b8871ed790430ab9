SPECIFICATION FairSpec
CONSTANTS
  MaxThreadNum = 3
  NumObj = 3
  MaxEntries = 3
  QuantaWrap = 3
  PreemptibleCalls = FALSE
  Ops = {"spawn", "return", "block", "resume"}
INVARIANTS SuspendedIsBlocked QuantaAccounted
PROPERTIES ReadyRuns SchedulerImplemented
CHECK_DEADLOCK FALSE
