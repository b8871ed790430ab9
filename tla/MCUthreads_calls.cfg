SPECIFICATION Spec
CONSTANTS
  MaxThreadNum = 3
  NumObj = 3
  MaxEntries = 3
  QuantaWrap = 1
  PreemptibleCalls = FALSE
  Ops = {"spawn", "terminate", "return", "block", "resume", "lock", "unlock"}
INVARIANTS TypeOK MutualExclusion WaiterIsListed ReadyIsQueued
PROPERTIES FaultOnlyIfMainWaits SchedulerImplemented
VIEW LiveView
CHECK_DEADLOCK FALSE
