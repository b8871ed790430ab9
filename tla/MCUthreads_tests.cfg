SPECIFICATION TestsSpec
CONSTANTS
  MaxThreadNum = 4
  NumObj = 5
  MaxEntries = 8
  QuantaWrap = 32
  PreemptibleCalls = TRUE
  Ops = {"spawn", "terminate", "return", "block", "resume", "lock", "unlock"}
  RandomEntries = 3
INVARIANTS ExpectationsHold EndsInTime ActiveThreadsLive HolderIsLive OneRunning QuantaAccounted
VIEW TestsView
