SPECIFICATION FairSpec
CONSTANTS
  Count = 2
  Jobs <- ThreeKinds
  NoJob = NoJob
  ItemLimit = 2
  MaxCrashes = 1
CHECK_DEADLOCK FALSE
INVARIANTS RunnerTypeOK AlarmIsForThisJob OneMoreJobAtMost NoneLeftBehind
PROPERTIES ShutdownSparesJobs Terminates WorkersRestart JobsEnd
