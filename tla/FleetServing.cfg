CONSTANTS
  Jobs = {j1, j2}
  Workers = {w1, w2}
  MaxAttempts <- MCMaxAttempts
  AttemptBound = 3
  NoWorker = NoWorker
  NoClaim = NoClaim
  MaxCrashes = 1
  MaxFaults = 1
  SlowHeartbeats = FALSE
  Shutdowns = FALSE
SPECIFICATION FairFleetSpec
INVARIANTS
  ExclusiveExecution
  ExecutionIsCurrent
  NothingStranded
PROPERTIES
  CrashedJobsRecovered
  JobsEnd
CHECK_DEADLOCK FALSE
