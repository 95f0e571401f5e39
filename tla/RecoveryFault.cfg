CONSTANTS
  Jobs = {j1}
  Workers = {w1, w2}
  MaxAttempts <- MCMaxAttempts
  AttemptBound = 3
  NoWorker = NoWorker
  NoClaim = NoClaim
  MaxCrashes = 1
  MaxFaults = 1
  SlowHeartbeats = FALSE
  Shutdowns = FALSE
SPECIFICATION FairFleetSpec
PROPERTIES
  LaterRecoveryAttempt
CHECK_DEADLOCK FALSE
