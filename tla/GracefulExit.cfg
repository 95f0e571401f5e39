CONSTANTS
  Jobs = {j1}
  Workers = {w1}
  MaxAttempts <- MCMaxAttempts
  AttemptBound = 3
  NoWorker = NoWorker
  NoClaim = NoClaim
  MaxCrashes = 0
  MaxFaults = 0
  SlowHeartbeats = FALSE
  Shutdowns = TRUE
SPECIFICATION FleetSpec
INVARIANTS
  GracefulExitOwnsNothing
CHECK_DEADLOCK FALSE
