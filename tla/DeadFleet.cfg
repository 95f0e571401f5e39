CONSTANTS
  Jobs = {j1}
  Workers = {w1}
  MaxAttempts <- MCMaxAttempts
  AttemptBound = 2
  NoWorker = NoWorker
  NoClaim = NoClaim
  MaxCrashes = 1
  MaxFaults = 0
  SlowHeartbeats = FALSE
  Shutdowns = FALSE
  MaxMoves = 1
SPECIFICATION DashboardSpec
INVARIANTS
  DeadFleetIsCritical
CHECK_DEADLOCK FALSE
