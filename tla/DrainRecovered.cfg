CONSTANTS
  Jobs = {j1}
  Workers = {w1, w2}
  MaxAttempts <- MCMaxAttempts
  AttemptBound = 3
  NoWorker = NoWorker
  NoClaim = NoClaim
  MaxCrashes = 0
  MaxFaults = 0
  SlowHeartbeats = FALSE
  Shutdowns = TRUE
SPECIFICATION FleetSpec
PROPERTIES
  DrainIsUndisturbed
CHECK_DEADLOCK FALSE
