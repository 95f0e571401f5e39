CONSTANTS
  Jobs = {j1}
  Workers = {w1, w2}
  MaxAttempts <- MCMaxAttempts
  AttemptBound = 3
  NoWorker = NoWorker
  NoClaim = NoClaim
  MaxCrashes = 1
  MaxFaults = 1
  SlowHeartbeats = TRUE
  Shutdowns = TRUE
SPECIFICATION FleetSpec
INVARIANTS
  FleetTypeOK
  OneRecoverer
  AttemptRunsOnce
PROPERTIES
  NoReturn
  Fenced
SYMMETRY WorkerSymmetry
CHECK_DEADLOCK FALSE
