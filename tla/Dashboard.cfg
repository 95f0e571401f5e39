CONSTANTS
  Jobs = {j1}
  Workers = {w1, w2}
  MaxAttempts <- MCMaxAttempts
  AttemptBound = 2
  NoWorker = NoWorker
  NoClaim = NoClaim
  MaxCrashes = 1
  MaxFaults = 0
  SlowHeartbeats = FALSE
  Shutdowns = FALSE
  MaxMoves = 1
SPECIFICATION DashboardSpec
SYMMETRY WorkerSymmetry
INVARIANTS
  QuietReportIsRight
  WaitingJobIsReported
  SilentWorkerIsReported
CHECK_DEADLOCK FALSE
