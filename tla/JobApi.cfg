CONSTANTS
  Jobs = {j1, j2}
  Workers = {w1, w2}
  MaxAttempts <- MCMaxAttempts
  AttemptBound = 3
  NoWorker = NoWorker
  Keys = {k1}
  Requests = {r1, r2, r3}
  MaxFaults = 1
  NoKey = NoKey
  NoJob = NoJob
SPECIFICATION ApiSpec
SYMMETRY ApiSymmetry
INVARIANTS
  OneJobPerKey
  CancelledMeansCancelled
  OneActiveAttempt
  AttemptHistory
PROPERTIES
  HistoryIsFinal
  SettledByCurrentAttempt
  ImplementsQueue
CHECK_DEADLOCK FALSE
