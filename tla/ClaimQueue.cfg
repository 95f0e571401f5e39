CONSTANTS
  j1 = j1
  j2 = j2
  Jobs = {j1, j2}
  Workers = {w1, w2}
  Priorities = {1, 3}
  MaxAttempts <- MCMaxAttempts
  BaseDelay = 1
  MaxDelay = 5
  MaxTime = 1
  NoWorker = NoWorker
  Canceller = Canceller
SPECIFICATION Spec
SYMMETRY WorkerSymmetry
INVARIANTS
  SelectedIsClaimable
  BestFirst
  BackoffIsExact
PROPERTIES
  BackoffRespected
  ClaimsImplementQueue
CHECK_DEADLOCK FALSE
