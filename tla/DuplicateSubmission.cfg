CONSTANTS
  Jobs = {j1, j2}
  Workers = {w1}
  MaxAttempts <- MCMaxAttempts
  AttemptBound = 2
  NoWorker = NoWorker
  Keys = {k1}
  Requests = {r1, r2, r3}
  MaxFaults = 1
  NoKey = NoKey
  NoJob = NoJob
SPECIFICATION ApiSpec
INVARIANTS
  ResubmissionIsAnswered
CHECK_DEADLOCK FALSE
