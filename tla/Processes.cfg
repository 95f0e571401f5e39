CONSTANTS
  MaxFaults = 2
  Requests = {r1, r2}
  ApiMaxFaults = 1
SPECIFICATION ProcessesSpec
INVARIANTS
  ProcessTypeOK
  TransitionsAreLegal
  DisconnectIsLast
  NoOverlap
  ShutdownIsGraceful
PROPERTIES
  ShutdownSettles
  SignalEndsServer
CHECK_DEADLOCK FALSE
