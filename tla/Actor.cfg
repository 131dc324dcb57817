CONSTANTS
  Callers = {c1, c2}
  Modes = {"Immediate", "Graceful", "Force"}
  CanCancel = TRUE
  Capacity = 2
  MaxRestarts = 1
  Backoff = TRUE
  MaxCalls = 3
SPECIFICATION FairSpec
INVARIANTS CompletedMeansStopped TakenInOrder
PROPERTIES CancelStops ShutdownReturns
CHECK_DEADLOCK FALSE
