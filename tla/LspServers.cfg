CONSTANTS
  Docs = {d1, d2}
  CanDrop = TRUE
  CanShutdown = TRUE
  MaxStarts = 2
  MaxEvents = 2
SPECIFICATION ServersFairSpec
INVARIANTS SingleFlight NoOrphan
PROPERTY AcquireReturns
CHECK_DEADLOCK FALSE
