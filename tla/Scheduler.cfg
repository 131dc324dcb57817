CONSTANTS
  Tasks = {i1, b1, b2}
  Interactive = {i1}
  Docs = {d1}
  NoDoc = NoDoc
  DropThreshold = 1
  LruCap = 1
  MaxCompletions = 1
SPECIFICATION FairSpec
INVARIANTS SchedulerTypeOK GateWaiterCovered CancelReaches
PROPERTIES DrainReturns WorkCompletes
CHECK_DEADLOCK FALSE
