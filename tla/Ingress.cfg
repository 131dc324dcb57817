CONSTANTS
  Callers = {c1, c2}
  Staging = 1
  Capacity = 2
  MaxSends = 4
SPECIFICATION FairSpec
INVARIANT AcceptedInOrder
PROPERTY IngressShutdownReturns
CHECK_DEADLOCK FALSE
