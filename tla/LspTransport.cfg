CONSTANTS
  Requests = {r1, r2}
  Notifications = {n1, n2}
SPECIFICATION TransportFairSpec
INVARIANTS TotalOrder NoAbandonedRequest
PROPERTY BarrierResolves
CHECK_DEADLOCK FALSE
