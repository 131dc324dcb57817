CONSTANTS
  Senders = {s1, s2}
  Receiver = rx
  Closers = {c}
  NowClosers = {c}
  Droppable = {s2}
  Capacity = 2
  Policies = {TRUE, FALSE}
  Keys <- MCKeys
  Key <- SharedFirst
  MaxSends = 2
  Free = Free
SPECIFICATION FairSpec
INVARIANTS ReceiverNotStranded SenderNotStranded CoalesceFresh
PROPERTIES ImplementsChannel SendReturns
CHECK_DEADLOCK FALSE
