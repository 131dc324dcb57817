CONSTANTS
  Senders = {s1}
  Receiver = rx
  Closers = {c}
  NowClosers = {}
  Droppable = {}
  Capacity = 1
  Policies = {FALSE}
  Keys <- MCKeys
  Key <- SharedFirst
  MaxSends = 1
  Free = Free
SPECIFICATION FairSpec
PROPERTIES CloseEndsReceiver
CHECK_DEADLOCK FALSE
