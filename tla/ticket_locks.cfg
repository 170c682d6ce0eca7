SPECIFICATION LockFairSpec
CONSTANTS
  Agents = {a1, a2}
  Managers = {a2}
  ReleaseRequests = {q1}
  LeaseTicks = 1
  ViewTicks = 1
  MaxUnderWay = 2
  NoOne = NoOne
INVARIANT LockTypeOK
PROPERTIES LockLostWithCause LeftTicketIsFreed
CHECK_DEADLOCK FALSE
