SPECIFICATION MCFairSpec
CONSTANTS
  t1 = t1
  t2 = t2
  t3 = t3
  free = free
  NoThread = free
  Threads = {t1, t2, t3}
  MayUnplug = {}
  WriteMayFail = FALSE
  MaxEvents = 4
PROPERTIES
  TransferReturns
  ChangesReturn
CHECK_DEADLOCK FALSE
