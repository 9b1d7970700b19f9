SPECIFICATION Spec
CONSTANTS
  t1 = t1
  t2 = t2
  t3 = t3
  free = free
  NoThread = free
  Threads = {t1, t2}
  MayUnplug = {t1,t2}
  WriteMayFail = FALSE
INVARIANT ReportedFdsHaveHandles
CHECK_DEADLOCK FALSE
