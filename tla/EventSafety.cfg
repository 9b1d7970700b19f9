SPECIFICATION Spec
CONSTANTS
  t1 = t1
  t2 = t2
  t3 = t3
  free = free
  NoThread = free
  Threads = {t1, t2, t3}
  MayUnplug = {t1}
  WriteMayFail = FALSE
INVARIANTS
  TypeOK
  SleepersAreAttended
  CompletionIsAnnounced
  PolledFdsStayOpen
  OpenedFdsArePolled
CHECK_DEADLOCK FALSE
SYMMETRY ThreadSymmetry
