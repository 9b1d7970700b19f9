SPECIFICATION Spec
CONSTANTS
  a = a
  b = b
  c = c
  u = u
  v = v
  h = h
  none = none
  None = none
  handler = h
  Transfers = {a, b, c}
  Users = {u}
  Timeouts <- Mixed
  MaxTime = 3
  SubmitMayFail = TRUE
  Unplugging = "quietly"
INVARIANTS
  TypeOK
  FlyingSorted
  PassFindsAll
  IdleIsForgotten
PROPERTY LifecycleSpec
CHECK_DEADLOCK FALSE
