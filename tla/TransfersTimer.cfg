SPECIFICATION Spec
CONSTANTS
  a = a
  b = b
  c = c
  u = u
  v = v
  h = h
  none = none
  None = none
  handler = h
  Transfers = {a, c}
  Users = {u}
  Timeouts <- Mixed
  MaxTime = 3
  SubmitMayFail = FALSE
  Unplugging = "never"
INVARIANT TimerCoversNextTimeout
CHECK_DEADLOCK FALSE
