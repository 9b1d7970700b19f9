SPECIFICATION Spec
CONSTANTS
  a = a
  b = b
  c = c
  u = u
  v = v
  h = h
  none = none
  None = none
  handler = h
  Transfers = {a}
  Users = {u}
  Timeouts <- Changing
  MaxTime = 2
  SubmitMayFail = FALSE
  Unplugging = "never"
INVARIANT ZeroMeansNoTimeout
CHECK_DEADLOCK FALSE
