SPECIFICATION FairSpec
CONSTANTS
  a = a
  b = b
  c = c
  u = u
  v = v
  h = h
  none = none
  None = none
  handler = h
  Transfers = {a}
  Users = {u}
  Timeouts <- Mixed
  MaxTime = 2
  SubmitMayFail = TRUE
  Unplugging = "never"
PROPERTY SubmitReturns
CHECK_DEADLOCK FALSE
