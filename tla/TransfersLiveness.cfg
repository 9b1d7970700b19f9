SPECIFICATION MCFairSpec
CONSTANTS
  a = a
  b = b
  c = c
  u = u
  v = v
  h = h
  none = none
  None = none
  handler = h
  Transfers = {a, c}
  Users = {u}
  Timeouts <- Mixed
  MaxCalls = 3
  MaxTime = 3
  SubmitMayFail = FALSE
  Unplugging = "quietly"
PROPERTIES
  TimeoutEndsTransfer
  UnplugEndsTransfers
  SubmitReturns
