SPECIFICATION ObsdSpec
CONSTANTS
  ObsdHandles = {"g", "h"}
  Nodes = {"in"}
  ObsdInterfaces = {0, 1}
  MaxObsdFd = 6
  ObsdFaults = {"two_handles"}
INVARIANT OpenHandlesServed
CHECK_DEADLOCK FALSE
