SPECIFICATION ObsdSpec
CONSTANTS
  ObsdHandles = {"g", "h"}
  Nodes = {"in"}
  ObsdInterfaces = {0, 1}
  MaxObsdFd = 6
  ObsdFaults = {"part_release"}
INVARIANT ClaimsServed
CHECK_DEADLOCK FALSE
