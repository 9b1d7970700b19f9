SPECIFICATION WinSpec
CONSTANTS
  Controls = {"c", "d"}
  Bulks = {}
  MaxFds = 2
  MaxAutoclaim = 2
  WinFaults = {}
INVARIANT NoEarlyRelease
CHECK_DEADLOCK FALSE
