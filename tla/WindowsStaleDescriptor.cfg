SPECIFICATION WinSpec
CONSTANTS
  Controls = {}
  Bulks = {"x", "y"}
  MaxFds = 2
  MaxAutoclaim = 1
  WinFaults = {"stale"}
INVARIANT OwnDescriptorFreed
CHECK_DEADLOCK FALSE
