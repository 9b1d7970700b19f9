SPECIFICATION Spec
CONSTANTS
  Shapes <- MCShapes
  UrbFaults = {"second_error"}
  Addresses = {1, 2}
  Objects = {11, 12}
  Callers = {"t", "u"}
  MaxHeld = 1
  DeviceRaces = {}
  Sessions = {"g", "h"}
  Ifaces = {0, 1}
  Configs = {1, 2}
  IfaceFaults = {}
  Threads = {"t", "u", "v"}
  MaxDepth = 2
  Clients = {"t", "u"}
  MaxTimerSemaphores = 4
  MaxContexts = 2
  MaxRetries = 1
  Controls = {"c"}
  Bulks = {"x"}
  MaxFds = 2
  MaxAutoclaim = 2
  WinFaults = {}
  DarwinHandles = {"g", "h"}
  Requests = {"r"}
  Pipes = {"p"}
  MaxMessages = 2
  ObsdHandles = {"g", "h"}
  Nodes = {"in"}
  ObsdInterfaces = {0, 1}
  MaxObsdFd = 5
  ObsdFaults = {"two_handles", "close_claimed", "half_open", "no_info"}
  DpFaults = {"error"}
  Configurations <- MCConfigurations
  MaxInterfaces = 2
  MaxEndpoints = 2
  DescFaults = {"no_memory", "io"}
  ConfigValues <- MCValues
  Kernels <- MCKernels
  ConfigFaults = {}
  PipeThreads = {"t", "u", "v"}
  Group <- MCGroup
  Places = 2
  Timed = {"x", "y"}
  Limits = {1, 3}
  Patience = 3
  LastTick = 10
  DeadlineFaults = {}
  HostControllers <- MCHostControllers
  NodeKind <- MCNodeKind
  NodeParent <- MCNodeParent
  NodePort <- MCNodePort
  Parts = {0, 2}
  MaxAddress = 4
  WinDevFaults = {}
INVARIANT FreedWhenDone
CHECK_DEADLOCK FALSE
