SPECIFICATION DarwinSpec
CONSTANTS
  DarwinHandles = {"g"}
  Requests = {"r"}
  Pipes = {"p"}
  MaxMessages = 2
INVARIANT CallbacksHaveTransfers
CHECK_DEADLOCK FALSE
