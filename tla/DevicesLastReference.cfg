SPECIFICATION DevicesSpec
CONSTANTS
  Addresses = {1}
  Objects = {11, 12}
  Callers = {"t", "u"}
  MaxHeld = 1
  DeviceRaces = {"dying"}
INVARIANT CountedAreAlive
CHECK_DEADLOCK FALSE
