SPECIFICATION DevicesSpec
CONSTANTS
  Addresses = {1}
  Objects = {11, 12}
  Callers = {"t", "u"}
  MaxHeld = 1
  DeviceRaces = {"enumerate"}
INVARIANT OneObjectPerDevice
CHECK_DEADLOCK FALSE
