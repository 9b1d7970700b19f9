SPECIFICATION MCSpec
CONSTANTS
  k1 = k1
  k2 = k2
  k3 = k3
  k4 = k4
  ctrl = ctrl
  none = none
  left = left
  Keys = {k1, k2, k3, k4}
  Modifiers = {ctrl}
  None = none
  Slots = 3
  MaxPresses = 2
  KeysMayFail = TRUE
  Buttons = {left}
  Screen <- Size
  Distances <- Steps
  MinStep = 2
  MaxStep = 2
  CharRange = 3
  HomeDistance = 4
  AbsoluteError = 1
  MaxCount = 2
  Faults = {"relative"}
INVARIANTS
  TypeOK
  ReportPacked
  PositionTracked
PROPERTIES
  KeySetSpec
  MoveArrives
  CallsReturn
CHECK_DEADLOCK FALSE
