SPECIFICATION Spec
CONSTANTS
  deviceA = deviceA
  deviceB = deviceB
  none = none
  Targets <- OneTarget
  NoTarget = none
  NoPlan = none
  Buses <- SiblingBus
  MaxID = 2
INVARIANTS CaptureIsOfTarget
CHECK_DEADLOCK FALSE
