SPECIFICATION Spec
CONSTANTS
  deviceA = deviceA
  deviceB = deviceB
  none = none
  Targets <- TwoTargets
  NoTarget = none
  NoPlan = none
  Buses <- StrangeBus
  MaxID = 4
INVARIANTS MetadataDescribesCapture
CHECK_DEADLOCK FALSE
