SPECIFICATION FairSpec
CONSTANTS
  deviceA = deviceA
  deviceB = deviceB
  none = none
  Targets <- OneTarget
  NoTarget = none
  NoPlan = none
  Buses <- MixedBuses
  MaxID = 5
INVARIANTS TypeOK StartingIsBacked CaptureIsTracked RunningIsReal CaptureIsJustified
PROPERTIES StartIsDecided EndIsNoticed StoppedCaptureDies
CHECK_DEADLOCK FALSE
