SPECIFICATION FairSpec
CONSTANTS
  MaxStarts = 2
  MaxLines = 1
  MaxPosted = 1
INVARIANTS TypeOK RunningIsFollowed
PROPERTIES SilenceIsNoticed EndIsNoticed HelperEndsWithGUI
CHECK_DEADLOCK FALSE
