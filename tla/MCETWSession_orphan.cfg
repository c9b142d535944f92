SPECIFICATION FairSpec
CONSTANTS
  MaxStarts = 1
  MaxLines = 1
  MaxPosted = 2
PROPERTIES OrphanShutsDown
CHECK_DEADLOCK FALSE
