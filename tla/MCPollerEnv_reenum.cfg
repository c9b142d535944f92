SPECIFICATION Spec
CONSTANTS
  child = child
  hub = hub
  host = host
  slot = slot
  otherSlot = otherSlot
  NoCom = NoCom
  NoPlace = NoPlace
  NoDevice = NoDevice
  NoProblem = "none"
  Ancestors <- AncestorsDef
  Evidence <- EvidenceDef
  Companions <- CompanionsDef
  Ids <- Pair
  Hosts <- Controller
  Readings <- PowerReadings
  Capacity = 2
  MaxTime = 0
  MaxChanges = 1
  MaxFailures = 0
INVARIANT ReenumeratedIsNew
