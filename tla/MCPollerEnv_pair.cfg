SPECIFICATION FairSpec
CONSTANTS
  child = child
  hub = hub
  host = host
  slot = slot
  otherSlot = otherSlot
  NoCom = NoCom
  NoPlace = NoPlace
  NoDevice = NoDevice
  NoProblem = "none"
  Ancestors <- AncestorsDef
  Evidence <- EvidenceDef
  Companions <- CompanionsDef
  Ids <- Pair
  Hosts <- NoHosts
  Readings <- ProblemReadings
  Capacity = 1
  MaxTime = 1
  MaxChanges = 1
  MaxFailures = 2
INVARIANTS TypeOK RequestKept StampsOrdered
PROPERTIES BaselineIsSilent StampsCarryOver CancelCloses RequestServed
