SPECIFICATION FairSpec
CONSTANTS
  port = port
  converter = converter
  host = host
  slot = slot
  NoCom = NoCom
  NoPlace = NoPlace
  NoDevice = NoDevice
  NoProblem = "none"
  Ancestors <- AncestorsDef
  Evidence <- EvidenceDef
  FTDI <- Pair
  Converters <- ConvertersDef
  Companions <- CompanionsDef
  Ids <- Pair
  Hosts <- NoHosts
  Readings <- ComReadings
  Clicks = FALSE
  Capacity = 1
  MaxTime = 0
  MaxChanges = 1
  MaxFailures = 1
INVARIANTS NoStuckRows
PROPERTIES RowsConverge
