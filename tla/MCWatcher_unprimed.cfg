SPECIFICATION FairSpec
CONSTANTS
  port = port
  converter = converter
  host = host
  slot = slot
  NoCom = NoCom
  NoPlace = NoPlace
  NoDevice = NoDevice
  NoProblem = "none"
  Ancestors <- AncestorsDef
  Evidence <- EvidenceDef
  FTDI <- Alone
  Converters <- ConvertersDef
  Companions <- CompanionsDef
  Ids <- Alone
  Hosts <- Controller
  Readings <- PowerReadings
  Clicks = FALSE
  Capacity = 1
  MaxTime = 0
  MaxChanges = 0
  MaxFailures = 1
PROPERTIES ListsConnectedDevices
