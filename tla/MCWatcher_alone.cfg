SPECIFICATION Spec
CONSTANTS
  port = port
  converter = converter
  host = host
  slot = slot
  NoCom = NoCom
  NoPlace = NoPlace
  NoDevice = NoDevice
  NoProblem = "none"
  Ancestors <- AncestorsDef
  Evidence <- EvidenceDef
  FTDI <- Alone
  Converters <- ConvertersDef
  Companions <- CompanionsDef
  Ids <- Alone
  Hosts <- NoHosts
  Readings <- UnknownReadings
  Clicks = TRUE
  Capacity = 1
  MaxTime = 0
  MaxChanges = 2
  MaxFailures = 1
INVARIANTS TypeOK LogExplainsDevices
PROPERTIES ListNotBehindEvent ViewSpec
