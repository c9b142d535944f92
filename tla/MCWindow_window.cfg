SPECIFICATION WindowSpec
CONSTANTS
  port = port
  converter = converter
  other = other
  root = root
  ft232 = ft232
  ftdi1 = ftdi1
  ftdi2 = ftdi2
  com = com
  None = None
  NoGroup = None
  NoCom = NoCom
  Ids <- IdsDef
  Group <- GroupDef
  Parents <- ParentsDef
  ComIds <- ComIdsDef
  ComNames <- ComNamesDef
  Desc <- DescDef
  Rank <- RankDef
  HistoryLimit = 1
  EventLimit = 3
  ChangeLimit = 1
  PollerKinds <- PollerKindsDef
  OtherKinds <- OtherKindsDef
  PcapKinds <- PcapKindsDef
  ETWRecords <- ETWRecordsDef
  FilterKinds <- FilterKindsDef
INVARIANTS TypeOK UncheckedIsSilent CheckBoxShowsSwitch
  WindowTypeOK OneSelection DetailsAreCurrent AdapterRowsAgree
PROPERTIES ChoiceSpec WatchStaysInAdapter SelectionKeepsEvent
CONSTRAINT Explored
CHECK_DEADLOCK FALSE
