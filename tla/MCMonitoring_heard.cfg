SPECIFICATION Spec
CONSTANTS
  port = port
  other = other
  ftdi1 = ftdi1
  ftdi2 = ftdi2
  com = com
  NoGroup = NoGroup
  NoCom = NoCom
  Ids <- PortsDef
  Group <- GroupDef
  Parents <- NoParentsDef
  ComIds <- PortsDef
  ComNames <- ComNamesDef
INVARIANTS CheckedIsHeard
