----------------------------- MODULE DeviceRows -----------------------------
(***************************************************************************)
(* The rows of the device list: the tree of parents and devices that        *)
(* buildDeviceTableRows makes of a listing, the row in which a device is    *)
(* found again (IndexOfDevice), and when two snapshots are taken for the    *)
(* same device (internal/ui/table_models_windows.go); and the target filter *)
(* (internal/ui/event_filters_windows.go).                                  *)
(*                                                                          *)
(* Names are distinct, so that they order the rows completely.              *)
(***************************************************************************)
EXTENDS Monitoring, Relationships

CONSTANTS
  Desc, \* [Ids -> description]
  Rank  \* [Ids -> the place of the display name in alphabetical order]

NoId == None

ASSUME DescriptionAssumption ==
  /\ NoGroup = None /\ NoId \notin Ids
  /\ \A id \in Ids :
       /\ Desc[id].id = id /\ Desc[id].chain \in Seq(Ids)
       /\ Group[id] = LogicalGroup(Desc[id])
       \* an instance id with VID and PID has a serial
       /\ Desc[id].model # None => Desc[id].serial # None
       /\ Parents[id] = ToSet(Desc[id].chain)
       /\ Desc[id].com <=> id \in ComIds
  /\ Rank \in [Ids -> 1 .. Cardinality(Ids)] /\ IsInjective(Rank)

\* The device of an event that names none.
NoDevice == Device(NoId, NoGroup, NoGroup, << >>, NoCom)

-----------------------------------------------------------------------------
LooksLikeFTDISerial(d) == d.com # NoCom /\ Desc[d.id].ftdi

\* deviceMatchesTarget for "FTDI COM only".
MatchesFTDI(d) ==
  \/ LooksLikeFTDISerial(d)
  \/ /\ Desc[d.id].ftdi /\ RelationRole(Desc[d.id]) = "converter"
     /\ d.group # NoGroup /\ d.related # << >>

MatchesTarget(d, target) == target = "ftdi" => MatchesFTDI(d)

SameDevice(a, b) ==
  \/ a.id # NoId /\ a.id = b.id
  \/ a.group # NoGroup /\ a.group = b.group
  \/ b.id \in ToSet(a.related) \/ a.id \in ToSet(b.related)
  \/ a.serial # NoGroup /\ a.serial = b.serial

SameDeviceForHistory(a, b) ==
  \/ SameDevice(a, b)
  \/ /\ a.serial = NoGroup \/ b.serial = NoGroup \/ a.serial = b.serial
     /\ a.com # NoCom /\ a.com = b.com

\* Mutant: a COM port is enough.
SameDeviceByCom(a, b) == SameDevice(a, b) \/ (a.com # NoCom /\ a.com = b.com)

SameDeviceForSelection(a, b) ==
  \/ SameDevice(a, b)
  \/ /\ a.serial = NoGroup /\ b.serial = NoGroup
     /\ a.com # NoCom /\ a.com = b.com

-----------------------------------------------------------------------------
\* A row is the way to it from the root of the tree, and a device if it shows
\* one: a node comes before its nodes, and these before its devices.
Way(id) == Reverse(Desc[id].chain)

RowsOf(id) ==
  {[way |-> SubSeq(Way(id), 1, n), device |-> NoId] : n \in 1 .. Len(Way(id))}
    \cup {[way |-> Way(id), device |-> id]}

AllRows == UNION {RowsOf(id) : id \in Ids}

NoRow == [way |-> << >>, device |-> NoId]

RowKey(row) ==
  [i \in DOMAIN row.way |-> Rank[row.way[i]]]
    \o (IF row.device = NoId THEN << >> ELSE << Cardinality(Ids) + Rank[row.device] >>)

\* In the order of the keys, letter by letter.
Before(s, t) ==
  \E i \in DOMAIN t :
    /\ \A j \in 1 .. i - 1 : j \in DOMAIN s /\ s[j] = t[j]
    /\ i \in DOMAIN s => s[i] < t[i]

Precedes(r, s) == Before(RowKey(r), RowKey(s))

RowOrder == {p \in AllRows \X AllRows : Precedes(p[1], p[2])}

RowOwners == {p \in Ids \X AllRows : p[2] \in RowsOf(p[1])}

\* buildDeviceTableRows: the rows of a list, of which RowOrder is the order.
Rows(list) == {row \in AllRows : \E id \in DOMAIN list : <<id, row>> \in RowOwners}

\* Item: what a row of a list shows.
RowDevice(list, row) ==
  IF row.device = NoId THEN ParentDeviceSnapshot(Last(row.way)) ELSE list[row.device]

\* IndexOfDevice: the first row that is taken for the device.
RowOfDevice(list, device) ==
  LET found == {row \in Rows(list) : SameDeviceForSelection(RowDevice(list, row), device)}
  IN IF found = {} THEN NoRow
     ELSE CHOOSE row \in found : \A other \in found \ {row} : <<row, other>> \in RowOrder
=============================================================================
