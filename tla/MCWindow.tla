------------------------------ MODULE MCWindow ------------------------------
(* An FTDI port with its converter, a port of another adapter, and the root *)
(* hub they hang on, which has neither VID nor PID.                         *)
EXTENDS Window

CONSTANTS port, converter, other, root, ft232, ftdi1, ftdi2, com

\* TLC keeps the value of a definition, but evaluates anew what stands for a
\* constant: the tables are definitions of their own.
IdsTable == {port, converter, other, root}
IdsDef == IdsTable

Describe(id, model, serial, chain, text, isCom, ftdi) ==
  [id |-> id, model |-> model, serial |-> serial, chain |-> chain, place |-> None,
   text |-> text, com |-> isCom, ftdi |-> ftdi]

DescTable ==
  port :> Describe(port, ft232, ftdi1, << converter, root >>, "port", TRUE, TRUE)
    @@ converter :> Describe(converter, ft232, ftdi1, << root >>, "converter", FALSE, TRUE)
    @@ other :> Describe(other, ft232, ftdi2, << root >>, "port", TRUE, TRUE)
    @@ root :> Describe(root, None, None, << >>, "other", FALSE, FALSE)

\* f as a table (TLC would evaluate a function constructor at each use).
Table(f) == port :> f[port] @@ converter :> f[converter] @@ other :> f[other] @@ root :> f[root]

GroupTable == Table([id \in IdsDef |-> LogicalGroup(DescTable[id])])
ParentsTable == Table([id \in IdsDef |-> ToSet(DescTable[id].chain)])
RankTable == other :> 1 @@ port :> 2 @@ converter :> 3 @@ root :> 4
Ports == {port, other}

DescDef == DescTable
GroupDef == GroupTable
ParentsDef == ParentsTable
RankDef == RankTable
ComIdsDef == Ports
ComNamesDef == {com}

PollerKindsDef == { Kind("dstate_transition", "setupapi_poll", "high", TRUE) }
OtherKindsDef == { Kind("system_wake", "wm_powerbroadcast", "high", FALSE) }
PcapKindsDef == { Kind("info", "usbpcap", "medium", FALSE) }
ETWRecordsDef == { [provider |-> "usbhub3", event |-> 54, power |-> FALSE, late |-> FALSE] }
FilterKindsDef == { [type |-> "all", confidence |-> "all", level |-> "noinfo"],
                    [type |-> "suspend", confidence |-> "all", level |-> "noinfo"] }

AllMonitored == \A key \in DOMAIN monitoredByKey : monitoredByKey[key]
AnyKind == window.events.filter.type = "all"
Empty == window.events.items = << >> /\ window.changes.items = << >> /\ ~window.detailed
Unselected ==
  window.deviceSel = NoRow /\ ~window.focus /\ window.details.subject = NoSubject

\* The states whose successors are explored: the check boxes of all devices (the
\* root hub in the list beside the port only; as a parent it is a row always);
\* the selection among the others, under both targets; or all that the log, its
\* filters and the selection do while the port comes and goes (with a full log
\* only under the default filters).
SwitchPart ==
  /\ Empty /\ AnyKind /\ Unselected /\ window.target = "all"
  /\ root \in DOMAIN attached => DOMAIN attached \subseteq {port, root}
ListPart ==
  /\ Empty /\ AnyKind /\ AllMonitored
  /\ root \notin DOMAIN attached
LogPart ==
  /\ AllMonitored /\ DOMAIN attached \subseteq {port} /\ DOMAIN listed \subseteq {port}
  /\ DOMAIN monitoredByKey \subseteq KeySet(Snapshot(port, {port}, com))
  /\ \A e \in ToSet(window.events.items) \cup ToSet(window.changes.items) : e.device.id \in {port, NoId}
  /\ Len(window.events.items) = EventLimit => window.target = "ftdi" /\ AnyKind

Explored == SwitchPart \/ ListPart \/ LogPart
=============================================================================
