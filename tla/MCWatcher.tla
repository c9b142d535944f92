----------------------------- MODULE MCWatcher ------------------------------
(* Small instances of Watcher: an FTDI port, its converter above it, and the *)
(* PCI host controller they hang on.                                         *)
EXTENDS Watcher

CONSTANTS port, converter, host, slot

Pair == {port, converter}
Alone == {port}
NoHosts == {}
Controller == {host}

AncestorsDef ==
  [id \in Ids |-> (IF id = port THEN {converter, host} ELSE {host}) \cap Nodes]
CompanionsDef == [id \in Ids |-> Ids \ {id}]
EvidenceDef == [id \in Ids |-> {"adapter"}]
ConvertersDef == {converter} \cap Ids

Reading(p, com) ==
  [power |-> p, problem |-> "none", status |-> "ok", place |-> slot, com |-> com]

\* Only the D-state changes.
PowerReadings == {Reading(p, "COM3") : p \in {"D0", "D3"}}

\* The COM name may be missing, too.
ComReadings == {Reading("D0", "COM3"), Reading("D0", NoCom), Reading("D3", NoCom)}

\* The power data may be unreadable.
UnknownReadings == {Reading(p, "COM3") : p \in {"D0", "D3", "Unknown"}}
=============================================================================
