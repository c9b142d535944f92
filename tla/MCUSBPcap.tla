----------------------------- MODULE MCUSBPcap ------------------------------
(* Small instances of USBPcap: the target is a COM port; siblings of its    *)
(* model share its names.                                                   *)
EXTENDS USBPcap, TLC

CONSTANTS deviceA, deviceB, none

OneTarget == {deviceA}
TwoTargets == {deviceA, deviceB}

Listed(address, evidence) == [address |-> address, evidence |-> evidence]
TargetRow == Listed(2, {"com", "friendlyName", "description"})
Sibling(address) == Listed(address, {"friendlyName", "description"})
Stranger == Listed(1, {})

\* The target beside a sibling and a stranger, and a second Root Hub, which
\* lists nothing; or a single Root Hub that lists nothing.
MixedBuses == {<< <<Stranger, TargetRow, Sibling(3)>>, << >> >>, << << >> >>}

\* A single Root Hub without the target.
StrangeBus == {<< <<Stranger>> >>}

\* Three siblings on the first Root Hub, the target on the second.
SiblingBus == {<< <<Sibling(1), Sibling(2), Sibling(3)>>, <<TargetRow>> >>}
=============================================================================
