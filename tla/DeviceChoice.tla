---------------------------- MODULE DeviceChoice ----------------------------
(***************************************************************************)
(* What the check boxes of the device list promise: every adapter has one   *)
(* switch.  A click on a row of the list may flip the switch of that        *)
(* adapter and no other; whatever happens to the list leaves the switches   *)
(* alone, those of devices that are away included.  (README.md:21,          *)
(* CHANGELOG.md:119.)                                                       *)
(***************************************************************************)
CONSTANTS
  Ids,    \* instance ids
  Adapter \* [Ids -> the adapter a device belongs to, itself if no other]

VARIABLES
  shown,  \* the devices in the list
  off     \* the adapters that are switched off

vars == <<shown, off>>

Init == shown = {} /\ off = {}

Refresh == shown' \in SUBSET Ids /\ UNCHANGED off

Click(id) ==
  /\ off' \in {off, off \cup {Adapter[id]}, off \ {Adapter[id]}}
  /\ UNCHANGED shown

Next == Refresh \/ \E id \in Ids : Click(id)

Spec == Init /\ [][Next]_vars
=============================================================================
