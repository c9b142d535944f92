---------------------------- MODULE DeviceEvents ----------------------------
(***************************************************************************)
(* The pure part of the poller: what one SetupAPI reading of a device is,   *)
(* how two successive snapshots of the same device are compared, and which  *)
(* events the comparison yields, in which order.                            *)
(*                                                                          *)
(* Sources: internal/model/normalize.go, internal/model/model.go and the    *)
(* loops of scan in internal/monitor/poller.go.                             *)
(***************************************************************************)
EXTENDS Naturals, Sequences

CONSTANTS
  Ids,        \* instance ids of the USB devices that may be present
  Hosts,      \* instance ids of other devices, which are parents of USB devices
  Readings,   \* the readings SetupAPI and Config Manager can return for a device
  Ancestors,  \* [Ids -> SUBSET (Ids \cup Hosts)]: the parent chain of a device
  Companions, \* [Ids -> SUBSET Ids]: the other members of its logical group
  Evidence,   \* [Ids -> set of marks]: its ContainerId and its VID/PID/serial
  NoPlace,    \* the place of a device that reports no location path
  NoCom,      \* the COM name of a device that has none (yet)
  NoProblem   \* ProblemCode 0

PowerStates == {"D0", "D1", "D2", "D3", "Unknown"}

IsLowPowerState(p) == p \in {"D1", "D2", "D3"}

\* All devices that a listing visits; the snapshots keep those of Ids only.
Nodes == Ids \cup Hosts

ComNames == {r.com : r \in Readings} \cup {NoCom}

\* A reading: D-state, problem code, status label and flags, the COM name, which
\* the driver writes when it pleases, and the place of the device (location and
\* parent, which change together).
ASSUME ReadingAssumption ==
  /\ \A r \in Readings : /\ DOMAIN r = {"power", "problem", "status", "place", "com"}
                         /\ r.power \in PowerStates
  /\ Hosts \cap Ids = {}
  /\ Ancestors \in [Ids -> SUBSET Nodes]
  /\ Companions \in [Ids -> SUBSET Ids]
  /\ DOMAIN Evidence = Ids

\* DeviceSnapshot: a reading, what EnrichDeviceRelationships derives from the
\* listing, and three time stamps.
Snapshots == [ power : PowerStates,
               problem : {r.problem : r \in Readings},
               status : {r.status : r \in Readings},
               place : {r.place : r \in Readings},
               com : ComNames,
               mismatch : BOOLEAN, related : BOOLEAN,
               lastSeen : Nat, connectedAt : Nat, lastChanged : Nat ]

\* The maps InstanceID -> S that the code builds: an absent key is an absent device.
IsMapOf(D, f, S) == DOMAIN f \subseteq D /\ f \in [DOMAIN f -> S]

IsMap(f, S) == IsMapOf(Ids, f, S)

\* Whether RelatedInstanceIDs is not empty: the group has another member present.
Related(present, id) == Companions[id] \cap present # {}

\* parentStatesFor and parentLowPowerWhileChildD0, on one listing of all devices.
ParentLowPowerChildD0(listing, id) ==
  /\ listing[id].power = "D0"
  /\ \E p \in Ancestors[id] \cap DOMAIN listing : IsLowPowerState(listing[p].power)

DeviceChanged(old, d) ==
  old.power # d.power \/ old.com # d.com \/ old.place # d.place

-----------------------------------------------------------------------------
EventTypes == { "dstate_transition", "power_d0_exit", "power_d0_entry",
                "suspect_suspend", "resume", "info", "pnp_arrival",
                "pnp_removal", "device_missing", "device_reenumerated",
                "parent_dstate_mismatch", "problem_code", "status_changed",
                "error" }

\* An event carries its device, here by id with the fields that a handler reads.
\* Go's zero device has no name (NoDevice) and "" for a D-state.
CONSTANT NoDevice

ASSUME NoDeviceAssumption == NoDevice \notin Ids

\* Every event but a failure to list the devices is about a device.
Events ==
  [ type : EventTypes \ {"error"}, id : Ids, power : PowerStates, com : ComNames,
    related : BOOLEAN, time : Nat ]
    \cup [ type : {"error"}, id : {NoDevice}, power : {""}, com : {NoCom},
            related : {FALSE}, time : Nat ]

Event(type, id, d) ==
  [type |-> type, id |-> id, power |-> d.power, com |-> d.com, related |-> d.related,
   time |-> d.lastSeen]

ErrorEvent(t) ==
  [type |-> "error", id |-> NoDevice, power |-> "", com |-> NoCom, related |-> FALSE,
   time |-> t]

\* Mutant: a device whose D-state was unknown is not reported either.
PowerMovedIfKnown(old, d) == old.power # d.power /\ "Unknown" \notin {old.power, d.power}

\* A change of D-state is reported unless the new reading is Unknown.
PowerMoved(old, d) == old.power # d.power /\ d.power # "Unknown"

NormalizePowerTransition(id, old, d) ==
  LET say(type) == Event(type, id, d)
      suspends == old.power = "D0" /\ IsLowPowerState(d.power)
      resumes == IsLowPowerState(old.power) /\ d.power = "D0"
  IN IF ~PowerMoved(old, d) THEN << >>
     ELSE IF suspends THEN
       << say("dstate_transition"), say("power_d0_exit"), say("suspect_suspend") >>
     ELSE IF resumes THEN
       << say("dstate_transition"), say("power_d0_entry"), say("resume") >>
     ELSE << say("dstate_transition"), say("info") >>

MismatchRose(old, d) == ~old.mismatch /\ d.mismatch

ProblemAppeared(old, d) == old.problem # d.problem /\ d.problem # NoProblem

\* The events for a device that was in the previous snapshot and still is.
ChangeEvents(id, old, d) ==
  NormalizePowerTransition(id, old, d)
    \o (IF MismatchRose(old, d) THEN << Event("parent_dstate_mismatch", id, d) >> ELSE << >>)
    \o (IF ProblemAppeared(old, d) THEN << Event("problem_code", id, d) >> ELSE << >>)
    \o (IF old.status # d.status THEN << Event("status_changed", id, d) >> ELSE << >>)

ArrivalEvents(id, d) ==
  << Event("pnp_arrival", id, d) >>
    \o (IF d.mismatch THEN << Event("parent_dstate_mismatch", id, d) >> ELSE << >>)
    \o (IF d.problem # NoProblem THEN << Event("problem_code", id, d) >> ELSE << >>)

\* findReenumeratedDevice returns some device of the new snapshot that shares
\* the ContainerId, the VID/PID/serial or a location path of the missing one.
ReenumerationCandidates(id, old, current) ==
  { n \in DOMAIN current \ {id} :
      \/ Evidence[id] \cap Evidence[n] # {}
      \/ old.place # NoPlace /\ old.place = current[n].place }

\* Mutant: the device is looked up in the new map, where it is not any more, so
\* that the events carry Go's zero device.
RemovalEventsOfCurrent(id, old, current, t) ==
  LET gone == [power |-> "", com |-> NoCom, related |-> FALSE, lastSeen |-> t]
  IN {<< Event("pnp_removal", NoDevice, gone), Event("device_missing", NoDevice, gone) >>}

\* The possible event sequences for a device that has left the snapshot.
RemovalEvents(id, old, current, t) ==
  LET gone == [old EXCEPT !.lastSeen = t]
      base == << Event("pnp_removal", id, gone), Event("device_missing", id, gone) >>
      found == ReenumerationCandidates(id, old, current)
  IN IF found = {} THEN {base}
     ELSE {Append(base, Event("device_reenumerated", n, current[n])) : n \in found}

-----------------------------------------------------------------------------
\* What the step from snapshot map x to snapshot map y would report.
Reported(x, y, id) ==
  \/ id \in DOMAIN y \ DOMAIN x
  \/ id \in DOMAIN x \cap DOMAIN y /\ ChangeEvents(id, x[id], y[id]) # << >>

\* Mutant: nobody looks for the devices that have gone.
NothingDropped(x, y) == {}

Dropped(x, y) == DOMAIN x \ DOMAIN y

\* The step from x to y is news when it would make the poller say anything.
News(x, y) == (\E id \in DOMAIN y : Reported(x, y, id)) \/ Dropped(x, y) # {}
=============================================================================
