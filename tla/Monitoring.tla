----------------------------- MODULE Monitoring -----------------------------
(***************************************************************************)
(* The check boxes of the device list (deviceTableModel in                  *)
(* internal/ui/table_models_windows.go) and the suppression of events by    *)
(* them (isEventMonitored in internal/ui/app_windows.go).  A choice is kept *)
(* under all keys of the device it was made for, for the whole session, so  *)
(* it follows the device when it is plugged in again; devices share keys.   *)
(*                                                                          *)
(* Every device has an instance id, so the keys made of names and hardware  *)
(* ids are never used.  The serial is a part of the instance id; devices    *)
(* with VID, PID and the same serial are one group.                         *)
(***************************************************************************)
EXTENDS Integers, SequencesExt

CONSTANTS
  Ids,      \* instance ids
  Group,    \* [Ids -> VID, PID and serial, NoGroup without VID or PID]
  NoGroup,
  Parents,  \* [Ids -> SUBSET Ids]: ParentChain
  ComIds,   \* devices that are COM ports
  ComNames, \* COM port names
  NoCom

ASSUME MonitoringAssumption ==
  /\ Parents \in [Ids -> SUBSET Ids]
  /\ DOMAIN Group = Ids
  /\ ComIds \subseteq Ids
  /\ NoCom \notin ComNames
  /\ IsFiniteSet(Ids)
  \* a device without VID and PID is an adapter of its own
  /\ \A id, other \in Ids : Group[id] # other

VARIABLES
  attached,       \* the devices in the machine: [S -> COM port name], S \subseteq Ids
  listed,         \* m.items: [S -> Devices]
  monitoredByKey  \* m.monitoredByKey: [S -> BOOLEAN], S \subseteq Keys

vars == <<attached, listed, monitoredByKey>>

Keys == {"group", "serial", "id", "com"} \X (Ids \cup {Group[id] : id \in Ids} \cup ComNames)

\* The fields of DeviceSnapshot that keys are made of.
Device(id, group, serial, related, com) ==
  [id |-> id, group |-> group, serial |-> serial, related |-> related, com |-> com]

\* EnrichDeviceRelationships: group and relatives among the devices present.
Relatives(id, present) ==
  IF Group[id] = NoGroup THEN {} ELSE {r \in present \ {id} : Group[r] = Group[id]}

Snapshot(id, present, com) ==
  Device(id, Group[id], Group[id], SetToSeq(Relatives(id, present)), com)

\* A parent row knows only the instance id.
ParentDeviceSnapshot(id) == Device(id, NoGroup, NoGroup, << >>, NoCom)

\* deviceFromETW: VID, PID and serial are taken from the instance id.
DeviceFromETW(id) == Device(id, NoGroup, Group[id], << >>, NoCom)

KeyIf(there, key) == IF there THEN << key >> ELSE << >>

RelatedKeys(d) == [i \in 1 .. Len(d.related) |-> <<"id", d.related[i]>>]

\* Mutant: the COM port comes first.
DeviceMonitorKeysComFirst(d) ==
  KeyIf(d.com # NoCom, <<"com", d.com>>)
    \o KeyIf(d.group # NoGroup, <<"group", d.group>>)
    \o KeyIf(d.serial # NoGroup, <<"serial", d.serial>>)
    \o RelatedKeys(d)
    \o << <<"id", d.id>> >>

DeviceMonitorKeys(d) ==
  KeyIf(d.group # NoGroup, <<"group", d.group>>)
    \o KeyIf(d.serial # NoGroup, <<"serial", d.serial>>)
    \o RelatedKeys(d)
    \o << <<"id", d.id>> >>
    \o KeyIf(d.com # NoCom, <<"com", d.com>>)

KeySet(d) == ToSet(DeviceMonitorKeys(d))

\* The first key with a choice decides what the check box shows ...
IsMonitored(d) ==
  LET keys == DeviceMonitorKeys(d)
  IN \A i \in DOMAIN keys :
       /\ keys[i] \in DOMAIN monitoredByKey
       /\ \A j \in 1 .. i - 1 : keys[j] \notin DOMAIN monitoredByKey
       => monitoredByKey[keys[i]]

IsMonitoredKey(key) == key \in DOMAIN monitoredByKey => monitoredByKey[key]

\* ... but all of them whether an event is heard.
IsEventMonitored(d) == \A key \in KeySet(d) : IsMonitoredKey(key)

\* The rows of the tree: the devices, and the parents of each.
RowDevices ==
  {listed[id] : id \in DOMAIN listed}
    \cup {ParentDeviceSnapshot(p) : p \in UNION {Parents[id] : id \in DOMAIN listed}}

Nothing == [x \in {} |-> x]

-----------------------------------------------------------------------------
Init ==
  /\ attached = Nothing
  /\ listed = Nothing
  /\ monitoredByKey = Nothing

\* Windows gives a port a name that no other port present has.
Plug(id, com) ==
  /\ id \notin DOMAIN attached
  /\ IF id \in ComIds THEN com \in ComNames \ Range(attached) ELSE com = NoCom
  /\ attached' = [i \in DOMAIN attached \cup {id} |-> IF i = id THEN com ELSE attached[i]]
  /\ UNCHANGED <<listed, monitoredByKey>>

Unplug(id) ==
  /\ id \in DOMAIN attached
  /\ attached' = Restrict(attached, DOMAIN attached \ {id})
  /\ UNCHANGED <<listed, monitoredByKey>>

\* Mutants: the map is rebuilt from the list; keys are not registered.
RegisteredAnew(devices) ==
  [key \in UNION {KeySet(d) : d \in devices} |-> IsMonitoredKey(key)]

RegisteredNone(devices) == monitoredByKey

\* New keys are monitored, old ones keep their choice.
Registered(devices) ==
  [key \in DOMAIN monitoredByKey \cup UNION {KeySet(d) : d \in devices} |-> IsMonitoredKey(key)]

\* A listing and refreshDevices: Set, with the devices the target filter keeps.
Set(kept) ==
  /\ kept \subseteq DOMAIN attached
  /\ listed' = [id \in kept |-> Snapshot(id, DOMAIN attached, attached[id])]
  /\ monitoredByKey' = Registered(Range(listed'))
  /\ UNCHANGED attached

\* Mutant: only the first key is set.
ChosenFirst(d, checked) ==
  [key \in DOMAIN monitoredByKey \cup {Head(DeviceMonitorKeys(d))} |->
     IF key = Head(DeviceMonitorKeys(d)) THEN checked ELSE monitoredByKey[key]]

Chosen(d, checked) ==
  [key \in DOMAIN monitoredByKey \cup KeySet(d) |->
     IF key \in KeySet(d) THEN checked ELSE monitoredByKey[key]]

\* The user sets the check box of a row.
SetChecked(d, checked) ==
  /\ d \in RowDevices
  /\ monitoredByKey' = Chosen(d, checked)
  /\ UNCHANGED <<attached, listed>>

Next ==
  \/ \E id \in Ids, com \in ComNames \cup {NoCom} : Plug(id, com)
  \/ \E id \in Ids : Unplug(id)
  \/ \E kept \in SUBSET DOMAIN attached : Set(kept)
  \/ \E d \in RowDevices, checked \in BOOLEAN : SetChecked(d, checked)

Spec == Init /\ [][Next]_vars

-----------------------------------------------------------------------------
Devices ==
  [id : Ids, group : {Group[id] : id \in Ids}, serial : {Group[id] : id \in Ids},
   related : Seq(Ids), com : ComNames \cup {NoCom}]

\* Types, and every key of a listed device is registered (Set).
TypeOK ==
  /\ DOMAIN attached \subseteq Ids /\ Range(attached) \subseteq ComNames \cup {NoCom}
  /\ DOMAIN listed \subseteq Ids /\ Range(listed) \subseteq Devices
  /\ DOMAIN monitoredByKey \subseteq Keys /\ Range(monitoredByKey) \subseteq BOOLEAN
  /\ \A d \in Range(listed) : KeySet(d) \subseteq DOMAIN monitoredByKey

\* The inductive invariant: a listed device is what some listing said of it,
\* its keys are known, and group and serial of an adapter agree.
Enumerated ==
  \A id \in DOMAIN listed :
    \E present \in SUBSET Ids, com \in ComNames \cup {NoCom} : listed[id] = Snapshot(id, present, com)

Paired ==
  \A id \in Ids : Group[id] # NoGroup =>
    (IsMonitoredKey(<<"group", Group[id]>>) <=> IsMonitoredKey(<<"serial", Group[id]>>))

IInv == TypeOK /\ Enumerated /\ Paired

\* What the source of an event may know of a device: a listing of any time, or
\* an ETW record.
Identities(id) ==
  { Snapshot(id, present, com) : present \in SUBSET Ids, com \in ComNames \cup {NoCom} }
    \cup {DeviceFromETW(id)}

\* CHANGELOG.md:120 "Suppressed device-specific timeline events, logs, and tray
\* notifications for unchecked monitoring targets": no event of a row that is
\* shown unchecked is heard, however its source identifies the device.
UncheckedIsSilent ==
  \A row \in RowDevices :
    ~IsMonitored(row) => \A d \in Identities(row.id) : ~IsEventMonitored(d)

\* The adapter of a device, and whether it is switched off.
AdapterOf == [id \in Ids |-> IF Group[id] = NoGroup THEN id ELSE Group[id]]

Decisive(id) == IF Group[id] = NoGroup THEN <<"id", id>> ELSE <<"group", Group[id]>>

Off == {AdapterOf[id] : id \in {i \in Ids : ~IsMonitoredKey(Decisive(i))}}

\* CHANGELOG.md:119 "unchecked devices remain disabled across refreshes within
\* the running session": the check box of a device shows the switch of its
\* adapter, whatever was plugged in, under whatever COM port, in the meantime.
CheckBoxShowsSwitch ==
  \A id \in DOMAIN listed : IsMonitored(listed[id]) <=> AdapterOf[id] \notin Off

\* The keys implement the switches: a click moves only the switch of its
\* adapter, and a refresh moves none.
Choice == INSTANCE DeviceChoice WITH Adapter <- AdapterOf, shown <- DOMAIN listed, off <- Off

ChoiceSpec == Choice!Spec

\* CHANGELOG.md:40 keys were tightened so that an unchecked device "does not
\* disable a different device when a specific identity [...] is available": the
\* events of a device that is shown checked are heard.
CheckedIsHeard ==
  \A id \in DOMAIN listed : IsMonitored(listed[id]) => IsEventMonitored(listed[id])
=============================================================================
