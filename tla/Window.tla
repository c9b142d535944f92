------------------------------- MODULE Window -------------------------------
(***************************************************************************)
(* The main window (internal/ui/app_windows.go): the device list with its   *)
(* check boxes, the timeline, the USB changes, the details, and what is     *)
(* selected.  Everything runs in the message loop; a handler calls others   *)
(* by changing a selection, so a step here is a chain of them.              *)
(*                                                                          *)
(* The list is refreshed from what is attached (the way through the poller  *)
(* is modelled in Watcher).  A table whose rows are reset loses its         *)
(* selection and tells its handler, as walk does.                           *)
(***************************************************************************)
EXTENDS EventTable

CONSTANTS
  EventLimit,  \* limit of the timeline (2000 in the code)
  ChangeLimit, \* limit of the USB changes (500 in the code)
  PollerKinds, \* kinds of events of the poller
  OtherKinds,  \* kinds of events without a device: Windows messages, the app
  PcapKinds,   \* kinds of events of USBPcap
  ETWRecords,  \* ETW records, without their device
  FilterKinds  \* filters the user chooses, without the target

ASSUME WindowAssumption ==
  /\ {EventLimit, ChangeLimit, HistoryLimit} \subseteq Nat \ {0}
  /\ \A kind \in PollerKinds \cup OtherKinds \cup PcapKinds : kind.type \in EventTypes
  /\ FilterKinds \subseteq [type : DOMAIN TypesShown, confidence : DOMAIN ConfidencesShown,
                            level : DOMAIN TypesOfLevel]

VARIABLE window \* the fields of app, see WindowTypeOK

wvars == <<vars, window>>

NoSubject == [event |-> FALSE]

EventSubject(e) == [event |-> TRUE, device |-> e.device, of |-> e]
DeviceSubject(d) == [event |-> FALSE, device |-> d]

-----------------------------------------------------------------------------
(* Reading the window; list is the list of devices it shows.                *)

\* What is to be shown: the selected event, USB change or device, or else the
\* watched device.
Subject(w, list) ==
  CASE w.eventSel # 0 -> EventSubject(Visible(w.events)[w.eventSel])
    [] w.eventSel = 0 /\ w.changeSel # 0 -> EventSubject(Visible(w.changes)[w.changeSel])
    [] w.eventSel = 0 /\ w.changeSel = 0 /\ w.deviceSel # NoRow ->
         DeviceSubject(RowDevice(list, w.deviceSel))
    [] w.eventSel = 0 /\ w.changeSel = 0 /\ w.deviceSel = NoRow /\ w.focus ->
         DeviceSubject(w.watched)
    [] OTHER -> NoSubject

DetailsOf(w, list) ==
  LET subject == Subject(w, list)
  IN [subject |-> subject,
      history |-> IF subject = NoSubject THEN << >>
                  ELSE DeviceHistory(w.events.items, subject.device)]

UpdateDetails(w, list) == [w EXCEPT !.details = DetailsOf(w, list)]

\* currentDeviceSelectionTarget, NoDevice if there is none.
SelectionTarget(w, list) ==
  CASE w.deviceSel # NoRow -> RowDevice(list, w.deviceSel)
    [] w.deviceSel = NoRow /\ w.focus /\ w.eventSel = 0 /\ w.changeSel = 0 -> w.watched
    [] OTHER -> NoDevice

\* isEventMonitored: also the target filter silences events.
IsHeard(w, e) ==
  \/ e.source = "usbpcap"
  \/ /\ e.device.id # NoId => EventMatchesTarget(e, w.target) /\ IsEventMonitored(e.device)

-----------------------------------------------------------------------------
(* The handlers of the selections.                                          *)

OnDeviceSelection(w, list) ==
  UpdateDetails(
    IF w.deviceSel = NoRow THEN w
    ELSE [w EXCEPT !.watched = RowDevice(list, w.deviceSel), !.focus = TRUE,
                   !.eventSel = 0, !.changeSel = 0],
    list)

OnEventSelection(w, list) ==
  UpdateDetails(
    IF w.eventSel = 0 THEN w
    ELSE [w EXCEPT !.focus = FALSE, !.deviceSel = NoRow, !.changeSel = 0],
    list)

\* Mutant: the selected event is kept.
OnChangeSelectionBesideEvent(w, list) ==
  UpdateDetails(
    IF w.changeSel = 0 THEN w
    ELSE [w EXCEPT !.focus = FALSE, !.deviceSel = NoRow],
    list)

OnChangeSelection(w, list) ==
  UpdateDetails(
    IF w.changeSel = 0 THEN w
    ELSE [w EXCEPT !.focus = FALSE, !.deviceSel = NoRow, !.eventSel = 0],
    list)

\* The rows of a table are reset.
ResetEvents(w, list) ==
  IF w.eventSel = 0 THEN w ELSE OnEventSelection([w EXCEPT !.eventSel = 0], list)

ResetChanges(w, list) ==
  IF w.changeSel = 0 THEN w ELSE OnChangeSelection([w EXCEPT !.changeSel = 0], list)

-----------------------------------------------------------------------------
(* addEvent.                                                                *)

\* Mutants: no row is reset when the oldest event is dropped.
AddToEventsByShift(w, e, list) == [w EXCEPT !.events = Added(w.events, e, EventLimit)]

AddToChangesByShift(w, e, list) ==
  IF e.type \notin USBChanges THEN w ELSE [w EXCEPT !.changes = Added(w.changes, e, ChangeLimit)]

AddToEvents(w, e, list) ==
  LET added == [w EXCEPT !.events = Added(w.events, e, EventLimit)]
  IN IF Full(w.events, EventLimit) THEN ResetEvents(added, list) ELSE added

AddToChanges(w, e, list) ==
  LET added == [w EXCEPT !.changes = Added(w.changes, e, ChangeLimit)]
  IN IF e.type \notin USBChanges THEN w
     ELSE IF Full(w.changes, ChangeLimit) THEN ResetChanges(added, list) ELSE added

\* The latest event is selected, unless a device or a USB change is.
AutoSelect(w, e, list) ==
  IF /\ ~w.focus /\ w.deviceSel = NoRow /\ w.changeSel = 0
     /\ Visible(w.events) # << >> /\ EventMatches(e, w.events.filter)
  THEN OnEventSelection([w EXCEPT !.eventSel = Len(Visible(w.events))], list)
  ELSE w

\* Mutant: sleep and wake are not thought of.
RefreshWatchDetailsOfDevice(w, e, list) ==
  IF w.focus /\ SameDeviceForHistory(w.watched, e.device) THEN UpdateDetails(w, list) ELSE w

RefreshWatchDetails(w, e, list) ==
  IF w.focus /\ (SameDeviceForHistory(w.watched, e.device) \/ IsSystemPower(e))
  THEN UpdateDetails(w, list) ELSE w

Logged(w, e, list) == AddToChanges(AddToEvents(w, e, list), e, list)

Shown(w, e, list) == RefreshWatchDetails(AutoSelect(w, e, list), e, list)

\* An event that triggers nothing.
AddedEvent(w, e, list) == IF IsHeard(w, e) THEN Shown(Logged(w, e, list), e, list) ELSE w

\* triggerDetailedLogging: announced unless it is active already.
Announcement(e) ==
  Event(Kind("detailed_logging_started", "app", "high", FALSE), e.device)

TriggerDetailedLogging(w, e, list) ==
  IF w.detailed THEN w
  ELSE AddedEvent([w EXCEPT !.detailed = TRUE], Announcement(e), list)

AddEvent(w, e, list) ==
  LET logged == Logged(w, e, list)
      after == IF e.type \in Triggers THEN TriggerDetailedLogging(logged, e, list) ELSE logged
  IN IF IsHeard(w, e) THEN Shown(after, e, list) ELSE w

-----------------------------------------------------------------------------
(* refreshDevices.                                                          *)

Kept(target) ==
  {id \in DOMAIN attached :
     MatchesTarget(Snapshot(id, DOMAIN attached, attached[id]), target)}

RestoreDeviceSelection(w, list, device) ==
  LET row == RowOfDevice(list, device)
  IN IF device = NoDevice \/ row = NoRow THEN w
     ELSE [w EXCEPT !.deviceSel = row, !.watched = RowDevice(list, row), !.focus = TRUE]

\* From the old list to the new one, whose rows are all reset.
RefreshDevices(w, old, new) ==
  UpdateDetails(
    RestoreDeviceSelection([w EXCEPT !.deviceSel = NoRow], new, SelectionTarget(w, old)), new)

ApplyEventFilters(w, filter, list) ==
  UpdateDetails(ResetEvents([w EXCEPT !.events.filter = filter], list), list)

-----------------------------------------------------------------------------
NoFilter == [type |-> "all", target |-> "all", confidence |-> "all", level |-> "noinfo"]

WindowInit ==
  /\ Init
  /\ window = [target |-> "ftdi", deviceSel |-> NoRow, watched |-> NoDevice, focus |-> FALSE,
               events |-> NewTable(NoFilter),
               changes |-> NewTable(NoFilter),
               eventSel |-> 0, changeSel |-> 0,
               details |-> [subject |-> NoSubject, history |-> << >>],
               detailed |-> FALSE]

Plugged(id, com) == Plug(id, com) /\ UNCHANGED window
Unplugged(id) == Unplug(id) /\ UNCHANGED window

\* The Refresh button, and the refresh at startup.
Refresh ==
  /\ Set(Kept(window.target))
  /\ window' = RefreshDevices(window, listed, listed')

\* A closure of consumePollerEvents: the event, then the refresh.  The event
\* names a device that is there or that was listed.
PollerDevices ==
  {Snapshot(id, DOMAIN attached, attached[id]) : id \in DOMAIN attached} \cup Range(listed)

PollerEvent(e) ==
  /\ Set(Kept(window.target))
  /\ window' = RefreshDevices(AddEvent(window, e, listed), listed, listed')

\* An event of USBPcap.
PcapEvent(e) ==
  /\ window' = AddEvent(window, e, listed)
  /\ UNCHANGED vars

\* handleDeviceChange and handlePowerBroadcast, and what the app itself reports;
\* a wake is followed by what powercfg said of it.
LastWake == Event(Kind("info", "powercfg_lastwake", "low", FALSE), NoDevice)

WindowsMessage(e) ==
  /\ LET added == AddEvent(window, e, listed)
     IN window' = IF e.type = "system_wake" THEN AddEvent(added, LastWake, listed) ELSE added
  /\ UNCHANGED vars

\* A line of the ETW helper: acceptTailedETWEvent.
ETWEvent(e) ==
  /\ MatchesDisplayLevel(e, window.events.filter.level)
  /\ window' = AddEvent(window, e, listed)
  /\ UNCHANGED vars

DetailedLoggingEnds ==
  /\ window.detailed
  /\ window' = [window EXCEPT !.detailed = FALSE]
  /\ UNCHANGED vars

\* The user selects a row, or none.
SelectDevice(row) ==
  /\ window' = OnDeviceSelection([window EXCEPT !.deviceSel = row], listed)
  /\ UNCHANGED vars

SelectEvent(n) ==
  /\ window' = OnEventSelection([window EXCEPT !.eventSel = n], listed)
  /\ UNCHANGED vars

SelectChange(n) ==
  /\ window' = OnChangeSelection([window EXCEPT !.changeSel = n], listed)
  /\ UNCHANGED vars

\* The user sets a check box: onDeviceMonitorChanged.
Check(d, checked) ==
  /\ SetChecked(d, checked)
  /\ window' = UpdateDetails(window, listed)

ChooseFilter(kind) ==
  /\ window' = ApplyEventFilters(window,
                 [type |-> kind.type, target |-> window.target, confidence |-> kind.confidence,
                  level |-> kind.level], listed)
  /\ UNCHANGED vars

\* applyTargetFilter.
ChooseTarget(target) ==
  /\ target # window.target
  /\ Set(Kept(target))
  /\ LET refreshed == RefreshDevices([window EXCEPT !.target = target], listed, listed')
         filtered == ApplyEventFilters(refreshed, [window.events.filter EXCEPT !.target = target], listed')
     IN window' = ResetChanges([filtered EXCEPT !.changes.filter =
                                  [NoFilter EXCEPT !.target = target, !.level = "all"]], listed')

WindowNext ==
  \/ \E id \in Ids, com \in ComNames \cup {NoCom} : Plugged(id, com)
  \/ \E id \in Ids : Unplugged(id)
  \/ Refresh
  \/ \E kind \in PollerKinds, d \in PollerDevices : PollerEvent(Event(kind, d))
  \/ \E kind \in OtherKinds : WindowsMessage(Event(kind, NoDevice))
  \/ \E kind \in PcapKinds, d \in RowDevices : PcapEvent(Event(kind, d))
  \/ \E r \in ETWRecords, id \in Ids : ETWEvent(NormalizeETW(r, DeviceFromETW(id)))
  \/ DetailedLoggingEnds
  \/ \E row \in Rows(listed) \cup {NoRow} : SelectDevice(row)
  \/ \E n \in DOMAIN Visible(window.events) \cup {0} : SelectEvent(n)
  \/ \E n \in DOMAIN Visible(window.changes) \cup {0} : SelectChange(n)
  \/ \E d \in RowDevices, checked \in BOOLEAN : Check(d, checked)
  \/ \E kind \in FilterKinds : ChooseFilter(kind)
  \/ \E target \in {"all", "ftdi"} : ChooseTarget(target)

WindowSpec == WindowInit /\ [][WindowNext]_wvars

-----------------------------------------------------------------------------
Tables == {window.events, window.changes}

\* Types; a selected row exists, and a watch with the focus has a device.
WindowTypeOK ==
  /\ window.target \in {"all", "ftdi"} /\ window.focus \in BOOLEAN /\ window.detailed \in BOOLEAN
  /\ window.watched \in Devices \cup {NoDevice} \cup {ParentDeviceSnapshot(id) : id \in Ids}
  /\ window.focus => window.watched # NoDevice
  /\ window.deviceSel \in Rows(listed) \cup {NoRow}
  /\ window.eventSel \in DOMAIN Visible(window.events) \cup {0}
  /\ window.changeSel \in DOMAIN Visible(window.changes) \cup {0}
  /\ Len(window.events.items) <= EventLimit /\ Len(window.changes.items) <= ChangeLimit
  /\ \A table \in Tables :
       /\ table.filter \in Filters
       /\ \A e \in ToSet(table.items) : e.type \in EventTypes

\* The three tables have one selection between them, the selected device is the
\* watched one, and the watch has the focus only while no event is selected
\* (the handlers clear each other's tables behind selectionChanging).
OneSelectionIn(w, list) ==
  /\ w.eventSel # 0 => w.changeSel = 0
  /\ w.focus => w.eventSel = 0 /\ w.changeSel = 0
  /\ w.deviceSel # NoRow => w.focus /\ w.watched = RowDevice(list, w.deviceSel)

OneSelection == OneSelectionIn(window, listed)

\* The details show what is selected, also when that was changed by a row that
\* was reset or restored, and miss no event of a device that has the focus.
DetailsAreCurrent ==
  LET now == DetailsOf(window, listed)
  IN /\ window.details.subject = now.subject
     /\ window.focus => ToSet(now.history) \subseteq ToSet(window.details.history)

\* The table of adapters and the check boxes tell adapters apart by different
\* means (buildAdapterGroups, deviceMonitorKeys): the devices of one row of that
\* table have one check box and rest on the same evidence.
AdapterRowsAgree ==
  \A row \in BuildAdapterGroups({Desc[id] : id \in DOMAIN listed}) :
    \A a, b \in row.ports \cup row.converters :
      /\ IsMonitored(listed[a]) <=> IsMonitored(listed[b])
      /\ DiagnosticScore(Desc[a]) = row.score

\* Two devices that no serial is known of, on one COM port.
KnownByCom(a, b) == a.serial = NoGroup /\ b.serial = NoGroup /\ a.com # NoCom /\ a.com = b.com

\* monitoring_windows_test.go:124 a reused COM port is not followed to another
\* serial: only the user moves the watch to another adapter (or the port is all
\* that is known of it).
WatchStaysInAdapter ==
  [][\/ window'.watched = window.watched
     \/ \E row \in Rows(listed) : SelectDevice(row)
     \/ /\ window.watched # NoDevice
        /\ \/ AdapterOf[window'.watched.id] = AdapterOf[window.watched.id]
           \/ KnownByCom(window.watched, window'.watched)]_wvars

\* An event that arrives, and the oldest one that it pushes out, do not make a
\* selected row denote another event, except the one that was just added.
SelectionKeepsEvent ==
  [][LET was == Visible(window.events)
         is == Visible(window.events)'
         wasChange == Visible(window.changes)
         isChange == Visible(window.changes)'
     IN /\ window'.events # window.events /\ window.eventSel # 0 /\ window'.eventSel # 0
             => is[window'.eventSel] \in {was[window.eventSel], Last(is)}
        /\ window'.changes # window.changes /\ window.changeSel # 0 /\ window'.changeSel # 0
             => isChange[window'.changeSel] = wasChange[window.changeSel]]_wvars
=============================================================================
