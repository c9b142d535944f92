----------------------------- MODULE EventTable -----------------------------
(***************************************************************************)
(* The lists of events: the timeline and the USB changes (eventTableModel   *)
(* in internal/ui/table_models_windows.go), their filters                   *)
(* (internal/ui/event_filters_windows.go), the history of a device, and     *)
(* what an ETW record is made of (internal/model/normalize.go).             *)
(*                                                                          *)
(* An event has a type, a source, a confidence and a device; "late" says    *)
(* that more than half a minute has passed since the event before it.  The  *)
(* search text is left empty.                                               *)
(***************************************************************************)
EXTENDS DeviceRows

CONSTANT HistoryLimit \* bound on the events shown for a device

PowerDowns == {"power_d0_exit", "suspect_suspend"}
PowerUps == {"power_d0_entry", "resume"}
SystemPower == {"system_sleep", "system_wake"}
Anomalies ==
  {"dstate_transition", "parent_dstate_mismatch", "problem_code", "status_changed",
   "device_missing", "device_reenumerated", "last_seen_stale"}
Plugs == {"pnp_arrival", "pnp_removal"}

EventTypes ==
  PowerDowns \cup PowerUps \cup SystemPower \cup Anomalies \cup Plugs
    \cup {"idle_notification", "network_stats", "detailed_logging_started", "info", "error"}

\* isUSBChangeTimelineEvent, eventIsImportant, isDetailedLoggingTrigger.
USBChanges == PowerDowns \cup PowerUps \cup SystemPower \cup Anomalies \cup Plugs \cup {"idle_notification"}
Important == (USBChanges \ Plugs) \cup {"error"}
Triggers == Anomalies \cup {"power_d0_exit", "power_d0_entry", "suspect_suspend", "error"}

Event(kind, device) ==
  [type |-> kind.type, source |-> kind.source, confidence |-> kind.confidence,
   late |-> kind.late, device |-> device]

Kind(type, source, confidence, late) ==
  [type |-> type, source |-> source, confidence |-> confidence, late |-> late]

IsSystemPower(e) == e.type \in SystemPower

\* classifyETW and sourceForProvider; "power" says that task and opcode name a
\* transition (d0, idle).
Classified(type, confidence) == [type |-> type, confidence |-> confidence]

ClassifyETW(r) ==
  CASE r.provider = "usbhub3" /\ r.event \in {51, 52} ->
         Classified("power_d0_entry", IF r.event = 52 THEN "high" ELSE "medium")
    [] r.provider = "usbhub3" /\ r.event \in {53, 54} ->
         Classified("power_d0_exit", IF r.event = 54 THEN "high" ELSE "medium")
    [] r.provider = "usbhub3" /\ r.event \in 96 .. 98 -> Classified("idle_notification", "high")
    [] r.provider = "usbhub3" /\ r.event \in 194 .. 196 -> Classified("suspect_suspend", "medium")
    [] r.provider = "usbxhci" /\ r.power -> Classified("power_d0_exit", "medium")
    [] r.provider = "ucx" /\ r.power -> Classified("idle_notification", "medium")
    [] OTHER -> Classified("info", "low")

SourceForProvider(provider) ==
  IF provider \in {"usbhub3", "usbxhci", "ucx"} THEN "etw_" \o provider ELSE "app"

NormalizeETW(r, device) ==
  LET class == ClassifyETW(r)
  IN Event(Kind(class.type, SourceForProvider(r.provider), class.confidence, r.late), device)

-----------------------------------------------------------------------------
\* The filters: for each choice of the user, what it shows.
TypesShown ==
  [all |-> EventTypes, suspend |-> PowerDowns \cup {"idle_notification"}, resume |-> PowerUps,
   pnp |-> Plugs, error |-> {"error"}]

ConfidencesShown ==
  [all |-> {"low", "medium", "high"}, medium |-> {"medium", "high"}, high |-> {"high"}]

TypesOfLevel == [noinfo |-> EventTypes \ {"info"}, important |-> Important, all |-> EventTypes]

MatchesDisplayLevel(e, level) == e.source = "usbpcap" \/ e.type \in TypesOfLevel[level]

EventMatchesTarget(e, target) ==
  \/ e.source = "usbpcap" \/ IsSystemPower(e)
  \/ e.device.id = NoId
  \/ MatchesTarget(e.device, target)

Filters ==
  [type : DOMAIN TypesShown, target : {"all", "ftdi"}, confidence : DOMAIN ConfidencesShown,
   level : DOMAIN TypesOfLevel]

EventMatches(e, filter) ==
  /\ e.type \in TypesShown[filter.type]
  /\ EventMatchesTarget(e, filter.target)
  /\ e.confidence \in ConfidencesShown[filter.confidence]
  /\ MatchesDisplayLevel(e, filter.level)

\* The chosen ones among the items, in their order.
Picked(items, chosen) ==
  LET first[n \in 0 .. Len(items)] ==
        IF n = 0 THEN << >>
        ELSE IF n \in chosen THEN Append(first[n - 1], items[n]) ELSE first[n - 1]
  IN first[Len(items)]

Visible(table) ==
  Picked(table.items, {i \in DOMAIN table.items : EventMatches(table.items[i], table.filter)})

NewTable(filter) == [items |-> << >>, filter |-> filter]

\* Add: beyond the limit the oldest event is dropped, and the rows are reset.
Full(table, limit) == Len(table.items) = limit

Added(table, e, limit) ==
  [table EXCEPT !.items = (IF Full(table, limit) THEN Tail(@) ELSE @) \o << e >>]

-----------------------------------------------------------------------------
\* Events within half a minute of each other, in a list ordered by time.
Near(items, i, j) == \A k \in Min({i, j}) + 1 .. Max({i, j}) : ~items[k].late

OfDevice(items, device) == {i \in DOMAIN items : SameDeviceForHistory(device, items[i].device)}

InHistory(items, device) ==
  OfDevice(items, device)
    \cup {i \in DOMAIN items : /\ IsSystemPower(items[i])
                               /\ \E j \in OfDevice(items, device) : Near(items, i, j)}

\* DeviceHistory: the newest ones, in the order of the list.
Newest(all) == {i \in all : Cardinality({j \in all : j > i}) < HistoryLimit}

DeviceHistory(items, device) == Picked(items, Newest(InHistory(items, device)))
=============================================================================
