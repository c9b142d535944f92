# USB Suspend Watch: specifications and proofs

USB Suspend Watch polls SetupAPI for the connected USB devices, reports the
differences between successive listings as events, logs them and shows them in
a window. It can also start an elevated ETW helper and USBPcap captures. This
directory holds TLA+ models of its stateful parts, TLC configurations that
check them on small instances, and TLAPS proofs.

## Inventory

| Part | State | Operations | Interacts with |
|---|---|---|---|
| Poller (`internal/monitor/poller.go`) | published snapshot, previous map, ready flag, event channel (256, drops), refresh channel (1) | Prime, Run, scan, RefreshNow, Snapshot | SetupAPI, the window |
| Event normalisation (`internal/model/normalize.go`) | none | NormalizePowerTransition, NormalizeETW | Poller, ETW |
| Device relationships (`internal/model/model.go`) | none | parent states, groups, roles, scores | SetupAPI listing, table models |
| Window (`internal/ui/app_windows.go`) | device list, event tables, selections, watch target, filters, detailed-logging deadline, capture and ETW handles | message handlers, closures posted with `mw.Synchronize` | all others |
| Table models (`internal/ui/table_models_windows.go`) | rows, monitoring keys, visible rows | Set, Add, SetChecked, SetFilter, IndexOfDevice, DeviceHistory, buildAdapterGroups | Window |
| Event filters (`internal/ui/event_filters_windows.go`) | none | target, type, confidence and level | Table models, Window |
| USBPcap capture (`app_windows.go`, `internal/usbpcap`) | running command, start id, metadata and pcap file | discovery, plan, start, wait, stop, cleanup | USBPcapCMD process, files |
| ETW session (`app_windows.go`, `internal/etwhelper`) | running flag, tail offset, stop file, helper log | start, tail, stop, timeout, helper loop | helper process, files |
| Snapshot logging (`app_windows.go`) | last write, detailed-logging deadline | ticker loop, trigger | logs, netstats |
| Log files (`internal/logs`) | append-only JSON lines | Append, Write, ReadEventsSince, Close | Window, helper |

Hard behaviours: lossy and coalescing channels between the poller and the
window; closures that run later than the state they captured; a capture that is
started, stopped and started again while its goroutines are under way; a helper
process that the window talks to through files only; failing listings at
startup; monitoring keys shared by several rows; handlers that clear each other's
selections while refreshes and full tables reset rows.

What makes each part correct:

- Poller: the baseline is silent whoever makes it, a refresh request is never
  lost, stamps are carried over while a device stays connected, `Run` ends.
- Device list: it is never behind an event that is logged; a list that lags in
  anything but a COM name has an event coming; the log explains the list unless
  an event was dropped by the poller or discarded by the window.
- Selections and details: the three tables have one selection between them, a
  selected row keeps denoting its event, the details show what is selected, and
  only the user moves the watch to another adapter.
- Adapters: the places that tell adapters apart agree.
- Check boxes: a device's check box, its suppression and its companions agree;
  an unchecked device stays unchecked and silent.
- Captures: no start and no process is lost track of, whatever the order of
  closures; flags never refuse later starts for ever; a Root Hub is captured
  only for a reason.
- ETW: a session shown as running is followed; silence and ends are noticed; a
  helper does not outlive the GUI.
- Snapshot logging: a trigger starts detailed logging and announces it once.
- Log files: no line is lost or read twice.

## Modules

| Module | Models | Extends |
|---|---|---|
| `DeviceEvents` | pure: which events a pair of snapshots gives (`scan`'s two loops, `NormalizePowerTransition`, `findReenumeratedDevice`) | |
| `Poller` | the poller and SetupAPI: variables and actions without a caller | `DeviceEvents` |
| `PollerEnv` | the poller with arbitrary callers of its interface | `Poller` |
| `DeviceView` | abstract: the list, the published snapshot, and one flag that says whether a refresh is due | |
| `Watcher` | the poller with its only user, the window: startup, reader goroutine, posted closures, list and log; refines `DeviceView` | `Poller` |
| `CapturePlan` | pure: which Root Hub and which addresses a capture is made of | |
| `USBPcap` | captures: the message loop, one goroutine per start, one process per start | `CapturePlan` |
| `ETWSession` | the GUI's ETW session, the tail goroutines, the helper processes and the files between them | |
| `DeviceChoice` | abstract: one switch per adapter, which a click on one of its rows may flip | |
| `Monitoring` | the monitoring keys, check boxes and suppression of events; refines `DeviceChoice` | |
| `Relationships` | pure: groups, roles, scores and the rows of the adapters' table | |
| `DeviceRows` | the tree of rows, the row in which a device is found again, same-device tests, the target filter | `Monitoring`, `Relationships` |
| `EventTable` | the event tables with limit and filter, `NormalizeETW`, the history of a device | `DeviceRows` |
| `Window` | the window: selections and their handlers, `addEvent`, `refreshDevices`, filters, check boxes, details; composes the three above | `EventTable` |
| `Induction` | lemmas: induction over natural numbers, stated with sets | `TLAPS` |
| `PollerProofs` | lemmas about the poller's operators and steps, whoever calls it | `Poller`, `TLAPS` |
| `PollerEnvProofs` | theorems about the poller with any callers | `PollerEnv`, `PollerProofs` |
| `WatcherProofs` | theorems about the poller with the window: list, log and the events between them | `Watcher`, `PollerProofs`, `Induction` |
| `USBPcapProofs` | theorems about captures and their plan | `USBPcap`, `Induction` |
| `ETWSessionProofs`, `MonitoringProofs` | theorems about the module they are named after | that module, `TLAPS` |
| `WindowProofs` | theorems about the window: check boxes, adapters, tables, details, selections | `Window`, `MonitoringProofs`, `Induction` |
| `MCWatcher`, `MCPollerEnv`, `MCUSBPcap`, `MCETWSession`, `MCMonitoring`, `MCWindow` | small instances | |

### How state and actions correspond to the code

**Poller.** `devices` is `p.devices`, `previous` the map, `ready` the flag,
`events` the channel, `refresh` the token channel. A scan takes several
steps: it begins, reads one device after the other while devices change
(`ListRead`), fails or commits. `Commit` is the part of `scan` under the lock
together with what follows until the first send; the snapshot is published
there, before any event is sent. Go iterates over maps in no fixed order, so
`Send` takes the changed devices in any order, and an event that finds the
channel full is dropped (`send`). Devices are abstracted to a reading (D-state,
problem, status, place, COM name). A listing visits all devices (`Ids` and
`Hosts`), since a hub may hang on a host controller that is not a USB device; a
snapshot keeps those of `Ids` and holds what `EnrichDeviceRelationships` says of
them: whether a parent is in low power, and whether another member of the logical
group is present (`related`). Parents (`Ancestors`), members of a group
(`Companions`) and the marks by which a device is found again (`Evidence`) are
constants. The event of a failing listing carries the zero device.

**Watcher.** `Run` of the window, in order: start of the reader, `Prime`,
`Run` of the poller, first refresh of the list, message loop. The reader takes
an event and posts a closure; the closure calls `AddEvent` and then refreshes the
list (`HandlePosted`). Refreshes also follow a change of the target filter and
the Refresh button; device and power broadcasts ask the poller for a scan.

`MatchesTarget` is `deviceMatchesTarget`. It reads what a snapshot, or an event,
says at its time: the COM name, and whether a companion was present. So a row can
come and go without its device doing so. The driver may write the COM name after
the device has arrived; `scan` then publishes the name but sends no event, and
the properties about the list name that exception (`Renamed`).

`AddEvent` logs an event or discards it: when its device does not match the
target, or when one of its keys is unchecked. Which devices are unchecked is
`Monitoring`'s subject; here `unchecked` says that some box is, and any device may
then be the one. What the log tells of each device is kept as the knowledge of its
reader (`logged`): a D-state, absence, or doubt after an event that was discarded,
until the next one that is logged.

**CapturePlan.** What an interface lists is a sequence of rows; a row is reduced
to the facts about the target that its text contains (each has the weight of
`matchConfigDevice`) and the address at the start of its value. `Discovered`
drops the lists of interfaces whose query fails or takes too long. `BuildPlan`
keeps the lists it was made from, so that a property can ask for the reason.

**USBPcap.** Starts are numbered like `usbpcapStartID`. The state of each start
is the place its goroutine has reached and whether its process lives; `posted`
holds the closures of the message loop in order; `plan` is the local variable of
the goroutine and is forgotten with it. `cleanup` and the end of the loop are
actions.

**ETWSession.** Sessions are numbered in the model only; the code has no such
number, and no closure, line or file says which session it belongs to, which is
where the difficulties come from. The log is one sequence of lines; an offset
is the number of lines before it. `TailReturns` and `TailGoesOn` render the
unsynchronised read of `terminal` right after the closure that sets it was
posted. The GUI may exit or crash at any moment; the helper keeps running then.

**Monitoring.** A choice is kept under all keys of the device it was made for:
group, serial, related ids, own id, COM name, in this order. The check box shows
the choice of the first key that has one (`IsMonitored`); an event is
suppressed when any key of its device is unchecked (`IsEventMonitored`). `Set`
registers the keys of a new listing and never forgets one. The broad keys
(names, hardware ids) are left out: every device has an instance id, so the
code never uses them. A device's group is a constant; the relatives in a
listing are the devices of the group that are present in it. `Set` is given any
part of the devices present, since the target filter hides some; which part is
the subject of `Watcher` and `Window`.

**Window.** The fields of the window are one record, so that a handler is an
operator on it and a chain of handlers a composition: a handler that clears
another table's selection calls no handler (`selectionChanging`), while rows that
are reset lose their selection and tell their handler, as the widget library
does. `AddEvent` is `addEvent` with all it calls: both tables, the trigger of
detailed logging and its announcement (an event added from inside the addition of
another), the automatic selection, and the details of the watched device. The
list is refreshed from what is attached, since the way through the poller is
`Watcher`'s subject; a refresh resets the rows also when they are unchanged,
which comes to the same, as it selects the row again. An event says by `late`
whether more than half a minute has passed since the last one: histories depend
on nothing else of the time.

The names of devices are distinct (`Rank`), a device with VID and PID has a
serial (the last part of its instance id, `DescriptionAssumption`), the search
text is empty, and the language does not change.

## Runs

| Run | Instance | Shows |
|---|---|---|
| `watcher_one_device` | one port, D-states D0, D3, unreadable; both target filters; check boxes clicked at any time; channel of 1; 2 changes, 1 failing listing | `LogExplainsDevices`, with events that are logged, dropped and discarded; `ListNotBehindEvent`, types, the refinement of `DeviceView` |
| `watcher_port_and_converter` | port and converter, each of which may lack its COM name, get it late or lose it; both target filters; channel of 1; 1 change, 1 failure; fairness | `NoStuckRows`, `RowsConverge` |
| `poller` | two related devices that may move and fail at once; channel of 1; clock of 2 values; 2 failures; fairness | requests, baseline, stamps, termination |
| `captures` | 5 starts or stops; two Root Hubs of which one lists target, sibling and stranger, or a single empty one; any query may fail; fairness | four invariants, three liveness properties |
| `etw_session` | 2 sessions, 1 ETW event, 1 queued closure; fairness | `RunningIsFollowed`, silence and ends are noticed, the helper ends with the GUI |
| `window` | a port with its converter, a port of another adapter, a root hub without VID and PID; one COM name; one kind of event per source; timeline of 3, changes of 1 | check boxes and their refinement of `DeviceChoice`, selections, details, rows of the adapters' table |
| `list_after_failed_prime` | violation | the list stays empty after a failed `Prime` |
| `reenumeration_of_a_present_device` | violation | a present device is reported as re-enumerated |
| `capture_metadata` | violation | metadata of a stopped start overwrites that of the next capture |
| `capture_of_a_sibling` | violation | the Root Hub of three siblings outweighs that of the target, which is not captured |
| `etw_orphan` | violation | a helper whose GUI dies early runs on for ever |
| `checked_but_silent` | violation | a port shown checked is suppressed, as its COM name was unchecked for another port |

### Bounds

Every counter has a bound in a guard. `MaxChanges` bounds plug, unplug and state
changes, `MaxFailures` failing listings, `MaxTime` the clock, `Capacity` the
event channel (256 in the code; 1 makes drops frequent, and nothing else depends
on the size), `Clicks` whether the user clicks check boxes in `Watcher` (a click
there affects the log only, so the runs about the list do without), `MaxID` the
captures' counter, `MaxStarts`, `MaxLines` and `MaxPosted` helpers, lines of ETW
events and queued closures. Two failures are needed for a baseline that is
neither `Prime`'s nor the first of `Run`; two sessions, or three captures with
their stops, for an old one to disturb a new one; two devices for the order of
events within a scan. One COM name makes Windows reuse it at once.

`EventLimit` (2000 in the code), `ChangeLimit` (500) and `HistoryLimit` are 3, 1
and 1: the smallest that let a table be full with a selected event that stays, is
moved or is pushed out, while another handler's event follows. The graph of
`Window` would still be a product of check boxes, selections and logs; the run
explores (`CONSTRAINT Explored`) the states of three parts, and checks every
step out of them:

- `SwitchPart`: all check boxes of all devices with an empty log and no
  selection. No handler of a selection or of the log reads or writes a key, so
  nothing is lost by keeping these at rest;
- `ListPart`: all lists, refreshes, targets and selections of devices with an
  empty log, all boxes checked and the root hub unplugged (its row is there as
  the parent of the others);
- `LogPart`: what log, filters and the three selections do while one port comes
  and goes; with a full timeline, only under the default filters.

Left out are states with events of two devices in the log and with unchecked
boxes beside a filled log. The theorems of `WindowProofs` and `MonitoringProofs`
hold in all states.

Deadlock is checked in the runs of `Watcher`, `PollerEnv` and `Monitoring`; it is
off for `USBPcap` and `ETWSession`, whose programs end, and for `Window`, where
the constraint cuts successors off (a window can always be refreshed). `Watcher`
leaves out the end of the program.

Each property of a passing run has a mutant: a plausible fault of the code,
defined beside the definition it replaces, under which the property fails.

### Fairness

Weak fairness is assumed of what the Go scheduler, the message loop and Windows
run on their own: a scan under way, the ticker of `Run`, the reader, the posted
closures, the goroutines of captures and tails, the helper's polling loop, and
the death of a process that was killed. Nothing is assumed of the user (buttons,
UAC, exit), of devices, of captures ending by themselves, or of ETW events. The
`select` of `Run` picks at random among ready cases, so a case that is ready
again and again is taken in the end: the termination after `Cancel` rests on
strong fairness of `RunReturns`, with which the ticker keeps competing. A request
needs no such choice: any later listing serves it, the ticker's included. The
fairness formulas are `Fairness` in each module.

## Proofs

Every invariant and every action property that a passing run checks is also a
theorem, for all values of the constants that the `ASSUME`s of the modules
admit; TLC evaluates those in the runs.

`PollerProofs` holds what is true of the poller whoever calls it: the types
(`PollerStepType`), and two invariants of its steps (`SendLoopKept`):

- `SendLoop`: outside the send loop nothing is left to report, and what is left
  inside it is reported between the two snapshots it compares;
- `Published`: `previous` and `devices` agree.

`PollerEnvProofs` proves, for any callers, devices, readings, failures and
capacity: `PollerTypes`, `Requests` (`RequestKept`), `Ordered` (`StampsOrdered`),
`Silent` (`BaselineIsSilent`) and `Carried` (`StampsCarryOver`). The stamps need
`Younger`: a listing that is being read is younger than everything published;
`Stamps` says what a commit then writes.

`WatcherProofs` proves, for any devices and readings, any parents, companions and
evidence, any capacity of at least 1 and any bounds:

- `TypeCorrect`: `Spec => []TypeOK`;
- `NoStuck`: `Spec => []NoStuckRows`. A list that lags behind the published
  snapshot always has a cause of refresh on its way: an event that the send loop
  owes, in the channel, in the reader's hand or posted. Only a row that a COM
  name brings or takes away may be missed.

`NoStuckRows` is not inductive: it says nothing of what the send loop owes, of
scans that do not emit, or of what the target filter hides. It follows
(`NoStuckEnough`) because two snapshots that are no news to each other have the
same devices, hence the same companions (`Enriched`), so that nothing but a COM
name can tell their rows apart. The inductive invariant is
`IInv == TypeOK /\ SendLoop /\ Baseline /\ Published /\ NoStuckView`:

- `Baseline`: a scan that does not emit finds the poller not ready;
- `NoStuckView`: a list that lags, filtered or not, has an event in flight. A
  dropped event does no harm, since a channel that is full is not empty and what
  fills it will refresh the list.

A list may lag several scans. The lemma `NewsTransitive` covers that: what is
news between the first and the last of three snapshots is news on one side of
the middle one. The theorem `Invariance` has one step per action.

`ViewRefinement` is `Spec => ViewSpec`: poller, channel, reader and message loop
implement `DeviceView`. Its flag `due` is `InFlight`, its other variables have the
same meaning in both. A commit raises the flag for exactly the news of the
snapshot it publishes, and no other step but a refresh may lower it: the send
loop passes on what it owes (`PollerView`), what it drops meets a full channel,
and only the closure of an event, which refreshes the list, takes the last event
off the way (`WindowView`). The baseline, which is published silently, is an
action of the abstract module of its own.

`NeverBehind` is `Spec => ListNotBehindEvent`. Everything under way is one sequence (`UnderWay`: posted, in hand, in the channel, in the
send loop). It *explains* the published snapshot (`Explains`): the last arrival or
removal of a device in it agrees with the snapshot, unless the opposite event is
still owed by the send loop. A commit owes exactly the difference of two
snapshots (`ExplainsNext`), coming to a device pays at the end of the sequence
(`ExplainsMore`), the channel and the reader leave the sequence as it is, and the
message loop takes from its front (`ExplainsLess`). Before the baseline only
failures are under way (`NothingYet`), and what is owed as gone is not in the
snapshot (`OnlyMissing`).

`LogExplains` is `Spec => []LogExplainsDevices`. The property speaks only of
times at which the send loop is at rest; `Knows` says what holds at all times: as
long as nothing was dropped, who reads the log and everything under way knows the
published snapshot or is in doubt, except for what the send loop still owes, of
which he knows the previous one or is in doubt (`Agrees`, `Owed`). An event that
is discarded instead of logged makes the reader's knowledge vaguer, and reading on
never turns that into something wrong (`Vaguer`, `DoubtStays`). A commit moves all that differs into what is
owed (`CommitKnown`), and coming to a device pays for it (`NextPresentKnown`,
`NextMissingKnown`). The reader is a recursive function over the log (`ReadOn`).
`ReadMore` splits what he reads, so that an event may move from the queue to the
log, and `ReadAlike` says that he hears nothing from events of other kinds.

The assumptions of these three modules are `ReadingAssumption`,
`NoDeviceAssumption`, `PollerAssumption` and `WatcherAssumption` of the modules
that declare the constants.

`MonitoringProofs` proves, for any finite set of devices and any groups,
parents and COM names (`MonitoringAssumption`):

- `TypeCorrect`: `Spec => []TypeOK`;
- `CheckBoxes`: `Spec => []CheckBoxShowsSwitch`;
- `Silence`: `Spec => []UncheckedIsSilent`;
- `Refinement`: `Spec => ChoiceSpec`, the detailed keys implement one switch per
  adapter.

The inductive invariant `IInv` adds to the types `Enumerated`, a listed device
is what some listing said of it (so its first key is the decisive one of its
adapter), and `Paired`, group and serial of an adapter always agree (an ETW
record knows the serial only). Every row's keys hold either all decisive keys of
one adapter or none (`RowKeys`), so a click moves one switch; registering keys
changes no choice (`RegisterKeeps`).

`WindowProofs` proves, for any devices, descriptions, limits of at least 1 and
kinds of events (`DescriptionAssumption`, `WindowAssumption`):

- `WindowImplementsMonitoring`: `WindowSpec => Spec`, every step of the window is
  a step of `Monitoring` or leaves its variables alone, and hence `WindowTypes`,
  `WindowSilence`, `WindowCheckBoxes` and `WindowRefinement`;
- `Selection`: `WindowSpec => []OneSelection`. The invariant of a record is
  `Handled(w, list)`, and there is one lemma for each handler: it leads from a
  record of which `Handled` holds, or in which a row has just been reset, to
  another one. A chain of handlers is then a chain of lemmas, and `Handled`
  survives a refresh because the restored row is the watched one in the new list;
- `AdapterRows`: `WindowSpec => []AdapterRowsAgree`. The devices of a row of that
  table are of one group, or the row is a single device (`RowIsAdapter`); hence
  they have one decisive key, which all their check boxes show, and one score;
- `WindowTypeCorrect`: `WindowSpec => []WindowTypeOK`, limits of the tables included;
- `Details`: `WindowSpec => []DetailsAreCurrent`;
- `WatchStays`: `WindowSpec => WatchStaysInAdapter`. Of two devices without a
  serial the COM port is all that is compared, which the property therefore names
  (`KnownByCom`);
- `SelectionStays`: `WindowSpec => SelectionKeepsEvent`.

The last four rest on one invariant,
`WindowIInv == IInv /\ ListOK(listed) /\ Sound(window, listed) /\ Fresh(window)`,
with the `IInv` of `MonitoringProofs`. Every action keeps it (`StepGood`):

- `ListOK`: what is listed, and the parent of it, can be watched: its group and
  serial are those of its adapter or unknown (`Watchable`);
- `Sound`: `Handled` as above, the types (`Typed`), and `Current`: the details are
  those of the selection. `DetailsAreCurrent` is not inductive by itself, since it
  does not say that a selected row exists or that one table at most has one;
- `Fresh`: the history shown of the watched device misses none of its events.

The lemmas are about tables: which rows a filter shows and in which order
(`PickedItems`, `PickedAppend`), what an addition to a full table drops and where
the selected row goes (`AddedTable`, `AddedKeepsRows`), and what becomes of a
device's history when an event is appended (`HistoryOfAppend`), when the oldest is
dropped (`HistoryOfTail`) or when the event is another device's
(`HistoryOfOther`). The row in which a device is found again is the first one that
matches: rows are finitely many and totally ordered, so that one exists
(`FirstRow`, `RowFound`).

`USBPcapProofs` proves, for any number of starts, targets and buses
(`USBPcapAssumption`): `CaptureTypes`, `StartingBacked`, `CapturesTracked` and
`RunningReal`. The three invariants need each other and four facts about
closures: `Stages` (what the place of a goroutine says of its process and of its
closures), `Fresh` (nothing is known of starts that are still to come), `Once` (a
closure is queued at most once), `InOrder` (the end of a capture is queued behind
its start), and `OneFlag` (never both flags). `CapturesJustified` is
`Spec => []CaptureIsJustified`: a total of the plan that is not zero has a row
that contributes to it, and the row with the highest total is taken.

`ETWSessionProofs` proves, for any number of sessions, lines and queued closures
(`ETWAssumption`): `SessionTypes` and `Followed`. The tail reads `terminal` while
the closure that sets it may be running. That is harmless because of `Delivered`:
as long as the session is shown as running, the end which its tail has read is in
a closure that is still queued, so a tail that sees the flag set belongs to a
session that no longer runs. `Bounded` (no offset lies behind the end of the
log) lets lines be appended without changing what was read; `Cancellable` says
that a session that runs has a tail, and `Asked` that a session is left while the
user is asked.

Tables, logs and lists of rows are data of any length, so the lemmas about them
need induction. The library's induction theorems take an operator as a parameter,
which no installed prover can instantiate. `Induction` goes another way: it states
that a set of naturals that is not empty has a least element (`LeastNatural`, from
the well-foundedness of `<`), and that a set which holds 0 and each successor of
its elements holds all of them (`Naturals`). A proof then defines the set `Good`
of the lengths for which its claim holds. A recursive function is shown to exist
on every interval in the same way (`ReadExists`), and then satisfies its own
equation.

Model-checked only, since fairness, `ENABLED` and leads-to are out of the prover's
reach:

- the liveness properties: `RowsConverge`, `RequestServed`, `CancelCloses`,
  `StartIsDecided`, `EndIsNoticed` (captures and ETW), `StoppedCaptureDies`,
  `SilenceIsNoticed`, `HelperEndsWithGUI`;
- the claims that the code violates, which TLC refutes.

## What the code does otherwise than it says

The six violation runs are described under "findings" in `PROJECT.json`. Other
disagreements were met and are listed as hazards only:

- `startETW` removes a stop file that the previous helper may not have polled yet
  (`app_windows.go:1697`), so that helper is never stopped;
- after a failed startup the old tail goroutine goes on (`app_windows.go:1820`),
  so after a retry two goroutines read the same log and its lines appear twice;
- the first refresh moves the selection from a port to the row of its converter,
  which comes first and is taken for the same device
  (`table_models_windows.go:197`), although README.md:22 says that the selected
  device is kept as the watch target;
- under the default target filter every ETW event of a listed port is discarded,
  since a record names no COM port (`app_windows.go:1111`; CHANGELOG.md:62);
- a COM name that appears after the device has arrived brings no event
  (`poller.go:157`, `poller.go:294`), so under the default target filter the row
  stays hidden until something else refreshes the list, although README.md:19
  says that the filter makes such adapters easier to inspect. `NoStuckRows` and
  `RowsConverge` hold with this exception only;
- the logging loop skips a tick that comes early by the ticker's jitter
  (`app_windows.go:591`);
- the addresses of siblings are captured along with the target's
  (`usbpcap.go:251`).

## Not modelled

- Decoding of SetupAPI properties, the search for USBPcapCMD and the parsing of
  its output, the providers and the `.etl` trace of the helper: I/O, whose results
  are constants or nondeterministic.
- The logging loop and network statistics: one stamp is compared with one
  interval; only the trigger is modelled, in `Window`.
- Byte offsets of the log tail: `Append` writes a line with one call, so the log
  is a sequence of lines.
- The search text, the switch of the language, export, tray and clipboard: they
  filter by wording or keep no state that others read.
- Diagnostic texts, topology hints, the layout of the details, icons, platform
  calls and the command line: wording, drawing, or no state.

`PROJECT.json` says so for each part.

## Plan

Done, in order of importance: poller and device list, captures with their plan,
ETW sessions, monitoring, the window, two abstract specifications that they
refine, and a theorem for each of their safety properties. What is left:

1. `LogTail`: `ReadEventsSince` with byte offsets, under a reader that sees half
   a line.
2. In `Window`, the search text and events of several devices in the log.
