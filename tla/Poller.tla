------------------------------- MODULE Poller -------------------------------
(***************************************************************************)
(* internal/monitor/poller.go: one goroutine lists the present USB devices  *)
(* on a ticker or on request, publishes the listing under a lock, and sends *)
(* the differences with the previous one on a bounded channel that drops.   *)
(*                                                                          *)
(* The devices themselves, the caller of RefreshNow and the reader of the   *)
(* channel are the environment here; module Watcher replaces the last two   *)
(* by the GUI.  Prime is called by the main goroutine before it starts Run, *)
(* so one program counter covers both.                                      *)
(***************************************************************************)
EXTENDS DeviceEvents

CONSTANTS
  Capacity,    \* cap(p.events), 256 in the code
  MaxTime,     \* bound: ticks of the clock
  MaxChanges,  \* bound: changes of the devices
  MaxFailures  \* bound: failing calls of ListPresentDevices

ASSUME PollerAssumption ==
  /\ Capacity \in Nat \ {0}
  /\ MaxTime \in Nat
  /\ MaxChanges \in Nat
  /\ MaxFailures \in Nat

VARIABLES
  attached,  \* the devices present in the machine: [S -> Readings], S \subseteq Nodes
  changes,   \* changes of the devices so far
  now,       \* the clock
  failures,  \* failed listings so far
  stage,     \* whose scan it is: Prime's, the first one of Run, or Run's loop
  pc,        \* where that goroutine is
  listing,   \* ListPresentDevices: the readings taken so far
  toRead,    \* the devices of the SetupAPI set not read yet
  listedAt,  \* the time stamp of the listing
  previous,  \* p.previous
  devices,   \* p.devices
  ready,     \* p.ready
  prev,      \* the local prev of the scan that is sending
  todo,      \* devices of the new snapshot the send loop has not come to
  gone,      \* devices missing from it the send loop has not come to
  pending,   \* events of the device the send loop is at
  events,    \* p.events
  refresh,   \* whether p.refresh holds its token
  cancelled  \* ctx is done

world == <<attached, changes, now>>
scanning == <<listing, toRead, listedAt>>
shared == <<previous, devices, ready>>
sending == <<prev, todo, gone, pending>>
pvars == <<world, failures, stage, pc, scanning, shared, sending, events,
           refresh, cancelled>>

Empty == [id \in {} |-> id]

Stages == {"Prime", "First", "Loop"}
Locations == {"list", "read", "send", "start", "select", "closed"}

PollerInit ==
  /\ attached \in UNION {[D -> Readings] : D \in SUBSET Nodes}
  /\ changes = 0 /\ now = 0 /\ failures = 0
  /\ stage = "Prime" /\ pc = "list"
  /\ listing = Empty /\ toRead = {} /\ listedAt = 0
  /\ previous = Empty /\ devices = Empty /\ ready = FALSE
  /\ prev = Empty /\ todo = {} /\ gone = {} /\ pending = << >>
  /\ events = << >> /\ refresh = FALSE /\ cancelled = FALSE

-----------------------------------------------------------------------------
\* The machine: a device is plugged in, unplugged or changes its reading.
Plug(id, r) ==
  /\ changes < MaxChanges
  /\ id \in DOMAIN attached => attached[id] # r
  /\ attached' = [i \in DOMAIN attached \cup {id} |-> IF i = id THEN r ELSE attached[i]]
  /\ changes' = changes + 1
  /\ UNCHANGED <<now, failures, stage, pc, scanning, shared, sending, events, refresh,
                 cancelled>>

Unplug(id) ==
  /\ changes < MaxChanges
  /\ id \in DOMAIN attached
  /\ attached' = [i \in DOMAIN attached \ {id} |-> attached[i]]
  /\ changes' = changes + 1
  /\ UNCHANGED <<now, failures, stage, pc, scanning, shared, sending, events, refresh,
                 cancelled>>

Tick ==
  /\ now < MaxTime
  /\ now' = now + 1
  /\ UNCHANGED <<attached, changes, failures, stage, pc, scanning, shared, sending, events,
                 refresh, cancelled>>

-----------------------------------------------------------------------------
\* send: a full channel drops the event.
Sent(e) == IF Len(events) < Capacity THEN Append(events, e) ELSE events

\* Where the goroutine goes when scan returns.  Prime's caller starts Run.
ScanReturns ==
  /\ pc' = IF stage = "Prime" THEN "start" ELSE "select"
  /\ stage' = IF stage = "Prime" THEN "First" ELSE "Loop"

\* ListPresentDevices fixes the set of present devices and the time stamp ...
ListBegin ==
  /\ pc = "list"
  /\ pc' = "read"
  /\ listing' = Empty
  /\ toRead' = DOMAIN attached
  /\ listedAt' = now
  /\ UNCHANGED <<world, failures, stage, shared, sending, events, refresh, cancelled>>

\* ... and reads one device after the other.  A device that has gone meanwhile
\* has no power data any more, or no longer passes isUSBDevice.
ListRead(id) ==
  /\ pc = "read"
  /\ id \in toRead
  /\ toRead' = toRead \ {id}
  /\ \/ /\ id \in DOMAIN attached
        /\ listing' = [i \in DOMAIN listing \cup {id} |->
                         IF i = id THEN attached[id] ELSE listing[i]]
     \/ /\ id \notin DOMAIN attached
        /\ \/ UNCHANGED listing
           \/ \E r \in Readings :
                /\ r.power = "Unknown"
                /\ listing' = [i \in DOMAIN listing \cup {id} |->
                                 IF i = id THEN r ELSE listing[i]]
  /\ UNCHANGED <<world, failures, stage, pc, listedAt, shared, sending, events, refresh,
                 cancelled>>

\* SetupAPI fails: the scan sends an error event and changes nothing else.
ListFails ==
  /\ pc \in {"list", "read"}
  /\ failures < MaxFailures
  /\ failures' = failures + 1
  /\ events' = Sent(ErrorEvent(now))
  /\ ScanReturns
  /\ listing' = Empty /\ toRead' = {} /\ listedAt' = 0
  /\ UNCHANGED <<world, shared, sending, refresh, cancelled>>

\* scan carries the stamps of a device that was in the previous snapshot over.
\* (No stamp is the zero time here, so the IsZero branch of scan is left out.)
\* Mutant: every scan stamps the connection anew.
ConnectedAtReset(id) == listedAt

ConnectedAt(id) ==
  IF id \in DOMAIN previous THEN previous[id].connectedAt ELSE listedAt

\* Mutant: a change is stamped with the current time and not with LastSeen.
LastChangedNow(id) ==
  IF id \in DOMAIN previous /\ ~DeviceChanged(previous[id], listing[id])
  THEN previous[id].lastChanged ELSE now

LastChanged(id) ==
  IF id \in DOMAIN previous /\ ~DeviceChanged(previous[id], listing[id])
  THEN previous[id].lastChanged ELSE listedAt

Stamped(id) ==
  [ power |-> listing[id].power, problem |-> listing[id].problem,
    status |-> listing[id].status, place |-> listing[id].place, com |-> listing[id].com,
    mismatch |-> ParentLowPowerChildD0(listing, id), related |-> Related(DOMAIN listing, id),
    lastSeen |-> listedAt, connectedAt |-> ConnectedAt(id), lastChanged |-> LastChanged(id) ]

\* isUSBDevice: the other devices are listed as parents only.
Current == [id \in DOMAIN listing \cap Ids |-> Stamped(id)]

\* The state update under the lock, which only this goroutine takes for writing.
\* Mutant: the list for Snapshot lags one scan behind the map the diff uses.
PublishLate(current) ==
  /\ previous' = current
  /\ devices' = previous
  /\ ready' = TRUE

Publish(current) ==
  /\ previous' = current
  /\ devices' = current
  /\ ready' = TRUE

\* Mutant: only Prime and the first scan of Run are silent, even when they fail.
EmitsInLoop == stage = "Loop"

Emits == stage = "Loop" /\ ready

\* All devices are read: publish, and unless this is a baseline start to send.
Commit ==
  /\ pc = "read"
  /\ toRead = {}
  /\ Publish(Current)
  /\ listing' = Empty /\ listedAt' = 0
  /\ IF Emits
     THEN /\ prev' = previous
          /\ todo' = {id \in DOMAIN Current : Reported(previous, Current, id)}
          /\ gone' = Dropped(previous, Current)
          /\ pc' = "send"
          /\ UNCHANGED stage
     ELSE /\ ScanReturns
          /\ UNCHANGED <<prev, todo, gone>>
  /\ UNCHANGED <<world, failures, toRead, pending, events, refresh, cancelled>>

\* The send loop comes to a device of the new snapshot, in map order ...
NextPresent(id) ==
  /\ pc = "send" /\ pending = << >>
  /\ id \in todo
  /\ todo' = todo \ {id}
  /\ pending' = IF id \in DOMAIN prev
                THEN ChangeEvents(id, prev[id], previous[id])
                ELSE ArrivalEvents(id, previous[id])
  /\ UNCHANGED <<world, failures, stage, pc, scanning, shared, prev, gone, events, refresh,
                 cancelled>>

\* ... then to the missing ones ...
NextMissing(id) ==
  /\ pc = "send" /\ pending = << >> /\ todo = {}
  /\ id \in gone
  /\ gone' = gone \ {id}
  /\ pending' \in RemovalEvents(id, prev[id], previous, now)
  /\ UNCHANGED <<world, failures, stage, pc, scanning, shared, prev, todo, events, refresh,
                 cancelled>>

\* ... and sends the events of each in order.
\* Mutant: send waits for room in the channel.
SendBlocks ==
  /\ pc = "send" /\ pending # << >> /\ Len(events) < Capacity
  /\ events' = Append(events, Head(pending))
  /\ pending' = Tail(pending)
  /\ UNCHANGED <<world, failures, stage, pc, scanning, shared, prev, todo, gone, refresh,
                 cancelled>>

Send ==
  /\ pc = "send" /\ pending # << >>
  /\ events' = Sent(Head(pending))
  /\ pending' = Tail(pending)
  /\ UNCHANGED <<world, failures, stage, pc, scanning, shared, prev, todo, gone, refresh,
                 cancelled>>

\* Mutant: the scan ends with the present devices; missing ones are not reported.
EndScanEarly ==
  /\ pc = "send" /\ pending = << >> /\ todo = {}
  /\ ScanReturns
  /\ prev' = Empty /\ gone' = {}
  /\ UNCHANGED <<world, failures, scanning, shared, todo, pending, events, refresh, cancelled>>

\* Mutant: the scan discards the requests that came while it ran.
EndScanDrains ==
  /\ pc = "send" /\ pending = << >> /\ todo = {} /\ gone = {}
  /\ ScanReturns
  /\ prev' = Empty /\ refresh' = FALSE
  /\ UNCHANGED <<world, failures, scanning, shared, todo, gone, pending, events, cancelled>>

EndScan ==
  /\ pc = "send" /\ pending = << >> /\ todo = {} /\ gone = {}
  /\ ScanReturns
  /\ prev' = Empty
  /\ UNCHANGED <<world, failures, scanning, shared, todo, gone, pending, events, refresh,
                 cancelled>>

\* Run: the baseline scan when Prime failed, then the loop.
RunStarts ==
  /\ pc = "start"
  /\ IF ready THEN stage' = "Loop" /\ pc' = "select" ELSE pc' = "list" /\ UNCHANGED stage
  /\ UNCHANGED <<world, failures, scanning, shared, sending, events, refresh, cancelled>>

TickerFires ==
  /\ pc = "select"
  /\ pc' = "list"
  /\ UNCHANGED <<world, failures, stage, scanning, shared, sending, events, refresh,
                 cancelled>>

TakeRefresh ==
  /\ pc = "select"
  /\ refresh
  /\ refresh' = FALSE
  /\ pc' = "list"
  /\ UNCHANGED <<world, failures, stage, scanning, shared, sending, events, cancelled>>

\* Mutant: Run drains the channel before it returns.
RunReturnsDrained ==
  /\ pc = "select"
  /\ cancelled /\ events = << >>
  /\ pc' = "closed"
  /\ UNCHANGED <<world, failures, stage, scanning, shared, sending, events, refresh, cancelled>>

RunReturns ==
  /\ pc = "select"
  /\ cancelled
  /\ pc' = "closed"
  /\ UNCHANGED <<world, failures, stage, scanning, shared, sending, events, refresh,
                 cancelled>>

PollerStep ==
  \/ ListBegin \/ ListFails \/ Commit \/ Send \/ EndScan
  \/ RunStarts \/ TickerFires \/ TakeRefresh \/ RunReturns
  \/ \E id \in Nodes : ListRead(id)
  \/ \E id \in Ids : NextPresent(id) \/ NextMissing(id)

Machine == Tick \/ \E id \in Nodes : Unplug(id) \/ (\E r \in Readings : Plug(id, r))

-----------------------------------------------------------------------------
\* The callers, as far as the poller sees them.
RefreshNow ==
  /\ stage # "Prime"
  /\ refresh' = TRUE
  /\ UNCHANGED <<world, failures, stage, pc, scanning, shared, sending, events, cancelled>>

Receive ==
  /\ events # << >>
  /\ events' = Tail(events)
  /\ UNCHANGED <<world, failures, stage, pc, scanning, shared, sending, refresh, cancelled>>

Cancel ==
  /\ ~cancelled /\ stage # "Prime"
  /\ cancelled' = TRUE
  /\ UNCHANGED <<world, failures, stage, pc, scanning, shared, sending, events, refresh>>

-----------------------------------------------------------------------------
\* The type of every variable.
PollerTypeOK ==
  /\ IsMapOf(Nodes, attached, Readings) /\ changes \in Nat /\ now \in Nat /\ failures \in Nat
  /\ stage \in Stages /\ pc \in Locations
  /\ IsMapOf(Nodes, listing, Readings) /\ toRead \in SUBSET Nodes /\ listedAt \in Nat
  /\ IsMap(previous, Snapshots) /\ IsMap(devices, Snapshots) /\ ready \in BOOLEAN
  /\ IsMap(prev, Snapshots) /\ todo \in SUBSET Ids /\ gone \in SUBSET Ids
  /\ pending \in Seq(Events) /\ events \in Seq(Events)
  /\ refresh \in BOOLEAN /\ cancelled \in BOOLEAN
=============================================================================
