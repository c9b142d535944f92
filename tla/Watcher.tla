------------------------------ MODULE Watcher -------------------------------
(***************************************************************************)
(* The poller composed with its reader in internal/ui/app_windows.go: the   *)
(* goroutine consumePollerEvents takes events off the channel and posts a   *)
(* closure per event to the window's message loop, and the closure logs the *)
(* event, unless its device is not monitored, and refreshes the device list *)
(* from the poller's snapshot.                                              *)
(*                                                                          *)
(* mw.Synchronize (lxn/walk) appends the closure to a queue and returns;    *)
(* the message loop runs the queue in order.  A behaviour here is a session *)
(* whose window stays open: when the loop ends, main returns and the        *)
(* process exits with whatever is still queued (see PollerEnv for Run).     *)
(***************************************************************************)
EXTENDS Poller, SequencesExt

CONSTANTS
  FTDI,       \* devices whose names or ids say FTDI (HasFTDISignal)
  Converters, \* devices whose names say converter (classifyRelationRole)
  Clicks      \* bound: whether the user clicks check boxes

ASSUME WatcherAssumption ==
  FTDI \subseteq Ids /\ Converters \subseteq Ids /\ Clicks \in BOOLEAN

VARIABLES
  ui,         \* the main goroutine: before or in the message loop
  inHand,     \* the event consumePollerEvents has received and not posted yet
  posted,     \* closures queued in the window, named by their event
  shown,      \* the snapshot the device list was last filled from
  shownReady, \* history: that snapshot was taken after the baseline
  target,     \* index of the target filter
  unchecked,  \* whether the user has unchecked some device
  logged,     \* history: what a reader of the event log knows of each device
  dropped     \* history: send has dropped an event of a device

uivars == <<ui, inHand, posted, shown, shownReady, target, unchecked, logged, dropped>>
vars == <<pvars, uivars>>

Targets == {"All", "FTDI"}

Init ==
  /\ PollerInit
  /\ ui = "starting" /\ inHand = << >> /\ posted = << >>
  /\ shown = Empty /\ shownReady = FALSE /\ target = "FTDI" /\ unchecked = FALSE
  /\ logged = [id \in Ids |-> "absent"] /\ dropped = FALSE

-----------------------------------------------------------------------------
\* What can be known of a device, where "doubt" is that an event was discarded.
Knowledge == PowerStates \cup {"absent", "doubt"}

Powers(snapshot) ==
  [id \in Ids |-> IF id \in DOMAIN snapshot THEN snapshot[id].power ELSE "absent"]

Tells(e) == e.type \in {"pnp_arrival", "pnp_removal", "dstate_transition"}

\* What an event that is logged tells a reader of the log ...
Heed(known, e) ==
  IF ~Tells(e) THEN known
  ELSE [known EXCEPT ![e.id] = IF e.type = "pnp_removal" THEN "absent" ELSE e.power]

\* ... and what he does not know any more when it is discarded.
Miss(known, e) == IF Tells(e) THEN [known EXCEPT ![e.id] = "doubt"] ELSE known

\* What he knows who reads on in the log.
ReadOn(known, log) ==
  LET after[n \in 0 .. Len(log)] == IF n = 0 THEN known ELSE Heed(after[n - 1], log[n])
  IN after[Len(log)]

\* deviceMatchesTarget, of what the snapshot (or an event) says of a device: an
\* FTDI device with a COM name, or a converter with a companion.  A COM name
\* makes the device a port, whatever its names say.
MatchesTarget(id, com, related, t) ==
  t = "FTDI" => id \in FTDI /\ (com # NoCom \/ (id \in Converters /\ related))

Visible(snapshot, t) ==
  {id \in DOMAIN snapshot : MatchesTarget(id, snapshot[id].com, snapshot[id].related, t)}

\* filterDevicesForTarget.
Rows(snapshot, t) == [id \in Visible(snapshot, t) |-> snapshot[id]]

\* addEvent: an event is discarded if its device does not match the target or
\* one of its keys is unchecked, which may be the case of any device when some
\* box is unchecked (module Monitoring says of which).
AddEvent(e) ==
  LET named == e.id # NoDevice
      matches == MatchesTarget(e.id, e.com, e.related, target)
  IN \/ (named => matches) /\ logged' = Heed(logged, e)
     \/ named /\ (matches => unchecked) /\ logged' = Miss(logged, e)

\* refreshDevices: Snapshot copies under the read lock.
RefreshDevices ==
  /\ shown' = devices
  /\ shownReady' = ready

\* The poller runs; its first publication is the baseline of the log.
PollerRuns ==
  /\ PollerStep
  /\ logged' = IF ~ready /\ ready' THEN Powers(devices') ELSE logged
  /\ dropped' = (dropped \/ (pending # pending' /\ pending # << >> /\ events' = events))
  /\ UNCHANGED <<ui, inHand, posted, shown, shownReady, target, unchecked>>

MachineChanges == Machine /\ UNCHANGED uivars

\* Run in app_windows.go after Prime has returned: refreshDevices, mw.Run.
UIStarts ==
  /\ ui = "starting" /\ stage # "Prime"
  /\ ui' = "running"
  /\ RefreshDevices
  /\ UNCHANGED <<pvars, inHand, posted, target, unchecked, logged, dropped>>

ConsumerReceives ==
  /\ inHand = << >>
  /\ Receive
  /\ inHand' = << Head(events) >>
  /\ UNCHANGED <<ui, posted, shown, shownReady, target, unchecked, logged, dropped>>

ConsumerPosts ==
  /\ inHand # << >>
  /\ posted' = posted \o inHand
  /\ inHand' = << >>
  /\ UNCHANGED <<pvars, ui, shown, shownReady, target, unchecked, logged, dropped>>

\* The closure of consumePollerEvents: addEvent, refreshDevices.
\* Mutant: the closure logs the event only, as handleDeviceChange does.
HandlePostedLogOnly ==
  /\ ui = "running"
  /\ posted # << >>
  /\ posted' = Tail(posted)
  /\ AddEvent(Head(posted))
  /\ UNCHANGED <<pvars, ui, inHand, shown, shownReady, target, unchecked, dropped>>

HandlePosted ==
  /\ ui = "running"
  /\ posted # << >>
  /\ posted' = Tail(posted)
  /\ AddEvent(Head(posted))
  /\ RefreshDevices
  /\ UNCHANGED <<pvars, ui, inHand, target, unchecked, dropped>>

\* WM_DEVICECHANGE, and WM_POWERBROADCAST on wake: an event without a device
\* is logged and the poller is asked for a scan; the list is not refreshed.
SystemMessage ==
  /\ ui = "running"
  /\ RefreshNow
  /\ UNCHANGED uivars

ApplyTargetFilter ==
  /\ ui = "running"
  /\ target' \in Targets \ {target}
  /\ RefreshDevices
  /\ UNCHANGED <<pvars, ui, inHand, posted, unchecked, logged, dropped>>

\* The Refresh button: OnClicked is refreshDevices, and asks for no scan.
RefreshButton ==
  /\ ui = "running"
  /\ RefreshDevices
  /\ UNCHANGED <<pvars, ui, inHand, posted, target, unchecked, logged, dropped>>

\* A click on the check box of a row, which refreshes nothing.
ClickCheckBox ==
  /\ Clicks /\ ui = "running"
  /\ Visible(shown, target) # {}
  /\ unchecked' = ~unchecked
  /\ UNCHANGED <<pvars, ui, inHand, posted, shown, shownReady, target, logged, dropped>>

Next ==
  \/ PollerRuns \/ MachineChanges
  \/ ConsumerReceives \/ ConsumerPosts
  \/ UIStarts \/ HandlePosted \/ SystemMessage
  \/ ApplyTargetFilter \/ RefreshButton \/ ClickCheckBox

Spec == Init /\ [][Next]_vars

\* Every goroutine runs on; the message loop handles what is posted to it.
Fairness ==
  /\ WF_vars(PollerRuns)
  /\ WF_vars(ConsumerReceives) /\ WF_vars(ConsumerPosts)
  /\ WF_vars(UIStarts) /\ WF_vars(HandlePosted)

FairSpec == Spec /\ Fairness

-----------------------------------------------------------------------------
TypeOK ==
  /\ PollerTypeOK
  /\ ui \in {"starting", "running"}
  /\ inHand \in Seq(Events) /\ posted \in Seq(Events)
  /\ IsMap(shown, Snapshots) /\ shownReady \in BOOLEAN
  /\ target \in Targets /\ unchecked \in BOOLEAN
  /\ logged \in [Ids -> Knowledge] /\ dropped \in BOOLEAN

\* An event is somewhere between the diff and the message loop.
InFlight ==
  \/ posted # << >> \/ inHand # << >> \/ events # << >>
  \/ pc = "send" /\ (pending # << >> \/ todo # {} \/ gone # {})

\* The COM name of a device has come, gone or changed since the list was filled.
\* No event says so (scan compares it for LastChanged only).
Renamed(id) ==
  id \in DOMAIN shown \cap DOMAIN devices /\ shown[id].com # devices[id].com

\* When the list the user sees has a row too many or too few, or one of which the
\* poller would report something, an event that will refresh it is on its way,
\* even when send dropped events; but a row that only a COM name brings or takes
\* away may be missed.
NoStuckRows ==
  (ui = "running" /\ shownReady /\ ~InFlight) =>
    LET seen == Visible(shown, target)
        due == Visible(devices, target)
    IN \A id \in Ids :
         /\ id \in seen \cap due => ChangeEvents(id, shown[id], devices[id]) = << >>
         /\ (id \in seen) # (id \in due) => Renamed(id)

\* Reader, channel, queue and message loop together are one flag: what is
\* published is noted before it can be seen, and the note is lost only to a
\* refresh, whatever send drops and however late a closure runs.
IsListing(f) == IsMap(f, Snapshots)

View == INSTANCE DeviceView WITH published <- devices, due <- InFlight

ViewSpec == View!Spec

Undelivered == posted \o inHand \o events

\* As long as send dropped nothing, a reader of the event log, and of what is
\* still to be logged, knows of every device whether it is present and its last
\* known D-state, unless addEvent has discarded the last event that told it.
LogExplainsDevices ==
  (~dropped /\ ready /\ pc # "send") =>
    \A id \in Ids :
      LET known == ReadOn(logged, Undelivered)[id]
      IN \/ known = "doubt"
         \/ IF id \in DOMAIN devices
            THEN known # "absent" /\ devices[id].power \in {known, "Unknown"}
            ELSE known = "absent"

\* Whether an event about the presence of a device is still to be handled.
Coming(type, id) ==
  \/ \E e \in ToSet(Tail(posted) \o inHand \o events \o pending) : e.type = type /\ e.id = id
  \/ type = "pnp_removal" /\ id \in gone
  \/ type = "pnp_arrival" /\ id \in todo \ DOMAIN prev

\* The list is never behind the event being logged: scan publishes before it
\* sends, so when an arrival (a removal) is handled the refreshed list has (has
\* not) the device, unless the opposite event is already on its way.
ListNotBehindEvent ==
  [][(HandlePosted /\ ~dropped) =>
       LET e == Head(posted)
       IN /\ e.type = "pnp_arrival" => e.id \in DOMAIN shown' \/ Coming("pnp_removal", e.id)
          /\ e.type = "pnp_removal" => e.id \notin DOMAIN shown' \/ Coming("pnp_arrival", e.id)]_vars

\* The devices of the machine that the list should show.
Connected ==
  {id \in DOMAIN attached \cap Ids :
     MatchesTarget(id, attached[id].com, Related(DOMAIN attached, id), target)}

\* What the user should see of the machine, as far as SetupAPI can tell and the
\* COM name that the list has of a device is its COM name.
RowsAgree ==
  LET rows == Rows(shown, target)
      known == {id \in DOMAIN shown : shown[id].com = attached[id].com}
  IN /\ DOMAIN shown = DOMAIN attached \cap Ids
     /\ DOMAIN rows \cap known = Connected \cap known
     /\ \A id \in DOMAIN rows :
          /\ attached[id].power \in {rows[id].power, "Unknown"}
          /\ attached[id].problem \in {rows[id].problem, NoProblem}
          /\ attached[id].status = rows[id].status

\* Once the devices stop changing the list shows them for good, provided the
\* list was filled after the baseline scan; drops do not matter.
RowsConverge == <>[](shownReady => RowsAgree)

\* README.md:17 "Lists currently connected USB devices", without those provisos.
ListsConnectedDevices == <>[](DOMAIN Rows(shown, target) = Connected)
=============================================================================
