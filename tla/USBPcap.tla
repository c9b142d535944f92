------------------------------ MODULE USBPcap -------------------------------
(***************************************************************************)
(* USBPcap captures as internal/ui/app_windows.go starts, follows and stops *)
(* them.  The user's Start and Stop run in the window's message loop.  Each *)
(* start has a goroutine of its own (startUSBPcapForDevice) that plans the  *)
(* capture, writes its metadata and starts USBPcapCMD.exe, and then another *)
(* one (waitUSBPcap) that waits for that process to end; both report to the *)
(* message loop by closures that run later, in the order they were posted   *)
(* (mw.Synchronize).  Only usbpcapStartID tells an old start from a new one.*)
(*                                                                          *)
(* Ids number starts and stops alike, as usbpcapStartID does; MaxID bounds  *)
(* them.  The interface and the device addresses are chosen by CapturePlan  *)
(* from what USBPcap lists while the goroutine plans, one of Buses.         *)
(***************************************************************************)
EXTENDS CapturePlan, SequencesExt

CONSTANTS
  Targets,   \* the devices the user may select for a capture
  NoTarget,
  Buses,     \* what the interfaces may list: rows with the facts about the target
  NoPlan,
  MaxID      \* bound on the number of starts and stops

\* DiscoverInterfaces and BuildPlan, when neither fails.
Plans ==
  {BuildPlan(lists) : lists \in {l \in UNION {Discovered(bus) : bus \in Buses} : ~Refuses(l)}}

ASSUME USBPcapAssumption ==
  /\ MaxID \in Nat /\ NoTarget \notin Targets
  /\ Buses \subseteq Seq(Seq(Rows)) /\ NoPlan \notin Plans

VARIABLES
  ui,        \* the message loop: running, closing (cleanup has run), exited
  startID,   \* usbpcapStartID
  starting,  \* usbpcapStarting
  running,   \* usbpcapRunning
  cmd,       \* usbpcapCmd: the start that launched it, 0 for nil
  target,    \* [id -> the device selected for that start]
  pc,        \* [id -> where the goroutine of that start is]
  plan,      \* [id -> what its goroutine planned, while that runs]
  process,   \* [id -> the USBPcapCMD.exe of that start]
  posted,    \* closures queued in the message loop
  metadata   \* the device described by the session's metadata file

flags == <<startID, starting, running, cmd>>
vars == <<ui, flags, target, pc, plan, process, posted, metadata>>

IDs == 1 .. MaxID
Closures == {"failed", "started", "ended"} \X IDs

Init ==
  /\ ui = "running"
  /\ startID = 0 /\ starting = FALSE /\ running = FALSE /\ cmd = 0
  /\ target = [id \in IDs |-> NoTarget]
  /\ pc = [id \in IDs |-> "none"]
  /\ plan = [id \in IDs |-> NoPlan]
  /\ process = [id \in IDs |-> "none"]
  /\ posted = << >>
  /\ metadata = NoTarget

-----------------------------------------------------------------------------
(* The message loop.                                                        *)

\* Process.Kill: without effect on nil and on a process that has ended.
Killed(id) ==
  [i \in IDs |-> IF i = id /\ process[i] = "alive" THEN "killed" ELSE process[i]]

\* startUSBPcap with a device selected; it does nothing while one is under way.
Start(t) ==
  /\ ui = "running"
  /\ ~starting /\ ~running
  /\ startID < MaxID
  /\ startID' = startID + 1
  /\ starting' = TRUE
  /\ target' = [target EXCEPT ![startID + 1] = t]
  /\ pc' = [pc EXCEPT ![startID + 1] = "plan"]
  /\ UNCHANGED <<ui, running, cmd, plan, process, posted, metadata>>

\* Mutant: usbpcapCmd is read after it has been set to nil.
StopForgetsFirst ==
  /\ startID < MaxID
  /\ startID' = startID + 1
  /\ starting' = FALSE /\ running' = FALSE /\ cmd' = 0
  /\ process' = Killed(cmd')

\* stopUSBPcapProcess: forgets the capture, whatever its state, and kills it.
StopProcess ==
  /\ startID < MaxID
  /\ startID' = startID + 1
  /\ starting' = FALSE /\ running' = FALSE /\ cmd' = 0
  /\ process' = Killed(cmd)

Stop ==
  /\ ui = "running"
  /\ StopProcess
  /\ UNCHANGED <<ui, target, pc, plan, posted, metadata>>

\* The message loop has ended and cleanup runs; posted closures are lost.
Cleanup ==
  /\ ui = "running"
  /\ StopProcess
  /\ ui' = "closing"
  /\ UNCHANGED <<target, pc, plan, posted, metadata>>

Exit ==
  /\ ui = "closing"
  /\ ui' = "exited"
  /\ UNCHANGED <<flags, target, pc, plan, process, posted, metadata>>

Takes(closure, id) ==
  /\ ui = "running"
  /\ posted # << >> /\ Head(posted) = <<closure, id>>
  /\ posted' = Tail(posted)
  /\ UNCHANGED <<ui, startID, target, pc, plan, metadata>>

\* Mutant: the closure does not compare the ids.
HandleFailedOfAny(id) ==
  /\ Takes("failed", id)
  /\ starting' = FALSE
  /\ UNCHANGED <<running, cmd, process>>

\* The closure of fail.
HandleFailed(id) ==
  /\ Takes("failed", id)
  /\ starting' = (starting /\ startID # id)
  /\ UNCHANGED <<running, cmd, process>>

\* Mutant: the closure of a start that was stopped leaves its process alone.
HandleStartedNoKill(id) ==
  /\ Takes("started", id)
  /\ IF startID = id /\ starting
     THEN starting' = FALSE /\ running' = TRUE /\ cmd' = id
     ELSE UNCHANGED <<starting, running, cmd>>
  /\ UNCHANGED process

\* The closure posted once the process has been started.
HandleStarted(id) ==
  /\ Takes("started", id)
  /\ IF startID = id /\ starting
     THEN /\ starting' = FALSE /\ running' = TRUE /\ cmd' = id
          /\ UNCHANGED process
     ELSE /\ process' = Killed(id)
          /\ UNCHANGED <<starting, running, cmd>>

\* The closure of waitUSBPcap.
HandleEnded(id) ==
  /\ Takes("ended", id)
  /\ IF cmd = id
     THEN starting' = FALSE /\ running' = FALSE /\ cmd' = 0
     ELSE UNCHANGED <<starting, running, cmd>>
  /\ UNCHANGED process

-----------------------------------------------------------------------------
(* The goroutines of a start: they run on until the program has exited.     *)

GoesTo(id, from, to) ==
  /\ ui # "exited"
  /\ pc[id] = from
  /\ pc' = [pc EXCEPT ![id] = to]
  /\ UNCHANGED <<ui, flags, target>>

\* The plan is forgotten with the goroutine's last step.
At(id, from, to) ==
  /\ GoesTo(id, from, to)
  /\ plan' = IF to = "done" THEN [plan EXCEPT ![id] = NoPlan] ELSE plan

Posts(closure, id) == posted' = Append(posted, <<closure, id>>)

\* No USBPcapCMD.exe, no interface, a plan refused, or the metadata cannot be
\* written; os.WriteFile may have truncated the file by then.
PlanFails(id) ==
  /\ At(id, "plan", "done")
  /\ Posts("failed", id)
  /\ metadata' \in {metadata, NoTarget}
  /\ UNCHANGED process

\* BuildPlan, then writeUSBPcapMetadata, whose path is the same for every start
\* of a session.
WriteMetadata(id) ==
  /\ GoesTo(id, "plan", "written")
  /\ \E p \in Plans : plan' = [plan EXCEPT ![id] = p]
  /\ metadata' = target[id]
  /\ UNCHANGED <<process, posted>>

\* usbpcapStartStillActive.
StillActive(id) == startID = id /\ starting

CheckActive(id) ==
  /\ At(id, "written", IF StillActive(id) THEN "spawn" ELSE "done")
  /\ UNCHANGED <<process, posted, metadata>>

\* cmd.Start.
Spawn(id) ==
  /\ At(id, "spawn", "spawned")
  /\ process' = [process EXCEPT ![id] = "alive"]
  /\ UNCHANGED <<posted, metadata>>

\* Mutant: cmd.Start fails and nobody is told.
SpawnFailsSilently(id) ==
  /\ At(id, "spawn", "done")
  /\ UNCHANGED <<process, posted, metadata>>

SpawnFails(id) ==
  /\ At(id, "spawn", "done")
  /\ Posts("failed", id)
  /\ UNCHANGED <<process, metadata>>

\* Mutants: the waiting goroutine is started first and may post first; the
\* closure does not know its start.
PostStartedLast(id) ==
  /\ At(id, "spawned", IF process[id] = "dead" THEN "done" ELSE "waiting")
  /\ posted' = posted \o IF process[id] = "dead" THEN << <<"ended", id>>, <<"started", id>> >>
                                                ELSE << <<"started", id>> >>
  /\ UNCHANGED <<process, metadata>>

PostStartedZero(id) ==
  /\ At(id, "spawned", "waiting")
  /\ Posts("started", 0)
  /\ UNCHANGED <<process, metadata>>

PostStarted(id) ==
  /\ At(id, "spawned", "waiting")
  /\ Posts("started", id)
  /\ UNCHANGED <<process, metadata>>

\* waitUSBPcap: cmd.Wait has returned.
PostEnded(id) ==
  /\ process[id] = "dead"
  /\ At(id, "waiting", "done")
  /\ Posts("ended", id)
  /\ UNCHANGED <<process, metadata>>

\* USBPcapCMD.exe ends, when killed or on its own.
ProcessEnds(id) ==
  /\ process[id] \in {"alive", "killed"}
  /\ process' = [process EXCEPT ![id] = "dead"]
  /\ UNCHANGED <<ui, flags, target, pc, plan, posted, metadata>>

Goroutine(id) ==
  \/ PlanFails(id) \/ WriteMetadata(id) \/ CheckActive(id)
  \/ Spawn(id) \/ SpawnFails(id) \/ PostStarted(id) \/ PostEnded(id)

HandlePosted(id) == HandleFailed(id) \/ HandleStarted(id) \/ HandleEnded(id)

Next ==
  \/ \E t \in Targets : Start(t)
  \/ Stop \/ Cleanup \/ Exit
  \/ \E id \in IDs : Goroutine(id) \/ HandlePosted(id) \/ ProcessEnds(id)

Spec == Init /\ [][Next]_vars

\* The goroutines and the message loop run on (USBPcapCMD.exe is given five
\* seconds to answer a query), and a killed process ends.
Fairness ==
  \A id \in IDs :
    /\ WF_vars(Goroutine(id))
    /\ WF_vars(HandlePosted(id))
    /\ WF_vars(process[id] = "killed" /\ ProcessEnds(id))

FairSpec == Spec /\ Fairness

-----------------------------------------------------------------------------
TypeOK ==
  /\ ui \in {"running", "closing", "exited"}
  /\ startID \in 0 .. MaxID /\ cmd \in 0 .. MaxID
  /\ starting \in BOOLEAN /\ running \in BOOLEAN
  /\ target \in [IDs -> Targets \cup {NoTarget}]
  /\ pc \in [IDs -> {"none", "plan", "written", "spawn", "spawned", "waiting", "done"}]
  /\ plan \in [IDs -> Plans \cup {NoPlan}]
  /\ \A id \in IDs : plan[id] # NoPlan <=> pc[id] \in {"written", "spawn", "spawned", "waiting"}
  /\ process \in [IDs -> {"none", "alive", "killed", "dead"}]
  /\ posted \in Seq(Closures)
  /\ metadata \in Targets \cup {NoTarget}

Queued(closure, id) == \E i \in DOMAIN posted : posted[i] = <<closure, id>>

\* The start has neither failed nor been announced in the message loop.
Undecided(id) ==
  \/ pc[id] \in {"plan", "written", "spawn", "spawned"}
  \/ Queued("failed", id) \/ Queued("started", id)

\* Start is refused while usbpcapStarting is set, so it must be set exactly as
\* long as the latest start is undecided: a flag left set would refuse every
\* later start, one cleared by an older start's closure would abort this one.
StartingIsBacked == starting <=> startID \in IDs /\ Undecided(startID)

\* No capture is lost track of: a process that nobody has killed is the one
\* Stop and cleanup will kill, or a closure is to come that adopts or kills it.
CaptureIsTracked ==
  \A id \in IDs :
    process[id] = "alive" =>
      \/ running /\ cmd = id
      \/ pc[id] = "spawned" \/ Queued("started", id)

\* The capture shown as running has a process, or the closure that will say it
\* ended is to come and will be handled after the one that said it started.
RunningIsReal ==
  /\ running <=> cmd # 0
  /\ running =>
       /\ ~Queued("started", cmd)
       /\ pc[cmd] = "waiting" \/ Queued("ended", cmd)

\* README.md:108: a capture is restricted to addresses that the chosen interface
\* lists with evidence for the target, or it takes all devices of the only
\* interface there is; between several the Root Hub is never guessed.
CaptureIsJustified ==
  \A id \in IDs :
    process[id] \in {"alive", "killed"} =>
      /\ plan[id] # NoPlan
      /\ LET chosen == plan[id].lists[plan[id].interface]
         IN IF plan[id].addresses = {}
            THEN Len(plan[id].lists) = 1
            ELSE \A a \in plan[id].addresses :
                   \E r \in DOMAIN chosen : chosen[r].address = a /\ chosen[r].evidence # {}

\* As long as the window is open a start is decided, ...
StartIsDecided == starting ~> (~starting \/ ui # "running")

\* ... a capture whose process has ended is no longer shown as running, ...
EndIsNoticed ==
  \A id \in IDs :
    (cmd = id /\ process[id] = "dead") ~> (cmd # id \/ ui # "running")

\* ... and the process of a start that was stopped does not survive.
StoppedCaptureDies ==
  \A id \in IDs :
    (process[id] = "alive" /\ startID # id) ~> (process[id] = "dead" \/ ui # "running")

\* README.md:27 "Captures are saved under the app log folder with a companion
\* metadata JSON file": a file that was written whole describes the device of
\* the capture that is running.
MetadataDescribesCapture ==
  running /\ metadata # NoTarget => metadata = target[cmd]

\* A row that shows the target's own COM port or serial number.
ShowsTarget(row) == row.address # 0 /\ row.evidence \cap {"com", "serial"} # {}

\* README.md:9 "a .pcapng capture for the selected device's USBPcap device
\* address when it can be matched": when a list shows the target, the capture
\* includes its address.
CaptureIsOfTarget ==
  running /\ plan[cmd] # NoPlan =>
    LET lists == plan[cmd].lists
    IN (\E i \in DOMAIN lists : \E r \in DOMAIN lists[i] : ShowsTarget(lists[i][r])) =>
         \E r \in DOMAIN lists[plan[cmd].interface] :
           LET row == lists[plan[cmd].interface][r]
           IN ShowsTarget(row) /\ row.address \in plan[cmd].addresses
=============================================================================
