----------------------------- MODULE ETWSession -----------------------------
(***************************************************************************)
(* ETW sessions: the GUI (internal/ui/app_windows.go) starts an elevated    *)
(* helper process (internal/etwhelper/helper_windows.go), and from then on  *)
(* they share only files.  The helper appends lines to a log, of one file a *)
(* day; a goroutine of the GUI (tailETWLog) polls the log from an offset    *)
(* and posts what it finds to the message loop; the GUI ends the helper by  *)
(* creating a stop file, which the helper polls, and the helper also ends   *)
(* when its parent does.  Nothing says which session a line, a posted       *)
(* closure or the stop file belongs to.                                     *)
(*                                                                          *)
(* A line is appended and read whole.  The constants are bounds.            *)
(***************************************************************************)
EXTENDS Integers, SequencesExt

CONSTANTS
  MaxStarts, \* bound on the helpers that are started
  MaxLines,  \* bound on the lines of ETW events in the log
  MaxPosted  \* bound on the closures queued in the message loop

ASSUME ETWAssumption == {MaxStarts, MaxLines, MaxPosted} \subseteq Nat

VARIABLES
  ui,         \* the GUI: idle, asking (in StartProcess, UAC), exited
  starts,     \* number of helpers started; the latest session
  etwRunning, \* etwRunning; etwStopFile is set exactly when it is
  tailCancel, \* tailCancel: the tail it cancels, 0 for nil
  mark,       \* the size of the log when the start began
  posted,     \* closures in the message loop
  stopFile,   \* the stop file exists
  log,        \* lines of the helper log
  tail,       \* [session -> its tailETWLog goroutine]
  helper,     \* [session -> where its helper process is]
  watching    \* the helpers that hold a handle of the GUI process

guivars == <<ui, starts, etwRunning, tailCancel, mark>>
helpervars == <<log, helper, watching>>
vars == <<guivars, posted, stopFile, tail, helpervars>>

Sessions == 1 .. MaxStarts
Lines == {"startup", "info", "stopped", "failed"}

\* Mutant: an error does not end the session.
IsTerminalInfo(line) == line = "stopped"

\* isETWHelperStartupEvent, isTerminalETWHelperEvent: errors are both.
IsStartup(line) == line \in {"startup", "failed"}
IsTerminal(line) == line \in {"stopped", "failed"}

Tails ==
  [pc : {"none", "polling", "posted", "late", "done"}, cancelled : BOOLEAN,
   seen : BOOLEAN,                \* startupSeen
   from : Nat, offset : Nat]      \* the last batch is log[from + 1 .. offset]

NoTail == [pc |-> "none", cancelled |-> FALSE, seen |-> FALSE, from |-> 0, offset |-> 0]
Over == [NoTail EXCEPT !.pc = "done"]

Init ==
  /\ ui = "idle" /\ starts = 0 /\ etwRunning = FALSE /\ tailCancel = 0 /\ mark = 0
  /\ posted = << >> /\ stopFile \in BOOLEAN /\ log = << >>
  /\ tail = [s \in Sessions |-> NoTail]
  /\ helper = [s \in Sessions |-> "none"]
  /\ watching = {}

-----------------------------------------------------------------------------
(* The message loop.                                                        *)

\* Mutant: without a log file the offset is -1, an offset that Seek refuses.
StartAsksUnset ==
  /\ ui = "idle" /\ ~etwRunning /\ starts < MaxStarts
  /\ ui' = "asking"
  /\ stopFile' = FALSE
  /\ mark' = IF log = << >> THEN -1 ELSE Len(log)
  /\ UNCHANGED <<starts, etwRunning, tailCancel, posted, tail, helpervars>>

\* startETW up to StartProcess, which returns when the user has answered UAC;
\* the message loop is blocked meanwhile.
StartAsks ==
  /\ ui = "idle" /\ ~etwRunning /\ starts < MaxStarts
  /\ ui' = "asking"
  /\ stopFile' = FALSE
  /\ mark' = Len(log)
  /\ UNCHANGED <<starts, etwRunning, tailCancel, posted, tail, helpervars>>

StartRefused ==
  /\ ui = "asking"
  /\ ui' = "idle" /\ mark' = 0
  /\ UNCHANGED <<starts, etwRunning, tailCancel, posted, stopFile, tail, helpervars>>

StartLaunches ==
  /\ ui = "asking"
  /\ ui' = "idle"
  /\ starts' = starts + 1
  /\ etwRunning' = TRUE
  /\ tailCancel' = starts + 1
  /\ tail' = [tail EXCEPT ![starts + 1] =
                [NoTail EXCEPT !.pc = "polling", !.from = mark, !.offset = mark]]
  /\ helper' = [helper EXCEPT ![starts + 1] = "launched"]
  /\ UNCHANGED <<mark, posted, stopFile, log, watching>>

ClearETWRunning == etwRunning' = FALSE /\ tailCancel' = 0 /\ mark' = 0

\* The stop file is written if etwStopFile is set.
RequestStop ==
  /\ ClearETWRunning
  /\ stopFile' = (stopFile \/ etwRunning)

CancelTail ==
  tail' = [s \in Sessions |-> IF s = tailCancel THEN [tail[s] EXCEPT !.cancelled = TRUE]
                                               ELSE tail[s]]

\* stopETW, which cleanup calls as well.
Stop ==
  /\ ui = "idle" /\ etwRunning
  /\ RequestStop /\ CancelTail
  /\ UNCHANGED <<ui, starts, posted, helpervars>>

\* The memory of the GUI process is gone; its files stay.
Gone ==
  /\ ui' = "exited"
  /\ tail' = [s \in Sessions |-> Over]
  /\ posted' = << >>
  /\ UNCHANGED <<starts, helpervars>>

Exit ==
  /\ ui = "idle"
  /\ RequestStop
  /\ Gone

Crash ==
  /\ ui # "exited"
  /\ ClearETWRunning
  /\ Gone
  /\ UNCHANGED stopFile

Handles(kind) ==
  /\ ui = "idle"
  /\ posted # << >> /\ Head(posted).kind = kind
  /\ posted' = Tail(posted)
  /\ UNCHANGED <<ui, starts, helpervars>>

HasTerminal(from, to) == \E i \in from + 1 .. to : IsTerminal(log[i])
HasStartup(from, to) == \E i \in from + 1 .. to : IsStartup(log[i])

\* The closure of tailETWLog.
HandleLines ==
  /\ Handles("lines")
  /\ LET c == Head(posted)
     IN /\ tail' = [tail EXCEPT ![c.session].seen =
                       @ \/ (tail[c.session].pc # "done" /\ HasStartup(c.from, c.to))]
        /\ IF HasTerminal(c.from, c.to) THEN ClearETWRunning
                                        ELSE UNCHANGED <<etwRunning, tailCancel, mark>>
  /\ UNCHANGED stopFile

\* The closure of handleETWStartupTimeout: the tail is not cancelled.
HandleTimeout ==
  /\ Handles("timeout")
  /\ RequestStop
  /\ UNCHANGED tail

-----------------------------------------------------------------------------
(* tailETWLog.                                                              *)

TailAt(s, from) ==
  /\ ui # "exited"
  /\ tail[s].pc = from
  /\ UNCHANGED <<guivars, stopFile, helpervars>>

TailCancelled(s) ==
  /\ TailAt(s, "polling") /\ tail[s].cancelled
  /\ tail' = [tail EXCEPT ![s] = Over]
  /\ UNCHANGED posted

Posts(kind, s, from, to) ==
  /\ Len(posted) < MaxPosted
  /\ posted' = Append(posted, [kind |-> kind, session |-> s, from |-> from, to |-> to])

\* ReadEventsSince, and the closure it is posted with; select may prefer the
\* ticker to ctx.Done.
TailReads(s) ==
  /\ TailAt(s, "polling")
  /\ Len(log) > tail[s].offset
  /\ Posts("lines", s, tail[s].offset, Len(log))
  /\ tail' = [tail EXCEPT ![s].pc = "posted", ![s].from = tail[s].offset, ![s].offset = Len(log)]

\* The goroutine tests "terminal" right after posting the closure that may set
\* it: a data race, so it may end only if the closure has run, and may go on
\* in any case.
ClosureRan(s) == \A i \in DOMAIN posted : posted[i].session # s

TailReturns(s) ==
  /\ TailAt(s, "posted")
  /\ HasTerminal(tail[s].from, tail[s].offset) /\ ClosureRan(s)
  /\ tail' = [tail EXCEPT ![s] = Over]
  /\ UNCHANGED posted

TailGoesOn(s) ==
  /\ TailAt(s, "posted")
  /\ tail' = [tail EXCEPT ![s].pc = "polling", ![s].from = tail[s].offset]
  /\ UNCHANGED posted

\* Mutants: the test of startupSeen is inverted; the timeout is not reported.
TailTimesOutSeen(s) ==
  /\ TailAt(s, "polling")
  /\ Len(log) = tail[s].offset /\ tail[s].seen
  /\ tail' = [tail EXCEPT ![s].pc = "late"]
  /\ UNCHANGED posted

TailTimesOutSilently(s) ==
  /\ TailAt(s, "polling")
  /\ Len(log) = tail[s].offset /\ ~tail[s].seen
  /\ tail' = [tail EXCEPT ![s] = Over]
  /\ UNCHANGED posted

\* 45 seconds have passed, startupSeen is read as unset, nothing was read.
TailTimesOut(s) ==
  /\ TailAt(s, "polling")
  /\ Len(log) = tail[s].offset /\ ~tail[s].seen
  /\ tail' = [tail EXCEPT ![s].pc = "late"]
  /\ UNCHANGED posted

TailPostsTimeout(s) ==
  /\ TailAt(s, "late")
  /\ Posts("timeout", s, 0, 0)
  /\ tail' = [tail EXCEPT ![s] = Over]

-----------------------------------------------------------------------------
(* The helper process.                                                      *)

HelperAt(s, from, to) ==
  /\ helper[s] = from
  /\ helper' = [helper EXCEPT ![s] = to]
  /\ UNCHANGED <<guivars, posted, stopFile, tail>>

Logs(line) == log' = Append(log, line)

\* The log cannot be opened: exit code 2 and not a line.
HelperMute(s) ==
  /\ HelperAt(s, "launched", "mute")
  /\ UNCHANGED <<log, watching>>

\* openParentWatch fails when the parent has gone by then: the helper goes on.
HelperStarts(s) ==
  /\ HelperAt(s, "launched", "started")
  /\ IF ui = "exited" THEN log' = log \o <<"startup", "info">> /\ UNCHANGED watching
                      ELSE Logs("startup") /\ watching' = watching \cup {s}

\* startUSBSession and the consumer; the further startup lines are left out.
HelperRuns(s) ==
  /\ HelperAt(s, "started", "running")
  /\ UNCHANGED <<log, watching>>

HelperFails(s) ==
  /\ HelperAt(s, "started", "ended")
  /\ Logs("failed")
  /\ UNCHANGED watching

HelperLogsEvent(s) ==
  /\ HelperAt(s, "running", "running")
  /\ Cardinality({i \in DOMAIN log : log[i] = "info"}) < MaxLines
  /\ Logs("info")
  /\ UNCHANGED watching

\* Mutant: the parent is not watched.
HelperSeesStopFile(s) ==
  /\ stopFile
  /\ HelperAt(s, "running", "stopping")
  /\ UNCHANGED <<log, watching>>

\* A turn of the polling loop finds the parent gone or the stop file.
HelperSeesStop(s) ==
  /\ stopFile \/ (s \in watching /\ ui = "exited")
  /\ HelperAt(s, "running", "stopping")
  /\ UNCHANGED <<log, watching>>

HelperStops(s) ==
  /\ HelperAt(s, "stopping", "ended")
  /\ Logs("stopped")
  /\ UNCHANGED watching

-----------------------------------------------------------------------------
TailStep(s) ==
  \/ TailCancelled(s) \/ TailReads(s) \/ TailReturns(s) \/ TailGoesOn(s)
  \/ TailTimesOut(s) \/ TailPostsTimeout(s)

HelperStep(s) ==
  \/ HelperMute(s) \/ HelperStarts(s)
  \/ HelperRuns(s) \/ HelperFails(s) \/ HelperSeesStop(s) \/ HelperStops(s)

HandlePosted == HandleLines \/ HandleTimeout

Next ==
  \/ StartAsks \/ StartRefused \/ StartLaunches
  \/ Stop \/ Exit \/ Crash \/ HandlePosted
  \/ \E s \in Sessions : TailStep(s) \/ HelperStep(s) \/ HelperLogsEvent(s)

Spec == Init /\ [][Next]_vars

\* The tails, the message loop and the helpers run on.  Nobody has to answer
\* UAC, and no ETW event has to happen.
Fairness ==
  /\ WF_vars(HandlePosted)
  /\ \A s \in Sessions : WF_vars(TailStep(s)) /\ WF_vars(HelperStep(s))

FairSpec == Spec /\ Fairness

-----------------------------------------------------------------------------
TypeOK ==
  /\ ui \in {"idle", "asking", "exited"}
  /\ starts \in 0 .. MaxStarts /\ tailCancel \in 0 .. MaxStarts
  /\ etwRunning \in BOOLEAN /\ stopFile \in BOOLEAN /\ mark \in Nat
  /\ posted \in Seq([kind : {"lines", "timeout"}, session : Sessions, from : Nat, to : Nat])
  /\ log \in Seq(Lines)
  /\ tail \in [Sessions -> Tails]
  /\ helper \in [Sessions -> {"none", "launched", "mute", "started", "running",
                              "stopping", "ended"}]
  /\ watching \subseteq Sessions

\* What the message loop will do to etwRunning.
WillClear(c) == c.kind = "timeout" \/ HasTerminal(c.from, c.to)

\* A session shown as running is followed: its tail reads on and has not been
\* cancelled, or a closure that will clear etwRunning is queued.  Otherwise
\* Start would be refused with nobody left to notice the end.
RunningIsFollowed ==
  etwRunning =>
    \/ /\ tailCancel # 0
       /\ tail[tailCancel].pc \in {"polling", "posted", "late"}
       /\ ~tail[tailCancel].cancelled
    \/ \E i \in DOMAIN posted : WillClear(posted[i])

\* README.md:78 "If no helper log appears within 45 seconds, the GUI records a
\* retryable error so the app does not wait forever."
SilenceIsNoticed ==
  (etwRunning /\ ~HasStartup(mark, Len(log)))
    ~> (~etwRunning \/ HasStartup(mark, Len(log)))

\* As long as the GUI runs, the end of the latest helper is noticed (etwRunning
\* must be cleared before another one is started).
EndIsNoticed == (etwRunning /\ helper[starts] = "ended") ~> ~etwRunning

\* A helper does not outlive a GUI that it watches or that asked it to stop.
HelperEndsWithGUI ==
  (ui = "exited")
    ~> \A s \in Sessions : s \in watching \/ stopFile => helper[s] \in {"none", "mute", "ended"}

\* CHANGELOG.md:86 "Added parent-process monitoring to the elevated ETW helper
\* so an orphaned helper shuts down if the GUI exits unexpectedly."
OrphanShutsDown ==
  \A s \in Sessions : (ui = "exited") ~> helper[s] \in {"none", "mute", "ended"}
=============================================================================
