-------------------------- MODULE ETWSessionProofs --------------------------
(***************************************************************************)
(* A session that is shown as running is followed: a proof for any number   *)
(* of sessions, lines and queued closures.  The race of the tail with its   *)
(* own closure is harmless because a tail only returns when the closure     *)
(* that clears etwRunning has been queued, and closures are not lost.       *)
(***************************************************************************)
EXTENDS ETWSession, SequenceTheorems, TLAPS

\* The user is asked only while a session is left.
Asked == ui = "asking" => starts < MaxStarts

Cancellable == etwRunning => tailCancel # 0

\* Nothing is read that was not written.
Bounded ==
  /\ mark <= Len(log)
  /\ \A s \in Sessions : tail[s].from <= Len(log) /\ tail[s].offset <= Len(log)
  /\ \A i \in DOMAIN posted : posted[i].to <= Len(log)

\* While the session is shown as running, the closure with the end that its tail
\* has read is queued.
Delivered ==
  etwRunning /\ tail[tailCancel].pc = "posted"
      /\ HasTerminal(tail[tailCancel].from, tail[tailCancel].offset)
    => \E i \in DOMAIN posted : posted[i].session = tailCancel /\ WillClear(posted[i])

IInv == TypeOK /\ Asked /\ Cancellable /\ Bounded /\ Delivered /\ RunningIsFollowed

Closures == [kind : {"lines", "timeout"}, session : Sessions, from : Nat, to : Nat]

-----------------------------------------------------------------------------
\* What has been read stays what it was.
LEMMA Prefix ==
  ASSUME NEW from \in Nat, NEW to \in Nat, to <= Len(log), Len(log) \in Nat,
         \A i \in 1 .. Len(log) : log'[i] = log[i]
  PROVE  HasTerminal(from, to)' <=> HasTerminal(from, to)
<1>1. \A i \in from + 1 .. to : log'[i] = log[i]
  OBVIOUS
<1>2. QED BY <1>1 DEF HasTerminal

\* A record of the tails and of the closures.
LEMMA Records ==
  ASSUME TypeOK
  PROVE  /\ \A s \in Sessions : tail[s] \in Tails /\ tail[s].from \in Nat /\ tail[s].offset \in Nat
         /\ \A i \in DOMAIN posted : /\ posted[i] \in Closures /\ posted[i].session \in Sessions
                                     /\ posted[i].from \in Nat /\ posted[i].to \in Nat
         /\ posted \in Seq(Closures) /\ log \in Seq(Lines) /\ Len(log) \in Nat
<1>1. posted \in Seq(Closures) /\ log \in Seq(Lines) /\ Len(log) \in Nat
  BY DEF TypeOK, Closures
<1>2. \A i \in DOMAIN posted : posted[i] \in Closures
  BY <1>1
<1>3. \A s \in Sessions : tail[s] \in Tails
  BY DEF TypeOK
<1>4. QED BY <1>1, <1>2, <1>3 DEF Tails, Closures

\* Steps that only write lines to the log.
LEMMA LogGrows ==
  ASSUME IInv, UNCHANGED <<guivars, posted, stopFile, tail>>,
         log' \in Seq(Lines), Len(log') \in Nat, Len(log) <= Len(log'),
         \A i \in 1 .. Len(log) : log'[i] = log[i],
         helper' \in [Sessions -> {"none", "launched", "mute", "started", "running",
                                   "stopping", "ended"}],
         watching' \subseteq Sessions
  PROVE  IInv'
<1>1. UNCHANGED <<ui, starts, etwRunning, tailCancel, mark, posted, stopFile, tail>>
  BY DEF guivars
<1>2. TypeOK'
  BY <1>1 DEF IInv, TypeOK
<1>3. TypeOK
  BY DEF IInv
<1>4. Bounded'
  <2>1. mark \in Nat /\ Bounded
    BY <1>3 DEF IInv, TypeOK
  <2>2. mark' <= Len(log')
    BY <1>1, <1>3, <2>1, Records DEF Bounded
  <2>3. \A s \in Sessions : tail[s].from <= Len(log') /\ tail[s].offset <= Len(log')
    BY <1>3, <2>1, Records DEF Bounded
  <2>4. \A i \in DOMAIN posted : posted[i].to <= Len(log')
    BY <1>3, <2>1, Records DEF Bounded
  <2>5. QED BY <1>1, <2>2, <2>3, <2>4 DEF Bounded
<1>5. \A s \in Sessions :
        HasTerminal(tail[s].from, tail[s].offset)' <=> HasTerminal(tail[s].from, tail[s].offset)
  BY <1>1, <1>3, Records, Prefix DEF IInv, Bounded
<1>6. \A i \in DOMAIN posted : WillClear(posted[i])' <=> WillClear(posted[i])
  BY <1>1, <1>3, Records, Prefix DEF IInv, Bounded, WillClear
<1>7. Asked' /\ Cancellable'
  BY <1>1 DEF IInv, Asked, Cancellable
<1>8. etwRunning => tailCancel \in Sessions
  BY ETWAssumption DEF IInv, TypeOK, Cancellable, Sessions
<1>9. Delivered'
  BY <1>1, <1>5, <1>6, <1>8 DEF IInv, Delivered
<1>10. RunningIsFollowed'
  BY <1>1, <1>6 DEF IInv, RunningIsFollowed
<1>11. QED BY <1>2, <1>4, <1>7, <1>9, <1>10 DEF IInv

\* A step after which no session is shown as running.
LEMMA Ends ==
  ASSUME IInv, etwRunning' = FALSE, mark' = 0, TypeOK', Asked',
         log' = log,
         \A s \in Sessions : tail'[s].from <= Len(log) /\ tail'[s].offset <= Len(log),
         \A i \in DOMAIN posted' : posted'[i].to <= Len(log)
  PROVE  IInv'
<1>1. Cancellable' /\ Delivered' /\ RunningIsFollowed'
  BY Zenon DEF Cancellable, Delivered, RunningIsFollowed
<1>2. Bounded'
  BY Records DEF IInv, Bounded
<1>3. QED BY <1>1, <1>2 DEF IInv

\* A step of one tail, which queues closures and drops none.
LEMMA TailMoves ==
  ASSUME IInv, NEW s \in Sessions, UNCHANGED <<guivars, stopFile, helpervars>>,
         tail' \in [Sessions -> Tails],
         \A t \in Sessions : t # s => tail'[t] = tail[t],
         tail'[s].from <= Len(log), tail'[s].offset <= Len(log),
         posted' \in Seq(Closures),
         \A i \in DOMAIN posted : i \in DOMAIN posted' /\ posted'[i] = posted[i],
         \A i \in DOMAIN posted' : posted'[i].to <= Len(log),
         etwRunning /\ s = tailCancel /\ tail'[s].pc = "posted"
             /\ HasTerminal(tail'[s].from, tail'[s].offset)
           => \E i \in DOMAIN posted' : posted'[i].session = s /\ WillClear(posted'[i]),
         etwRunning /\ s = tailCancel
           => \/ tail'[s].pc \in {"polling", "posted", "late"} /\ ~tail'[s].cancelled
              \/ \E i \in DOMAIN posted' : WillClear(posted'[i])
  PROVE  IInv'
<1>1. UNCHANGED <<ui, starts, etwRunning, tailCancel, mark, stopFile, log, helper, watching>>
  BY DEF guivars, helpervars
<1>2. TypeOK'
  BY <1>1 DEF IInv, TypeOK, Closures
<1>3. Asked' /\ Cancellable'
  BY <1>1 DEF IInv, Asked, Cancellable
<1>4. Bounded'
  BY <1>1 DEF IInv, Bounded
<1>5. ASSUME NEW c PROVE WillClear(c)' <=> WillClear(c)
  BY <1>1 DEF WillClear, HasTerminal
<1>6. ASSUME NEW i \in DOMAIN posted, WillClear(posted[i])
      PROVE  /\ i \in DOMAIN posted' /\ posted'[i].session = posted[i].session
             /\ WillClear(posted[i])'
  BY <1>1, <1>6 DEF WillClear, HasTerminal
<1>7. Delivered'
  <2>1. CASE tailCancel = s
    BY <1>1, <2>1 DEF Delivered, WillClear, HasTerminal
  <2>2. CASE tailCancel # s /\ tailCancel \in Sessions
    BY <1>1, <2>2 DEF IInv, Delivered, WillClear, HasTerminal
  <2>3. tailCancel \in Sessions \/ ~etwRunning
    BY ETWAssumption DEF IInv, TypeOK, Cancellable, Sessions
  <2>4. QED BY <1>1, <2>1, <2>2, <2>3 DEF Delivered
<1>8. RunningIsFollowed'
  <2>1. CASE tailCancel = s
    <3>1. s # 0
      BY ETWAssumption DEF Sessions
    <3>2. \A i \in DOMAIN posted' : WillClear(posted'[i]) => (WillClear(posted[i]))'
      BY <1>1 DEF WillClear, HasTerminal
    <3>3. QED BY <1>1, <2>1, <3>1, <3>2 DEF RunningIsFollowed
  <2>2. CASE tailCancel # s /\ tailCancel \in Sessions
    BY <1>1, <2>2 DEF IInv, RunningIsFollowed, WillClear, HasTerminal
  <2>3. tailCancel \in Sessions \/ ~etwRunning
    BY ETWAssumption DEF IInv, TypeOK, Cancellable, Sessions
  <2>4. QED BY <1>1, <2>1, <2>2, <2>3 DEF RunningIsFollowed
<1>9. QED BY <1>2, <1>3, <1>4, <1>7, <1>8 DEF IInv

-----------------------------------------------------------------------------
(* The tail.                                                                *)

\* What a closure that a tail queues leaves of the others.
LEMMA Posting ==
  ASSUME posted \in Seq(Closures), NEW kind \in {"lines", "timeout"}, NEW s \in Sessions,
         NEW from \in Nat, NEW to \in Nat, Posts(kind, s, from, to)
  PROVE  /\ posted' \in Seq(Closures)
         /\ \A i \in DOMAIN posted : i \in DOMAIN posted' /\ posted'[i] = posted[i]
         /\ \A i \in DOMAIN posted' :
              i \in DOMAIN posted \/ (posted'[i].to = to /\ i = Len(posted) + 1)
         /\ Len(posted) + 1 \in DOMAIN posted'
         /\ posted'[Len(posted) + 1]
              = [kind |-> kind, session |-> s, from |-> from, to |-> to]
<1> DEFINE c == [kind |-> kind, session |-> s, from |-> from, to |-> to]
<1>1. c \in Closures /\ c.to = to
  BY DEF Closures
<1>2. posted' = Append(posted, c)
  BY DEF Posts
<1>3. Len(posted) \in Nat /\ DOMAIN posted = 1 .. Len(posted)
  BY LenProperties
<1>4. DOMAIN posted' = 1 .. Len(posted) + 1
  BY <1>1, <1>2, AppendProperties
<1>5. posted' \in Seq(Closures) /\ posted'[Len(posted) + 1] = c
  BY <1>1, <1>2, AppendProperties
<1>6. \A i \in 1 .. Len(posted) : posted'[i] = posted[i]
  BY <1>1, <1>2, AppendProperties
<1>7. QED BY <1>1, <1>3, <1>4, <1>5, <1>6

LEMMA TailPreserves ==
  ASSUME IInv, NEW s \in Sessions, TailStep(s)
  PROVE  IInv'
<1>1. /\ tail \in [Sessions -> Tails] /\ tail[s] \in Tails
      /\ tail[s].from \in Nat /\ tail[s].offset \in Nat
      /\ posted \in Seq(Closures) /\ Len(log) \in Nat
  BY Records DEF IInv, TypeOK
<1>2. /\ tail[s].from <= Len(log) /\ tail[s].offset <= Len(log)
      /\ \A i \in DOMAIN posted : posted[i].to <= Len(log)
  BY DEF IInv, Bounded
<1>3. Over \in Tails /\ Over.from = 0 /\ Over.offset = 0 /\ Over.pc = "done"
  BY DEF Over, NoTail, Tails
<1>4. CASE TailCancelled(s)
  <2>1. tail' = [tail EXCEPT ![s] = Over] /\ UNCHANGED <<guivars, posted, stopFile, helpervars>>
        /\ tail[s].cancelled
    BY <1>4 DEF TailCancelled, TailAt
  <2>2. etwRunning /\ s = tailCancel => \E i \in DOMAIN posted : WillClear(posted[i])
    BY <2>1 DEF IInv, RunningIsFollowed
  <2>3. QED BY <1>1, <1>2, <1>3, <2>1, <2>2, TailMoves
<1>5. CASE TailReads(s)
  <2>1. /\ tail' = [tail EXCEPT ![s].pc = "posted", ![s].from = tail[s].offset,
                              ![s].offset = Len(log)]
        /\ UNCHANGED <<guivars, stopFile, helpervars>>
        /\ tail[s].pc = "polling"
        /\ Posts("lines", s, tail[s].offset, Len(log))
    BY <1>5 DEF TailReads, TailAt
  <2>2. /\ tail' \in [Sessions -> Tails] /\ tail'[s].pc = "posted"
        /\ tail'[s].from = tail[s].offset /\ tail'[s].offset = Len(log)
        /\ tail'[s].cancelled = tail[s].cancelled
        /\ \A t \in Sessions : t # s => tail'[t] = tail[t]
    BY <1>1, <2>1 DEF Tails
  <2>3. /\ posted' \in Seq(Closures)
        /\ \A i \in DOMAIN posted : i \in DOMAIN posted' /\ posted'[i] = posted[i]
        /\ \A i \in DOMAIN posted' : posted'[i].to <= Len(log)
        /\ Len(posted) + 1 \in DOMAIN posted'
        /\ posted'[Len(posted) + 1]
             = [kind |-> "lines", session |-> s, from |-> tail[s].offset, to |-> Len(log)]
    BY <1>1, <1>2, <2>1, Posting
  <2>4. HasTerminal(tail'[s].from, tail'[s].offset)
          => \E i \in DOMAIN posted' : posted'[i].session = s /\ WillClear(posted'[i])
    BY <2>2, <2>3 DEF WillClear
  <2>5. etwRunning /\ s = tailCancel
          => \/ tail'[s].pc \in {"polling", "posted", "late"} /\ ~tail'[s].cancelled
             \/ \E i \in DOMAIN posted' : WillClear(posted'[i])
    <3>1. CASE tail[s].cancelled /\ etwRunning /\ s = tailCancel
      <4>1. PICK i \in DOMAIN posted : WillClear(posted[i])
        BY <3>1 DEF IInv, RunningIsFollowed
      <4>2. i \in DOMAIN posted' /\ posted'[i] = posted[i]
        BY <2>3
      <4>3. QED BY <4>1, <4>2
    <3>2. QED BY <2>2, <3>1
  <2>6. tail'[s].from <= Len(log) /\ tail'[s].offset <= Len(log)
    BY <1>1, <1>2, <2>2
  <2>7. QED BY <2>1, <2>2, <2>3, <2>4, <2>5, <2>6, TailMoves
<1>6. CASE TailReturns(s)
  <2>1. /\ tail' = [tail EXCEPT ![s] = Over] /\ UNCHANGED <<guivars, posted, stopFile, helpervars>>
        /\ tail[s].pc = "posted" /\ HasTerminal(tail[s].from, tail[s].offset)
        /\ \A i \in DOMAIN posted : posted[i].session # s
    BY <1>6 DEF TailReturns, TailAt, ClosureRan
  <2>2. ~(etwRunning /\ s = tailCancel)
    BY <2>1 DEF IInv, Delivered
  <2>3. QED BY <1>1, <1>2, <1>3, <2>1, <2>2, TailMoves
<1>7. CASE TailGoesOn(s)
  <2>1. /\ tail' = [tail EXCEPT ![s].pc = "polling", ![s].from = tail[s].offset]
        /\ UNCHANGED <<guivars, posted, stopFile, helpervars>> /\ tail[s].pc = "posted"
    BY <1>7 DEF TailGoesOn, TailAt
  <2>2. /\ tail' \in [Sessions -> Tails] /\ tail'[s].pc = "polling"
        /\ tail'[s].from = tail[s].offset /\ tail'[s].offset = tail[s].offset
        /\ tail'[s].cancelled = tail[s].cancelled
        /\ \A t \in Sessions : t # s => tail'[t] = tail[t]
    BY <1>1, <2>1 DEF Tails
  <2>3. etwRunning /\ s = tailCancel
          => \/ ~tail[s].cancelled \/ \E i \in DOMAIN posted : WillClear(posted[i])
    BY DEF IInv, RunningIsFollowed
  <2>4. QED BY <1>1, <1>2, <2>1, <2>2, <2>3, TailMoves
<1>8. CASE TailTimesOut(s)
  <2>1. /\ tail' = [tail EXCEPT ![s].pc = "late"]
        /\ UNCHANGED <<guivars, posted, stopFile, helpervars>> /\ tail[s].pc = "polling"
    BY <1>8 DEF TailTimesOut, TailAt
  <2>2. /\ tail' \in [Sessions -> Tails] /\ tail'[s].pc = "late"
        /\ tail'[s].from = tail[s].from /\ tail'[s].offset = tail[s].offset
        /\ tail'[s].cancelled = tail[s].cancelled
        /\ \A t \in Sessions : t # s => tail'[t] = tail[t]
    BY <1>1, <2>1 DEF Tails
  <2>3. etwRunning /\ s = tailCancel
          => \/ ~tail[s].cancelled \/ \E i \in DOMAIN posted : WillClear(posted[i])
    BY DEF IInv, RunningIsFollowed
  <2>4. QED BY <1>1, <1>2, <2>1, <2>2, <2>3, TailMoves
<1>9. CASE TailPostsTimeout(s)
  <2>1. /\ tail' = [tail EXCEPT ![s] = Over] /\ UNCHANGED <<guivars, stopFile, helpervars>>
        /\ Posts("timeout", s, 0, 0)
    BY <1>9 DEF TailPostsTimeout, TailAt
  <2>. DEFINE c == [kind |-> "timeout", session |-> s, from |-> 0, to |-> 0]
  <2>0. /\ posted' \in Seq(Closures)
        /\ \A i \in DOMAIN posted : i \in DOMAIN posted' /\ posted'[i] = posted[i]
        /\ \A i \in DOMAIN posted' : i \in DOMAIN posted \/ posted'[i].to = 0
        /\ Len(posted) + 1 \in DOMAIN posted'
        /\ posted'[Len(posted) + 1] = c
    BY <1>1, <2>1, Posting
  <2>2. /\ \A i \in DOMAIN posted' : posted'[i].to <= Len(log)
        /\ posted'[Len(posted) + 1].kind = "timeout"
    BY <1>1, <1>2, <2>0
  <2>3. \E i \in DOMAIN posted' : WillClear(posted'[i])
    BY <2>0, <2>2 DEF WillClear
  <2>4. /\ tail' \in [Sessions -> Tails] /\ tail'[s] = Over
        /\ \A t \in Sessions : t # s => tail'[t] = tail[t]
    BY <1>1, <1>3, <2>1
  <2>5. tail'[s].pc # "posted" /\ tail'[s].from <= Len(log) /\ tail'[s].offset <= Len(log)
    BY <1>1, <1>3, <2>4
  <2>6. QED BY <2>0, <2>1, <2>2, <2>3, <2>4, <2>5, TailMoves
<1>10. QED BY <1>4, <1>5, <1>6, <1>7, <1>8, <1>9 DEF TailStep

-----------------------------------------------------------------------------
(* The helper.                                                              *)

LEMMA HelperPreserves ==
  ASSUME IInv, NEW s \in Sessions, HelperStep(s) \/ HelperLogsEvent(s)
  PROVE  IInv'
<1>1. log \in Seq(Lines) /\ Len(log) \in Nat /\ watching \subseteq Sessions
      /\ helper \in [Sessions -> {"none", "launched", "mute", "started", "running",
                                  "stopping", "ended"}]
  BY Records DEF IInv, TypeOK
<1> DEFINE Extends(l) == l \in Seq(Lines) /\ Len(l) \in Nat /\ Len(log) <= Len(l)
                         /\ \A i \in 1 .. Len(log) : l[i] = log[i]
<1>2. Extends(log)
  BY <1>1
<1>3. ASSUME NEW line \in Lines PROVE Extends(Append(log, line))
  BY <1>1, AppendProperties
<1>4. Extends(log \o <<"startup", "info">>)
  <2>1. <<"startup", "info">> \in Seq(Lines) /\ Len(<<"startup", "info">>) = 2
    BY DEF Lines
  <2>2. QED BY <1>1, <2>1, ConcatProperties
<1>5. Extends(log')
  BY <1>2, <1>3, <1>4
     DEF HelperStep, HelperMute, HelperStarts, HelperRuns, HelperFails, HelperLogsEvent,
         HelperSeesStop, HelperStops, Logs, Lines
<1>6. watching' \subseteq Sessions
  BY <1>1 DEF HelperStep, HelperMute, HelperStarts, HelperRuns, HelperFails, HelperLogsEvent,
              HelperSeesStop, HelperStops
<1>7. UNCHANGED <<guivars, posted, stopFile, tail>>
  BY DEF HelperStep, HelperMute, HelperStarts, HelperRuns, HelperFails, HelperLogsEvent,
         HelperSeesStop, HelperStops, HelperAt
<1>8. \E to \in {"mute", "started", "running", "stopping", "ended"} :
        helper' = [helper EXCEPT ![s] = to]
  BY DEF HelperStep, HelperMute, HelperStarts, HelperRuns, HelperFails, HelperLogsEvent,
         HelperSeesStop, HelperStops, HelperAt
<1>9. helper' \in [Sessions -> {"none", "launched", "mute", "started", "running",
                               "stopping", "ended"}]
  BY <1>1, <1>8
<1>10. QED BY <1>5, <1>6, <1>7, <1>9, LogGrows

-----------------------------------------------------------------------------
(* The message loop.                                                        *)

LEMMA Starts ==
  Init => IInv
<1> SUFFICES ASSUME Init PROVE IInv
  OBVIOUS
<1>1. TypeOK
  <2>1. NoTail \in Tails
    BY DEF NoTail, Tails
  <2>2. 0 \in 0 .. MaxStarts /\ 0 \in Nat
    BY ETWAssumption
  <2>3. etwRunning \in BOOLEAN /\ stopFile \in BOOLEAN
    BY Zenon DEF Init
  <2>4. << >> \in Seq(Closures) /\ << >> \in Seq(Lines)
    BY EmptySeq
  <2>5. QED BY <2>1, <2>2, <2>3, <2>4, Zenon DEF Init, TypeOK, Closures
<1>2. Asked /\ Cancellable /\ Delivered /\ RunningIsFollowed
  BY DEF Init, Asked, Cancellable, Delivered, RunningIsFollowed
<1>3. Bounded
  BY DEF Init, Bounded, NoTail
<1>4. QED BY <1>1, <1>2, <1>3 DEF IInv

\* Stop, Exit and Crash leave no session running.
LEMMA EndingPreserves ==
  ASSUME IInv, Stop \/ Exit \/ Crash
  PROVE  IInv'
<1>1. TypeOK /\ Bounded /\ Len(log) \in Nat
  BY Records DEF IInv
<1>2. Over \in Tails /\ Over.from = 0 /\ Over.offset = 0
  BY DEF Over, NoTail, Tails
<1>3. etwRunning' = FALSE /\ log' = log /\ stopFile' \in BOOLEAN /\ tailCancel' = 0 /\ mark' = 0
      /\ starts' = starts /\ UNCHANGED <<helper, watching>>
  BY <1>1, Zenon DEF Stop, Exit, Crash, RequestStop, ClearETWRunning, Gone, helpervars, TypeOK
<1>4. ui' \in {"idle", "exited"}
  BY DEF Stop, Exit, Crash, Gone
<1>5. /\ tail' \in [Sessions -> Tails]
      /\ \A s \in Sessions : tail'[s].from <= Len(log) /\ tail'[s].offset <= Len(log)
  <2>1. CASE Stop
    <3>1. \A s \in Sessions :
            /\ [tail[s] EXCEPT !.cancelled = TRUE] \in Tails
            /\ [tail[s] EXCEPT !.cancelled = TRUE].from = tail[s].from
            /\ [tail[s] EXCEPT !.cancelled = TRUE].offset = tail[s].offset
      BY <1>1, Records DEF Tails
    <3>2. QED BY <1>1, <2>1, <3>1, Records DEF Stop, CancelTail, Bounded
  <2>2. CASE Exit \/ Crash
    BY <1>1, <1>2, <2>2 DEF Exit, Crash, Gone
  <2>3. QED BY <2>1, <2>2
<1>6. posted' = posted \/ posted' = << >>
  BY DEF Stop, Exit, Crash, Gone
<1>7. posted' \in Seq(Closures) /\ \A i \in DOMAIN posted' : posted'[i].to <= Len(log)
  <2>1. posted \in Seq(Closures) /\ << >> \in Seq(Closures) /\ DOMAIN << >> = {}
    BY <1>1, Records, EmptySeq
  <2>2. \A i \in DOMAIN posted : posted[i].to <= Len(log)
    BY <1>1 DEF Bounded
  <2>3. CASE posted' = posted
    BY <2>1, <2>2, <2>3
  <2>4. CASE posted' = << >>
    BY <2>1, <2>4
  <2>5. QED BY <1>6, <2>3, <2>4
<1>8. TypeOK'
  <2>1. ui' \in {"idle", "asking", "exited"} /\ starts' \in 0 .. MaxStarts
        /\ tailCancel' \in 0 .. MaxStarts /\ mark' \in Nat
    BY <1>1, <1>3, <1>4, ETWAssumption DEF TypeOK
  <2>2. etwRunning' \in BOOLEAN /\ stopFile' \in BOOLEAN
    BY <1>3, Zenon
  <2>3. /\ log' \in Seq(Lines) /\ watching' \subseteq Sessions
        /\ helper' \in [Sessions -> {"none", "launched", "mute", "started", "running",
                                     "stopping", "ended"}]
    BY <1>1, <1>3 DEF TypeOK
  <2>4. QED BY <1>5, <1>7, <2>1, <2>2, <2>3, Zenon DEF TypeOK, Closures
<1>9. Asked'
  BY <1>4 DEF Asked
<1>10. QED BY <1>3, <1>5, <1>7, <1>8, <1>9, Ends

\* What a closure that is run leaves in the queue.
LEMMA Running ==
  ASSUME posted \in Seq(Closures), posted # << >>, posted' = Tail(posted)
  PROVE  /\ posted' \in Seq(Closures) /\ Head(posted) \in Closures /\ 1 \in DOMAIN posted
         /\ Head(posted) = posted[1]
         /\ \A i \in DOMAIN posted' : i + 1 \in DOMAIN posted /\ posted'[i] = posted[i + 1]
         /\ \A i \in DOMAIN posted : i # 1 => i - 1 \in DOMAIN posted' /\ posted'[i - 1] = posted[i]
<1>1. Len(posted) \in Nat /\ Len(posted) # 0 /\ DOMAIN posted = 1 .. Len(posted)
  BY EmptySeq, LenProperties
<1>2. /\ Head(posted) \in Closures /\ Head(posted) = posted[1] /\ posted' \in Seq(Closures)
      /\ Len(posted') = Len(posted) - 1
      /\ \A i \in 1 .. Len(posted') : posted'[i] = posted[i + 1]
  BY <1>1, HeadTailProperties
<1>3. DOMAIN posted' = 1 .. Len(posted) - 1
  BY <1>1, <1>2, LenProperties
<1>4. QED BY <1>1, <1>2, <1>3

LEMMA LinesPreserve ==
  ASSUME IInv, HandleLines
  PROVE  IInv'
<1> DEFINE c == Head(posted)
<1>1. TypeOK /\ Bounded /\ Len(log) \in Nat /\ tail \in [Sessions -> Tails]
      /\ posted \in Seq(Closures)
  BY Records DEF IInv, TypeOK
<1>2. /\ posted # << >> /\ c.kind = "lines" /\ posted' = Tail(posted)
      /\ UNCHANGED <<ui, starts, log, helper, watching, stopFile>>
  BY DEF HandleLines, Handles, helpervars
<1>3. /\ posted' \in Seq(Closures) /\ c \in Closures /\ 1 \in DOMAIN posted /\ c = posted[1]
      /\ \A i \in DOMAIN posted' : i + 1 \in DOMAIN posted /\ posted'[i] = posted[i + 1]
      /\ \A i \in DOMAIN posted : i # 1 => i - 1 \in DOMAIN posted' /\ posted'[i - 1] = posted[i]
  BY <1>1, <1>2, Running
<1>4. /\ tail' \in [Sessions -> Tails]
      /\ \A s \in Sessions : /\ tail'[s].pc = tail[s].pc /\ tail'[s].cancelled = tail[s].cancelled
                             /\ tail'[s].from = tail[s].from /\ tail'[s].offset = tail[s].offset
  <2> DEFINE seen == tail[c.session].seen
                       \/ (tail[c.session].pc # "done" /\ HasStartup(c.from, c.to))
  <2>1. tail' = [tail EXCEPT ![c.session].seen = seen]
    BY DEF HandleLines
  <2>2. seen \in BOOLEAN
    OBVIOUS
  <2>3. c.session \in Sessions
    BY <1>3 DEF Closures
  <2>4. HIDE DEF seen
  <2>5. QED BY <1>1, <2>1, <2>2, <2>3 DEF Tails
<1>5. \A s \in Sessions : tail'[s].from <= Len(log) /\ tail'[s].offset <= Len(log)
  BY <1>1, <1>4 DEF Bounded
<1>6. \A i \in DOMAIN posted' : posted'[i].to <= Len(log)
  BY <1>1, <1>3 DEF Bounded
<1>7. \/ ClearETWRunning
      \/ ~HasTerminal(c.from, c.to) /\ UNCHANGED <<etwRunning, tailCancel, mark>>
  BY DEF HandleLines
<1>8. TypeOK'
  <2>1. tailCancel' \in 0 .. MaxStarts /\ mark' \in Nat
    BY <1>1, <1>7, ETWAssumption DEF TypeOK, ClearETWRunning
  <2>2. etwRunning' \in BOOLEAN /\ stopFile' \in BOOLEAN
    BY <1>1, <1>2, <1>7, Zenon DEF TypeOK, ClearETWRunning
  <2>3. QED BY <1>1, <1>2, <1>3, <1>4, <2>1, <2>2, Zenon DEF TypeOK, Closures
<1>9. Asked'
  BY <1>2 DEF IInv, Asked
<1>10. CASE ClearETWRunning
  BY <1>2, <1>5, <1>6, <1>8, <1>9, <1>10, Ends DEF ClearETWRunning
<1>11. CASE ~HasTerminal(c.from, c.to) /\ UNCHANGED <<etwRunning, tailCancel, mark>>
  <2>1. ~WillClear(posted[1])
    BY <1>2, <1>3, <1>11 DEF WillClear
  <2>2. \A i \in DOMAIN posted : WillClear(posted[i])
           => \E j \in DOMAIN posted' : posted'[j] = posted[i] /\ WillClear(posted'[j])
    <3>1. SUFFICES ASSUME NEW i \in DOMAIN posted, WillClear(posted[i])
                   PROVE  \E j \in DOMAIN posted' : posted'[j] = posted[i] /\ WillClear(posted'[j])
      OBVIOUS
    <3>2. i - 1 \in DOMAIN posted' /\ posted'[i - 1] = posted[i]
      BY <1>3, <2>1, <3>1
    <3>3. QED BY <3>1, <3>2
  <2>3. UNCHANGED <<etwRunning, tailCancel, mark, log>> /\ (etwRunning => tailCancel \in Sessions)
    BY <1>1, <1>2, <1>11, ETWAssumption DEF IInv, TypeOK, Cancellable, Sessions
  <2>4. Cancellable'
    BY <2>3 DEF IInv, Cancellable
  <2>5. (\E j \in DOMAIN posted' : WillClear(posted'[j]))
          => (\E j \in DOMAIN posted : WillClear(posted[j]))'
    BY <2>3 DEF WillClear, HasTerminal
  <2>6. ASSUME NEW s \in Sessions, \E j \in DOMAIN posted' : posted'[j].session = s /\ WillClear(posted'[j])
        PROVE  (\E j \in DOMAIN posted : posted[j].session = s /\ WillClear(posted[j]))'
    BY <2>3, <2>6 DEF WillClear, HasTerminal
  <2>7. Delivered'
    <3>1. SUFFICES ASSUME etwRunning, tail'[tailCancel].pc = "posted",
                          HasTerminal(tail'[tailCancel].from, tail'[tailCancel].offset)
                   PROVE  \E j \in DOMAIN posted' :
                             posted'[j].session = tailCancel /\ WillClear(posted'[j])
      BY <2>3, <2>6 DEF Delivered, HasTerminal, WillClear
    <3>2. PICK i \in DOMAIN posted : posted[i].session = tailCancel /\ WillClear(posted[i])
      BY <1>4, <2>3, <3>1 DEF IInv, Delivered
    <3>3. QED BY <2>2, <3>2
  <2>8. RunningIsFollowed'
    <3>1. CASE ~etwRunning
      BY <2>3, <3>1 DEF RunningIsFollowed
    <3>2. CASE etwRunning /\ tailCancel # 0
                /\ tail[tailCancel].pc \in {"polling", "posted", "late"} /\ ~tail[tailCancel].cancelled
      BY <1>4, <2>3, <3>2 DEF RunningIsFollowed
    <3>3. CASE \E i \in DOMAIN posted : WillClear(posted[i])
      <4>1. PICK i \in DOMAIN posted : WillClear(posted[i])
        BY <3>3
      <4>2. QED BY <2>2, <2>5, <4>1 DEF RunningIsFollowed
    <3>4. QED BY <3>1, <3>2, <3>3 DEF IInv, RunningIsFollowed
  <2>9. Bounded'
    BY <1>1, <1>5, <1>6, <2>3 DEF Bounded
  <2>10. QED BY <1>8, <1>9, <2>4, <2>7, <2>8, <2>9 DEF IInv
<1>12. QED BY <1>7, <1>10, <1>11

LEMMA TimeoutPreserves ==
  ASSUME IInv, HandleTimeout
  PROVE  IInv'
<1>1. TypeOK /\ Bounded /\ posted \in Seq(Closures)
  BY Records DEF IInv
<1>2. /\ posted # << >> /\ posted' = Tail(posted) /\ etwRunning' = FALSE /\ tailCancel' = 0
      /\ mark' = 0 /\ stopFile' \in BOOLEAN
      /\ UNCHANGED <<ui, starts, log, tail, helper, watching>>
  BY <1>1, Zenon DEF HandleTimeout, Handles, RequestStop, ClearETWRunning, helpervars, TypeOK
<1>3. posted' \in Seq(Closures)
      /\ \A i \in DOMAIN posted' : i + 1 \in DOMAIN posted /\ posted'[i] = posted[i + 1]
  BY <1>1, <1>2, Running
<1>4. \A i \in DOMAIN posted' : posted'[i].to <= Len(log)
  BY <1>1, <1>3 DEF Bounded
<1>5. TypeOK'
  <2>1. tailCancel' \in 0 .. MaxStarts /\ mark' \in Nat
    BY <1>2, ETWAssumption
  <2>2. etwRunning' \in BOOLEAN
    BY <1>2, Zenon
  <2>3. QED BY <1>1, <1>2, <1>3, <2>1, <2>2, Zenon DEF TypeOK, Closures
<1>6. Asked'
  BY <1>2 DEF IInv, Asked
<1>7. QED BY <1>1, <1>2, <1>4, <1>5, <1>6, Ends DEF Bounded

LEMMA StartPreserves ==
  ASSUME IInv, StartAsks \/ StartRefused \/ StartLaunches
  PROVE  IInv'
<1>1. TypeOK /\ Bounded /\ Len(log) \in Nat /\ tail \in [Sessions -> Tails]
  BY Records DEF IInv, TypeOK
<1>2. UNCHANGED <<posted, log, watching>>
  BY DEF StartAsks, StartRefused, StartLaunches, helpervars
<1>3. CASE StartAsks \/ StartRefused
  <2>1. /\ UNCHANGED <<starts, etwRunning, tailCancel, tail, helper>> /\ stopFile' \in BOOLEAN
        /\ mark' \in {0, Len(log)} /\ ui' \in {"idle", "asking"}
        /\ (ui' = "asking" => starts < MaxStarts)
    BY <1>1, <1>3, Zenon DEF StartAsks, StartRefused, helpervars, TypeOK
  <2>2. TypeOK'
    <3>1. ui' \in {"idle", "asking", "exited"} /\ mark' \in Nat
      BY <1>1, <2>1
    <3>2. QED BY <1>1, <1>2, <2>1, <3>1, Zenon DEF TypeOK
  <2>3. Asked' /\ Cancellable'
    BY <2>1 DEF IInv, Asked, Cancellable
  <2>4. Bounded'
    BY <1>1, <1>2, <2>1 DEF Bounded
  <2>5. Delivered' /\ RunningIsFollowed'
    BY <1>2, <2>1 DEF IInv, Delivered, RunningIsFollowed, WillClear, HasTerminal
  <2>6. QED BY <2>2, <2>3, <2>4, <2>5 DEF IInv
<1>4. CASE StartLaunches
  <2> DEFINE new == [NoTail EXCEPT !.pc = "polling", !.from = mark, !.offset = mark]
  <2>1. starts + 1 \in Sessions /\ starts + 1 \in 0 .. MaxStarts /\ starts + 1 # 0
        /\ mark \in Nat /\ mark <= Len(log)
    BY <1>1, <1>4, ETWAssumption
       DEF IInv, Asked, TypeOK, Sessions, Bounded, StartLaunches
  <2>2. new \in Tails /\ new.pc = "polling" /\ new.from = mark /\ new.offset = mark
        /\ ~new.cancelled
    BY <2>1 DEF NoTail, Tails
  <2> HIDE DEF new
  <2>3. /\ ui' = "idle" /\ starts' = starts + 1 /\ etwRunning' = TRUE
        /\ tailCancel' = starts + 1 /\ tail' = [tail EXCEPT ![starts + 1] = new]
        /\ helper' = [helper EXCEPT ![starts + 1] = "launched"]
        /\ UNCHANGED <<mark, stopFile>>
    BY <1>4 DEF StartLaunches, new
  <2>4. /\ tail' \in [Sessions -> Tails] /\ tail'[starts + 1] = new
        /\ \A s \in Sessions : s # starts + 1 => tail'[s] = tail[s]
    BY <1>1, <2>1, <2>2, <2>3
  <2>5. helper' \in [Sessions -> {"none", "launched", "mute", "started", "running",
                                 "stopping", "ended"}]
    BY <1>1, <2>3 DEF TypeOK
  <2>6. TypeOK'
    <3>1. ui' \in {"idle", "asking", "exited"} /\ starts' \in 0 .. MaxStarts
          /\ tailCancel' \in 0 .. MaxStarts
      BY <2>1, <2>3
    <3>2. etwRunning' \in BOOLEAN
      BY <2>3, Zenon
    <3>3. QED BY <1>1, <1>2, <2>3, <2>4, <2>5, <3>1, <3>2, Zenon DEF TypeOK
  <2>7. Asked' /\ Cancellable'
    BY <2>1, <2>3 DEF Asked, Cancellable
  <2>8. Bounded'
    BY <1>1, <1>2, <2>1, <2>2, <2>3, <2>4 DEF Bounded
  <2>9. Delivered' /\ RunningIsFollowed'
    BY <2>1, <2>2, <2>3, <2>4 DEF Delivered, RunningIsFollowed
  <2>10. QED BY <2>6, <2>7, <2>8, <2>9 DEF IInv
<1>5. QED BY <1>3, <1>4

-----------------------------------------------------------------------------
LEMMA Preserved ==
  IInv /\ [Next]_vars => IInv'
<1> SUFFICES ASSUME IInv, [Next]_vars PROVE IInv'
  OBVIOUS
<1>1. CASE StartAsks \/ StartRefused \/ StartLaunches
  BY <1>1, StartPreserves
<1>2. CASE Stop \/ Exit \/ Crash
  BY <1>2, EndingPreserves
<1>3. CASE HandleLines
  BY <1>3, LinesPreserve
<1>4. CASE HandleTimeout
  BY <1>4, TimeoutPreserves
<1>5. ASSUME NEW s \in Sessions, TailStep(s) PROVE IInv'
  BY <1>5, TailPreserves
<1>6. ASSUME NEW s \in Sessions, HelperStep(s) \/ HelperLogsEvent(s) PROVE IInv'
  BY <1>6, HelperPreserves
<1>7. CASE UNCHANGED vars
  BY <1>7 DEF vars, guivars, helpervars, IInv, TypeOK, Asked, Cancellable, Bounded, Delivered,
              RunningIsFollowed, WillClear, HasTerminal
<1>8. QED BY <1>1, <1>2, <1>3, <1>4, <1>5, <1>6, <1>7 DEF Next, HandlePosted

LEMMA Invariance ==
  Spec => []IInv
<1>1. QED BY Starts, Preserved, PTL DEF Spec

\* The state of the GUI, of the tails and of the helpers keeps its types: a
\* session is only started while one is left (startETW, tailETWLog).
THEOREM SessionTypes ==
  Spec => []TypeOK
<1>1. IInv => TypeOK
  BY DEF IInv
<1>2. QED BY <1>1, Invariance, PTL

\* A session that the window shows as running has a tail that reads on, or a
\* closure that ends it is queued (tailETWLog, stopETW, handleETWStartupTimeout).
THEOREM Followed ==
  Spec => []RunningIsFollowed
<1>1. IInv => RunningIsFollowed
  BY DEF IInv
<1>2. QED BY <1>1, Invariance, PTL
=============================================================================
