--------------------------- MODULE WatcherProofs ----------------------------
(***************************************************************************)
(* Proofs about Watcher, for any devices, any capacity of the channel and   *)
(* any bounds: the types; a list that lags has an event coming; the list is *)
(* never behind an event that is logged; and the log explains the devices.  *)
(***************************************************************************)
EXTENDS Watcher, PollerProofs, Induction, SequenceTheorems

\* News composes: what is news between x and z is news on one side of any y in
\* between.  This is why a list that lags several scans still has an event coming.
LEMMA NewsTransitive ==
  ASSUME NEW x, NEW y, NEW z,
         IsMap(x, Snapshots), IsMap(y, Snapshots), IsMap(z, Snapshots),
         News(x, z)
  PROVE  News(x, y) \/ News(y, z)
<1>1. SUFFICES ASSUME ~News(x, y), ~News(y, z) PROVE FALSE
  OBVIOUS
<1>2. DOMAIN x = DOMAIN y /\ DOMAIN y = DOMAIN z
  BY <1>1 DEF News, Reported, Dropped
<1>3. PICK id \in DOMAIN z : ChangeEvents(id, x[id], z[id]) # << >>
  BY <1>2 DEF News, Reported, Dropped
<1>4. id \in Ids /\ x[id] \in Snapshots /\ y[id] \in Snapshots /\ z[id] \in Snapshots
  BY <1>2, <1>3 DEF IsMap, IsMapOf
<1>5. ChangeEvents(id, x[id], y[id]) = << >> /\ ChangeEvents(id, y[id], z[id]) = << >>
  BY <1>1, <1>2 DEF News, Reported
<1>6. /\ ~PowerMoved(x[id], y[id]) /\ ~PowerMoved(y[id], z[id])
      /\ ~MismatchRose(x[id], y[id]) /\ ~MismatchRose(y[id], z[id])
      /\ ~ProblemAppeared(x[id], y[id]) /\ ~ProblemAppeared(y[id], z[id])
      /\ x[id].status = y[id].status /\ y[id].status = z[id].status
  <2>1. ASSUME NEW a \in Snapshots, NEW b \in Snapshots, ChangeEvents(id, a, b) = << >>
        PROVE  /\ ~PowerMoved(a, b) /\ ~MismatchRose(a, b)
               /\ ~ProblemAppeared(a, b) /\ a.status = b.status
    BY <1>4, <2>1, ChangeEventsEmpty
  <2>2. QED BY <1>4, <1>5, <2>1
<1>7. /\ ~PowerMoved(x[id], z[id]) /\ ~ProblemAppeared(x[id], z[id])
      /\ ~MismatchRose(x[id], z[id]) /\ x[id].status = z[id].status
  BY <1>6 DEF PowerMoved, ProblemAppeared, MismatchRose
<1>8. QED BY <1>3, <1>4, <1>7, ChangeEventsEmpty

\* A snapshot is no news to itself.
LEMMA NoNewsOfItself ==
  ASSUME NEW x, IsMap(x, Snapshots)
  PROVE  ~News(x, x)
<1>1. ASSUME NEW id \in DOMAIN x
      PROVE  ChangeEvents(id, x[id], x[id]) = << >>
  <2>1. id \in Ids /\ x[id] \in Snapshots
    BY DEF IsMap, IsMapOf
  <2>2. /\ ~PowerMoved(x[id], x[id]) /\ ~MismatchRose(x[id], x[id])
        /\ ~ProblemAppeared(x[id], x[id])
    BY DEF PowerMoved, MismatchRose, ProblemAppeared
  <2>3. QED BY <2>1, <2>2, ChangeEventsEmpty
<1>2. QED BY <1>1 DEF News, Reported, Dropped

-----------------------------------------------------------------------------
\* The inductive invariant.  Beside SendLoop and Published of the poller, every
\* scan that does not emit finds the poller not ready ...
Baseline ==
  /\ stage = "Prime" => ~ready /\ pc \in {"list", "read"}
  /\ stage = "First" => pc \in {"start", "list", "read"} /\ (pc # "start" => ~ready)
  /\ shownReady => ready

\* ... and a list that lags behind has an event coming.
NoStuckView == shownReady /\ News(shown, devices) => InFlight

IInv == TypeOK /\ SendLoop /\ Baseline /\ Published /\ NoStuckView

LEMMA InitInv == Init => IInv
<1> SUFFICES ASSUME Init PROVE IInv
  OBVIOUS
<1>1. PollerTypeOK /\ SendLoop /\ Published
  BY PollerStarts DEF Init
<1> USE DEF Init, PollerInit
<1>2. logged \in [Ids -> Knowledge] /\ IsMap(shown, Snapshots)
  BY DEF IsMap, IsMapOf, Empty, Knowledge
<1>3. TypeOK
  <2>1. ui \in {"starting", "running"} /\ target \in Targets
    BY DEF Targets
  <2>2. shownReady \in BOOLEAN /\ unchecked \in BOOLEAN /\ dropped \in BOOLEAN
    OBVIOUS
  <2>3. inHand \in Seq(Events) /\ posted \in Seq(Events)
    OBVIOUS
  <2>4. QED BY ONLY <1>1, <1>2, <2>1, <2>2, <2>3 DEF TypeOK
<1>4. Baseline /\ NoStuckView
  BY DEF Baseline, NoStuckView
<1>5. QED BY <1>1, <1>3, <1>4 DEF IInv

\* The scan that publishes: whatever the list lacks now was lacking before, and
\* announced, or is owed by the send loop that starts here.
LEMMA CommitInv ==
  ASSUME IInv, Commit, shown' = shown, shownReady' = shownReady,
         UNCHANGED <<posted, inHand>>
  PROVE  SendLoop' /\ Baseline' /\ Published' /\ NoStuckView'
<1> USE DEF world, scanning, shared, sending
<1>0. /\ IsMap(shown, Snapshots) /\ IsMap(devices, Snapshots) /\ devices = previous
      /\ pc = "read" /\ todo = {} /\ gone = {} /\ pending = << >>
      /\ previous' = Current /\ devices' = Current /\ ready'
  BY DEF IInv, TypeOK, PollerTypeOK, SendLoop, Published, Commit, Publish
<1>1. IsMap(Current, Snapshots)
  BY CurrentType DEF IInv, TypeOK, PollerTypeOK
<1>2. CASE Emits
  <2>1. /\ prev' = previous /\ pc' = "send" /\ stage' = "Loop"
        /\ todo' = {id \in DOMAIN Current : Reported(previous, Current, id)}
        /\ gone' = Dropped(previous, Current)
    BY <1>2 DEF Commit, Emits
  <2>2. SendLoop' /\ Baseline' /\ Published'
    BY <1>0, <2>1 DEF SendLoop, Baseline, Published, Dropped, Reported
  <2>3. ASSUME shownReady', News(shown, Current) PROVE InFlight'
    <3>1. CASE News(shown, devices)
      BY <1>0, <2>1, <2>3, <3>1 DEF IInv, NoStuckView, InFlight, Commit
    <3>2. CASE News(devices, Current)
      BY <1>0, <2>1, <3>2 DEF News, InFlight
    <3>3. QED BY <1>0, <1>1, <2>3, <3>1, <3>2, NewsTransitive
  <2>4. NoStuckView'
    BY <1>0, <2>3 DEF NoStuckView
  <2>5. QED BY <2>2, <2>4
<1>3. CASE ~Emits
  <2>1. /\ ScanReturns /\ todo' = {} /\ gone' = {} /\ pending' = << >>
        /\ prev' = prev
    BY <1>0, <1>3 DEF Commit
  <2>2. ~shownReady /\ stage \in Stages
    BY <1>0, <1>3 DEF Emits, IInv, Baseline, TypeOK, PollerTypeOK, Stages
  <2>3. SendLoop' /\ Baseline' /\ Published' /\ NoStuckView'
    BY <1>0, <2>1, <2>2
       DEF SendLoop, Baseline, Published, NoStuckView, ScanReturns, Stages
  <2>4. QED BY <2>3
<1>4. QED BY <1>2, <1>3

\* The steps that neither publish nor start to send.
LEMMA QuietInv ==
  ASSUME IInv, UNCHANGED <<posted, inHand, shown, shownReady>>,
         ListBegin \/ ListFails \/ RunStarts \/ TickerFires \/ TakeRefresh \/ RunReturns
           \/ \E id \in Nodes : ListRead(id)
  PROVE  SendLoop' /\ Baseline' /\ Published' /\ NoStuckView'
<1> USE DEF world, scanning, shared, sending
<1>0. /\ UNCHANGED <<previous, devices, ready, prev, todo, gone, pending>>
      /\ pc # "send" /\ pc' # "send"
  BY DEF ListBegin, ListFails, RunStarts, TickerFires, TakeRefresh, RunReturns, ListRead,
         ScanReturns
<1>1. SendLoop' /\ Published'
  BY <1>0 DEF IInv, SendLoop, Published, Reported
<1>2. Baseline'
  <2>1. Baseline /\ stage \in Stages
    BY DEF IInv, TypeOK, PollerTypeOK
  <2>2. CASE ListBegin \/ TickerFires \/ TakeRefresh \/ RunReturns \/ \E id \in Nodes : ListRead(id)
    <3>1. stage' = stage /\ (pc' \in {"list", "read"} \/ pc = "select")
      BY <2>2 DEF ListBegin, TickerFires, TakeRefresh, RunReturns, ListRead
    <3>2. pc = "start" => pc' = "start"
      BY <2>2 DEF ListBegin, TickerFires, TakeRefresh, RunReturns, ListRead
    <3>3. QED BY <1>0, <2>1, <3>1, <3>2 DEF Baseline
  <2>3. CASE ListFails
    BY <1>0, <2>1, <2>3 DEF Baseline, ListFails, ScanReturns, Stages
  <2>4. CASE RunStarts
    BY <1>0, <2>1, <2>4 DEF Baseline, RunStarts, Stages
  <2>5. QED BY <2>2, <2>3, <2>4
<1>3. events' = events \/ ListFails
  BY DEF ListBegin, RunStarts, TickerFires, TakeRefresh, RunReturns, ListRead
<1>4. ASSUME ListFails PROVE events' # << >>
  <2>1. ErrorEvent(now) \in Events /\ events \in Seq(Events)
    BY ErrorInEvents DEF IInv, TypeOK, PollerTypeOK
  <2>2. QED BY <1>4, <2>1, SentType DEF ListFails
<1>5. NoStuckView'
  BY <1>0, <1>3, <1>4 DEF IInv, NoStuckView, InFlight
<1>6. QED BY <1>1, <1>2, <1>5

\* The send loop: it always holds an event, or has put one on the channel.
LEMMA SendingInv ==
  ASSUME IInv, UNCHANGED <<posted, inHand, shown, shownReady>>,
         Send \/ EndScan \/ \E id \in Ids : NextPresent(id) \/ NextMissing(id)
  PROVE  SendLoop' /\ Baseline' /\ Published' /\ NoStuckView'
<1> USE DEF world, scanning, shared, sending
<1>0. /\ UNCHANGED <<previous, devices, ready>> /\ pc = "send" /\ stage = "Loop"
      /\ stage' = "Loop" /\ pc' \in {"send", "select"}
  BY DEF IInv, Baseline, TypeOK, PollerTypeOK, Stages, Send, EndScan, NextPresent, NextMissing,
         ScanReturns
<1>1. Baseline' /\ Published'
  BY <1>0 DEF IInv, Baseline, Published
<1>2. CASE Send
  <2>1. events' # << >>
    BY <1>2, SentType DEF Send, IInv, TypeOK, PollerTypeOK
  <2>2. SendLoop' /\ NoStuckView'
    BY <1>0, <1>2, <2>1 DEF IInv, SendLoop, NoStuckView, InFlight, Send, Reported
  <2>3. QED BY <1>1, <2>2
<1>3. CASE EndScan
  <2>1. todo' = {} /\ gone' = {} /\ pending' = << >> /\ events' = events
        /\ todo = {} /\ gone = {} /\ pending = << >>
    BY <1>3 DEF EndScan
  <2>2. SendLoop' /\ NoStuckView'
    BY <1>0, <2>1 DEF IInv, SendLoop, NoStuckView, InFlight
  <2>3. QED BY <1>1, <2>2
<1>4. ASSUME NEW id \in Ids, NextPresent(id) PROVE SendLoop' /\ NoStuckView'
  <2>1. /\ previous[id] \in Snapshots /\ (id \in DOMAIN prev => prev[id] \in Snapshots)
        /\ Reported(prev, previous, id)
    BY <1>4 DEF IInv, TypeOK, PollerTypeOK, NextPresent, SendLoop, IsMap, IsMapOf
  <2>2. pending' # << >>
    BY <1>4, <2>1, ArrivalEventsType DEF NextPresent, Reported
  <2>3. /\ pc' = pc /\ todo' = todo \ {id} /\ UNCHANGED <<prev, gone, events>>
    BY <1>4 DEF NextPresent
  <2>4. SendLoop' /\ NoStuckView'
    BY <1>0, <2>2, <2>3 DEF IInv, SendLoop, NoStuckView, InFlight, Reported
  <2>5. QED BY <2>4
<1>5. ASSUME NEW id \in Ids, NextMissing(id) PROVE SendLoop' /\ NoStuckView'
  <2>1. /\ prev[id] \in Snapshots /\ IsMap(previous, Snapshots) /\ now \in Nat
    BY <1>5 DEF IInv, TypeOK, PollerTypeOK, NextMissing, SendLoop, IsMap, IsMapOf
  <2>2. pending' # << >>
    BY <1>5, <2>1, RemovalEventsType DEF NextMissing
  <2>3. /\ pc' = pc /\ gone' = gone \ {id} /\ UNCHANGED <<prev, todo, events>>
    BY <1>5 DEF NextMissing
  <2>4. SendLoop' /\ NoStuckView'
    BY <1>0, <2>2, <2>3 DEF IInv, SendLoop, NoStuckView, InFlight, Reported
  <2>5. QED BY <2>4
<1>6. QED BY <1>1, <1>2, <1>3, <1>4, <1>5

-----------------------------------------------------------------------------
LEMMA PollerRunsInv ==
  ASSUME IInv, PollerRuns
  PROVE  IInv'
<1>0. PollerStep /\ UNCHANGED <<ui, inHand, posted, shown, shownReady, target, unchecked>>
  BY DEF PollerRuns
<1>1. PollerTypeOK'
  BY <1>0, PollerStepType DEF IInv, TypeOK
<1>2. (logged \in [Ids -> Knowledge])'
  <2>1. Powers(devices') \in [Ids -> Knowledge]
    BY <1>1 DEF PollerTypeOK, IsMap, IsMapOf, Powers, Snapshots, Knowledge
  <2>2. logged \in [Ids -> Knowledge]
    BY DEF IInv, TypeOK
  <2>3. CASE logged' = Powers(devices')
    BY <2>1, <2>3
  <2>4. CASE logged' = logged
    BY <2>2, <2>4
  <2>5. QED BY <2>3, <2>4 DEF PollerRuns
<1>3. (dropped \in BOOLEAN)'
  BY DEF PollerRuns
<1>4. TypeOK'
  BY <1>0, <1>1, <1>2, <1>3 DEF IInv, TypeOK
<1>5. SendLoop' /\ Baseline' /\ Published' /\ NoStuckView'
  BY <1>0, CommitInv, QuietInv, SendingInv DEF PollerStep
<1>6. QED BY <1>4, <1>5 DEF IInv

\* A list that has just been filled from the published snapshot lacks nothing.
LEMMA RefreshInv ==
  ASSUME IInv, RefreshDevices, UNCHANGED pvars
  PROVE  /\ IsMap(shown, Snapshots)' /\ (shownReady \in BOOLEAN)'
         /\ SendLoop' /\ Baseline' /\ Published' /\ NoStuckView'
<1> USE DEF pvars, world, scanning, shared, sending
<1>1. IsMap(shown, Snapshots)' /\ (shownReady \in BOOLEAN)'
  BY DEF IInv, TypeOK, PollerTypeOK, RefreshDevices
<1>2. SendLoop' /\ Baseline' /\ Published'
  BY DEF IInv, SendLoop, Baseline, Published, Reported, RefreshDevices
<1>3. ~News(shown', devices')
  <2>1. IsMap(devices, Snapshots) /\ shown' = devices /\ devices' = devices
    BY DEF IInv, TypeOK, PollerTypeOK, RefreshDevices
  <2>2. QED BY <2>1, NoNewsOfItself
<1>4. NoStuckView'
  BY <1>3 DEF NoStuckView
<1>5. QED BY <1>1, <1>2, <1>4

LEMMA MachineInv ==
  ASSUME IInv, MachineChanges
  PROVE  IInv'
<1> USE DEF scanning, shared, sending, uivars
<1>1. /\ PollerTypeOK'
      /\ UNCHANGED <<failures, stage, pc, scanning, shared, sending, events, refresh,
                      cancelled, uivars>>
  BY MachineType DEF MachineChanges, IInv, TypeOK
<1>2. TypeOK'
  BY <1>1 DEF IInv, TypeOK
<1>3. SendLoop' /\ Baseline' /\ Published' /\ NoStuckView'
  BY <1>1 DEF IInv, SendLoop, Baseline, Published, NoStuckView, InFlight, Reported
<1>4. QED BY <1>2, <1>3 DEF IInv

LEMMA ConsumerInv ==
  ASSUME IInv, ConsumerReceives \/ ConsumerPosts
  PROVE  IInv'
<1> USE DEF pvars, world, scanning, shared, sending
<1>1. /\ inHand \in Seq(Events) /\ events \in Seq(Events) /\ posted \in Seq(Events)
  BY DEF IInv, TypeOK, PollerTypeOK
<1>2. /\ UNCHANGED <<world, failures, stage, pc, scanning, shared, sending, refresh, cancelled,
                      ui, shown, shownReady, target, unchecked, logged, dropped>>
  BY DEF ConsumerReceives, ConsumerPosts, Receive
<1>3. /\ (inHand \in Seq(Events))' /\ (events \in Seq(Events))' /\ (posted \in Seq(Events))'
      /\ posted' # << >> \/ inHand' # << >>
  <2>1. CASE ConsumerReceives
    BY <1>1, <2>1 DEF ConsumerReceives, Receive
  <2>2. CASE ConsumerPosts
    BY <1>1, <2>2 DEF ConsumerPosts
  <2>3. QED BY <2>1, <2>2
<1>4. TypeOK'
  BY <1>2, <1>3 DEF IInv, TypeOK, PollerTypeOK
<1>5. SendLoop' /\ Baseline' /\ Published' /\ NoStuckView'
  BY <1>2, <1>3 DEF IInv, SendLoop, Baseline, Published, NoStuckView, InFlight, Reported
<1>6. QED BY <1>4, <1>5 DEF IInv

\* Whether an event is logged or discarded, what is known keeps its type.
LEMMA HeedType ==
  ASSUME NEW known \in [Ids -> Knowledge], NEW e \in Events
  PROVE  Heed(known, e) \in [Ids -> Knowledge] /\ Miss(known, e) \in [Ids -> Knowledge]
<1>1. CASE ~Tells(e)
  BY <1>1 DEF Heed, Miss
<1>2. CASE Tells(e)
  <2>1. e.id \in Ids /\ e.power \in Knowledge
    BY <1>2 DEF Tells, Events, Knowledge
  <2>2. "absent" \in Knowledge /\ "doubt" \in Knowledge
    BY DEF Knowledge
  <2>3. QED BY <1>2, <2>1, <2>2 DEF Heed, Miss
<1>3. QED BY <1>1, <1>2

LEMMA WindowInv ==
  ASSUME IInv, UIStarts \/ HandlePosted \/ ApplyTargetFilter \/ RefreshButton
  PROVE  IInv'
<1>0. RefreshDevices /\ UNCHANGED <<pvars, inHand, unchecked, dropped>>
  BY DEF UIStarts, HandlePosted, ApplyTargetFilter, RefreshButton
<1>1. /\ (ui \in {"starting", "running"})' /\ (target \in Targets)'
      /\ (posted \in Seq(Events))'
  <2>1. ui \in {"starting", "running"} /\ target \in Targets /\ posted \in Seq(Events)
    BY DEF IInv, TypeOK
  <2>2. CASE HandlePosted
    BY <2>1, <2>2 DEF HandlePosted
  <2>3. CASE UIStarts \/ ApplyTargetFilter \/ RefreshButton
    BY <2>1, <2>3 DEF UIStarts, ApplyTargetFilter, RefreshButton
  <2>4. QED BY <2>2, <2>3
<1>2. (logged \in [Ids -> Knowledge])'
  <2>1. logged \in [Ids -> Knowledge]
    BY DEF IInv, TypeOK
  <2>2. CASE HandlePosted
    <3>1. Head(posted) \in Events
      BY <2>2 DEF IInv, TypeOK, HandlePosted
    <3>2. logged' \in {Heed(logged, Head(posted)), Miss(logged, Head(posted))}
      BY <2>2 DEF HandlePosted, AddEvent
    <3>3. QED BY <2>1, <3>1, <3>2, HeedType
  <2>3. CASE UIStarts \/ ApplyTargetFilter \/ RefreshButton
    BY <2>1, <2>3 DEF UIStarts, ApplyTargetFilter, RefreshButton
  <2>4. QED BY <2>2, <2>3
<1>3. PollerTypeOK'
  BY <1>0 DEF IInv, TypeOK, PollerTypeOK, pvars, world, scanning, shared, sending
<1>4. TypeOK'
  BY <1>0, <1>1, <1>2, <1>3, RefreshInv DEF IInv, TypeOK
<1>5. QED BY <1>0, <1>4, RefreshInv DEF IInv

LEMMA NextInv ==
  ASSUME IInv, [Next]_vars
  PROVE  IInv'
<1>1. CASE SystemMessage
  <2> USE DEF world, scanning, shared, sending, uivars
  <2>1. TypeOK'
    BY <1>1 DEF SystemMessage, RefreshNow, IInv, TypeOK, PollerTypeOK
  <2>2. SendLoop' /\ Baseline' /\ Published' /\ NoStuckView'
    BY <1>1 DEF SystemMessage, RefreshNow, IInv, SendLoop, Baseline, Published, NoStuckView,
                InFlight, Reported
  <2>3. QED BY <2>1, <2>2 DEF IInv
<1>2. CASE UNCHANGED vars
  <2> USE DEF vars, pvars, world, scanning, shared, sending, uivars
  <2>1. TypeOK'
    BY <1>2 DEF IInv, TypeOK, PollerTypeOK
  <2>2. SendLoop' /\ Baseline' /\ Published' /\ NoStuckView'
    BY <1>2 DEF IInv, SendLoop, Baseline, Published, NoStuckView, InFlight, Reported
  <2>3. QED BY <2>1, <2>2 DEF IInv
<1>3. CASE ClickCheckBox
  <2> USE DEF pvars, world, scanning, shared, sending
  <2>1. /\ UNCHANGED <<pvars, ui, inHand, posted, shown, shownReady, target, logged, dropped>>
        /\ (unchecked \in BOOLEAN)'
    BY <1>3 DEF ClickCheckBox, IInv, TypeOK
  <2>2. PollerTypeOK'
    BY <2>1 DEF IInv, TypeOK, PollerTypeOK
  <2>3. TypeOK'
    BY <2>1, <2>2 DEF IInv, TypeOK
  <2>4. SendLoop' /\ Baseline' /\ Published' /\ NoStuckView'
    BY <2>1 DEF IInv, SendLoop, Baseline, Published, NoStuckView, InFlight, Reported
  <2>5. QED BY <2>3, <2>4 DEF IInv
<1>4. QED
  BY <1>1, <1>2, <1>3, PollerRunsInv, MachineInv, ConsumerInv, WindowInv DEF Next

\* The inductive invariant holds in every behaviour.
THEOREM Invariance == Spec => []IInv
<1>1. Init => IInv
  BY InitInv
<1>2. IInv /\ [Next]_vars => IInv'
  BY NextInv
<1>3. QED BY <1>1, <1>2, PTL DEF Spec

\* The variables of the poller and of its reader keep their types, for every
\* set of devices, readings, parent relation and channel capacity.
THEOREM TypeCorrect == Spec => []TypeOK
<1>1. IInv => TypeOK
  BY DEF IInv
<1>2. QED BY <1>1, Invariance, PTL

\* EnrichDeviceRelationships: what a snapshot says of the companions of its
\* devices is a matter of which devices it has.
EnrichedList(s) == \A id \in DOMAIN s : s[id].related = Related(DOMAIN s, id)

Enriched == EnrichedList(devices) /\ EnrichedList(shown)

LEMMA CurrentEnriched ==
  ASSUME IsMapOf(Nodes, listing, Readings)
  PROVE  EnrichedList(Current)
<1>1. DOMAIN Current = DOMAIN listing \cap Ids
  BY DEF Current
<1>2. ASSUME NEW id \in DOMAIN Current
      PROVE  Current[id].related = Related(DOMAIN Current, id)
  <2>1. id \in Ids /\ Current[id].related = Related(DOMAIN listing, id)
    BY <1>1, <1>2 DEF Current, Stamped
  <2>2. Companions[id] \subseteq Ids
    BY <2>1, ReadingAssumption
  <2>3. Companions[id] \cap DOMAIN listing = Companions[id] \cap DOMAIN Current
    BY <1>1, <2>2
  <2>4. QED BY <2>1, <2>3 DEF Related
<1>3. QED BY <1>2 DEF EnrichedList

LEMMA EnrichedKept ==
  ASSUME IInv, Enriched, [Next]_vars
  PROVE  Enriched'
<1> USE DEF pvars, world, scanning, shared, sending, uivars
<1>1. CASE PollerRuns
  <2>1. shown' = shown
    BY <1>1 DEF PollerRuns
  <2>2. CASE Commit
    <3>1. devices' = Current
      BY <2>2 DEF Commit, Publish
    <3>2. EnrichedList(Current)
      BY CurrentEnriched DEF IInv, TypeOK, PollerTypeOK
    <3>3. QED BY <2>1, <3>1, <3>2 DEF Enriched
  <2>3. CASE ~Commit
    <3>1. devices' = devices
      BY <1>1, <2>3 DEF PollerRuns, PollerStep, ListBegin, ListFails, Send, EndScan, RunStarts,
                        TickerFires, TakeRefresh, RunReturns, ListRead, NextPresent, NextMissing
    <3>2. QED BY <2>1, <3>1 DEF Enriched
  <2>4. QED BY <2>2, <2>3
<1>2. CASE MachineChanges
  <2>1. UNCHANGED <<devices, shown>>
    BY <1>2, MachineType DEF MachineChanges, IInv, TypeOK
  <2>2. QED BY <2>1 DEF Enriched
<1>3. CASE UIStarts \/ HandlePosted \/ ApplyTargetFilter \/ RefreshButton
  <2>1. devices' = devices /\ shown' = devices
    BY <1>3 DEF UIStarts, HandlePosted, ApplyTargetFilter, RefreshButton, RefreshDevices
  <2>2. QED BY <2>1 DEF Enriched
<1>4. CASE ConsumerReceives \/ ConsumerPosts \/ SystemMessage \/ ClickCheckBox \/ UNCHANGED vars
  <2>1. UNCHANGED <<devices, shown>>
    BY <1>4 DEF ConsumerReceives, ConsumerPosts, Receive, SystemMessage, RefreshNow, ClickCheckBox,
                vars
  <2>2. QED BY <2>1 DEF Enriched
<1>5. QED BY <1>1, <1>2, <1>3, <1>4 DEF Next

\* Two snapshots that are no news to each other have the same devices, and so
\* the same companions: only a COM name can tell their rows apart.
LEMMA NoStuckEnough ==
  ASSUME IInv, Enriched
  PROVE  NoStuckRows
<1> SUFFICES ASSUME shownReady, ~InFlight, NEW id \in Ids
             PROVE  /\ id \in Visible(shown, target) \cap Visible(devices, target)
                         => ChangeEvents(id, shown[id], devices[id]) = << >>
                    /\ (id \in Visible(shown, target)) # (id \in Visible(devices, target))
                         => Renamed(id)
  BY DEF NoStuckRows
<1>1. ~News(shown, devices)
  BY DEF IInv, NoStuckView
<1>2. DOMAIN shown = DOMAIN devices
  BY <1>1 DEF News, Reported, Dropped
<1>3. id \in DOMAIN shown => ChangeEvents(id, shown[id], devices[id]) = << >>
  BY <1>1, <1>2 DEF News, Reported
<1>4. ASSUME id \in DOMAIN shown, shown[id].com = devices[id].com
      PROVE  id \in Visible(shown, target) <=> id \in Visible(devices, target)
  <2>1. shown[id].related = devices[id].related
    BY <1>2, <1>4 DEF Enriched, EnrichedList
  <2>2. QED BY <1>2, <1>4, <2>1 DEF Visible
<1>5. id \in Visible(shown, target) \/ id \in Visible(devices, target) => id \in DOMAIN shown
  BY <1>2 DEF Visible
<1>6. QED BY <1>2, <1>3, <1>4, <1>5 DEF Renamed, Visible

\* consumePollerEvents and send: although send drops events when the channel is
\* full, a device list that has a row too many, a row too few or a row that the
\* poller would report always has an event coming that will refresh it, unless
\* the row is only a matter of a COM name, which scan does not report.
THEOREM NoStuck == Spec => []NoStuckRows
<1>1. Init => Enriched
  BY DEF Init, PollerInit, Empty, Enriched, EnrichedList
<1>2. IInv /\ Enriched /\ [Next]_vars => Enriched'
  BY EnrichedKept
<1>3. IInv /\ Enriched => NoStuckRows
  BY NoStuckEnough
<1>4. QED BY <1>1, <1>2, <1>3, Invariance, PTL DEF Spec

-----------------------------------------------------------------------------
(* The way from the scan to the list is one flag (DeviceView).              *)

\* Whatever leaves the snapshots alone and does not empty the way is a note or
\* nothing.
LEMMA NoteOrNothing ==
  ASSUME UNCHANGED <<devices, ready, shown, shownReady>>, InFlight => InFlight'
  PROVE  [View!Next]_View!vars
<1>1. CASE InFlight'
  <2>1. InFlight' = TRUE
    BY <1>1 DEF InFlight
  <2>2. View!Notice
    BY <2>1 DEF View!Notice
  <2>3. QED BY <2>2 DEF View!Next
<1>2. CASE ~InFlight'
  <2>1. InFlight' = InFlight
    BY <1>2 DEF InFlight
  <2>2. QED BY <2>1 DEF View!vars
<1>3. QED BY <1>1, <1>2

\* A scan that publishes notes exactly the news, but for the baseline.
LEMMA CommitView ==
  ASSUME IInv, IInv', Commit, UNCHANGED <<shown, shownReady, posted, inHand>>
  PROVE  View!Baseline \/ View!Publish
<1>1. /\ pc = "read" /\ todo = {} /\ gone = {} /\ pending = << >> /\ devices = previous
      /\ devices' = Current /\ previous' = Current /\ ready' = TRUE
      /\ UNCHANGED <<pending, events>>
  BY DEF Commit, Publish, IInv, SendLoop, Published
<1>2. IsListing(devices')
  BY DEF IInv, TypeOK, PollerTypeOK, IsListing
<1>3. CASE Emits
  <2>1. /\ ready /\ pc' = "send"
        /\ todo' = {id \in DOMAIN Current : Reported(previous, Current, id)}
        /\ gone' = Dropped(previous, Current)
    BY <1>3 DEF Commit, Emits
  <2>2. InFlight' <=> InFlight \/ News(devices, devices')
    BY <1>1, <2>1 DEF InFlight, News
  <2>3. InFlight' = (InFlight \/ News(devices, devices'))
    BY <2>2 DEF InFlight
  <2>4. QED BY <1>1, <1>2, <2>1, <2>3 DEF View!Publish
<1>4. CASE ~Emits
  <2>1. ~ready
    BY <1>1, <1>4 DEF Emits, IInv, Baseline, TypeOK, PollerTypeOK, Stages
  <2>2. todo' = {} /\ gone' = {}
    BY <1>1, <1>4 DEF Commit
  <2>3. InFlight' = InFlight
    BY <1>1, <2>2 DEF InFlight
  <2>4. QED BY <1>1, <1>2, <2>1, <2>3 DEF View!Baseline
<1>5. QED BY <1>3, <1>4

\* The send loop passes on what it owes, and an event that is dropped leaves a
\* channel that is full.
LEMMA PollerView ==
  ASSUME IInv, IInv', PollerRuns
  PROVE  [View!Next]_View!vars
<1> USE DEF world, scanning, shared, sending
<1>0. PollerStep /\ UNCHANGED <<inHand, posted, shown, shownReady>>
  BY DEF PollerRuns
<1>1. CASE Commit
  BY <1>0, <1>1, CommitView DEF View!Next
<1>2. CASE ListBegin \/ ListFails \/ RunStarts \/ TickerFires \/ TakeRefresh \/ RunReturns
             \/ \E id \in Nodes : ListRead(id)
  <2>1. UNCHANGED <<devices, ready, pending, todo, gone>> /\ pc # "send"
    BY <1>2 DEF ListBegin, ListFails, RunStarts, TickerFires, TakeRefresh, RunReturns, ListRead
  <2>2. events' = events \/ ListFails
    BY <1>2 DEF ListBegin, RunStarts, TickerFires, TakeRefresh, RunReturns, ListRead
  <2>3. ASSUME ListFails PROVE events' # << >>
    <3>1. ErrorEvent(now) \in Events /\ events \in Seq(Events)
      BY ErrorInEvents DEF IInv, TypeOK, PollerTypeOK
    <3>2. QED BY <2>3, <3>1, SentType DEF ListFails
  <2>4. InFlight => InFlight'
    BY <1>0, <2>1, <2>2, <2>3 DEF InFlight
  <2>5. QED BY <1>0, <2>1, <2>4, NoteOrNothing
<1>3. CASE Send
  <2>1. pending # << >> /\ events' = Sent(Head(pending)) /\ UNCHANGED <<devices, ready>>
    BY <1>3 DEF Send
  <2>2. events \in Seq(Events) /\ pending \in Seq(Events)
    BY DEF IInv, TypeOK, PollerTypeOK
  <2>3. events' # << >>
    BY <2>1, <2>2, SentType
  <2>4. QED BY <1>0, <2>1, <2>3, NoteOrNothing DEF InFlight
<1>4. CASE EndScan
  <2>1. UNCHANGED <<devices, ready, events>> /\ pending = << >> /\ todo = {} /\ gone = {}
    BY <1>4 DEF EndScan
  <2>2. QED BY <1>0, <2>1, NoteOrNothing DEF InFlight
<1>5. ASSUME NEW id \in Ids, NextPresent(id) PROVE [View!Next]_View!vars
  <2>1. /\ previous[id] \in Snapshots /\ (id \in DOMAIN prev => prev[id] \in Snapshots)
        /\ Reported(prev, previous, id)
    BY <1>5 DEF IInv, TypeOK, PollerTypeOK, NextPresent, SendLoop, IsMap, IsMapOf
  <2>2. pending' # << >>
    BY <1>5, <2>1, ArrivalEventsType DEF NextPresent, Reported
  <2>3. UNCHANGED <<devices, ready, pc>> /\ pc = "send"
    BY <1>5 DEF NextPresent
  <2>4. QED BY <1>0, <2>2, <2>3, NoteOrNothing DEF InFlight
<1>6. ASSUME NEW id \in Ids, NextMissing(id) PROVE [View!Next]_View!vars
  <2>1. prev[id] \in Snapshots /\ IsMap(previous, Snapshots) /\ now \in Nat
    BY <1>6 DEF IInv, TypeOK, PollerTypeOK, NextMissing, SendLoop, IsMap, IsMapOf
  <2>2. pending' # << >>
    BY <1>6, <2>1, RemovalEventsType DEF NextMissing
  <2>3. UNCHANGED <<devices, ready, pc>> /\ pc = "send"
    BY <1>6 DEF NextMissing
  <2>4. QED BY <1>0, <2>2, <2>3, NoteOrNothing DEF InFlight
<1>7. QED BY <1>0, <1>1, <1>2, <1>3, <1>4, <1>5, <1>6 DEF PollerStep

\* The window shows what is published, and only an event that it handles may
\* have been the last one under way.
LEMMA WindowView ==
  ASSUME UIStarts \/ HandlePosted \/ ApplyTargetFilter \/ RefreshButton
  PROVE  View!Refresh
<1> USE DEF pvars, world, scanning, shared, sending
<1>1. RefreshDevices /\ UNCHANGED <<pvars, inHand>>
  BY DEF UIStarts, HandlePosted, ApplyTargetFilter, RefreshButton
<1>2. InFlight' \in {InFlight, FALSE}
  <2>1. CASE HandlePosted
    <3>1. InFlight = TRUE
      BY <2>1 DEF HandlePosted, InFlight
    <3>2. InFlight' \in BOOLEAN
      BY DEF InFlight
    <3>3. QED BY <3>1, <3>2
  <2>2. CASE UIStarts \/ ApplyTargetFilter \/ RefreshButton
    <3>1. posted' = posted
      BY <2>2 DEF UIStarts, ApplyTargetFilter, RefreshButton
    <3>2. InFlight' = InFlight
      BY <1>1, <3>1 DEF InFlight
    <3>3. QED BY <3>2
  <2>3. QED BY <2>1, <2>2
<1>3. QED BY <1>1, <1>2 DEF RefreshDevices, View!Refresh

\* Every step of poller, reader and window is one of the abstract view or
\* invisible there.
LEMMA NextView ==
  ASSUME IInv, IInv', [Next]_vars
  PROVE  [View!Next]_View!vars
<1> USE DEF pvars, world, scanning, shared, sending, uivars
<1>1. CASE MachineChanges \/ SystemMessage \/ ClickCheckBox \/ UNCHANGED vars
  <2>1. UNCHANGED <<devices, ready, shown, shownReady, inHand, posted, pc, pending, todo, gone,
                    events>>
    <3>1. CASE MachineChanges
      BY <3>1, MachineType DEF MachineChanges, IInv, TypeOK
    <3>2. CASE SystemMessage \/ ClickCheckBox \/ UNCHANGED vars
      BY <3>2 DEF SystemMessage, RefreshNow, ClickCheckBox, vars
    <3>3. QED BY <1>1, <3>1, <3>2
  <2>2. QED BY <2>1, NoteOrNothing DEF InFlight
<1>2. CASE ConsumerReceives \/ ConsumerPosts
  <2>1. UNCHANGED <<devices, ready, shown, shownReady>>
    BY <1>2 DEF ConsumerReceives, ConsumerPosts, Receive
  <2>2. posted' # << >> \/ inHand' # << >>
    <3>1. inHand \in Seq(Events) /\ posted \in Seq(Events)
      BY DEF IInv, TypeOK
    <3>2. CASE ConsumerReceives
      <4>1. inHand' = << Head(events) >>
        BY <3>2 DEF ConsumerReceives
      <4>2. QED BY <4>1
    <3>3. CASE ConsumerPosts
      <4>1. posted' = posted \o inHand /\ inHand # << >>
        BY <3>3 DEF ConsumerPosts
      <4>2. QED BY <3>1, <4>1
    <3>4. QED BY <1>2, <3>2, <3>3
  <2>3. QED BY <2>1, <2>2, NoteOrNothing DEF InFlight
<1>3. CASE UIStarts \/ HandlePosted \/ ApplyTargetFilter \/ RefreshButton
  BY <1>3, WindowView DEF View!Next
<1>4. QED BY <1>1, <1>2, <1>3, PollerView DEF Next

\* consumePollerEvents, send and the closures: the poller, its channel, the
\* reader and the message loop implement a list with one flag, which news raises
\* and only a refresh clears.
THEOREM ViewRefinement == Spec => ViewSpec
<1>1. Init => View!Init
  <2> SUFFICES ASSUME Init PROVE View!Init
    OBVIOUS
  <2>1. ~InFlight
    BY DEF Init, PollerInit, InFlight
  <2>2. QED BY <2>1 DEF Init, PollerInit, Empty, View!Init
<1>2. IInv /\ IInv' /\ [Next]_vars => [View!Next]_View!vars
  BY NextView
<1>3. QED BY <1>1, <1>2, Invariance, PTL DEF Spec, ViewSpec, View!Spec

-----------------------------------------------------------------------------
(***************************************************************************)
(* The events that are under way, in the order in which they will be        *)
(* handled, explain the published snapshot: the last arrival or removal of  *)
(* a device agrees with it, or the opposite event is still owed by the send *)
(* loop.                                                                    *)
(***************************************************************************)

Arrives(e, id) == e.type = "pnp_arrival" /\ e.id = id
Leaves(e, id) == e.type = "pnp_removal" /\ e.id = id

\* What an event may name.
Names == Ids \cup {NoDevice}

\* q explains a snapshot of the devices D, if the removals of G and the arrivals
\* of T are still to be added to it.
Explains(q, D, G, T) ==
  \A i \in DOMAIN q, id \in Names :
    /\ Arrives(q[i], id) =>
         id \in D \/ id \in G \/ \E j \in DOMAIN q : j > i /\ Leaves(q[j], id)
    /\ Leaves(q[i], id) =>
         id \notin D \/ id \in T \/ \E j \in DOMAIN q : j > i /\ Arrives(q[j], id)

\* Everything that is under way, in order.
UnderWay == posted \o (inHand \o (events \o pending))

Explained == ~dropped => Explains(UnderWay, DOMAIN devices, gone, todo \ DOMAIN prev)

\* Before the baseline only failures have been reported.
NothingYet ==
  ~ready => pc # "send" /\ \A i \in DOMAIN UnderWay : UnderWay[i].type = "error"

OnlyMissing == gone \cap DOMAIN previous = {}

-----------------------------------------------------------------------------
(* Sequences.                                                               *)

LEMMA Regroup ==
  \A a, b, c \in Seq(Events) : (a \o b) \o c = a \o (b \o c)
<1> SUFFICES ASSUME NEW a \in Seq(Events), NEW b \in Seq(Events), NEW c \in Seq(Events)
             PROVE  (a \o b) \o c = a \o (b \o c)
  OBVIOUS
<1>1. QED BY ConcatAssociative

LEMMA HeadAndTail ==
  ASSUME NEW q \in Seq(Events), q # << >>
  PROVE  /\ Head(q) \in Events /\ Tail(q) \in Seq(Events) /\ <<Head(q)>> \in Seq(Events)
         /\ q = <<Head(q)>> \o Tail(q)
<1>1. Head(q) \in Events /\ Tail(q) \in Seq(Events) /\ Len(q) \in Nat \ {0}
  BY HeadTailProperties, EmptySeq
<1>2. q = SubSeq(q, 1, Len(q)) /\ Tail(q) = SubSeq(q, 2, Len(q)) /\ Head(q) = q[1]
  BY <1>1, SubSeqFull, TailIsSubSeq
<1>3. SubSeq(q, 1, Len(q)) = <<q[1]>> \o SubSeq(q, 1 + 1, Len(q))
  BY <1>1, SubSeqRecursiveFirst
<1>4. QED BY <1>1, <1>2, <1>3

LEMMA ExplainsMore ==
  ASSUME NEW q \in Seq(Events), NEW s \in Seq(Events), NEW D, NEW G, NEW T, NEW H, NEW U,
         Explains(q, D, G, T),
         \A id \in Names : id \in G => id \in H \/ \E j \in DOMAIN s : Leaves(s[j], id),
         \A id \in Names : id \in T => id \in U \/ \E j \in DOMAIN s : Arrives(s[j], id),
         \A i \in DOMAIN s, id \in Names : /\ Arrives(s[i], id) => id \in D
                                           /\ Leaves(s[i], id) => id \notin D
  PROVE  Explains(q \o s, D, H, U)
<1>1. /\ Len(q) \in Nat /\ Len(s) \in Nat
      /\ DOMAIN q = 1 .. Len(q) /\ DOMAIN s = 1 .. Len(s) /\ DOMAIN (q \o s) = 1 .. Len(q) + Len(s)
  BY ConcatProperties, LenProperties
<1>2. /\ \A i \in DOMAIN q : (q \o s)[i] = q[i] /\ i \in DOMAIN (q \o s)
      /\ \A i \in DOMAIN s : /\ (q \o s)[Len(q) + i] = s[i] /\ Len(q) + i \in DOMAIN (q \o s)
                             /\ \A j \in DOMAIN q : Len(q) + i > j
      /\ \A i \in DOMAIN (q \o s) : i \in DOMAIN q \/ \E j \in DOMAIN s : i = Len(q) + j
  <2>1. \A i \in 1 .. Len(q) + Len(s) : (q \o s)[i] = IF i <= Len(q) THEN q[i] ELSE s[i - Len(q)]
    BY ConcatProperties
  <2>2. \A i \in 1 .. Len(s) : /\ Len(q) + i \in 1 .. Len(q) + Len(s) /\ ~(Len(q) + i <= Len(q))
                               /\ (Len(q) + i) - Len(q) = i
    BY <1>1
  <2>3. \A i \in 1 .. Len(q) + Len(s) : i \in 1 .. Len(q) \/ \E j \in 1 .. Len(s) : i = Len(q) + j
    <3>1. SUFFICES ASSUME NEW i \in 1 .. Len(q) + Len(s), i \notin 1 .. Len(q)
                   PROVE  \E j \in 1 .. Len(s) : i = Len(q) + j
      OBVIOUS
    <3>2. i - Len(q) \in 1 .. Len(s) /\ i = Len(q) + (i - Len(q))
      BY <1>1, <3>1
    <3>3. QED BY <3>2
  <2>4. \A i \in 1 .. Len(q) : i \in 1 .. Len(q) + Len(s) /\ i <= Len(q)
    BY <1>1
  <2>5. \A i \in 1 .. Len(s), j \in 1 .. Len(q) : Len(q) + i > j
    BY <1>1
  <2>6. \A i \in DOMAIN q : (q \o s)[i] = q[i] /\ i \in DOMAIN (q \o s)
    BY <1>1, <2>1, <2>4
  <2>7. \A i \in DOMAIN s : (q \o s)[Len(q) + i] = s[i] /\ Len(q) + i \in DOMAIN (q \o s)
    BY <1>1, <2>1, <2>2
  <2>8. QED BY <1>1, <2>3, <2>5, <2>6, <2>7
<1>3. SUFFICES ASSUME NEW i \in DOMAIN (q \o s), NEW id \in Names
               PROVE  /\ Arrives((q \o s)[i], id) =>
                           \/ id \in D \/ id \in H
                           \/ \E j \in DOMAIN (q \o s) : j > i /\ Leaves((q \o s)[j], id)
                      /\ Leaves((q \o s)[i], id) =>
                           \/ id \notin D \/ id \in U
                           \/ \E j \in DOMAIN (q \o s) : j > i /\ Arrives((q \o s)[j], id)
  BY DEF Explains
<1>4. CASE i \in DOMAIN q
  <2>1. /\ Arrives(q[i], id) =>
             id \in D \/ id \in G \/ \E j \in DOMAIN q : j > i /\ Leaves(q[j], id)
        /\ Leaves(q[i], id) =>
             id \notin D \/ id \in T \/ \E j \in DOMAIN q : j > i /\ Arrives(q[j], id)
    BY <1>4 DEF Explains
  <2>2. \A j \in DOMAIN s : (q \o s)[Len(q) + j] = s[j] /\ Len(q) + j \in DOMAIN (q \o s)
                            /\ Len(q) + j > i
    BY <1>2, <1>4
  <2>3. QED BY <1>2, <1>4, <2>1, <2>2
<1>5. CASE \E j \in DOMAIN s : i = Len(q) + j
  BY <1>2, <1>5
<1>6. QED BY <1>2, <1>4, <1>5

LEMMA ExplainsLess ==
  ASSUME NEW e \in Events, NEW q \in Seq(Events), NEW D, NEW G, NEW T,
         Explains(<<e>> \o q, D, G, T)
  PROVE  Explains(q, D, G, T)
<1>1. /\ <<e>> \in Seq(Events) /\ Len(<<e>>) = 1 /\ Len(q) \in Nat /\ DOMAIN q = 1 .. Len(q)
      /\ Len(<<e>> \o q) = 1 + Len(q)
  BY ConcatProperties, LenProperties
<1>2. DOMAIN (<<e>> \o q) = 1 .. 1 + Len(q)
  BY <1>1, LenProperties, ConcatProperties
<1>3. \A i \in DOMAIN q : i + 1 \in DOMAIN (<<e>> \o q) /\ (<<e>> \o q)[i + 1] = q[i]
  <2>1. \A i \in 1 .. 1 + Len(q) : (<<e>> \o q)[i] = IF i <= 1 THEN <<e>>[i] ELSE q[i - 1]
    BY <1>1, ConcatProperties
  <2>2. \A i \in 1 .. Len(q) : i + 1 \in 1 .. 1 + Len(q) /\ ~(i + 1 <= 1) /\ (i + 1) - 1 = i
    BY <1>1
  <2>3. QED BY <1>1, <1>2, <2>1, <2>2
<1>4. \A j \in DOMAIN (<<e>> \o q), i \in DOMAIN q :
        j > i + 1 => j - 1 \in DOMAIN q /\ j - 1 > i /\ q[j - 1] = (<<e>> \o q)[j]
  <2>1. \A j \in 1 .. 1 + Len(q), i \in 1 .. Len(q) :
          j > i + 1 => j - 1 \in 1 .. Len(q) /\ j - 1 > i /\ (j - 1) + 1 = j
    BY <1>1
  <2>2. QED BY <1>1, <1>2, <1>3, <2>1
<1>5. QED BY <1>3, <1>4 DEF Explains

\* The elements of a sequence that has e before it.
LEMMA Prefixed ==
  ASSUME NEW e \in Events, NEW q \in Seq(Events)
  PROVE  /\ 1 \in DOMAIN (<<e>> \o q) /\ (<<e>> \o q)[1] = e
         /\ \A i \in DOMAIN q : i + 1 \in DOMAIN (<<e>> \o q) /\ (<<e>> \o q)[i + 1] = q[i]
         /\ \A j \in DOMAIN (<<e>> \o q) :
              j > 1 => j - 1 \in DOMAIN q /\ q[j - 1] = (<<e>> \o q)[j]
<1>1. /\ <<e>> \in Seq(Events) /\ Len(<<e>>) = 1 /\ Len(q) \in Nat /\ DOMAIN q = 1 .. Len(q)
      /\ Len(<<e>> \o q) = 1 + Len(q) /\ <<e>>[1] = e
  BY ConcatProperties, LenProperties
<1>2. DOMAIN (<<e>> \o q) = 1 .. 1 + Len(q)
  BY <1>1, LenProperties, ConcatProperties
<1>3. \A i \in 1 .. 1 + Len(q) : (<<e>> \o q)[i] = IF i <= 1 THEN <<e>>[i] ELSE q[i - 1]
  BY <1>1, ConcatProperties
<1>4. \A i \in 1 .. Len(q) : i + 1 \in 1 .. 1 + Len(q) /\ ~(i + 1 <= 1) /\ (i + 1) - 1 = i
  BY <1>1
<1>5. \A j \in 1 .. 1 + Len(q) : j > 1 => j - 1 \in 1 .. Len(q) /\ ~(j <= 1)
  BY <1>1
<1>6. 1 \in 1 .. 1 + Len(q) /\ 1 <= 1
  BY <1>1
<1>7. QED BY <1>1, <1>2, <1>3, <1>4, <1>5, <1>6

\* A snapshot is published: what has gone and what is new is owed.
LEMMA ExplainsNext ==
  ASSUME NEW q, NEW D, NEW E, Explains(q, D, {}, {})
  PROVE  Explains(q, E, D \ E, E \ D)
BY DEF Explains

-----------------------------------------------------------------------------
(* The events of a device.                                                  *)

\* Events that say nothing of the presence of a device.
Plain == {e \in Events : e.type \notin {"pnp_arrival", "pnp_removal"}}

LEMMA PlainEvents ==
  ASSUME NEW q \in Seq(Plain)
  PROVE  q \in Seq(Events) /\ \A i \in DOMAIN q : q[i] \in Plain
<1>1. Plain \subseteq Events
  BY DEF Plain
<1>2. q \in Seq(Events)
  BY <1>1, SeqMonotonic
<1>3. DOMAIN q = 1 .. Len(q)
  BY LenProperties
<1>4. QED BY <1>2, <1>3, ElementOfSeq

LEMMA PlainEvent ==
  ASSUME NEW id \in Ids, NEW d \in Snapshots,
         NEW type \in EventTypes \ {"error", "pnp_arrival", "pnp_removal"}
  PROVE  Event(type, id, d) \in Plain
BY EventInEvents DEF Plain, Event

\* Events that say nothing of the D-state either.
Silent == {e \in Plain : e.type # "dstate_transition"}

\* The other events of a device are silent.
LEMMA SilentEvent ==
  ASSUME NEW id \in Ids, NEW d \in Snapshots,
         NEW type \in EventTypes \ {"error", "pnp_arrival", "pnp_removal", "dstate_transition"}
  PROVE  Event(type, id, d) \in Silent
<1>1. Event(type, id, d) \in Plain
  BY PlainEvent
<1>2. QED BY <1>1 DEF Silent, Event

\* Silent events are plain ones.
LEMMA SilentEvents ==
  ASSUME NEW q \in Seq(Silent)
  PROVE  q \in Seq(Plain) /\ q \in Seq(Events) /\ \A i \in DOMAIN q : q[i] \in Silent
<1>1. Silent \subseteq Plain
  BY DEF Silent
<1>2. q \in Seq(Plain)
  BY <1>1, SeqMonotonic
<1>3. DOMAIN q = 1 .. Len(q)
  BY LenProperties
<1>4. QED BY <1>2, <1>3, ElementOfSeq, PlainEvents

LEMMA ChangeIsPlain ==
  ASSUME NEW id \in Ids, NEW old \in Snapshots, NEW d \in Snapshots
  PROVE  ChangeEvents(id, old, d) \in Seq(Plain)
<1> DEFINE n == NormalizePowerTransition(id, old, d)
           m == IF MismatchRose(old, d) THEN << Event("parent_dstate_mismatch", id, d) >> ELSE << >>
           p == IF ProblemAppeared(old, d) THEN << Event("problem_code", id, d) >> ELSE << >>
           s == IF old.status # d.status THEN << Event("status_changed", id, d) >> ELSE << >>
<1>1. \A type \in EventTypes \ {"error", "pnp_arrival", "pnp_removal"} : Event(type, id, d) \in Plain
  BY PlainEvent
<1>2. n \in Seq(Plain)
  <2>1. CASE ~PowerMoved(old, d)
    BY <2>1 DEF NormalizePowerTransition
  <2>2. CASE PowerMoved(old, d) /\ old.power = "D0" /\ IsLowPowerState(d.power)
    BY <1>1, <2>2 DEF NormalizePowerTransition, EventTypes
  <2>3. CASE PowerMoved(old, d) /\ IsLowPowerState(old.power) /\ d.power = "D0"
    BY <1>1, <2>3 DEF NormalizePowerTransition, EventTypes, IsLowPowerState, PowerMoved
  <2>4. CASE /\ PowerMoved(old, d)
             /\ ~(old.power = "D0" /\ IsLowPowerState(d.power))
             /\ ~(IsLowPowerState(old.power) /\ d.power = "D0")
    BY <1>1, <2>4 DEF NormalizePowerTransition, EventTypes
  <2>5. QED BY <2>1, <2>2, <2>3, <2>4
<1>3. m \in Seq(Plain)
  BY <1>1 DEF EventTypes
<1>4. p \in Seq(Plain)
  BY <1>1 DEF EventTypes
<1>5. s \in Seq(Plain)
  BY <1>1 DEF EventTypes
<1> HIDE DEF n, m, p, s
<1>6. n \o m \o p \o s \in Seq(Plain)
  BY <1>2, <1>3, <1>4, <1>5, ConcatProperties
<1>7. QED BY <1>6 DEF ChangeEvents, n, m, p, s

\* q begins with e, and the rest is silent.
Begins(q, e) == \E r \in Seq(Silent) : q = <<e>> \o r

LEMMA BeginsWith ==
  ASSUME NEW e \in Events, NEW q, Begins(q, e)
  PROVE  /\ q \in Seq(Events) /\ 1 \in DOMAIN q /\ q[1] = e
         /\ \A i \in DOMAIN q : q[i] = e \/ q[i] \in Plain
<1>1. PICK r \in Seq(Silent) : q = <<e>> \o r
  BY DEF Begins
<1>2. r \in Seq(Events) /\ <<e>> \in Seq(Events) /\ Len(<<e>>) = 1 /\ Len(r) \in Nat
      /\ DOMAIN r = 1 .. Len(r) /\ \A i \in DOMAIN r : r[i] \in Plain
  BY SilentEvents, PlainEvents, LenProperties
<1>3. q \in Seq(Events) /\ DOMAIN q = 1 .. 1 + Len(r)
  BY <1>1, <1>2, ConcatProperties, LenProperties
<1>4. \A i \in 1 .. 1 + Len(r) : q[i] = IF i <= 1 THEN <<e>>[i] ELSE r[i - 1]
  BY <1>1, <1>2, ConcatProperties
<1>5. \A i \in 1 .. 1 + Len(r) : i = 1 \/ (~(i <= 1) /\ i - 1 \in 1 .. Len(r))
  BY <1>2
<1>6. QED BY <1>2, <1>3, <1>4, <1>5

LEMMA ArrivalBegins ==
  ASSUME NEW id \in Ids, NEW d \in Snapshots
  PROVE  Begins(ArrivalEvents(id, d), Event("pnp_arrival", id, d))
<1> DEFINE a == << Event("pnp_arrival", id, d) >>
           m == IF d.mismatch THEN << Event("parent_dstate_mismatch", id, d) >> ELSE << >>
           p == IF d.problem # NoProblem THEN << Event("problem_code", id, d) >> ELSE << >>
<1>1. a \in Seq(Events)
  BY EventInEvents DEF EventTypes
<1>2. m \in Seq(Silent) /\ p \in Seq(Silent)
  BY SilentEvent DEF EventTypes
<1> HIDE DEF a, m, p
<1>3. m \in Seq(Events) /\ p \in Seq(Events) /\ m \o p \in Seq(Silent)
  BY <1>2, SilentEvents, ConcatProperties
<1>4. a \o m \o p = a \o (m \o p)
  BY ONLY <1>1, <1>3, Regroup, Zenon
<1>5. QED BY <1>3, <1>4 DEF ArrivalEvents, Begins, a, m, p

LEMMA RemovalBegins ==
  ASSUME NEW id \in Ids, NEW old \in Snapshots, NEW current, IsMap(current, Snapshots),
         NEW t \in Nat, NEW s \in RemovalEvents(id, old, current, t)
  PROVE  Begins(s, Event("pnp_removal", id, [old EXCEPT !.lastSeen = t]))
<1> DEFINE gn == [old EXCEPT !.lastSeen = t]
           e == Event("pnp_removal", id, gn)
           f == Event("device_missing", id, gn)
           found == ReenumerationCandidates(id, old, current)
<1>1. gn \in Snapshots
  BY DEF Snapshots
<1>2. e \in Events /\ f \in Silent
  BY <1>1, EventInEvents, SilentEvent DEF EventTypes
<1>3. \A n \in found : Event("device_reenumerated", n, current[n]) \in Silent
  BY SilentEvent DEF ReenumerationCandidates, IsMap, IsMapOf, EventTypes
<1>4. \/ s = <<e, f>>
      \/ \E n \in found : s = Append(<<e, f>>, Event("device_reenumerated", n, current[n]))
  BY DEF RemovalEvents
<1> HIDE DEF e, f, found
<1>5. ASSUME NEW a \in Events, NEW b \in Events
      PROVE  <<a>> \in Seq(Events) /\ <<a, b>> \in Seq(Events) /\ <<a, b>> = <<a>> \o <<b>>
  <2>1. <<a>> \in Seq(Events) /\ <<b>> \in Seq(Events) /\ <<a, b>> \in Seq(Events)
    OBVIOUS
  <2>2. /\ <<a>> \o <<b>> \in Seq(Events) /\ Len(<<a>> \o <<b>>) = 2
        /\ (<<a>> \o <<b>>)[1] = a /\ (<<a>> \o <<b>>)[2] = b
    BY <2>1, ConcatProperties
  <2>3. Len(<<a, b>>) = 2 /\ <<a, b>>[1] = a /\ <<a, b>>[2] = b
    OBVIOUS
  <2> DEFINE x == <<a, b>>
             y == <<a>> \o <<b>>
  <2> HIDE DEF x, y
  <2>4. x \in Seq(Events) /\ y \in Seq(Events) /\ Len(x) = Len(y)
    BY <2>1, <2>2, <2>3 DEF x, y
  <2>5. \A i \in 1 .. Len(x) : x[i] = y[i]
    <3>1. \A i \in 1 .. 2 : i = 1 \/ i = 2
      OBVIOUS
    <3>2. Len(x) = 2 /\ x[1] = y[1] /\ x[2] = y[2]
      BY <2>2, <2>3 DEF x, y
    <3>3. QED BY <3>1, <3>2
  <2>6. x = y
    BY <2>4, <2>5, SeqEqual
  <2>7. QED BY <2>1, <2>6 DEF x, y
<1>6. ASSUME NEW g \in Silent
      PROVE  /\ <<f>> \in Seq(Silent) /\ <<f, g>> \in Seq(Silent)
             /\ Append(<<e, f>>, g) = <<e>> \o <<f, g>>
  <2>1. <<f>> \in Seq(Silent) /\ <<f, g>> \in Seq(Silent)
    BY <1>2
  <2>2. f \in Events /\ g \in Events
    BY <1>2 DEF Silent, Plain
  <2>3. Append(<<e, f>>, g) = <<e, f>> \o <<g>>
    BY <1>2, <1>5, <2>2, AppendIsConcat
  <2>4. <<e>> \in Seq(Events) /\ <<f>> \in Seq(Events) /\ <<g>> \in Seq(Events)
    BY <1>2, <1>5, <2>2
  <2>5. (<<e>> \o <<f>>) \o <<g>> = <<e>> \o (<<f>> \o <<g>>)
    BY ONLY <2>4, Regroup, Zenon
  <2>6. <<f>> \o <<g>> = <<f, g>>
    BY <1>5, <2>2
  <2>7. <<e>> \o <<f>> = <<e, f>>
    BY <1>2, <1>5, <2>2
  <2>8. QED BY ONLY <2>1, <2>3, <2>5, <2>6, <2>7
<1>7. <<f>> \in Seq(Silent) /\ <<e, f>> = <<e>> \o <<f>>
  <2>1. f \in Events
    BY <1>2 DEF Silent, Plain
  <2>2. <<f>> \in Seq(Silent)
    BY <1>2
  <2>3. QED BY <1>2, <1>5, <2>1, <2>2
<1>8. \E r \in Seq(Silent) : s = <<e>> \o r
  BY <1>3, <1>4, <1>6, <1>7
<1>9. QED BY <1>8 DEF Begins, e

-----------------------------------------------------------------------------
(* The steps.                                                               *)

DInv == IInv /\ Explained /\ NothingYet /\ OnlyMissing

LEMMA WayType ==
  ASSUME IInv
  PROVE  /\ posted \in Seq(Events) /\ inHand \in Seq(Events) /\ events \in Seq(Events)
         /\ pending \in Seq(Events) /\ UnderWay \in Seq(Events)
<1>1. /\ posted \in Seq(Events) /\ inHand \in Seq(Events) /\ events \in Seq(Events)
      /\ pending \in Seq(Events)
  BY DEF IInv, TypeOK, PollerTypeOK
<1>2. events \o pending \in Seq(Events)
  BY <1>1, ConcatProperties
<1>3. inHand \o (events \o pending) \in Seq(Events)
  BY <1>1, <1>2, ConcatProperties
<1>4. UnderWay \in Seq(Events)
  BY <1>1, <1>3, ConcatProperties DEF UnderWay
<1>5. QED BY <1>1, <1>4

\* What is behind the channel goes to the end of what is under way.
LEMMA WayGrows ==
  ASSUME DInv, pending = << >>, NEW s \in Seq(Events), events' \o pending' = events \o s,
         UNCHANGED <<posted, inHand>>
  PROVE  UnderWay' = UnderWay \o s
<1> DEFINE p == posted
           h == inHand
           e == events
           g == h \o e
<1>1. p \in Seq(Events) /\ h \in Seq(Events) /\ e \in Seq(Events)
  BY WayType DEF DInv
<1>2. UnderWay = p \o (h \o e)
  <2>1. e \o pending = e
    BY <1>1, ConcatEmptySeq
  <2>2. QED BY <2>1 DEF UnderWay
<1>3. UnderWay' = p \o (h \o (e \o s))
  BY DEF UnderWay
<1> HIDE DEF p, h, e
<1>4. g \in Seq(Events)
  BY <1>1, ConcatProperties
<1>5. g \o s = h \o (e \o s)
  <2>1. h \in Seq(Events) /\ e \in Seq(Events) /\ s \in Seq(Events)
    BY <1>1
  <2>2. QED BY ONLY <2>1, Regroup, Zenon
<1> HIDE DEF g
<1>6. (p \o g) \o s = p \o (g \o s)
  <2>1. p \in Seq(Events) /\ g \in Seq(Events) /\ s \in Seq(Events)
    BY <1>1, <1>4
  <2>2. QED BY ONLY <2>1, Regroup, Zenon
<1>7. UnderWay \o s = (p \o g) \o s
  BY <1>2 DEF g
<1>8. QED BY <1>3, <1>5, <1>6, <1>7

\* Nothing is added to what is under way, and nothing is published.
LEMMA SameWay ==
  ASSUME Explained, NothingYet, OnlyMissing, UnderWay' = UnderWay,
         UNCHANGED <<devices, previous, ready, gone, todo>>, dropped => dropped',
         prev' = prev \/ todo = {}, pc' = "send" => pc = "send"
  PROVE  Explained' /\ NothingYet' /\ OnlyMissing'
<1>1. todo \ DOMAIN prev' = todo \ DOMAIN prev
  OBVIOUS
<1>2. QED BY <1>1 DEF Explained, NothingYet, OnlyMissing

\* The scan that publishes.
LEMMA CommitExplains ==
  ASSUME DInv, Commit, UNCHANGED <<posted, inHand, dropped>>
  PROVE  Explained' /\ NothingYet' /\ OnlyMissing'
<1>1. /\ pc = "read" /\ todo = {} /\ gone = {} /\ devices = previous
      /\ previous' = Current /\ devices' = Current /\ ready' = TRUE
      /\ UnderWay' = UnderWay
  BY DEF DInv, IInv, SendLoop, Published, Commit, Publish, UnderWay
<1>2. CASE Emits
  <2>1. /\ prev' = previous /\ gone' = DOMAIN previous \ DOMAIN Current
        /\ todo' \ DOMAIN prev' = DOMAIN Current \ DOMAIN previous
    BY <1>2 DEF Commit, Dropped, Reported
  <2>2. ASSUME ~dropped PROVE Explains(UnderWay, DOMAIN previous, {}, {})
    BY <1>1, <2>2 DEF DInv, Explained
  <2>3. QED BY <1>1, <2>1, <2>2, ExplainsNext DEF Explained, NothingYet, OnlyMissing
<1>3. CASE ~Emits
  <2>1. ~ready /\ gone' = {}
    BY <1>1, <1>3 DEF Commit, Emits, DInv, IInv, Baseline, TypeOK, PollerTypeOK, Stages
  <2>2. \A i \in DOMAIN UnderWay : UnderWay[i].type = "error"
    BY <2>1 DEF DInv, NothingYet
  <2>3. \A D, G, T : Explains(UnderWay, D, G, T)
    BY <2>2 DEF Explains, Arrives, Leaves
  <2>4. QED BY <1>1, <2>1, <2>3 DEF Explained, NothingYet, OnlyMissing
<1>4. QED BY <1>2, <1>3

\* The send loop comes to a device: what it owed is under way from now on.
LEMMA NextPresentExplains ==
  ASSUME DInv, NEW id \in Ids, NextPresent(id), UNCHANGED <<posted, inHand, dropped>>
  PROVE  Explained' /\ NothingYet' /\ OnlyMissing'
<1> USE DEF shared
<1>1. /\ pc = "send" /\ pending = << >> /\ id \in todo /\ id \in DOMAIN previous
      /\ UNCHANGED <<devices, previous, ready, gone, prev, pc, events>>
      /\ devices = previous /\ todo' = todo \ {id}
  BY DEF DInv, IInv, SendLoop, Published, NextPresent
<1>2. previous[id] \in Snapshots /\ (id \in DOMAIN prev => prev[id] \in Snapshots)
  BY <1>1 DEF DInv, IInv, TypeOK, PollerTypeOK, IsMap, IsMapOf
<1>3. pending' \in Seq(Events) /\ UnderWay' = UnderWay \o pending'
  <2>1. pending' \in Seq(Events)
    BY <1>2, ChangeEventsEmpty, ArrivalEventsType DEF NextPresent
  <2>2. events' \o pending' = events \o pending'
    BY <1>1
  <2>3. QED BY <1>1, <2>1, <2>2, WayGrows
<1>4. NothingYet' /\ OnlyMissing'
  BY <1>1 DEF DInv, NothingYet, OnlyMissing
<1>5. CASE id \in DOMAIN prev
  <2>1. pending' \in Seq(Plain)
    BY <1>2, <1>5, ChangeIsPlain DEF NextPresent
  <2>2. \A i \in DOMAIN pending', n \in Names :
          ~Arrives(pending'[i], n) /\ ~Leaves(pending'[i], n)
    BY <2>1, PlainEvents DEF Plain, Arrives, Leaves
  <2>3. todo' \ DOMAIN prev' = todo \ DOMAIN prev
    BY <1>1, <1>5
  <2>4. ASSUME ~dropped PROVE Explains(UnderWay', DOMAIN devices, gone, todo \ DOMAIN prev)
    BY <1>3, <2>2, <2>4, WayType, ExplainsMore DEF DInv, Explained
  <2>5. QED BY <1>1, <1>4, <2>3, <2>4 DEF Explained
<1>6. CASE id \notin DOMAIN prev
  <2> DEFINE e == Event("pnp_arrival", id, previous[id])
  <2>1. Begins(pending', e) /\ e \in Events
    BY <1>2, <1>6, ArrivalBegins, EventInEvents DEF NextPresent, EventTypes
  <2>2. \A n \in Names : (Arrives(e, n) <=> n = id) /\ ~Leaves(e, n)
    BY DEF Arrives, Leaves, Event
  <2> HIDE DEF e
  <2>3. 1 \in DOMAIN pending' /\ pending'[1] = e
        /\ \A i \in DOMAIN pending' : pending'[i] = e \/ pending'[i] \in Plain
    BY <2>1, BeginsWith
  <2>4. \A i \in DOMAIN pending', n \in Names :
          (Arrives(pending'[i], n) => n = id) /\ ~Leaves(pending'[i], n)
    BY <2>2, <2>3 DEF Plain, Arrives, Leaves
  <2>5. id \in Names /\ Arrives(pending'[1], id)
    BY <2>2, <2>3 DEF Names
  <2>6. \A n \in Names : n \in todo \ DOMAIN prev =>
          n \in todo' \ DOMAIN prev' \/ \E j \in DOMAIN pending' : Arrives(pending'[j], n)
    BY <1>1, <2>3, <2>5
  <2>7. ASSUME ~dropped PROVE Explains(UnderWay', DOMAIN devices, gone, todo' \ DOMAIN prev')
    BY <1>1, <1>3, <2>4, <2>6, <2>7, WayType, ExplainsMore DEF DInv, Explained
  <2>8. QED BY <1>1, <1>4, <2>7 DEF Explained
<1>7. QED BY <1>5, <1>6

LEMMA NextMissingExplains ==
  ASSUME DInv, NEW id \in Ids, NextMissing(id), UNCHANGED <<posted, inHand, dropped>>
  PROVE  Explained' /\ NothingYet' /\ OnlyMissing'
<1> USE DEF shared
<1>1. /\ pc = "send" /\ pending = << >> /\ id \in gone /\ id \in DOMAIN prev
      /\ id \notin DOMAIN previous
      /\ UNCHANGED <<devices, previous, ready, todo, prev, pc, events>>
      /\ devices = previous /\ gone' = gone \ {id}
  BY DEF DInv, IInv, SendLoop, Published, OnlyMissing, NextMissing
<1>2. prev[id] \in Snapshots /\ IsMap(previous, Snapshots) /\ now \in Nat
      /\ pending' \in RemovalEvents(id, prev[id], previous, now)
  BY <1>1 DEF DInv, IInv, TypeOK, PollerTypeOK, IsMap, IsMapOf, NextMissing
<1>3. pending' \in Seq(Events) /\ UnderWay' = UnderWay \o pending'
  <2>1. pending' \in Seq(Events)
    BY <1>2, RemovalEventsType
  <2>2. events' \o pending' = events \o pending'
    BY <1>1
  <2>3. QED BY <1>1, <2>1, <2>2, WayGrows
<1>4. NothingYet' /\ OnlyMissing'
  BY <1>1 DEF DInv, NothingYet, OnlyMissing
<1> DEFINE d == [prev[id] EXCEPT !.lastSeen = now]
           e == Event("pnp_removal", id, d)
<1>5. Begins(pending', e) /\ e \in Events
  <2>1. d \in Snapshots
    BY <1>2 DEF Snapshots
  <2>2. QED BY <1>2, <2>1, RemovalBegins, EventInEvents DEF EventTypes
<1>6. \A n \in Names : (Leaves(e, n) <=> n = id) /\ ~Arrives(e, n)
  BY DEF Arrives, Leaves, Event
<1> HIDE DEF e
<1>7. 1 \in DOMAIN pending' /\ pending'[1] = e
      /\ \A i \in DOMAIN pending' : pending'[i] = e \/ pending'[i] \in Plain
  BY <1>5, BeginsWith
<1>8. \A i \in DOMAIN pending', n \in Names :
        (Leaves(pending'[i], n) => n = id) /\ ~Arrives(pending'[i], n)
  BY <1>6, <1>7 DEF Plain, Arrives, Leaves
<1>9. id \in Names /\ Leaves(pending'[1], id)
  BY <1>6, <1>7 DEF Names
<1>10. \A n \in Names : n \in gone =>
          n \in gone' \/ \E j \in DOMAIN pending' : Leaves(pending'[j], n)
  BY <1>1, <1>7, <1>9
<1>11. ASSUME ~dropped PROVE Explains(UnderWay', DOMAIN devices, gone', todo \ DOMAIN prev)
  BY <1>1, <1>3, <1>8, <1>10, <1>11, WayType, ExplainsMore DEF DInv, Explained
<1>12. QED BY <1>1, <1>4, <1>11 DEF Explained

\* send: the event moves into the channel, or it is dropped.
LEMMA SendWay ==
  ASSUME IInv, Send, UNCHANGED <<posted, inHand>>,
         dropped' = (dropped \/ (pending # pending' /\ pending # << >> /\ events' = events))
  PROVE  UnderWay' = UnderWay \/ dropped'
<1>1. pc = "send" /\ pending # << >> /\ pending' = Tail(pending)
  BY DEF Send
<1>2. pending \in Seq(Events) /\ events \in Seq(Events)
  BY WayType
<1>3. CASE Len(events) < Capacity
  <2> DEFINE f == Head(pending)
             r == Tail(pending)
             e == events
  <2>1. /\ f \in Events /\ r \in Seq(Events) /\ <<f>> \in Seq(Events) /\ e \in Seq(Events)
        /\ pending = <<f>> \o r
    BY <1>1, <1>2, HeadAndTail
  <2>2. events' = Append(e, f)
    BY <1>3 DEF Send, Sent
  <2> HIDE DEF f, r, e
  <2>3. Append(e, f) = e \o <<f>>
    BY <2>1, AppendIsConcat
  <2>4. (e \o <<f>>) \o r = e \o (<<f>> \o r)
    <3>1. e \in Seq(Events) /\ <<f>> \in Seq(Events) /\ r \in Seq(Events)
      BY <2>1
    <3>2. QED BY ONLY <3>1, Regroup, Zenon
  <2>5. events' \o pending' = events \o pending
    <3>1. pending = <<f>> \o r
      BY <2>1
    <3>2. pending' = r /\ events = e
      BY <1>1 DEF r, e
    <3>3. QED BY ONLY <2>2, <2>3, <2>4, <3>1, <3>2, Zenon
  <2>6. UnderWay' = UnderWay
    BY <2>5 DEF UnderWay
  <2>7. QED BY <2>6
<1>4. CASE ~(Len(events) < Capacity)
  <2>1. events' = events
    BY <1>4 DEF Send, Sent
  <2>2. pending' # pending
    BY <1>1, <1>2, HeadTailProperties, LenProperties
  <2>3. dropped'
    BY <1>1, <2>1, <2>2
  <2>4. QED BY <2>3
<1>5. QED BY <1>3, <1>4

LEMMA SendExplains ==
  ASSUME DInv, Send, UNCHANGED <<posted, inHand>>, dropped \in BOOLEAN,
         dropped' = (dropped \/ (pending # pending' /\ pending # << >> /\ events' = events))
  PROVE  Explained' /\ NothingYet' /\ OnlyMissing'
<1>1. pc = "send" /\ UNCHANGED <<devices, previous, ready, gone, todo, prev, pc>>
  BY DEF Send, shared
<1>2. ready /\ ready'
  BY <1>1 DEF DInv, NothingYet, IInv, TypeOK, PollerTypeOK
<1>3. CASE UnderWay' = UnderWay
  BY <1>1, <1>3, SameWay DEF DInv
<1>4. CASE dropped'
  BY <1>1, <1>2, <1>4 DEF Explained, NothingYet, OnlyMissing, DInv
<1>5. UnderWay' = UnderWay \/ dropped'
  BY SendWay DEF DInv
<1>6. QED BY <1>3, <1>4, <1>5

\* A listing that fails is reported, unless the channel is full.
LEMMA FailureWay ==
  ASSUME DInv, ListFails, UNCHANGED <<posted, inHand>>
  PROVE  /\ ErrorEvent(now) \in Events /\ <<ErrorEvent(now)>> \in Seq(Events)
         /\ UnderWay' = UnderWay \/ UnderWay' = UnderWay \o <<ErrorEvent(now)>>
<1> DEFINE f == ErrorEvent(now)
<1>1. pending = << >> /\ pending' = pending /\ events' = Sent(f)
  BY DEF ListFails, DInv, IInv, SendLoop, sending
<1>2. f \in Events /\ <<f>> \in Seq(Events) /\ events \in Seq(Events)
  <2>1. now \in Nat
    BY DEF DInv, IInv, TypeOK, PollerTypeOK
  <2>2. f \in Events
    BY <2>1, ErrorInEvents
  <2>3. QED BY <2>2, WayType DEF DInv
<1> HIDE DEF f
<1>3. CASE events' = events
  BY <1>1, <1>2, <1>3 DEF UnderWay, f
<1>4. CASE events' = Append(events, f)
  <2>1. events' \in Seq(Events) /\ events' = events \o <<f>> /\ events' \o pending' = events'
    BY <1>1, <1>2, <1>4, AppendProperties, AppendIsConcat, ConcatEmptySeq
  <2>2. UnderWay' = UnderWay \o <<f>>
    BY <1>1, <1>2, <2>1, WayGrows
  <2>3. QED BY <1>2, <2>2 DEF f
<1>5. QED BY <1>1, <1>3, <1>4 DEF Sent

LEMMA FailureExplains ==
  ASSUME DInv, ListFails, UNCHANGED <<posted, inHand, dropped>>
  PROVE  Explained' /\ NothingYet' /\ OnlyMissing'
<1> USE DEF shared, sending
<1> DEFINE f == ErrorEvent(now)
<1>1. /\ pc \in {"list", "read"} /\ pc' \in {"start", "select"} /\ pending = << >>
      /\ UNCHANGED <<devices, previous, ready, gone, todo, prev, pending>>
      /\ UnderWay' = UnderWay \/ UnderWay' = UnderWay \o <<f>>
  BY FailureWay DEF ListFails, ScanReturns, DInv, IInv, SendLoop
<1>2. f \in Events /\ <<f>> \in Seq(Events) /\ f.type = "error" /\ UnderWay \in Seq(Events)
  BY FailureWay, WayType DEF DInv, ErrorEvent
<1> HIDE DEF f
<1>3. CASE UnderWay' = UnderWay
  BY <1>1, <1>3, SameWay DEF DInv
<1>4. CASE UnderWay' = UnderWay \o <<f>>
  <2>1. \A i \in DOMAIN <<f>>, n \in Names : ~Arrives(<<f>>[i], n) /\ ~Leaves(<<f>>[i], n)
    BY <1>2 DEF Arrives, Leaves
  <2>2. ASSUME ~dropped
        PROVE  Explains(UnderWay \o <<f>>, DOMAIN devices, gone, todo \ DOMAIN prev)
    BY <1>2, <2>1, <2>2, ExplainsMore DEF DInv, Explained
  <2>3. ASSUME ~ready, NEW i \in DOMAIN (UnderWay \o <<f>>)
        PROVE  (UnderWay \o <<f>>)[i].type = "error"
    <3>1. \A j \in DOMAIN UnderWay : UnderWay[j].type = "error"
      BY <2>3 DEF DInv, NothingYet
    <3>2. /\ Len(UnderWay) \in Nat /\ DOMAIN UnderWay = 1 .. Len(UnderWay) /\ Len(<<f>>) = 1
          /\ DOMAIN (UnderWay \o <<f>>) = 1 .. Len(UnderWay) + 1
      BY <1>2, ConcatProperties, LenProperties
    <3>3. (UnderWay \o <<f>>)[i] = IF i <= Len(UnderWay) THEN UnderWay[i]
                                                         ELSE <<f>>[i - Len(UnderWay)]
      BY <1>2, <2>3, <3>2, ConcatProperties
    <3>4. i \in 1 .. Len(UnderWay) \/ (~(i <= Len(UnderWay)) /\ i - Len(UnderWay) = 1)
      BY <2>3, <3>2
    <3>5. QED BY <1>2, <3>1, <3>2, <3>3, <3>4
  <2>4. QED BY <1>1, <1>4, <2>2, <2>3 DEF Explained, NothingYet, OnlyMissing, DInv
<1>5. QED BY <1>1, <1>3, <1>4

LEMMA PollerExplains ==
  ASSUME DInv, PollerRuns
  PROVE  Explained' /\ NothingYet' /\ OnlyMissing'
<1> USE DEF shared, sending
<1>1. PollerStep /\ UNCHANGED <<posted, inHand>> /\ dropped \in BOOLEAN /\ dropped' \in BOOLEAN
      /\ dropped' = (dropped \/ (pending # pending' /\ pending # << >> /\ events' = events))
  BY DEF PollerRuns, DInv, IInv, TypeOK
<1>2. (pending = << >> \/ pending' = pending) => dropped' = dropped
  BY <1>1
<1>3. CASE Commit
  BY <1>1, <1>2, <1>3, CommitExplains DEF Commit
<1>4. CASE Send
  BY <1>1, <1>4, SendExplains
<1>5. CASE ListFails
  BY <1>1, <1>2, <1>5, FailureExplains DEF ListFails
<1>6. ASSUME NEW id \in Ids, NextPresent(id) PROVE Explained' /\ NothingYet' /\ OnlyMissing'
  BY <1>1, <1>2, <1>6, NextPresentExplains DEF NextPresent
<1>7. ASSUME NEW id \in Ids, NextMissing(id) PROVE Explained' /\ NothingYet' /\ OnlyMissing'
  BY <1>1, <1>2, <1>7, NextMissingExplains DEF NextMissing
<1>8. CASE ListBegin \/ EndScan \/ RunStarts \/ TickerFires \/ TakeRefresh \/ RunReturns
             \/ \E id \in Nodes : ListRead(id)
  <2>1. /\ UNCHANGED <<devices, previous, ready, gone, todo, pending, events>>
        /\ (prev' = prev \/ todo = {}) /\ pc' # "send"
    BY <1>8 DEF ListBegin, EndScan, RunStarts, TickerFires, TakeRefresh, RunReturns, ListRead,
                ScanReturns
  <2>2. UnderWay' = UnderWay
    BY <1>1, <2>1 DEF UnderWay
  <2>3. QED BY <1>1, <1>2, <2>1, <2>2, SameWay DEF DInv
<1>9. QED BY <1>1, <1>3, <1>4, <1>5, <1>6, <1>7, <1>8 DEF PollerStep

\* consumePollerEvents moves events on in their order.
LEMMA ConsumerWay ==
  ASSUME IInv, ConsumerReceives \/ ConsumerPosts
  PROVE  UnderWay' = UnderWay
<1> USE DEF pvars, world, scanning, shared, sending
<1> DEFINE p == posted
           h == inHand
           e == events
           d == pending
           x == e \o d
<1>1. /\ p \in Seq(Events) /\ h \in Seq(Events) /\ e \in Seq(Events) /\ d \in Seq(Events)
      /\ x \in Seq(Events)
  <2>1. p \in Seq(Events) /\ h \in Seq(Events) /\ e \in Seq(Events) /\ d \in Seq(Events)
    BY WayType
  <2>2. QED BY <2>1, ConcatProperties
<1>2. CASE ConsumerReceives
  <2> DEFINE f == Head(e)
             r == Tail(e)
  <2>1. /\ f \in Events /\ r \in Seq(Events) /\ <<f>> \in Seq(Events) /\ e = <<f>> \o r
    BY <1>1, <1>2, HeadAndTail DEF ConsumerReceives, Receive
  <2>2. h = << >> /\ posted' = p /\ inHand' = <<f>> /\ events' = r /\ pending' = d
    BY <1>2 DEF ConsumerReceives, Receive
  <2> HIDE DEF f, r, p, h, e, d
  <2>3. (<<f>> \o r) \o d = <<f>> \o (r \o d)
    <3>1. <<f>> \in Seq(Events) /\ r \in Seq(Events) /\ d \in Seq(Events)
      BY <1>1, <2>1
    <3>2. QED BY ONLY <3>1, Regroup, Zenon
  <2> HIDE DEF x
  <2>4. << >> \o x = x
    BY <1>1, ConcatEmptySeq
  <2>5. inHand' \o (events' \o pending') = h \o x
    BY <2>1, <2>2, <2>3, <2>4 DEF x
  <2>6. QED BY <2>2, <2>5 DEF UnderWay, p, h, x, e, d
<1>3. CASE ConsumerPosts
  <2>1. /\ posted' = p \o h /\ inHand' = << >> /\ events' = e /\ pending' = d
    BY <1>3 DEF ConsumerPosts
  <2> HIDE DEF x, p, h, e, d
  <2>2. << >> \o x = x /\ (p \o h) \o x = p \o (h \o x)
    <3>1. << >> \o x = x
      BY <1>1, ConcatEmptySeq
    <3>2. (p \o h) \o x = p \o (h \o x)
      <4>1. p \in Seq(Events) /\ h \in Seq(Events) /\ x \in Seq(Events)
        BY <1>1
      <4>2. QED BY ONLY <4>1, Regroup, Zenon
    <3>3. QED BY <3>1, <3>2
  <2>3. UnderWay' = (p \o h) \o x
    BY <2>1, <2>2 DEF UnderWay, x
  <2>4. UnderWay = p \o (h \o x)
    BY DEF UnderWay, p, h, x, e, d
  <2>5. QED BY <2>2, <2>3, <2>4
<1>4. QED BY <1>2, <1>3

LEMMA ConsumerExplains ==
  ASSUME DInv, ConsumerReceives \/ ConsumerPosts
  PROVE  Explained' /\ NothingYet' /\ OnlyMissing'
<1>1. UNCHANGED <<devices, previous, ready, gone, todo, prev, pc, pending, dropped>>
  BY DEF ConsumerReceives, ConsumerPosts, Receive, pvars, world, scanning, shared, sending
<1>2. UnderWay' = UnderWay
  BY ConsumerWay DEF DInv
<1>3. QED BY <1>1, <1>2, SameWay DEF DInv

\* Everything that is under way but the event at the head.
Behind == Tail(posted) \o (inHand \o (events \o pending))

LEMMA HeadOfWay ==
  ASSUME IInv, posted # << >>
  PROVE  /\ Head(posted) \in Events /\ Behind \in Seq(Events)
         /\ UnderWay = <<Head(posted)>> \o Behind
<1> DEFINE f == Head(posted)
           r == Tail(posted)
           x == inHand \o (events \o pending)
<1>1. /\ posted \in Seq(Events) /\ inHand \in Seq(Events) /\ events \in Seq(Events)
      /\ pending \in Seq(Events)
  BY WayType
<1>2. /\ f \in Events /\ r \in Seq(Events) /\ <<f>> \in Seq(Events) /\ posted = <<f>> \o r
  BY <1>1, HeadAndTail
<1>3. x \in Seq(Events)
  <2>1. events \o pending \in Seq(Events)
    BY <1>1, ConcatProperties
  <2>2. QED BY <1>1, <2>1, ConcatProperties
<1>4. UnderWay = posted \o x /\ Behind = r \o x
  BY DEF UnderWay, Behind
<1> HIDE DEF f, r, x
<1>5. (<<f>> \o r) \o x = <<f>> \o (r \o x) /\ r \o x \in Seq(Events)
  <2>1. (<<f>> \o r) \o x = <<f>> \o (r \o x)
    <3>1. <<f>> \in Seq(Events) /\ r \in Seq(Events)
      BY <1>2
    <3>2. QED BY ONLY <1>3, <3>1, Regroup, Zenon
  <2>2. r \o x \in Seq(Events)
    BY <1>2, <1>3, ConcatProperties
  <2>3. QED BY <2>1, <2>2
<1>6. QED BY <1>2, <1>4, <1>5 DEF f

LEMMA HandlePostedBehind ==
  ASSUME IInv, posted # << >>
  PROVE  Tail(posted) \o inHand \o events \o pending = Behind
<1> DEFINE r == Tail(posted)
           h == inHand
           e == events
           d == pending
           x == r \o h
<1>1. r \in Seq(Events) /\ h \in Seq(Events) /\ e \in Seq(Events) /\ d \in Seq(Events)
  BY WayType, HeadAndTail
<1>2. Behind = r \o (h \o (e \o d))
  BY DEF Behind
<1> HIDE DEF r, h, e, d
<1> DEFINE y == e \o d
<1>3. x \in Seq(Events)
  BY <1>1, ConcatProperties
<1>4. y \in Seq(Events)
  BY <1>1, ConcatProperties
<1> HIDE DEF x, y
<1>5. (x \o e) \o d = x \o (e \o d)
  <2>1. x \in Seq(Events) /\ e \in Seq(Events) /\ d \in Seq(Events)
    BY <1>1, <1>3
  <2>2. QED BY ONLY <2>1, Regroup, Zenon
<1>6. (r \o h) \o y = r \o (h \o y)
  <2>1. r \in Seq(Events) /\ h \in Seq(Events) /\ y \in Seq(Events)
    BY <1>1, <1>4
  <2>2. QED BY ONLY <2>1, Regroup, Zenon
<1>7. ((r \o h) \o e) \o d = r \o (h \o (e \o d))
  BY <1>5, <1>6 DEF x, y
<1>8. QED BY <1>2, <1>7 DEF r, h, e, d

\* The message loop takes the first event off.
LEMMA WindowExplains ==
  ASSUME DInv, UIStarts \/ HandlePosted \/ ApplyTargetFilter \/ RefreshButton
  PROVE  Explained' /\ NothingYet' /\ OnlyMissing'
<1> USE DEF pvars, world, scanning, shared, sending
<1>1. /\ UNCHANGED <<devices, previous, ready, gone, todo, prev, pc, events, pending, inHand,
                      dropped>>
  BY DEF UIStarts, HandlePosted, ApplyTargetFilter, RefreshButton
<1>2. CASE HandlePosted
  <2>1. Head(posted) \in Events /\ Behind \in Seq(Events) /\ UnderWay = <<Head(posted)>> \o Behind
        /\ UnderWay' = Behind
    BY <1>1, <1>2, HeadOfWay DEF HandlePosted, DInv, UnderWay, Behind
  <2> DEFINE f == Head(posted)
  <2> HIDE DEF f
  <2>2. ASSUME ~dropped PROVE Explains(Behind, DOMAIN devices, gone, todo \ DOMAIN prev)
    <3>1. Explains(<<f>> \o Behind, DOMAIN devices, gone, todo \ DOMAIN prev)
      BY <2>1, <2>2 DEF DInv, Explained, f
    <3>2. QED BY <2>1, <3>1, ExplainsLess DEF f
  <2>3. ASSUME ~ready, NEW i \in DOMAIN Behind PROVE Behind[i].type = "error"
    <3>1. \A j \in DOMAIN UnderWay : UnderWay[j].type = "error"
      BY <2>3 DEF DInv, NothingYet
    <3>2. i + 1 \in DOMAIN UnderWay /\ UnderWay[i + 1] = Behind[i]
      BY <2>1, <2>3, Prefixed DEF f
    <3>3. QED BY <3>1, <3>2
  <2>4. QED BY <1>1, <2>1, <2>2, <2>3 DEF DInv, Explained, NothingYet, OnlyMissing
<1>3. CASE UIStarts \/ ApplyTargetFilter \/ RefreshButton
  <2>1. UnderWay' = UnderWay
    BY <1>3 DEF UIStarts, ApplyTargetFilter, RefreshButton, UnderWay
  <2>2. QED BY <1>1, <2>1, SameWay DEF DInv
<1>4. QED BY <1>2, <1>3

LEMMA NextExplains ==
  ASSUME DInv, [Next]_vars
  PROVE  Explained' /\ NothingYet' /\ OnlyMissing'
<1>1. CASE MachineChanges \/ SystemMessage \/ ClickCheckBox \/ UNCHANGED vars
  <2>1. UNCHANGED <<devices, previous, ready, gone, todo, prev, pc, events, pending, posted, inHand,
                    dropped>>
    <3> USE DEF vars, pvars, world, scanning, shared, sending, uivars
    <3>1. CASE MachineChanges
      BY <3>1, MachineType DEF MachineChanges, DInv, IInv, TypeOK
    <3>2. CASE SystemMessage \/ ClickCheckBox
      BY <3>2 DEF SystemMessage, RefreshNow, ClickCheckBox
    <3>3. CASE UNCHANGED vars
      BY <3>3
    <3>4. QED BY <1>1, <3>1, <3>2, <3>3
  <2>2. UnderWay' = UnderWay
    BY <2>1 DEF UnderWay
  <2>3. QED BY <2>1, <2>2, SameWay DEF DInv
<1>2. QED BY <1>1, PollerExplains, ConsumerExplains, WindowExplains DEF Next

LEMMA StartExplains ==
  ASSUME Init
  PROVE  Explained /\ NothingYet /\ OnlyMissing
<1>1. /\ posted = << >> /\ inHand = << >> /\ events = << >> /\ pending = << >> /\ pc # "send"
      /\ gone = {}
  BY DEF Init, PollerInit
<1>2. UnderWay = << >> /\ DOMAIN UnderWay = {}
  BY <1>1 DEF UnderWay
<1>3. QED BY <1>1, <1>2 DEF Explained, Explains, NothingYet, OnlyMissing

\* The event at the head of what is under way agrees with the list.
LEMMA HandledAgrees ==
  ASSUME IInv, Explained, HandlePosted, ~dropped
  PROVE  LET e == Head(posted)
         IN /\ e.type = "pnp_arrival" => e.id \in DOMAIN shown' \/ Coming("pnp_removal", e.id)
            /\ e.type = "pnp_removal" => e.id \notin DOMAIN shown' \/ Coming("pnp_arrival", e.id)
<1> DEFINE e == Head(posted)
           q == Tail(posted) \o inHand \o events \o pending
<1>1. /\ e \in Events /\ Behind \in Seq(Events) /\ UnderWay = <<e>> \o Behind /\ shown' = devices
  BY HeadOfWay DEF HandlePosted, RefreshDevices
<1>2. q = Behind
  BY HandlePostedBehind DEF HandlePosted
<1>3. ToSet(q) = {Behind[i] : i \in DOMAIN Behind}
  BY <1>2 DEF ToSet
<1>4. e.id \in Names
  BY <1>1 DEF Events, Names
<1>5. Explains(UnderWay, DOMAIN devices, gone, todo \ DOMAIN prev)
  BY DEF Explained
<1> HIDE DEF e, q
<1>6. 1 \in DOMAIN UnderWay /\ UnderWay[1] = e
      /\ \A j \in DOMAIN UnderWay : j > 1 => UnderWay[j] \in ToSet(q)
  BY <1>1, <1>3, Prefixed
<1>7. e.type = "pnp_arrival" => e.id \in DOMAIN devices \/ Coming("pnp_removal", e.id)
  BY <1>4, <1>5, <1>6 DEF Explains, Arrives, Leaves, Coming, q
<1>8. e.type = "pnp_removal" => e.id \notin DOMAIN devices \/ Coming("pnp_arrival", e.id)
  BY <1>4, <1>5, <1>6 DEF Explains, Arrives, Leaves, Coming, q
<1>9. QED BY <1>1, <1>7, <1>8 DEF e

\* scan publishes before it sends and the channel, consumePollerEvents and the
\* message loop keep the order: when an arrival or a removal is handled the list
\* agrees with it, or the opposite event is coming, for any number of devices and
\* any channel.
THEOREM NeverBehind == Spec => ListNotBehindEvent
<1>1. Init => Explained /\ NothingYet /\ OnlyMissing
  BY StartExplains
<1>2. IInv /\ Explained /\ NothingYet /\ OnlyMissing /\ [Next]_vars
        => Explained' /\ NothingYet' /\ OnlyMissing'
  BY NextExplains DEF DInv
<1>3. ASSUME IInv, Explained, HandlePosted, ~dropped
      PROVE  LET e == Head(posted)
             IN /\ e.type = "pnp_arrival" => e.id \in DOMAIN shown' \/ Coming("pnp_removal", e.id)
                /\ e.type = "pnp_removal" => e.id \notin DOMAIN shown' \/ Coming("pnp_arrival", e.id)
  BY <1>3, HandledAgrees
<1>4. IInv /\ Explained /\ [Next]_vars
        => [(HandlePosted /\ ~dropped) =>
              LET e == Head(posted)
              IN /\ e.type = "pnp_arrival" =>
                      e.id \in DOMAIN shown' \/ Coming("pnp_removal", e.id)
                 /\ e.type = "pnp_removal" =>
                      e.id \notin DOMAIN shown' \/ Coming("pnp_arrival", e.id)]_vars
  BY <1>3
<1>5. QED BY <1>1, <1>2, <1>4, Invariance, PTL DEF Spec, ListNotBehindEvent

-----------------------------------------------------------------------------
(* What a reader of the log knows: the recursion of ReadOn.                 *)

\* One step of the recursion in ReadOn.
ReadStep(after, known, log, n) == IF n = 0 THEN known ELSE Heed(after[n - 1], log[n])

\* after lists what is known after each of the first n events.
IsRead(after, known, log, n) == after = [k \in 0 .. n |-> ReadStep(after, known, log, k)]

\* The recursion of ReadOn defines a function.
LEMMA ReadExists ==
  ASSUME NEW known, NEW log
  PROVE  \A n \in Nat : \E after : IsRead(after, known, log, n)
<1> DEFINE Good == {n \in Nat : \E after : IsRead(after, known, log, n)}
<1>1. 0 \in Good
  <2> DEFINE after == [k \in 0 .. 0 |-> known]
  <2>1. after = [k \in 0 .. 0 |-> ReadStep(after, known, log, k)]
    BY DEF ReadStep
  <2> HIDE DEF after
  <2>2. IsRead(after, known, log, 0)
    BY <2>1 DEF IsRead
  <2>3. QED BY <2>2
<1>2. ASSUME NEW n \in Nat, n \in Good PROVE n + 1 \in Good
  <2>1. PICK after : IsRead(after, known, log, n)
    BY <1>2
  <2>2. after = [k \in 0 .. n |-> ReadStep(after, known, log, k)]
    BY <2>1 DEF IsRead
  <2> DEFINE more == [k \in 0 .. n + 1 |-> IF k = n + 1 THEN ReadStep(after, known, log, k) ELSE after[k]]
  <2>3. ASSUME NEW k \in 0 .. n + 1 PROVE more[k] = ReadStep(more, known, log, k)
    <3>1. k # 0 => k - 1 \in 0 .. n /\ more[k - 1] = after[k - 1]
      OBVIOUS
    <3>2. ReadStep(more, known, log, k) = ReadStep(after, known, log, k)
      BY <3>1 DEF ReadStep
    <3>3. k # n + 1 => k \in 0 .. n /\ more[k] = after[k]
      OBVIOUS
    <3>4. k # n + 1 => after[k] = ReadStep(after, known, log, k)
      BY <2>2, <3>3
    <3>5. QED BY <3>2, <3>3, <3>4
  <2>4. more = [k \in 0 .. n + 1 |-> ReadStep(more, known, log, k)]
    BY <2>3
  <2> HIDE DEF more
  <2>5. IsRead(more, known, log, n + 1)
    BY <2>4 DEF IsRead
  <2>6. n + 1 \in Nat
    OBVIOUS
  <2>7. QED BY <2>5, <2>6
<1>3. Nat \subseteq Good
  <2> HIDE DEF Good
  <2>1. QED BY <1>1, <1>2, Naturals
<1>4. QED BY <1>3

\* ReadOn is the last of its recursion's values.
LEMMA ReadIs ==
  ASSUME NEW known, NEW log \in Seq(Events)
  PROVE  \E after : IsRead(after, known, log, Len(log)) /\ ReadOn(known, log) = after[Len(log)]
<1> DEFINE n == Len(log)
           after == CHOOSE after : after = [k \in 0 .. n |-> ReadStep(after, known, log, k)]
<1>1. n \in Nat
  OBVIOUS
<1>2. ReadOn(known, log) = after[n]
  BY DEF ReadOn, ReadStep
<1>3. after = CHOOSE f : IsRead(f, known, log, n)
  BY DEF IsRead
<1> HIDE DEF n, after
<1>4. \E f : IsRead(f, known, log, n)
  BY <1>1, ReadExists
<1>5. IsRead(after, known, log, n)
  BY <1>3, <1>4
<1>6. QED BY <1>2, <1>5 DEF n

\* Each of the first n events adds to what was known before it.
Reads(f, log, n) == \A k \in 1 .. n : f[k] = Heed(f[k - 1], log[k])

LEMMA ReadSteps ==
  ASSUME NEW n \in Nat, NEW f, NEW known, NEW log, IsRead(f, known, log, n)
  PROVE  f[0] = known /\ Reads(f, log, n)
<1>1. f = [k \in 0 .. n |-> ReadStep(f, known, log, k)]
  BY DEF IsRead
<1>2. ASSUME NEW k \in 0 .. n PROVE f[k] = ReadStep(f, known, log, k)
  BY <1>1, Zenon
<1>3. 0 \in 0 .. n /\ \A k \in 1 .. n : k \in 0 .. n /\ k # 0
  OBVIOUS
<1>4. QED BY <1>2, <1>3 DEF ReadStep, Reads

\* What is known is a matter of what was known before and of the events.
LEMMA ReadAlike ==
  ASSUME NEW n \in Nat, NEW f, NEW g, NEW a, NEW b, f[0] = g[0],
         Reads(f, a, n), Reads(g, b, n), \A k \in 1 .. n : a[k] = b[k]
  PROVE  f[n] = g[n]
<1> DEFINE Good == {k \in Nat : k <= n => f[k] = g[k]}
<1>1. 0 \in Good
  OBVIOUS
<1>2. ASSUME NEW k \in Nat, k \in Good PROVE k + 1 \in Good
  <2>1. SUFFICES ASSUME k + 1 <= n PROVE f[k + 1] = g[k + 1]
    OBVIOUS
  <2>2. k + 1 \in 1 .. n /\ (k + 1) - 1 = k /\ k <= n
    BY <2>1
  <2>3. f[k] = g[k]
    BY <1>2, <2>2
  <2>4. QED BY <2>2, <2>3 DEF Reads
<1>3. Nat \subseteq Good
  <2> HIDE DEF Good
  <2>1. QED BY <1>1, <1>2, Naturals
<1>4. QED BY <1>3

\* Reading on in a log that has been read so far.
LEMMA ReadMore ==
  ASSUME NEW known, NEW q \in Seq(Events), NEW s \in Seq(Events)
  PROVE  ReadOn(known, q \o s) = ReadOn(ReadOn(known, q), s)
<1> DEFINE m == Len(q)
           n == Len(s)
           t == q \o s
<1>1. /\ t \in Seq(Events) /\ m \in Nat /\ n \in Nat /\ Len(t) = m + n
      /\ \A k \in 1 .. m + n : t[k] = IF k <= m THEN q[k] ELSE s[k - m]
  BY ConcatProperties
<1> HIDE DEF t
<1>2. PICK f : IsRead(f, known, t, Len(t)) /\ ReadOn(known, t) = f[Len(t)]
  BY <1>1, ReadIs
<1>3. PICK g : IsRead(g, known, q, m) /\ ReadOn(known, q) = g[m]
  BY ReadIs
<1>4. PICK h : IsRead(h, ReadOn(known, q), s, n) /\ ReadOn(ReadOn(known, q), s) = h[n]
  BY ReadIs
<1> HIDE DEF m, n
<1>5. f[0] = known /\ Reads(f, t, m + n)
  BY <1>1, <1>2, ReadSteps
<1>6. g[0] = known /\ Reads(g, q, m)
  BY <1>1, <1>3, ReadSteps
<1>7. h[0] = ReadOn(known, q) /\ Reads(h, s, n)
  BY <1>1, <1>4, ReadSteps
<1>8. f[m] = g[m]
  <2>1. \A k \in 1 .. m : k \in 1 .. m + n /\ t[k] = q[k]
    BY <1>1
  <2>2. Reads(f, t, m)
    BY <1>5, <2>1 DEF Reads
  <2>3. QED BY <1>1, <1>5, <1>6, <2>1, <2>2, ReadAlike
<1>9. f[m + n] = h[n]
  <2> DEFINE e == [k \in 0 .. n |-> f[m + k]]
  <2>1. e[0] = h[0] /\ e[n] = f[m + n]
    BY <1>1, <1>3, <1>7, <1>8
  <2>2. ASSUME NEW k \in 1 .. n PROVE e[k] = Heed(e[k - 1], s[k])
    <3>1. m + k \in 1 .. m + n /\ ~(m + k <= m) /\ (m + k) - m = k /\ (m + k) - 1 = m + (k - 1)
      BY <1>1
    <3>2. f[m + k] = Heed(f[m + (k - 1)], s[k])
      BY <1>1, <1>5, <3>1 DEF Reads
    <3>3. e[k] = f[m + k] /\ e[k - 1] = f[m + (k - 1)]
      BY <1>1
    <3>4. QED BY <3>2, <3>3
  <2> HIDE DEF e
  <2>3. Reads(e, s, n)
    BY <2>2 DEF Reads
  <2>4. e[n] = h[n]
    BY <1>1, <1>7, <2>1, <2>3, ReadAlike
  <2>5. QED BY <2>1, <2>4
<1>10. QED BY <1>1, <1>2, <1>4, <1>9 DEF t

\* A log of one event.
LEMMA ReadOne ==
  ASSUME NEW known, NEW e \in Events
  PROVE  ReadOn(known, <<e>>) = Heed(known, e)
<1>1. <<e>> \in Seq(Events) /\ Len(<<e>>) = 1 /\ <<e>>[1] = e
  OBVIOUS
<1>2. PICK f : IsRead(f, known, <<e>>, 1) /\ ReadOn(known, <<e>>) = f[1]
  BY <1>1, ReadIs
<1>3. f[0] = known /\ Reads(f, <<e>>, 1)
  BY <1>2, ReadSteps
<1>4. QED BY <1>1, <1>2, <1>3 DEF Reads

\* Events that are not heeded tell nothing.
LEMMA ReadNothing ==
  ASSUME NEW known, NEW q \in Seq(Events), \A i \in DOMAIN q : Heed(known, q[i]) = known
  PROVE  ReadOn(known, q) = known
<1> DEFINE n == Len(q)
           g == [k \in 0 .. n |-> known]
<1>1. n \in Nat /\ DOMAIN q = 1 .. n
  OBVIOUS
<1>2. PICK f : IsRead(f, known, q, n) /\ ReadOn(known, q) = f[n]
  BY ReadIs
<1> HIDE DEF n
<1>3. f[0] = known /\ Reads(f, q, n)
  BY <1>1, <1>2, ReadSteps
<1>4. g[0] = known /\ g[n] = known
  BY <1>1
<1>5. Reads(g, q, n)
  <2>1. ASSUME NEW k \in 1 .. n PROVE g[k] = known /\ g[k - 1] = known /\ Heed(known, q[k]) = known
    <3>1. k \in 0 .. n /\ k - 1 \in 0 .. n
      BY <1>1
    <3>2. QED BY <1>1, <3>1
  <2>2. QED BY <2>1 DEF Reads
<1> HIDE DEF g
<1>6. f[n] = g[n]
  BY <1>1, <1>3, <1>4, <1>5, ReadAlike
<1>7. QED BY <1>2, <1>4, <1>6

\* a is what is known of the devices, as in b or in doubt.
Vaguer(a, b) ==
  /\ a \in [Ids -> Knowledge] /\ b \in [Ids -> Knowledge]
  /\ \A id \in Ids : a[id] \in {b[id], "doubt"}

LEMMA VaguerHeed ==
  ASSUME NEW a, NEW b, NEW e \in Events, Vaguer(a, b)
  PROVE  Vaguer(Heed(a, e), Heed(b, e))
<1>1. /\ Heed(a, e) \in [Ids -> Knowledge] /\ Heed(b, e) \in [Ids -> Knowledge]
  BY HeedType DEF Vaguer
<1>2. ASSUME NEW id \in Ids PROVE Heed(a, e)[id] \in {Heed(b, e)[id], "doubt"}
  BY DEF Vaguer, Heed
<1>3. QED BY <1>1, <1>2 DEF Vaguer

\* An event that is discarded is missed: nothing else is known wrongly.
LEMMA VaguerMiss ==
  ASSUME NEW known \in [Ids -> Knowledge], NEW e \in Events
  PROVE  Vaguer(Miss(known, e), Heed(known, e))
<1>1. /\ Miss(known, e) \in [Ids -> Knowledge] /\ Heed(known, e) \in [Ids -> Knowledge]
  BY HeedType
<1>2. ASSUME NEW id \in Ids PROVE Miss(known, e)[id] \in {Heed(known, e)[id], "doubt"}
  BY DEF Miss, Heed
<1>3. QED BY <1>1, <1>2 DEF Vaguer

\* Doubt stays with the devices that it is about.
LEMMA DoubtStays ==
  ASSUME NEW a, NEW b, NEW q \in Seq(Events), Vaguer(a, b)
  PROVE  Vaguer(ReadOn(a, q), ReadOn(b, q))
<1> DEFINE n == Len(q)
<1>1. n \in Nat
  OBVIOUS
<1>2. PICK f : IsRead(f, a, q, n) /\ ReadOn(a, q) = f[n]
  BY ReadIs
<1>3. PICK g : IsRead(g, b, q, n) /\ ReadOn(b, q) = g[n]
  BY ReadIs
<1>4. \A k \in 1 .. n : q[k] \in Events
  BY ElementOfSeq
<1> HIDE DEF n
<1>5. f[0] = a /\ Reads(f, q, n) /\ g[0] = b /\ Reads(g, q, n)
  BY <1>1, <1>2, <1>3, ReadSteps
<1> DEFINE Good == {k \in Nat : k <= n => Vaguer(f[k], g[k])}
<1>6. 0 \in Good
  BY <1>5
<1>7. ASSUME NEW k \in Nat, k \in Good PROVE k + 1 \in Good
  <2>1. SUFFICES ASSUME k + 1 <= n PROVE Vaguer(f[k + 1], g[k + 1])
    OBVIOUS
  <2>2. k + 1 \in 1 .. n /\ (k + 1) - 1 = k /\ k <= n
    BY <1>1, <2>1
  <2>3. Vaguer(f[k], g[k]) /\ q[k + 1] \in Events
    BY <1>4, <1>7, <2>2
  <2>4. f[k + 1] = Heed(f[k], q[k + 1]) /\ g[k + 1] = Heed(g[k], q[k + 1])
    BY <1>5, <2>2 DEF Reads
  <2>5. QED BY <2>3, <2>4, VaguerHeed
<1>8. Nat \subseteq Good
  <2> HIDE DEF Good
  <2>1. QED BY <1>6, <1>7, Naturals
<1>9. QED BY <1>1, <1>2, <1>3, <1>8

-----------------------------------------------------------------------------
(***************************************************************************)
(* A reader of the log who also hears what is under way knows the devices   *)
(* that are published, but for those the send loop has not come to: of them *)
(* he knows the snapshot before.                                            *)
(***************************************************************************)

\* What is known of a device agrees with snapshot x.
Agrees(known, x, id) ==
  \/ known[id] = "doubt"
  \/ IF id \in DOMAIN x THEN known[id] # "absent" /\ x[id].power \in {known[id], "Unknown"}
                         ELSE known[id] = "absent"

\* What the send loop has not come to.
Owed == todo \cup gone

\* What he knows who hears everything that is under way.
Told == ReadOn(logged, UnderWay)

\* The invariant.
Knows ==
  (ready /\ ~dropped) =>
    \A id \in Ids : Agrees(Told, IF id \in Owed THEN prev ELSE devices, id)

LEMMA ToldType ==
  ASSUME IInv
  PROVE  Told \in [Ids -> Knowledge]
<1>1. Vaguer(logged, logged) /\ UnderWay \in Seq(Events)
  BY WayType DEF Vaguer, IInv, TypeOK
<1>2. QED BY <1>1, DoubtStays DEF Told, Vaguer

\* Nothing is told, and nothing is published.
LEMMA SameKnown ==
  ASSUME Knows, Told' = Told, UNCHANGED <<devices, todo, gone>>, ready => ready', ready' => ready,
         dropped => dropped', prev' = prev \/ Owed = {}
  PROVE  Knows'
BY DEF Knows, Owed, Agrees

\* Silent events tell nothing.
LEMMA SilentTell ==
  ASSUME NEW known, NEW q \in Seq(Silent)
  PROVE  ReadOn(known, q) = known
<1>1. q \in Seq(Events) /\ \A i \in DOMAIN q : q[i] \in Silent
  BY SilentEvents
<1>2. \A e \in Silent : Heed(known, e) = known
  BY DEF Heed, Tells, Silent, Plain
<1>3. QED BY <1>1, <1>2, ReadNothing

\* What begins with an event and goes on in silence tells this event.
LEMMA BeginsTell ==
  ASSUME NEW known, NEW e \in Events, NEW q, Begins(q, e)
  PROVE  ReadOn(known, q) = Heed(known, e)
<1>1. PICK r \in Seq(Silent) : q = <<e>> \o r
  BY DEF Begins
<1>2. <<e>> \in Seq(Events) /\ r \in Seq(Events)
  BY SilentEvents
<1>3. ReadOn(known, q) = ReadOn(ReadOn(known, <<e>>), r)
  BY <1>1, <1>2, ReadMore
<1>4. QED BY <1>3, ReadOne, SilentTell

\* The events of a change begin with the transition, if there is one.
LEMMA ChangeBegins ==
  ASSUME NEW id \in Ids, NEW old \in Snapshots, NEW d \in Snapshots
  PROVE  IF PowerMoved(old, d) THEN Begins(ChangeEvents(id, old, d), Event("dstate_transition", id, d))
                               ELSE ChangeEvents(id, old, d) \in Seq(Silent)
<1> DEFINE n == NormalizePowerTransition(id, old, d)
           m == IF MismatchRose(old, d) THEN << Event("parent_dstate_mismatch", id, d) >> ELSE << >>
           p == IF ProblemAppeared(old, d) THEN << Event("problem_code", id, d) >> ELSE << >>
           s == IF old.status # d.status THEN << Event("status_changed", id, d) >> ELSE << >>
           e == Event("dstate_transition", id, d)
           say(type) == Event(type, id, d)
<1>1. \A type \in EventTypes \ {"error", "pnp_arrival", "pnp_removal", "dstate_transition"} :
        say(type) \in Silent
  BY SilentEvent
<1>2. m \in Seq(Silent) /\ p \in Seq(Silent) /\ s \in Seq(Silent)
  BY <1>1 DEF EventTypes
<1>3. e \in Events
  BY EventInEvents DEF EventTypes
<1>4. CASE ~PowerMoved(old, d)
  <2>1. n = << >>
    BY <1>4 DEF NormalizePowerTransition
  <2>2. n \in Seq(Silent)
    BY <2>1
  <2> HIDE DEF n, m, p, s
  <2>3. n \o m \o p \o s \in Seq(Silent)
    BY <1>2, <2>2, ConcatProperties
  <2>4. QED BY <1>4, <2>3 DEF ChangeEvents, n, m, p, s
<1>5. CASE PowerMoved(old, d)
  <2>1. \E r \in Seq(Silent) : n = <<e>> \o r
    <3>1. /\ say("power_d0_exit") \in Silent /\ say("suspect_suspend") \in Silent
          /\ say("power_d0_entry") \in Silent /\ say("resume") \in Silent /\ say("info") \in Silent
      BY <1>1 DEF EventTypes
    <3>2. \/ n = <<e, say("power_d0_exit"), say("suspect_suspend")>>
          \/ n = <<e, say("power_d0_entry"), say("resume")>>
          \/ n = <<e, say("info")>>
      BY <1>5 DEF NormalizePowerTransition
    <3>3. ASSUME NEW a \in Silent, NEW b \in Silent
          PROVE  /\ <<a>> \in Seq(Silent) /\ <<a, b>> \in Seq(Silent)
                 /\ <<e, a>> = <<e>> \o <<a>> /\ <<e, a, b>> = <<e>> \o <<a, b>>
      <4>1. <<a>> \in Seq(Silent) /\ <<a, b>> \in Seq(Silent)
        OBVIOUS
      <4>2. <<e, a>> = <<e>> \o <<a>>
        OBVIOUS
      <4>3. <<e, a, b>> = <<e>> \o <<a, b>>
        OBVIOUS
      <4>4. QED BY <4>1, <4>2, <4>3
    <3> DEFINE x == say("power_d0_exit")
               y == say("suspect_suspend")
               z == say("power_d0_entry")
               u == say("resume")
               v == say("info")
    <3> HIDE DEF e, n, m, p, s
    <3>4. CASE n = <<e, x, y>>
      BY <3>1, <3>3, <3>4
    <3>5. CASE n = <<e, z, u>>
      BY <3>1, <3>3, <3>5
    <3>6. CASE n = <<e, v>>
      BY <3>1, <3>3, <3>6
    <3>7. QED BY <3>2, <3>4, <3>5, <3>6
  <2>2. PICK r \in Seq(Silent) : n = <<e>> \o r
    BY <2>1
  <2> DEFINE a == r \o m
             b == a \o p
  <2> HIDE DEF n, m, p, s, e
  <2>3. <<e>> \in Seq(Events) /\ r \in Seq(Events) /\ m \in Seq(Events) /\ p \in Seq(Events) /\ s \in Seq(Events)
    <3>1. <<e>> \in Seq(Events)
      BY <1>3
    <3>2. QED BY <1>2, <3>1, SilentEvents
  <2>4. a \in Seq(Silent)
    BY <1>2, ConcatProperties
  <2> HIDE DEF a
  <2>5. b \in Seq(Silent)
    BY <1>2, <2>4, ConcatProperties
  <2> HIDE DEF b
  <2>6. b \o s \in Seq(Silent) /\ a \in Seq(Events) /\ b \in Seq(Events)
    BY <1>2, <2>4, <2>5, ConcatProperties, SilentEvents
  <2>7. (<<e>> \o r) \o m = <<e>> \o a
    <3>1. <<e>> \in Seq(Events) /\ r \in Seq(Events) /\ m \in Seq(Events)
      BY <2>3
    <3>2. QED BY ONLY <3>1, Regroup, Zenon DEF a
  <2>8. (<<e>> \o a) \o p = <<e>> \o b
    <3>1. <<e>> \in Seq(Events) /\ a \in Seq(Events) /\ p \in Seq(Events)
      BY <2>3, <2>6
    <3>2. QED BY ONLY <3>1, Regroup, Zenon DEF b
  <2>9. (<<e>> \o b) \o s = <<e>> \o (b \o s)
    <3>1. <<e>> \in Seq(Events) /\ b \in Seq(Events) /\ s \in Seq(Events)
      BY <2>3, <2>6
    <3>2. QED BY ONLY <3>1, Regroup, Zenon
  <2>10. ChangeEvents(id, old, d) = <<e>> \o (b \o s)
    BY <2>2, <2>7, <2>8, <2>9 DEF ChangeEvents, n, m, p, s
  <2>11. QED BY <1>5, <2>6, <2>10 DEF Begins, e
<1>6. QED BY <1>4, <1>5

\* What an event about id tells of id, and of the others.
LEMMA HeedsPower ==
  ASSUME NEW known \in [Ids -> Knowledge], NEW id \in Ids, NEW d \in Snapshots,
         NEW type \in {"pnp_arrival", "dstate_transition"}
  PROVE  LET after == Heed(known, Event(type, id, d))
         IN  /\ \A c \in Ids : c # id => after[c] = known[c]
             /\ after[id] = d.power
<1> DEFINE e == Event(type, id, d)
<1>1. e.id = id /\ e.type # "pnp_removal" /\ Tells(e) /\ e.power = d.power
  BY DEF Event, Tells
<1> HIDE DEF e
<1>2. Heed(known, e) = [known EXCEPT ![id] = d.power]
  BY <1>1 DEF Heed
<1>3. QED BY <1>2 DEF e

\* What a removal tells.
LEMMA HeedsRemoval ==
  ASSUME NEW known \in [Ids -> Knowledge], NEW id \in Ids, NEW d \in Snapshots
  PROVE  LET after == Heed(known, Event("pnp_removal", id, d))
         IN  /\ \A c \in Ids : c # id => after[c] = known[c]
             /\ after[id] = "absent"
<1> DEFINE e == Event("pnp_removal", id, d)
<1>1. e.id = id /\ e.type = "pnp_removal" /\ Tells(e)
  BY DEF Event, Tells
<1> HIDE DEF e
<1>2. Heed(known, e) = [known EXCEPT ![id] = "absent"]
  BY <1>1 DEF Heed
<1>3. QED BY <1>2 DEF e

\* The scan that publishes: what it reports is owed, what it does not report has
\* kept its D-state or lost it; the baseline is told at once.
LEMMA CommitKnown ==
  ASSUME DInv, Knows, Commit, UNCHANGED <<posted, inHand, dropped>>,
         logged' = IF ~ready /\ ready' THEN Powers(devices') ELSE logged
  PROVE  Knows'
<1>1. /\ todo = {} /\ gone = {} /\ devices = previous /\ previous' = Current /\ devices' = Current
      /\ ready' = TRUE /\ UnderWay' = UnderWay
  BY DEF DInv, IInv, SendLoop, Published, Commit, Publish, UnderWay
<1>2. IsMap(previous, Snapshots) /\ IsMap(Current, Snapshots)
  BY CurrentType DEF DInv, IInv, TypeOK, PollerTypeOK
<1>3. CASE Emits
  <2>1. /\ prev' = previous /\ todo' = {id \in DOMAIN Current : Reported(previous, Current, id)}
        /\ gone' = Dropped(previous, Current)
    BY <1>3 DEF Commit
  <2>2. ready /\ Told' = Told
    BY <1>1, <1>3 DEF Emits, Told
  <2>3. SUFFICES ASSUME ~dropped, \A id \in Ids : Agrees(Told, previous, id)
                 PROVE  \A id \in Ids :
                          Agrees(Told, IF id \in todo' \cup gone' THEN previous ELSE Current, id)
    BY <1>1, <2>1, <2>2 DEF Knows, Owed
  <2>4. ASSUME NEW id \in Ids, id \notin todo', id \notin gone'
        PROVE  Agrees(Told, Current, id)
    <3>1. id \in DOMAIN Current <=> id \in DOMAIN previous
      BY <2>1, <2>4 DEF Reported, Dropped
    <3>2. ASSUME id \in DOMAIN Current
          PROVE  Current[id].power \in {previous[id].power, "Unknown"}
      <4>1. id \in Ids /\ previous[id] \in Snapshots /\ Current[id] \in Snapshots
        BY <1>2, <3>1, <3>2 DEF IsMap, IsMapOf
      <4>2. ChangeEvents(id, previous[id], Current[id]) = << >>
        BY <2>1, <2>4, <3>1, <3>2 DEF Reported
      <4>3. ~PowerMoved(previous[id], Current[id])
        BY <4>1, <4>2, ChangeEventsEmpty
      <4>4. QED BY <4>3 DEF PowerMoved
    <3>3. Agrees(Told, previous, id)
      BY <2>3
    <3>4. QED BY <3>1, <3>2, <3>3 DEF Agrees
  <2>5. QED BY <2>3, <2>4
<1>4. CASE ~Emits
  <2>1. ~ready /\ gone' = {} /\ todo' = {}
    BY <1>1, <1>4 DEF Commit, Emits, DInv, IInv, Baseline, TypeOK, PollerTypeOK, Stages
  <2>2. logged' = Powers(Current)
    BY <1>1, <2>1
  <2>3. Told' = Powers(Current)
    <3>1. UnderWay \in Seq(Events) /\ \A i \in DOMAIN UnderWay : UnderWay[i].type = "error"
      BY <2>1, WayType DEF DInv, NothingYet
    <3>2. \A i \in DOMAIN UnderWay : Heed(Powers(Current), UnderWay[i]) = Powers(Current)
      BY <3>1 DEF Heed, Tells
    <3>3. Told' = ReadOn(Powers(Current), UnderWay)
      BY <1>1, <2>2 DEF Told
    <3>4. QED BY <3>1, <3>2, <3>3, ReadNothing
  <2>4. ASSUME NEW id \in Ids PROVE Agrees(Powers(Current), Current, id)
    <3>1. id \in DOMAIN Current => Current[id].power \in PowerStates
      BY <1>2 DEF IsMap, IsMapOf, Snapshots
    <3>2. "absent" \notin PowerStates
      BY DEF PowerStates
    <3>3. QED BY <3>1, <3>2 DEF Powers, Agrees
  <2>5. QED BY <1>1, <2>1, <2>3, <2>4 DEF Knows, Owed
<1>5. QED BY <1>3, <1>4

\* The send loop comes to a device: he is told what it owed.
LEMMA NextPresentKnown ==
  ASSUME DInv, Knows, NEW id \in Ids, NextPresent(id), UNCHANGED <<posted, inHand, dropped, logged>>
  PROVE  Knows'
<1> USE DEF shared
<1>1. /\ pc = "send" /\ pending = << >> /\ id \in todo /\ id \in DOMAIN previous
      /\ UNCHANGED <<devices, previous, ready, gone, prev, pc, events>>
      /\ devices = previous /\ todo' = todo \ {id} /\ id \notin gone
  BY DEF DInv, IInv, SendLoop, Published, NextPresent, OnlyMissing
<1>2. previous[id] \in Snapshots /\ (id \in DOMAIN prev => prev[id] \in Snapshots)
  BY <1>1 DEF DInv, IInv, TypeOK, PollerTypeOK, IsMap, IsMapOf
<1>3. Told' = ReadOn(Told, pending')
  <2>1. pending' \in Seq(Events)
    BY <1>2, ChangeEventsEmpty, ArrivalEventsType DEF NextPresent
  <2>2. events' \o pending' = events \o pending'
    BY <1>1
  <2>3. UnderWay' = UnderWay \o pending' /\ UnderWay \in Seq(Events)
    BY <1>1, <2>1, <2>2, WayGrows, WayType DEF DInv
  <2>4. QED BY <2>1, <2>3, ReadMore DEF Told
<1>4. SUFFICES ASSUME ready, ~dropped,
                      \A c \in Ids : Agrees(Told, IF c \in Owed THEN prev ELSE devices, c)
               PROVE  \A c \in Ids : Agrees(Told', IF c \in Owed \ {id} THEN prev ELSE devices, c)
  <2>1. Owed' = Owed \ {id}
    BY <1>1 DEF Owed
  <2>2. QED BY <1>1, <1>4, <2>1 DEF Knows
<1>5. id \in Owed
  BY <1>1 DEF Owed
<1>6. ASSUME NEW type \in {"pnp_arrival", "dstate_transition"},
             Begins(pending', Event(type, id, previous[id]))
      PROVE  \A c \in Ids : Agrees(Told', IF c \in Owed \ {id} THEN prev ELSE devices, c)
  <2>1. Event(type, id, previous[id]) \in Events
    BY <1>2, EventInEvents DEF EventTypes
  <2>2. Told' = Heed(Told, Event(type, id, previous[id]))
    BY <1>3, <1>6, <2>1, BeginsTell
  <2>3. (\A c \in Ids : c # id => Told'[c] = Told[c]) /\ Told'[id] = previous[id].power
    <3>1. Told \in [Ids -> Knowledge]
      BY ToldType DEF DInv
    <3>2. QED BY <1>2, <2>2, <3>1, HeedsPower
  <2>4. Told'[id] # "absent"
    BY <1>2, <2>3 DEF Snapshots, PowerStates
  <2>5. QED BY <1>1, <1>4, <2>3, <2>4 DEF Agrees
<1>7. CASE id \notin DOMAIN prev
  BY <1>1, <1>2, <1>6, <1>7, ArrivalBegins DEF NextPresent
<1>8. CASE id \in DOMAIN prev /\ PowerMoved(prev[id], previous[id])
  BY <1>1, <1>2, <1>6, <1>8, ChangeBegins DEF NextPresent
<1>9. CASE id \in DOMAIN prev /\ ~PowerMoved(prev[id], previous[id])
  <2>1. Told' = Told
    BY <1>2, <1>3, <1>9, ChangeBegins, SilentTell DEF NextPresent
  <2>2. previous[id].power \in {prev[id].power, "Unknown"}
    BY <1>9 DEF PowerMoved
  <2>3. Agrees(Told, prev, id)
    BY <1>4, <1>5
  <2>4. QED BY <1>1, <1>4, <1>9, <2>1, <2>2, <2>3 DEF Agrees
<1>10. QED BY <1>7, <1>8, <1>9

\* ... also when the device has gone.
LEMMA NextMissingKnown ==
  ASSUME DInv, Knows, NEW id \in Ids, NextMissing(id), UNCHANGED <<posted, inHand, dropped, logged>>
  PROVE  Knows'
<1> USE DEF shared
<1>1. /\ pc = "send" /\ pending = << >> /\ todo = {} /\ id \in gone /\ id \in DOMAIN prev
      /\ id \notin DOMAIN previous
      /\ UNCHANGED <<devices, previous, ready, todo, prev, pc, events>>
      /\ devices = previous /\ gone' = gone \ {id}
  BY DEF DInv, IInv, SendLoop, Published, OnlyMissing, NextMissing
<1>2. prev[id] \in Snapshots /\ IsMap(previous, Snapshots) /\ now \in Nat
      /\ pending' \in RemovalEvents(id, prev[id], previous, now)
  BY <1>1 DEF DInv, IInv, TypeOK, PollerTypeOK, IsMap, IsMapOf, NextMissing
<1>3. Told' = ReadOn(Told, pending')
  <2>1. pending' \in Seq(Events)
    BY <1>2, RemovalEventsType
  <2>2. events' \o pending' = events \o pending'
    BY <1>1
  <2>3. UnderWay' = UnderWay \o pending' /\ UnderWay \in Seq(Events)
    BY <1>1, <2>1, <2>2, WayGrows, WayType DEF DInv
  <2>4. QED BY <2>1, <2>3, ReadMore DEF Told
<1> DEFINE d == [prev[id] EXCEPT !.lastSeen = now]
<1>4. d \in Snapshots
  BY <1>2 DEF Snapshots
<1>5. Begins(pending', Event("pnp_removal", id, d)) /\ Event("pnp_removal", id, d) \in Events
  BY <1>2, <1>4, RemovalBegins, EventInEvents DEF EventTypes
<1> HIDE DEF d
<1>6. Told' = Heed(Told, Event("pnp_removal", id, d))
  BY <1>3, <1>5, BeginsTell
<1>7. Owed' = Owed \ {id}
  BY <1>1 DEF Owed
<1>8. ASSUME ready, ~dropped
      PROVE  \A c \in Ids : Agrees(Told', IF c \in Owed \ {id} THEN prev ELSE devices, c)
  <2>1. \A c \in Ids : Agrees(Told, IF c \in Owed THEN prev ELSE devices, c)
    BY <1>8 DEF Knows
  <2>2. (\A c \in Ids : c # id => Told'[c] = Told[c]) /\ Told'[id] = "absent"
    <3>1. Told \in [Ids -> Knowledge]
      BY ToldType DEF DInv
    <3>2. QED BY <1>4, <1>6, <3>1, HeedsRemoval
  <2>3. QED BY <1>1, <2>1, <2>2 DEF Agrees
<1>9. QED BY <1>1, <1>7, <1>8 DEF Knows

\* A failure tells nothing of a device.
LEMMA FailureKnown ==
  ASSUME DInv, Knows, ListFails, UNCHANGED <<posted, inHand, dropped, logged>>
  PROVE  Knows'
<1> DEFINE f == ErrorEvent(now)
<1>1. UNCHANGED <<devices, ready, todo, gone, prev>>
  BY DEF ListFails, shared, sending
<1>2. \A known : Heed(known, f) = known
  BY DEF ErrorEvent, Heed, Tells
<1>3. f \in Events /\ <<f>> \in Seq(Events) /\ UnderWay \in Seq(Events)
      /\ (UnderWay' = UnderWay \/ UnderWay' = UnderWay \o <<f>>)
  BY FailureWay, WayType DEF DInv
<1> HIDE DEF f
<1>4. ReadOn(logged, UnderWay \o <<f>>) = Told
  <2>1. ReadOn(logged, UnderWay \o <<f>>) = ReadOn(Told, <<f>>)
    BY <1>3, ReadMore DEF Told
  <2>2. ReadOn(Told, <<f>>) = Told
    BY <1>2, <1>3, ReadOne
  <2>3. QED BY <2>1, <2>2
<1>5. Told' = Told
  BY <1>3, <1>4 DEF Told
<1>6. QED BY <1>1, <1>5, SameKnown

\* The steps of the poller.
LEMMA PollerKnown ==
  ASSUME DInv, Knows, PollerRuns
  PROVE  Knows'
<1> USE DEF shared, sending
<1>1. PollerStep /\ UNCHANGED <<posted, inHand>> /\ dropped \in BOOLEAN /\ dropped' \in BOOLEAN
      /\ dropped' = (dropped \/ (pending # pending' /\ pending # << >> /\ events' = events))
      /\ logged' = IF ~ready /\ ready' THEN Powers(devices') ELSE logged
  BY DEF PollerRuns, DInv, IInv, TypeOK
<1>2. (pending = << >> \/ pending' = pending) => dropped' = dropped
  BY <1>1
<1>3. ready' = ready => logged' = logged
  BY <1>1
<1>4. CASE Commit
  BY <1>1, <1>2, <1>4, CommitKnown DEF Commit
<1>5. CASE Send
  <2>1. UNCHANGED <<devices, previous, ready, gone, todo, prev>>
    BY <1>5 DEF Send
  <2>2. UnderWay' = UnderWay \/ dropped'
    BY <1>1, <1>5, SendWay DEF DInv
  <2>3. CASE UnderWay' = UnderWay
    <3>1. Told' = Told
      BY <1>3, <2>1, <2>3 DEF Told
    <3>2. QED BY <1>1, <2>1, <3>1, SameKnown
  <2>4. CASE dropped'
    BY <2>4 DEF Knows
  <2>5. QED BY <2>2, <2>3, <2>4
<1>6. CASE ListFails
  BY <1>1, <1>2, <1>3, <1>6, FailureKnown DEF ListFails
<1>7. ASSUME NEW id \in Ids, NextPresent(id) PROVE Knows'
  BY <1>1, <1>2, <1>3, <1>7, NextPresentKnown DEF NextPresent
<1>8. ASSUME NEW id \in Ids, NextMissing(id) PROVE Knows'
  BY <1>1, <1>2, <1>3, <1>8, NextMissingKnown DEF NextMissing
<1>9. CASE ListBegin \/ EndScan \/ RunStarts \/ TickerFires \/ TakeRefresh \/ RunReturns
             \/ \E id \in Nodes : ListRead(id)
  <2>1. /\ UNCHANGED <<devices, previous, ready, gone, todo, pending, events>>
        /\ prev' = prev \/ (todo = {} /\ gone = {})
    BY <1>9 DEF ListBegin, EndScan, RunStarts, TickerFires, TakeRefresh, RunReturns, ListRead
  <2>2. UnderWay' = UnderWay
    BY <1>1, <2>1 DEF UnderWay
  <2>3. Told' = Told
    BY <1>3, <2>1, <2>2 DEF Told
  <2>4. QED BY <1>1, <2>1, <2>3, SameKnown DEF Owed
<1>10. QED BY <1>1, <1>4, <1>5, <1>6, <1>7, <1>8, <1>9 DEF PollerStep

\* What was under way is logged: it was told before and is known now.  Or it is
\* discarded: then its device is in doubt, unless a later event tells of it.
LEMMA WindowKnown ==
  ASSUME DInv, Knows, UIStarts \/ HandlePosted \/ ApplyTargetFilter \/ RefreshButton
  PROVE  Knows'
<1> USE DEF pvars, world, scanning, shared, sending
<1>1. UNCHANGED <<devices, previous, ready, gone, todo, prev, pc, events, pending, inHand, dropped>>
  BY DEF UIStarts, HandlePosted, ApplyTargetFilter, RefreshButton
<1>2. CASE HandlePosted
  <2> DEFINE f == Head(posted)
  <2>1. /\ f \in Events /\ Behind \in Seq(Events) /\ UnderWay = <<f>> \o Behind
        /\ UnderWay' = Behind /\ logged' \in {Heed(logged, f), Miss(logged, f)}
    BY <1>1, <1>2, HeadOfWay DEF HandlePosted, AddEvent, DInv, UnderWay, Behind
  <2>2. logged \in [Ids -> Knowledge]
    BY DEF DInv, IInv, TypeOK
  <2> HIDE DEF f
  <2>3. Told = ReadOn(Heed(logged, f), Behind)
    <3>1. <<f>> \in Seq(Events)
      BY <2>1
    <3>2. ReadOn(logged, <<f>> \o Behind) = ReadOn(ReadOn(logged, <<f>>), Behind)
      BY <2>1, <3>1, ReadMore
    <3>3. ReadOn(logged, <<f>>) = Heed(logged, f)
      BY <2>1, ReadOne
    <3>4. QED BY <2>1, <3>2, <3>3 DEF Told
  <2>4. CASE logged' = Heed(logged, f)
    <3>1. Told' = Told
      BY <2>1, <2>3, <2>4 DEF Told
    <3>2. QED BY <1>1, <3>1, SameKnown
  <2>5. CASE logged' = Miss(logged, f)
    <3>1. Vaguer(Miss(logged, f), Heed(logged, f))
      BY <2>1, <2>2, VaguerMiss
    <3>2. Vaguer(ReadOn(Miss(logged, f), Behind), ReadOn(Heed(logged, f), Behind))
      BY <2>1, <3>1, DoubtStays
    <3>3. Told' = ReadOn(Miss(logged, f), Behind)
      BY <2>1, <2>5 DEF Told
    <3>4. \A id \in Ids : Told'[id] \in {Told[id], "doubt"}
      BY <2>3, <3>2, <3>3 DEF Vaguer
    <3>5. \A x : \A id \in Ids : Agrees(Told, x, id) => Agrees(Told', x, id)
      BY <3>4 DEF Agrees
    <3>6. QED BY <1>1, <3>5 DEF Knows, Owed
  <2>6. QED BY <2>1, <2>4, <2>5
<1>3. CASE UIStarts \/ ApplyTargetFilter \/ RefreshButton
  <2>1. Told' = Told
    BY <1>1, <1>3 DEF UIStarts, ApplyTargetFilter, RefreshButton, UnderWay, Told
  <2>2. QED BY <1>1, <2>1, SameKnown
<1>4. QED BY <1>2, <1>3

\* Every step of the program.
LEMMA NextKnown ==
  ASSUME DInv, Knows, [Next]_vars
  PROVE  Knows'
<1>1. CASE MachineChanges \/ SystemMessage \/ ClickCheckBox \/ UNCHANGED vars
  <2>1. UNCHANGED <<devices, ready, todo, gone, prev, events, pending, posted, inHand, logged, dropped>>
    <3> USE DEF vars, pvars, world, scanning, shared, sending, uivars
    <3>1. CASE MachineChanges
      BY <3>1, MachineType DEF MachineChanges, DInv, IInv, TypeOK
    <3>2. CASE SystemMessage \/ ClickCheckBox
      BY <3>2 DEF SystemMessage, RefreshNow, ClickCheckBox
    <3>3. CASE UNCHANGED vars
      BY <3>3
    <3>4. QED BY <1>1, <3>1, <3>2, <3>3
  <2>2. Told' = Told
    BY <2>1 DEF UnderWay, Told
  <2>3. QED BY <2>1, <2>2, SameKnown
<1>2. CASE ConsumerReceives \/ ConsumerPosts
  <2>1. UNCHANGED <<devices, ready, todo, gone, prev, logged, dropped>>
    BY <1>2 DEF ConsumerReceives, ConsumerPosts, Receive, pvars, world, scanning, shared, sending
  <2>2. UnderWay' = UnderWay
    BY <1>2, ConsumerWay DEF DInv
  <2>3. Told' = Told
    BY <2>1, <2>2 DEF Told
  <2>4. QED BY <2>1, <2>3, SameKnown
<1>3. QED BY <1>1, <1>2, PollerKnown, WindowKnown DEF Next

\* Between two scans nothing is owed, and what is under way is in the channel or
\* behind it.
LEMMA KnowsEnough ==
  ASSUME IInv, Knows
  PROVE  LogExplainsDevices
<1> SUFFICES ASSUME ~dropped, ready, pc # "send"
             PROVE  \A id \in Ids : Agrees(ReadOn(logged, Undelivered), devices, id)
  BY DEF LogExplainsDevices, Agrees
<1>1. todo = {} /\ gone = {} /\ pending = << >>
  BY DEF IInv, SendLoop
<1>2. UnderWay = Undelivered
  <2> DEFINE p == posted
             h == inHand
             e == events
  <2>1. p \in Seq(Events) /\ h \in Seq(Events) /\ e \in Seq(Events)
    BY WayType
  <2>2. UnderWay = p \o (h \o e)
    BY <1>1, <2>1, ConcatEmptySeq DEF UnderWay
  <2>3. Undelivered = (p \o h) \o e
    BY DEF Undelivered
  <2> HIDE DEF p, h, e
  <2>4. (p \o h) \o e = p \o (h \o e)
    BY ONLY <2>1, Regroup, Zenon
  <2>5. QED BY <2>2, <2>3, <2>4
<1>3. \A id \in Ids : Agrees(Told, devices, id)
  BY <1>1 DEF Knows, Owed
<1>4. Told = ReadOn(logged, Undelivered)
  BY <1>2 DEF Told
<1>5. QED BY <1>3, <1>4

\* scan, the channel, consumePollerEvents and addEvent: as long as the channel
\* dropped nothing, whoever reads the log and what is still to be logged knows of
\* every device whether it is present and its last known D-state, unless addEvent
\* has discarded the last event that told it; for any devices, whatever the user
\* unchecks and whatever the target filter hides.
THEOREM LogExplains == Spec => []LogExplainsDevices
<1>1. Init => Explained /\ NothingYet /\ OnlyMissing
  BY StartExplains
<1>2. Init => Knows
  BY DEF Init, PollerInit, Knows
<1>3. IInv /\ Explained /\ NothingYet /\ OnlyMissing /\ [Next]_vars
        => Explained' /\ NothingYet' /\ OnlyMissing'
  BY NextExplains DEF DInv
<1>4. IInv /\ Explained /\ NothingYet /\ OnlyMissing /\ Knows /\ [Next]_vars => Knows'
  BY NextKnown DEF DInv
<1>5. IInv /\ Knows => LogExplainsDevices
  BY KnowsEnough
<1>6. QED BY <1>1, <1>2, <1>3, <1>4, <1>5, Invariance, PTL DEF Spec
=============================================================================
