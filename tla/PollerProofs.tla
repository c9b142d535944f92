---------------------------- MODULE PollerProofs ----------------------------
(* What the operators and the steps of the poller keep, whoever calls it.   *)
EXTENDS Poller, TLAPS

\* An event about a device carries fields of its snapshot, the event of a failure
\* those of Go's zero device.
LEMMA EventInEvents ==
  ASSUME NEW id \in Ids, NEW d \in Snapshots, NEW type \in EventTypes \ {"error"}
  PROVE  Event(type, id, d) \in Events
BY DEF Event, Events, Snapshots

LEMMA ErrorInEvents ==
  ASSUME NEW t \in Nat
  PROVE  ErrorEvent(t) \in Events
BY DEF ErrorEvent, Events

\* The comparison of two snapshots of a device yields events, none when
\* nothing it looks at has changed.
LEMMA NormalizeEmpty ==
  ASSUME NEW id \in Ids, NEW old \in Snapshots, NEW d \in Snapshots
  PROVE  /\ NormalizePowerTransition(id, old, d) \in Seq(Events)
         /\ NormalizePowerTransition(id, old, d) = << >> <=> ~PowerMoved(old, d)
<1>1. \A type \in EventTypes \ {"error"} : Event(type, id, d) \in Events
  BY EventInEvents
<1>2. /\ d.power \in PowerStates /\ old.power \in PowerStates
  BY DEF Snapshots
<1>3. CASE ~PowerMoved(old, d)
  BY <1>3 DEF NormalizePowerTransition
<1>4. CASE PowerMoved(old, d) /\ old.power = "D0" /\ IsLowPowerState(d.power)
  BY <1>1, <1>4 DEF NormalizePowerTransition, EventTypes
<1>5. CASE PowerMoved(old, d) /\ IsLowPowerState(old.power) /\ d.power = "D0"
  BY <1>1, <1>5 DEF NormalizePowerTransition, EventTypes, IsLowPowerState, PowerMoved
<1>6. CASE /\ PowerMoved(old, d) 
           /\ ~(old.power = "D0" /\ IsLowPowerState(d.power))
           /\ ~(IsLowPowerState(old.power) /\ d.power = "D0")
  BY <1>1, <1>6 DEF NormalizePowerTransition, EventTypes
<1>7. QED BY <1>3, <1>4, <1>5, <1>6

LEMMA ChangeEventsEmpty ==
  ASSUME NEW id \in Ids, NEW old \in Snapshots, NEW d \in Snapshots
  PROVE  /\ ChangeEvents(id, old, d) \in Seq(Events)
         /\ ChangeEvents(id, old, d) = << >> <=>
              /\ ~PowerMoved(old, d) /\ ~MismatchRose(old, d)
              /\ ~ProblemAppeared(old, d) /\ old.status = d.status
<1> DEFINE n == NormalizePowerTransition(id, old, d)
           m == IF MismatchRose(old, d) THEN << Event("parent_dstate_mismatch", id, d) >> ELSE << >>
           p == IF ProblemAppeared(old, d) THEN << Event("problem_code", id, d) >> ELSE << >>
           s == IF old.status # d.status THEN << Event("status_changed", id, d) >> ELSE << >>
<1>1. \A type \in EventTypes \ {"error"} : Event(type, id, d) \in Events
  BY EventInEvents
<1>2. n \in Seq(Events) /\ (n = << >> <=> ~PowerMoved(old, d))
  BY NormalizeEmpty
<1>3. m \in Seq(Events) /\ (m = << >> <=> ~MismatchRose(old, d))
  BY <1>1 DEF EventTypes
<1>4. p \in Seq(Events) /\ (p = << >> <=> ~ProblemAppeared(old, d))
  BY <1>1 DEF EventTypes
<1>5. s \in Seq(Events) /\ (s = << >> <=> old.status = d.status)
  BY <1>1 DEF EventTypes
<1> HIDE DEF n, m, p, s
<1>6. /\ n \o m \o p \o s \in Seq(Events)
      /\ n \o m \o p \o s = << >> <=> n = << >> /\ m = << >> /\ p = << >> /\ s = << >>
  BY <1>2, <1>3, <1>4, <1>5
<1>7. ChangeEvents(id, old, d) = n \o m \o p \o s
  BY DEF ChangeEvents, n, m, p, s
<1>8. QED BY <1>2, <1>3, <1>4, <1>5, <1>6, <1>7

-----------------------------------------------------------------------------
\* What the operators of the poller return.
LEMMA ArrivalEventsType ==
  ASSUME NEW id \in Ids, NEW d \in Snapshots
  PROVE  ArrivalEvents(id, d) \in Seq(Events) /\ ArrivalEvents(id, d) # << >>
<1> DEFINE a == << Event("pnp_arrival", id, d) >>
           m == IF d.mismatch THEN << Event("parent_dstate_mismatch", id, d) >> ELSE << >>
           p == IF d.problem # NoProblem THEN << Event("problem_code", id, d) >> ELSE << >>
<1>1. a \in Seq(Events) /\ a # << >>
  BY EventInEvents DEF EventTypes
<1>2. m \in Seq(Events)
  BY EventInEvents DEF EventTypes
<1>3. p \in Seq(Events)
  BY EventInEvents DEF EventTypes
<1> HIDE DEF a, m, p
<1>4. a \o m \o p \in Seq(Events) /\ a \o m \o p # << >>
  BY <1>1, <1>2, <1>3
<1>5. QED BY <1>4 DEF ArrivalEvents, a, m, p

LEMMA RemovalEventsType ==
  ASSUME NEW id \in Ids, NEW old \in Snapshots, NEW current, IsMap(current, Snapshots),
         NEW t \in Nat, NEW s \in RemovalEvents(id, old, current, t)
  PROVE  s \in Seq(Events) /\ s # << >>
<1> DEFINE gn == [old EXCEPT !.lastSeen = t]
           base == << Event("pnp_removal", id, gn), Event("device_missing", id, gn) >>
           found == ReenumerationCandidates(id, old, current)
<1>1. gn \in Snapshots
  BY DEF Snapshots
<1>2. base \in Seq(Events) /\ base # << >>
  BY <1>1, EventInEvents DEF EventTypes
<1>3. \A n \in found : n \in Ids /\ current[n] \in Snapshots
  BY DEF ReenumerationCandidates, IsMap, IsMapOf
<1>4. \A n \in found : Event("device_reenumerated", n, current[n]) \in Events
  BY <1>3, EventInEvents DEF EventTypes
<1>5. s = base \/ \E n \in found : s = Append(base, Event("device_reenumerated", n, current[n]))
  BY DEF RemovalEvents
<1> HIDE DEF base, found
<1>6. QED BY <1>2, <1>4, <1>5

LEMMA SentType ==
  ASSUME events \in Seq(Events), NEW e \in Events
  PROVE  Sent(e) \in Seq(Events) /\ Sent(e) # << >>
BY PollerAssumption DEF Sent

LEMMA CurrentType ==
  ASSUME IsMapOf(Nodes, listing, Readings), IsMap(previous, Snapshots), listedAt \in Nat
  PROVE  IsMap(Current, Snapshots)
<1>1. ASSUME NEW id \in DOMAIN listing
      PROVE  Stamped(id) \in Snapshots
  <2>1. listing[id] \in Readings /\ listing[id].power \in PowerStates
    BY ReadingAssumption DEF IsMap, IsMapOf
  <2>2. /\ ParentLowPowerChildD0(listing, id) \in BOOLEAN
        /\ Related(DOMAIN listing, id) \in BOOLEAN
    BY DEF ParentLowPowerChildD0, Related
  <2>3. ConnectedAt(id) \in Nat /\ LastChanged(id) \in Nat
    <3>1. id \in DOMAIN previous =>
            previous[id].connectedAt \in Nat /\ previous[id].lastChanged \in Nat
      BY DEF IsMap, IsMapOf, Snapshots
    <3>2. QED BY <3>1 DEF ConnectedAt, LastChanged
  <2>4. listing[id].com \in ComNames
    BY <2>1 DEF ComNames
  <2>5. QED BY <2>1, <2>2, <2>3, <2>4 DEF Stamped, Snapshots
<1>2. QED BY <1>1 DEF Current, IsMap, IsMapOf

-----------------------------------------------------------------------------
\* The send loop owes exactly the devices that were reported between the two
\* snapshots it compares.
SendLoop ==
  /\ pc # "send" => todo = {} /\ gone = {} /\ pending = << >>
  /\ todo \subseteq DOMAIN previous /\ gone \subseteq DOMAIN prev
  /\ \A id \in todo : Reported(prev, previous, id)

\* The map that is compared and the list that is published agree.
Published == previous = devices

\* The poller's own steps.
LEMMA PollerStepType ==
  ASSUME PollerTypeOK, SendLoop, PollerStep
  PROVE  PollerTypeOK'
<1> USE DEF PollerTypeOK, world, scanning, shared, sending, Stages, Locations
<1>0. PollerTypeOK /\ SendLoop
  OBVIOUS
<1>1. CASE ListBegin
  <2>1. IsMapOf(Nodes, listing, Readings)'
    BY <1>1 DEF ListBegin, IsMap, IsMapOf, Empty
  <2>2. (toRead \in SUBSET Nodes)'
    BY <1>0, <1>1 DEF ListBegin, IsMap, IsMapOf
  <2>3. QED BY <1>0, <1>1, <2>1, <2>2 DEF ListBegin
<1>2. CASE ListFails
  <2>1. IsMapOf(Nodes, listing, Readings)'
    BY <1>2 DEF ListFails, IsMap, IsMapOf, Empty
  <2>2. ErrorEvent(now) \in Events
    BY <1>0, ErrorInEvents
  <2>3. (events \in Seq(Events))'
    BY <1>0, <1>2, <2>2, SentType DEF ListFails
  <2>4. QED BY <1>0, <1>2, <2>1, <2>3 DEF ListFails, ScanReturns
<1>3. CASE Commit
  <2>1. IsMap(Current, Snapshots)
    BY <1>0, CurrentType
  <2>2. IsMapOf(Nodes, listing, Readings)'
    BY <1>3 DEF Commit, IsMap, IsMapOf, Empty
  <2>3. IsMap(previous, Snapshots)' /\ IsMap(devices, Snapshots)' /\ IsMap(prev, Snapshots)'
    BY <1>0, <1>3, <2>1 DEF Commit, Publish
  <2>4. (todo \in SUBSET Ids)' /\ (gone \in SUBSET Ids)'
    BY <1>0, <1>3, <2>1 DEF Commit, IsMap, IsMapOf, Dropped
  <2>5. QED BY <1>0, <1>3, <2>2, <2>3, <2>4 DEF Commit, Publish, ScanReturns
<1>4. CASE Send
  <2>1. Head(pending) \in Events /\ Tail(pending) \in Seq(Events)
    BY <1>0, <1>4 DEF Send
  <2>2. (events \in Seq(Events))' /\ (pending \in Seq(Events))'
    BY <1>0, <1>4, <2>1, SentType DEF Send
  <2>3. QED BY <1>0, <1>4, <2>2 DEF Send
<1>5. CASE EndScan
  <2>1. IsMap(prev, Snapshots)'
    BY <1>5 DEF EndScan, IsMap, IsMapOf, Empty
  <2>2. QED BY <1>0, <1>5, <2>1 DEF EndScan, ScanReturns
<1>6. CASE RunStarts
  BY <1>0, <1>6 DEF RunStarts
<1>7. CASE TickerFires
  BY <1>0, <1>7 DEF TickerFires
<1>8. CASE TakeRefresh
  BY <1>0, <1>8 DEF TakeRefresh
<1>9. CASE RunReturns
  BY <1>0, <1>9 DEF RunReturns
<1>10. ASSUME NEW id \in Nodes, ListRead(id) PROVE PollerTypeOK'
  <2>1. IsMapOf(Nodes, listing, Readings)'
    BY <1>0, <1>10 DEF ListRead, IsMap, IsMapOf
  <2>2. QED BY <1>0, <1>10, <2>1 DEF ListRead
<1>11. ASSUME NEW id \in Ids, NextPresent(id) PROVE PollerTypeOK'
  <2>1. previous[id] \in Snapshots /\ (id \in DOMAIN prev => prev[id] \in Snapshots)
    BY <1>0, <1>11 DEF NextPresent, SendLoop, IsMap, IsMapOf
  <2>2. (pending \in Seq(Events))'
    BY <1>11, <2>1, ChangeEventsEmpty, ArrivalEventsType DEF NextPresent
  <2>3. QED BY <1>0, <1>11, <2>2 DEF NextPresent
<1>12. ASSUME NEW id \in Ids, NextMissing(id) PROVE PollerTypeOK'
  <2>1. prev[id] \in Snapshots
    BY <1>0, <1>12 DEF NextMissing, SendLoop, IsMap, IsMapOf
  <2>2. (pending \in Seq(Events))'
    BY <1>0, <1>12, <2>1, RemovalEventsType DEF NextMissing
  <2>3. QED BY <1>0, <1>12, <2>2 DEF NextMissing
<1>13. QED
  BY <1>1, <1>2, <1>3, <1>4, <1>5, <1>6, <1>7, <1>8, <1>9, <1>10, <1>11, <1>12
     DEF PollerStep

\* The snapshot that is published is the one the events are computed from.
LEMMA SendLoopKept ==
  ASSUME PollerTypeOK, SendLoop, Published, PollerStep
  PROVE  SendLoop' /\ Published'
<1> USE DEF world, scanning, shared, sending
<1>1. CASE Commit
  <2>1. pc = "read" /\ todo = {} /\ gone = {} /\ pending = << >> /\ pending' = << >>
        /\ previous' = Current /\ devices' = Current
    BY <1>1 DEF Commit, Publish, SendLoop
  <2>2. CASE Emits
    <3>1. /\ prev' = previous /\ pc' = "send"
          /\ todo' = {id \in DOMAIN Current : Reported(previous, Current, id)}
          /\ gone' = Dropped(previous, Current)
      BY <1>1, <2>2 DEF Commit
    <3>2. QED BY <2>1, <3>1 DEF SendLoop, Published, Dropped, Reported
  <2>3. CASE ~Emits
    <3>1. todo' = {} /\ gone' = {}
      BY <1>1, <2>1, <2>3 DEF Commit
    <3>2. QED BY <2>1, <3>1 DEF SendLoop, Published
  <2>4. QED BY <2>2, <2>3
<1>2. CASE Send \/ EndScan \/ \E id \in Ids : NextPresent(id) \/ NextMissing(id)
  <2>1. /\ UNCHANGED <<previous, devices>> /\ pc = "send"
        /\ todo' \subseteq todo /\ gone' \subseteq gone /\ (prev' = prev \/ (gone' = {} /\ todo' = {}))
        /\ (pc' # "send" => todo' = {} /\ gone' = {} /\ pending' = << >>)
    <3>1. CASE Send
      BY <3>1 DEF Send
    <3>2. CASE EndScan
      BY <3>2 DEF EndScan
    <3>3. CASE \E id \in Ids : NextPresent(id)
      BY <3>3 DEF NextPresent
    <3>4. CASE \E id \in Ids : NextMissing(id)
      BY <3>4 DEF NextMissing
    <3>5. QED BY <1>2, <3>1, <3>2, <3>3, <3>4
  <2>2. CASE prev' = prev
    BY <2>1, <2>2 DEF SendLoop, Published
  <2>3. CASE gone' = {} /\ todo' = {}
    BY <2>1, <2>3 DEF SendLoop, Published
  <2>4. QED BY <2>1, <2>2, <2>3
<1>3. CASE ListBegin \/ ListFails \/ RunStarts \/ TickerFires \/ TakeRefresh \/ RunReturns
             \/ \E id \in Nodes : ListRead(id)
  <2>1. /\ UNCHANGED <<previous, devices, prev, todo, gone, pending>>
        /\ pc # "send" /\ pc' # "send"
    BY <1>3 DEF ListBegin, ListFails, RunStarts, TickerFires, TakeRefresh, RunReturns, ListRead,
                ScanReturns
  <2>2. QED BY <2>1 DEF SendLoop, Published, Reported
<1>4. QED BY <1>1, <1>2, <1>3 DEF PollerStep

\* What changes while the poller does nothing.
LEMMA MachineType ==
  ASSUME PollerTypeOK, Machine
  PROVE  /\ PollerTypeOK' /\ now <= now'
         /\ UNCHANGED <<failures, stage, pc, scanning, shared, sending, events, refresh, cancelled>>
<1> USE DEF world, scanning, shared, sending
<1>1. /\ UNCHANGED <<failures, stage, pc, scanning, shared, sending, events, refresh, cancelled>>
      /\ (changes \in Nat)' /\ (now \in Nat)' /\ now <= now'
  <2>1. changes \in Nat /\ now \in Nat
    BY DEF PollerTypeOK
  <2>2. CASE Tick
    BY <2>1, <2>2 DEF Tick
  <2>3. ASSUME NEW id \in Nodes, Unplug(id) \/ \E r \in Readings : Plug(id, r)
        PROVE  /\ UNCHANGED <<failures, stage, pc, scanning, shared, sending, events, refresh,
                               cancelled>>
               /\ (changes \in Nat)' /\ (now \in Nat)' /\ now <= now'
    BY <2>1, <2>3 DEF Plug, Unplug
  <2>4. QED BY <2>2, <2>3 DEF Machine
<1>2. IsMapOf(Nodes, attached, Readings)'
  <2>1. IsMapOf(Nodes, attached, Readings)
    BY DEF PollerTypeOK
  <2>2. CASE Tick
    BY <2>1, <2>2 DEF Tick
  <2>3. ASSUME NEW id \in Nodes, Unplug(id) PROVE IsMapOf(Nodes, attached, Readings)'
    BY <2>1, <2>3 DEF Unplug, IsMap, IsMapOf
  <2>4. ASSUME NEW id \in Nodes, NEW r \in Readings, Plug(id, r) PROVE IsMapOf(Nodes, attached, Readings)'
    BY <2>1, <2>4 DEF Plug, IsMap, IsMapOf
  <2>5. QED BY <2>2, <2>3, <2>4 DEF Machine
<1>3. QED BY <1>1, <1>2 DEF PollerTypeOK

LEMMA PollerStarts ==
  ASSUME PollerInit
  PROVE  PollerTypeOK /\ SendLoop /\ Published
<1> USE DEF PollerInit
<1>1. IsMapOf(Nodes, attached, Readings)
  BY DEF IsMap, IsMapOf
<1>2. /\ IsMapOf(Nodes, listing, Readings) /\ IsMap(previous, Snapshots) /\ IsMap(devices, Snapshots)
      /\ IsMap(prev, Snapshots)
  BY DEF IsMap, IsMapOf, Empty
<1>3. /\ changes \in Nat /\ now \in Nat /\ failures \in Nat /\ listedAt \in Nat
      /\ toRead \in SUBSET Nodes /\ todo \in SUBSET Ids /\ gone \in SUBSET Ids
  OBVIOUS
<1>4. stage \in Stages /\ pc \in Locations
  BY DEF Stages, Locations
<1>5. ready \in BOOLEAN /\ refresh \in BOOLEAN /\ cancelled \in BOOLEAN
  OBVIOUS
<1>6. pending \in Seq(Events) /\ events \in Seq(Events)
  OBVIOUS
<1>7. PollerTypeOK
  BY ONLY <1>1, <1>2, <1>3, <1>4, <1>5, <1>6 DEF PollerTypeOK
<1>8. QED BY <1>7 DEF SendLoop, Published
=============================================================================
