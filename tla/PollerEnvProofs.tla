-------------------------- MODULE PollerEnvProofs ---------------------------
(***************************************************************************)
(* The poller under any callers: requests are not lost, the baseline is     *)
(* silent, and the time stamps of a device are those of its connection.     *)
(* SetupAPI may fail and devices may come and go at any moment.             *)
(***************************************************************************)
EXTENDS PollerEnv, PollerProofs

\* A listing that is being read is younger than what was published.
Younger ==
  pc = "read" =>
    /\ listedAt <= now
    /\ \A id \in DOMAIN previous : previous[id].lastSeen <= listedAt

IInv == TypeOK /\ SendLoop /\ Published /\ StampsOrdered /\ Younger /\ RequestKept

LEMMA Starts == Init => IInv
<1> SUFFICES ASSUME Init PROVE IInv
  OBVIOUS
<1>1. PollerTypeOK /\ SendLoop /\ Published
  BY PollerStarts DEF Init
<1>2. TypeOK /\ StampsOrdered /\ Younger /\ RequestKept
  BY <1>1 DEF Init, PollerInit, TypeOK, StampsOrdered, Younger, RequestKept, Empty
<1>3. QED BY <1>1, <1>2 DEF IInv

\* The stamps that a device gets when it is published.
LEMMA Stamps ==
  ASSUME IInv, Commit, NEW id \in DOMAIN Current
  PROVE  /\ Current[id] = Stamped(id) /\ Current[id].lastSeen = listedAt /\ listedAt <= now
         /\ listedAt \in Nat
         /\ Current[id].connectedAt <= Current[id].lastChanged
         /\ Current[id].lastChanged <= listedAt
         /\ id \in DOMAIN previous =>
              /\ Current[id].connectedAt = previous[id].connectedAt
              /\ previous[id].lastSeen <= listedAt
              /\ Current[id].lastChanged = IF DeviceChanged(previous[id], Current[id])
                                          THEN listedAt ELSE previous[id].lastChanged
<1>1. /\ Current[id] = Stamped(id) /\ Current[id].lastSeen = listedAt
      /\ Current[id].connectedAt = ConnectedAt(id) /\ Current[id].lastChanged = LastChanged(id)
      /\ Current[id].power = listing[id].power /\ Current[id].place = listing[id].place
      /\ Current[id].com = listing[id].com
  BY DEF Current, Stamped
<1>2. listedAt \in Nat /\ now \in Nat /\ listedAt <= now /\ devices = previous
  BY DEF IInv, TypeOK, PollerTypeOK, Younger, Commit, Published
<1>3. CASE id \notin DOMAIN previous
  BY <1>1, <1>2, <1>3 DEF ConnectedAt, LastChanged
<1>4. CASE id \in DOMAIN previous
  <2>1. /\ previous[id] \in Snapshots /\ previous[id].lastSeen <= listedAt
        /\ previous[id].connectedAt <= previous[id].lastChanged
        /\ previous[id].lastChanged <= previous[id].lastSeen
    BY <1>2, <1>4 DEF IInv, TypeOK, PollerTypeOK, IsMap, IsMapOf, StampsOrdered, Younger, Commit
  <2>2. /\ previous[id].lastSeen \in Nat /\ previous[id].connectedAt \in Nat
        /\ previous[id].lastChanged \in Nat
    BY <2>1 DEF Snapshots
  <2>3. DeviceChanged(previous[id], listing[id]) <=> DeviceChanged(previous[id], Current[id])
    BY <1>1 DEF DeviceChanged
  <2>4. /\ ConnectedAt(id) = previous[id].connectedAt
        /\ LastChanged(id) = IF DeviceChanged(previous[id], Current[id])
                            THEN listedAt ELSE previous[id].lastChanged
    BY <1>4, <2>3 DEF ConnectedAt, LastChanged
  <2>5. QED BY <1>1, <1>2, <2>1, <2>2, <2>4
<1>5. QED BY <1>3, <1>4

-----------------------------------------------------------------------------
LEMMA PollerPreserves ==
  ASSUME IInv, PollerRuns
  PROVE  IInv'
<1> USE DEF world, scanning, shared, sending
<1>1. PollerStep /\ owed' = (owed /\ pc # "list")
  BY DEF PollerRuns
<1>2. PollerTypeOK' /\ SendLoop' /\ Published'
  BY <1>1, PollerStepType, SendLoopKept DEF IInv, TypeOK
<1>3. TypeOK'
  BY <1>1, <1>2 DEF TypeOK
<1>4. now' = now /\ now \in Nat /\ listedAt \in Nat
  BY <1>1 DEF PollerStep, ListBegin, ListFails, Commit, Publish, Send, EndScan, RunStarts,
              TickerFires, TakeRefresh, RunReturns, ListRead, NextPresent, NextMissing,
              IInv, TypeOK, PollerTypeOK
<1>5. RequestKept'
  <2>1. CASE TakeRefresh
    BY <2>1 DEF TakeRefresh, RequestKept
  <2>2. CASE pc = "list"
    BY <1>1, <2>2 DEF RequestKept
  <2>3. CASE pc # "list" /\ ~TakeRefresh
    <3>1. refresh' = refresh
      BY <1>1, <2>3 DEF PollerStep, ListBegin, ListFails, Commit, Publish, Send, EndScan, RunStarts,
              TickerFires, RunReturns, ListRead, NextPresent, NextMissing
    <3>2. QED BY <1>1, <2>3, <3>1 DEF IInv, RequestKept
  <2>4. QED BY <2>1, <2>2, <2>3
<1>6. CASE Commit
  <2>1. /\ previous' = Current /\ devices' = Current /\ pc' # "read"
    BY <1>6 DEF Commit, Publish, ScanReturns
  <2>2. StampsOrdered'
    BY <1>4, <1>6, <2>1, Stamps DEF StampsOrdered
  <2>3. Younger'
    BY <2>1 DEF Younger
  <2>4. QED BY <1>2, <1>3, <1>5, <2>2, <2>3 DEF IInv
<1>7. CASE ~Commit
  <2>1. UNCHANGED <<previous, devices>>
    BY <1>1, <1>7 DEF PollerStep, ListBegin, ListFails, Send, EndScan, RunStarts,
              TickerFires, TakeRefresh, RunReturns, ListRead, NextPresent, NextMissing
  <2>2. StampsOrdered'
    BY <1>4, <2>1 DEF IInv, StampsOrdered
  <2>3. pc' # "read" \/ listedAt' = now \/ (pc = "read" /\ listedAt' = listedAt)
    BY <1>1, <1>7 DEF PollerStep, ListBegin, ListFails, Send, EndScan, RunStarts, ScanReturns,
              TickerFires, TakeRefresh, RunReturns, ListRead, NextPresent, NextMissing
  <2>4. Younger'
    BY <1>4, <2>1, <2>3 DEF IInv, Younger, StampsOrdered, Published
  <2>5. QED BY <1>2, <1>3, <1>5, <2>2, <2>4 DEF IInv
<1>8. QED BY <1>6, <1>7

LEMMA OthersPreserve ==
  ASSUME IInv, Request \/ Others
  PROVE  IInv'
<1> USE DEF scanning, shared, sending
<1>1. PollerTypeOK
  BY DEF IInv, TypeOK
<1>2. /\ UNCHANGED <<stage, pc, scanning, shared, sending>>
      /\ PollerTypeOK' /\ now \in Nat /\ now' \in Nat /\ now <= now' /\ listedAt \in Nat
  <2>1. CASE Machine
    BY <1>1, <2>1, MachineType DEF PollerTypeOK
  <2>2. CASE Receive
    BY <1>1, <2>2 DEF Receive, PollerTypeOK, world
  <2>3. CASE Cancel
    BY <1>1, <2>3 DEF Cancel, PollerTypeOK, world
  <2>4. CASE RefreshNow
    BY <1>1, <2>4 DEF RefreshNow, PollerTypeOK, world
  <2>5. QED BY <2>1, <2>2, <2>3, <2>4 DEF Request, Others
<1>3. \/ owed' = owed /\ refresh' = refresh
      \/ owed' = TRUE /\ refresh' = TRUE
  BY <1>1, MachineType DEF Request, Others, RefreshNow, Receive, Cancel
<1>4. TypeOK' /\ RequestKept'
  <2>1. owed \in BOOLEAN
    BY DEF IInv, TypeOK
  <2>2. owed' \in BOOLEAN
    BY <1>3, <2>1, Zenon
  <2>3. TypeOK'
    BY <1>2, <2>2 DEF TypeOK
  <2>4. RequestKept'
    BY <1>2, <1>3 DEF IInv, RequestKept
  <2>5. QED BY <2>3, <2>4
<1>5. SendLoop' /\ Published'
  BY <1>2 DEF IInv, SendLoop, Published, Reported
<1>6. StampsOrdered'
  <2>1. \A id \in DOMAIN devices : devices[id].lastSeen \in Nat
    BY <1>1 DEF PollerTypeOK, IsMap, IsMapOf, Snapshots
  <2>2. QED BY <1>2, <2>1 DEF IInv, StampsOrdered
<1>7. Younger'
  BY <1>2 DEF IInv, Younger
<1>8. QED BY <1>4, <1>5, <1>6, <1>7 DEF IInv

LEMMA Preserved == IInv /\ [Next]_vars => IInv'
<1> SUFFICES ASSUME IInv, [Next]_vars PROVE IInv'
  OBVIOUS
<1>1. CASE PollerRuns
  BY <1>1, PollerPreserves
<1>2. CASE Request \/ Others
  BY <1>2, OthersPreserve
<1>3. CASE UNCHANGED vars
  BY <1>3 DEF vars, pvars, world, scanning, shared, sending, IInv, TypeOK, PollerTypeOK, SendLoop,
              Published, Reported, StampsOrdered, Younger, RequestKept
<1>4. QED BY <1>1, <1>2, <1>3 DEF Next

LEMMA Invariance == Spec => []IInv
BY Starts, Preserved, PTL DEF Spec

\* The state of the poller keeps its types under any callers.
THEOREM PollerTypes == Spec => []TypeOK
BY Invariance, PTL DEF IInv

\* No request is lost (RefreshNow): until a listing begins after it, the token is
\* there or was spent for the listing that is about to begin.
THEOREM Requests == Spec => []RequestKept
BY Invariance, PTL DEF IInv

\* ConnectedAt, LastChanged and LastSeen of a device are in order (scan).
THEOREM Ordered == Spec => []StampsOrdered
BY Invariance, PTL DEF IInv

\* The first listing that succeeds is silent, whoever makes it (scan).
THEOREM Silent == Spec => BaselineIsSilent
<1>1. IInv /\ [Next]_vars => [(~ready /\ ready') => (pc' # "send" /\ events' = events)]_vars
  <2> SUFFICES ASSUME IInv, Next, ~ready, ready' PROVE pc' # "send" /\ events' = events
    OBVIOUS
  <2> USE DEF world, scanning, shared, sending
  <2>1. PollerStep
    BY MachineType DEF Next, PollerRuns, Request, Others, RefreshNow, Receive, Cancel, IInv, TypeOK
  <2>2. Commit
    BY <2>1 DEF PollerStep, ListBegin, ListFails, Send, EndScan, RunStarts,
              TickerFires, TakeRefresh, RunReturns, ListRead, NextPresent, NextMissing
  <2>3. QED BY <2>2 DEF Commit, Emits, ScanReturns
<1>2. QED BY <1>1, Invariance, PTL DEF Spec, BaselineIsSilent

\* While a device stays listed its stamps are those of its connection and of its
\* last change (scan).
THEOREM Carried == Spec => StampsCarryOver
<1>1. IInv /\ [Next]_vars =>
        [\A id \in DOMAIN devices \cap DOMAIN devices' :
           LET old == devices[id]
               new == devices'[id]
           IN /\ new.connectedAt = old.connectedAt
              /\ new.lastSeen >= old.lastSeen
              /\ new.lastChanged = IF DeviceChanged(old, new) THEN new.lastSeen
                                                             ELSE old.lastChanged]_vars
  <2> SUFFICES ASSUME IInv, Next, NEW id \in DOMAIN devices \cap DOMAIN devices'
               PROVE  /\ devices'[id].connectedAt = devices[id].connectedAt
                      /\ devices'[id].lastSeen >= devices[id].lastSeen
                      /\ devices'[id].lastChanged = IF DeviceChanged(devices[id], devices'[id])
                                                   THEN devices'[id].lastSeen
                                                   ELSE devices[id].lastChanged
    OBVIOUS
  <2> USE DEF world, scanning, shared, sending
  <2>1. devices[id].lastSeen \in Nat /\ devices = previous
    BY DEF IInv, TypeOK, PollerTypeOK, IsMap, IsMapOf, Snapshots, Published
  <2>2. CASE Commit
    <3>1. devices' = Current
      BY <2>2 DEF Commit, Publish
    <3>2. QED BY <2>1, <2>2, <3>1, Stamps
  <2>3. CASE ~Commit
    <3>1. devices' = devices
      <4>1. CASE PollerStep
        BY <2>3, <4>1 DEF PollerStep, ListBegin, ListFails, Send, EndScan, RunStarts,
              TickerFires, TakeRefresh, RunReturns, ListRead, NextPresent, NextMissing
      <4>2. CASE ~PollerStep
        BY <4>2, MachineType DEF Next, PollerRuns, Request, Others, RefreshNow, Receive, Cancel,
                                 IInv, TypeOK
      <4>3. QED BY <4>1, <4>2
    <3>2. QED BY <2>1, <3>1 DEF DeviceChanged
  <2>4. QED BY <2>2, <2>3
<1>2. QED BY <1>1, Invariance, PTL DEF Spec, StampsCarryOver
=============================================================================
