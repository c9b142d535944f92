----------------------------- MODULE PollerEnv ------------------------------
(***************************************************************************)
(* The poller with the most general callers: anybody may ask for a refresh, *)
(* receive from the channel and cancel the context at any time.             *)
(***************************************************************************)
EXTENDS Poller

VARIABLE owed  \* history: a RefreshNow after which no listing has begun

vars == <<pvars, owed>>

Init == PollerInit /\ owed = FALSE

\* A listing that begins after a request serves it.
PollerRuns == PollerStep /\ owed' = (owed /\ pc # "list")

Request == RefreshNow /\ owed' = TRUE

Others == (Machine \/ Receive \/ Cancel) /\ UNCHANGED owed

Next == PollerRuns \/ Request \/ Others

Spec == Init /\ [][Next]_vars

\* The goroutine runs on; Go's select picks among its ready cases at random,
\* so a case that is ready again and again is taken in the end.
Fairness == WF_vars(PollerRuns) /\ SF_vars(RunReturns /\ PollerRuns)

FairSpec == Spec /\ Fairness

-----------------------------------------------------------------------------
TypeOK == PollerTypeOK /\ owed \in BOOLEAN

\* ConnectedAt, LastChanged and LastSeen of a device are in that order and
\* never in the future, across failed scans and devices that come and go.
StampsOrdered ==
  \A id \in DOMAIN devices :
    LET d == devices[id]
    IN d.connectedAt <= d.lastChanged /\ d.lastChanged <= d.lastSeen /\ d.lastSeen <= now

\* While a device stays listed its ConnectedAt does not move, and LastChanged
\* moves exactly when its D-state or place does, to the time it was seen.
StampsCarryOver ==
  [][\A id \in DOMAIN devices \cap DOMAIN devices' :
       LET old == devices[id]
           new == devices'[id]
       IN /\ new.connectedAt = old.connectedAt
          /\ new.lastSeen >= old.lastSeen
          /\ new.lastChanged = IF DeviceChanged(old, new) THEN new.lastSeen ELSE old.lastChanged]_vars

\* RefreshNow coalesces requests in a channel of one token; none is lost: as
\* long as no listing has begun after it, the token is there or was just spent.
RequestKept == owed => refresh \/ pc = "list"

\* README.md:150 "does not infer historical plug/unplug": the first listing
\* that succeeds, whoever makes it, reports nothing about the devices it finds.
BaselineIsSilent ==
  [][(~ready /\ ready') => (pc' # "send" /\ events' = events)]_vars

\* poller.go:261 and 267 report "same ContainerId with changed InstanceId" and
\* "same VID/PID + Serial with changed InstanceId": the device that is reported as
\* re-enumerated under a new InstanceID was not there before.
ReenumeratedIsNew ==
  pc = "send" =>
    \A i \in 1..Len(pending) :
      pending[i].type = "device_reenumerated" => pending[i].id \notin DOMAIN prev

\* Run stops after cancel, whatever the ticker and the requests do.
CancelCloses == cancelled ~> pc = "closed"

\* Every request is followed by a listing, unless Run has returned.
RequestServed == owed ~> (~owed \/ pc = "closed")
=============================================================================
