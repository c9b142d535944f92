---------------------------- MODULE MCPollerEnv -----------------------------
(* Small instances of PollerEnv: two devices, the second the parent of the  *)
(* first; they share an adapter, so one may pass for the other re-enumerated. *)
EXTENDS PollerEnv

CONSTANTS child, hub, host, slot, otherSlot

Pair == {child, hub}
NoHosts == {}
Controller == {host}

AncestorsDef ==
  [id \in Ids |-> (IF id = child THEN {hub, host} ELSE {host}) \cap Nodes]
CompanionsDef == [id \in Ids |-> Ids \ {id}]
EvidenceDef == [id \in Ids |-> {"adapter"}]

Reading(p) ==
  [power |-> p, problem |-> "none", status |-> "ok", place |-> slot, com |-> NoCom]

PowerReadings == {Reading(p) : p \in {"D0", "D3"}}

\* A problem comes with a move to another port: three events at once.
ProblemReadings ==
  { Reading("D0"),
    [Reading("D3") EXCEPT !.place = otherSlot, !.problem = "p10", !.status = "problem 10"] }
=============================================================================
