--------------------------- MODULE Relationships ---------------------------
(***************************************************************************)
(* What EnrichDeviceRelationships (internal/model/model.go) concludes about *)
(* the devices of a listing: which of them are the same physical adapter,   *)
(* on which evidence, and in which role; and the adapter groups that        *)
(* buildAdapterGroups (internal/ui/table_models_windows.go) shows.          *)
(*                                                                          *)
(* A description has the fields that are looked at: model is VID and PID,   *)
(* text what the names say, chain the ids of the parents, nearest first.    *)
(***************************************************************************)
EXTENDS Integers, SequencesExt

CONSTANT None \* a field that is empty

RelationRole(d) ==
  IF d.com \/ d.text = "port" THEN "port"
  ELSE IF d.text = "converter" THEN "converter" ELSE "device"

ParentInstance(d) == IF d.chain = << >> THEN None ELSE d.chain[1]

\* logicalGroupKey: the id of the group, with the reason it rests on: the same
\* serial, or else the same parent, or else the same place.
LogicalGroup(d) ==
  IF d.model = None THEN None
  ELSE IF d.serial # None THEN << d.model, 1, d.serial >>
  ELSE IF ParentInstance(d) # None THEN << d.model, 2, ParentInstance(d) >>
  ELSE IF d.place # None THEN << d.model, 3, d.place >> ELSE None

DiagnosticScore(d) == IF LogicalGroup(d) = None THEN 0 ELSE << 90, 70, 60 >>[LogicalGroup(d)[2]]

\* Mutant: what hangs on one parent is one adapter.
GroupKeyOfParent(d) == ParentInstance(d)

\* buildAdapterGroups: a row for each group and for each device without one;
\* what is not a port is shown with the converters.
GroupKey(d) == IF LogicalGroup(d) = None THEN <<"single", d.id>> ELSE LogicalGroup(d)

AdapterGroup(members) ==
  [score |-> Max({DiagnosticScore(d) : d \in members}),
   ports |-> {d.id : d \in {m \in members : RelationRole(m) = "port"}},
   converters |-> {d.id : d \in {m \in members : RelationRole(m) # "port"}}]

BuildAdapterGroups(devices) ==
  {AdapterGroup({d \in devices : GroupKey(d) = key}) : key \in {GroupKey(d) : d \in devices}}

=============================================================================
