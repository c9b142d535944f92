---------------------------- MODULE CapturePlan -----------------------------
(* The choice of a USBPcap interface and of device addresses for a capture  *)
(* (internal/usbpcap/usbpcap.go).  What an interface lists is a sequence of *)
(* rows; of a row's text only the facts about the selected device that it   *)
(* contains matter, its evidence, and the address at the start of its value *)
(* (0 when it has none).                                                    *)
EXTENDS Integers, Sequences, FiniteSetsExt

\* matchConfigDevice adds a score for each fact that the text contains.
Weight ==
  [com |-> 100, serial |-> 90, vid |-> 35, pid |-> 35,
   friendlyName |-> 45, description |-> 45, role |-> 10]

Rows == [address : Nat, evidence : SUBSET DOMAIN Weight]

Score(row) == SumFunctionOnSet(Weight, row.evidence)

\* DiscoverInterfaces: an interface whose query fails lists nothing.
Discovered(lists) ==
  {[i \in DOMAIN lists |-> IF i \in failed THEN << >> ELSE lists[i]] :
     failed \in SUBSET DOMAIN lists}

Matching(list) == {r \in DOMAIN list : Score(list[r]) # 0 /\ list[r].address # 0}

Total(list) == SumFunction([r \in Matching(list) |-> Score(list[r])])

Addresses(list) == {list[r].address : r \in Matching(list)}

\* bestInterfaceMatch: the first interface with the highest total, if positive.
Matched(lists) == \E i \in DOMAIN lists : Total(lists[i]) > 0

Best(lists) ==
  CHOOSE i \in DOMAIN lists :
    \A j \in DOMAIN lists :
      /\ Total(lists[j]) <= Total(lists[i])
      /\ j < i => Total(lists[j]) < Total(lists[i])

\* Mutant: the first interface is taken when none matches.
RefusesNone(lists) == lists = << >>

\* BuildPlan fails rather than guess the Root Hub.
Refuses(lists) == lists = << >> \/ (Len(lists) > 1 /\ ~Matched(lists))

\* No address stands for all devices of the interface (-A).
BuildPlan(lists) ==
  [lists     |-> lists,
   interface |-> IF Matched(lists) THEN Best(lists) ELSE 1,
   addresses |-> IF Matched(lists) THEN Addresses(lists[Best(lists)]) ELSE {}]
=============================================================================
