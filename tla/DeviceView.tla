----------------------------- MODULE DeviceView -----------------------------
(***************************************************************************)
(* What the device list promises about the poller, without goroutines,      *)
(* channels, queues and dropped events: the list is always some snapshot    *)
(* that was published when it was last filled, and one flag says whether a  *)
(* refresh is due.  News raises the flag with the snapshot that makes it,   *)
(* and nothing but a refresh clears it.                                     *)
(***************************************************************************)
CONSTANTS
  IsListing(_), \* what the poller may publish
  News(_, _)    \* what the step from one snapshot to another would make it say

VARIABLES
  published,  \* the snapshot of the poller
  ready,      \* the baseline has been taken
  shown,      \* the snapshot the list was last filled from
  shownReady, \* that snapshot was taken after the baseline
  due         \* a refresh of the list is due

vars == <<published, ready, shown, shownReady, due>>

Init ==
  /\ published = [id \in {} |-> id] /\ ~ready
  /\ shown = [id \in {} |-> id] /\ ~shownReady
  /\ ~due

\* The first snapshot is no news, whoever takes it.
Baseline ==
  /\ ~ready /\ ready' = TRUE
  /\ IsListing(published')
  /\ UNCHANGED <<shown, shownReady, due>>

\* Any later one makes a refresh due if, and only if, there is news in it.
Publish ==
  /\ ready
  /\ IsListing(published')
  /\ due' = (due \/ News(published, published'))
  /\ UNCHANGED <<ready, shown, shownReady>>

\* Something else is to be said, which refreshes the list, too.
Notice == due' = TRUE /\ UNCHANGED <<published, ready, shown, shownReady>>

\* A refresh shows the latest snapshot; others may still be due.
Refresh ==
  /\ shown' = published /\ shownReady' = ready
  /\ due' \in {due, FALSE}
  /\ UNCHANGED <<published, ready>>

Next == Baseline \/ Publish \/ Notice \/ Refresh

Spec == Init /\ [][Next]_vars
=============================================================================
