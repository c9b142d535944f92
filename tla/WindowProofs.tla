---------------------------- MODULE WindowProofs ----------------------------
(***************************************************************************)
(* The steps of the window are steps of the check boxes, so that what is    *)
(* proved of Monitoring holds in the window; the evidence groups rest on;   *)
(* the one selection of the three tables; the limits and types of the       *)
(* tables; the details, which show what is selected and miss no event of    *)
(* the watched device; and what an event or a refresh may do to a selected  *)
(* row and to the watched device.                                           *)
(***************************************************************************)
EXTENDS Window, MonitoringProofs, Induction, SequenceTheorems

\* A step of the window is a step of the check boxes or leaves them alone.
LEMMA WindowStep ==
  ASSUME [WindowNext]_wvars
  PROVE  [Next]_vars
<1>1. ASSUME NEW id \in Ids, NEW com \in ComNames \cup {NoCom}, Plugged(id, com) PROVE Next
  BY <1>1 DEF Plugged, Next
<1>2. ASSUME NEW id \in Ids, Unplugged(id) PROVE Next
  BY <1>2 DEF Unplugged, Next
<1>3. ASSUME NEW target, Set(Kept(target)) PROVE Next
  <2>1. Kept(target) \in SUBSET DOMAIN attached
    BY DEF Kept
  <2>2. QED BY <1>3, <2>1 DEF Next
<1>4. ASSUME NEW d \in RowDevices, NEW checked \in BOOLEAN, Check(d, checked) PROVE Next
  BY <1>4 DEF Check, Next
<1>5. CASE Refresh
  BY <1>5, <1>3 DEF Refresh
<1>6. ASSUME NEW kind \in PollerKinds, NEW d \in PollerDevices, PollerEvent(Event(kind, d)) PROVE Next
  BY <1>6, <1>3 DEF PollerEvent
<1>7. ASSUME NEW target \in {"all", "ftdi"}, ChooseTarget(target) PROVE Next
  BY <1>7, <1>3 DEF ChooseTarget
<1>8. CASE UNCHANGED vars
  BY <1>8
<1>9. ASSUME \/ \E kind \in OtherKinds : WindowsMessage(Event(kind, NoDevice))
             \/ \E kind \in PcapKinds, d \in RowDevices : PcapEvent(Event(kind, d))
             \/ \E r \in ETWRecords, id \in Ids : ETWEvent(NormalizeETW(r, DeviceFromETW(id)))
             \/ DetailedLoggingEnds
             \/ \E row \in Rows(listed) \cup {NoRow} : SelectDevice(row)
             \/ \E n \in DOMAIN Visible(window.events) \cup {0} : SelectEvent(n)
             \/ \E n \in DOMAIN Visible(window.changes) \cup {0} : SelectChange(n)
             \/ \E kind \in FilterKinds : ChooseFilter(kind)
      PROVE  UNCHANGED vars
  BY <1>9 DEF WindowsMessage, PcapEvent, ETWEvent, DetailedLoggingEnds, SelectDevice, SelectEvent,
              SelectChange, ChooseFilter
<1>10. CASE UNCHANGED wvars
  BY <1>10 DEF wvars
<1>11. QED BY <1>1, <1>2, <1>4, <1>5, <1>6, <1>7, <1>8, <1>9, <1>10 DEF WindowNext

\* The window implements the check boxes: what Monitoring's theorems say holds
\* in every behaviour of the window.
THEOREM WindowImplementsMonitoring == WindowSpec => Spec
<1>1. WindowInit => Init
  BY DEF WindowInit
<1>2. [WindowNext]_wvars => [Next]_vars
  BY WindowStep
<1>3. QED BY <1>1, <1>2, PTL DEF WindowSpec, Spec

\* No event of a row that is shown unchecked is heard.
THEOREM WindowSilence == WindowSpec => []UncheckedIsSilent
BY WindowImplementsMonitoring, Silence, PTL

\* A click moves the switch of its own adapter only, whatever else happens in the
\* window.
THEOREM WindowRefinement == WindowSpec => ChoiceSpec
BY WindowImplementsMonitoring, Refinement, PTL

\* The types of Monitoring and what the check boxes show.
THEOREM WindowTypes == WindowSpec => []TypeOK
BY WindowImplementsMonitoring, TypeCorrect, PTL

\* The behaviours of the window are behaviours of the check boxes.
THEOREM WindowCheckBoxes == WindowSpec => []CheckBoxShowsSwitch
BY WindowImplementsMonitoring, CheckBoxes, PTL

-----------------------------------------------------------------------------
(* The rows of the table of adapters.                                       *)

\* The reason a group rests on decides how sure it is.
LEMMA ScoreIsNumber ==
  ASSUME NEW d
  PROVE  DiagnosticScore(d) \in {0, 60, 70, 90}
<1>1. LogicalGroup(d) # None => LogicalGroup(d)[2] \in {1, 2, 3}
  BY DEF LogicalGroup
<1>2. QED BY <1>1 DEF DiagnosticScore

\* A group is told from a device that is alone.
LEMMA KeyTellsGroup ==
  ASSUME NEW d, NEW e, GroupKey(d) = GroupKey(e)
  PROVE  LogicalGroup(d) = LogicalGroup(e) /\ (LogicalGroup(d) = None => d.id = e.id)
<1>1. \A x : LogicalGroup(x) # None => Len(LogicalGroup(x)) = 3
  BY DEF LogicalGroup
<1>2. \A x : Len(<<"single", x.id>>) = 2
  OBVIOUS
<1>3. LogicalGroup(d) = None <=> LogicalGroup(e) = None
  BY <1>1, <1>2 DEF GroupKey
<1>4. QED BY <1>3 DEF GroupKey

\* The devices of one row of the table of adapters are one adapter.
LEMMA RowIsAdapter ==
  ASSUME NEW S \in SUBSET Ids, NEW row \in BuildAdapterGroups({Desc[id] : id \in S}),
         NEW a \in row.ports \cup row.converters
  PROVE  /\ a \in S
         /\ row.score = DiagnosticScore(Desc[a])
         /\ \A b \in row.ports \cup row.converters :
              /\ AdapterOf[a] = AdapterOf[b]
              /\ DiagnosticScore(Desc[a]) = DiagnosticScore(Desc[b])
<1> DEFINE devices == {Desc[id] : id \in S}
<1>1. PICK key : row = AdapterGroup({d \in devices : GroupKey(d) = key})
  BY DEF BuildAdapterGroups
<1> DEFINE members == {d \in devices : GroupKey(d) = key}
<1>2. \A b \in row.ports \cup row.converters : b \in S /\ GroupKey(Desc[b]) = key
  <2>1. \A b \in row.ports \cup row.converters : \E d \in members : b = d.id
    BY <1>1 DEF AdapterGroup
  <2>2. \A d \in members : \E id \in S : d = Desc[id]
    OBVIOUS
  <2>3. \A id \in S : Desc[id].id = id
    BY DescriptionAssumption
  <2>4. QED BY <2>1, <2>2, <2>3
<1>3. ASSUME NEW b \in row.ports \cup row.converters
      PROVE  /\ LogicalGroup(Desc[a]) = LogicalGroup(Desc[b])
             /\ LogicalGroup(Desc[a]) = None => a = b
  <2>1. Desc[a].id = a /\ Desc[b].id = b
    BY <1>2, DescriptionAssumption
  <2>2. QED BY <1>2, <2>1, KeyTellsGroup
<1>4. ASSUME NEW b \in row.ports \cup row.converters
      PROVE  /\ AdapterOf[a] = AdapterOf[b]
             /\ DiagnosticScore(Desc[a]) = DiagnosticScore(Desc[b])
  <2>1. a \in Ids /\ b \in Ids
    BY <1>2
  <2>2. Group[a] = LogicalGroup(Desc[a]) /\ Group[b] = LogicalGroup(Desc[b]) /\ NoGroup = None
    BY <2>1, DescriptionAssumption
  <2>3. QED BY <1>3, <2>1, <2>2 DEF AdapterOf, DiagnosticScore
<1>5. \A d \in members : DiagnosticScore(d) = DiagnosticScore(Desc[a])
  <2>1. \A d \in members : LogicalGroup(d) = LogicalGroup(Desc[a])
    BY <1>2, KeyTellsGroup
  <2>2. QED BY <2>1 DEF DiagnosticScore
<1>6. {DiagnosticScore(d) : d \in members} = {DiagnosticScore(Desc[a])}
  <2>1. Desc[a] \in members
    BY <1>2
  <2>2. QED BY <1>5, <2>1
<1>7. row.score = DiagnosticScore(Desc[a])
  <2> DEFINE score == DiagnosticScore(Desc[a])
  <2>1. row.score = Max({score})
    BY <1>1, <1>6 DEF AdapterGroup
  <2>2. score \in Int
    BY ScoreIsNumber
  <2> HIDE DEF score
  <2>3. Max({score}) = score
    BY <2>2 DEF Max
  <2>4. QED BY <2>1, <2>3 DEF score
<1>8. QED BY <1>2, <1>4, <1>7

\* The table of adapters and the check boxes agree on what an adapter is, for any
\* devices: the devices of a row have one check box and rest on one evidence.
THEOREM AdapterRows == WindowSpec => []AdapterRowsAgree
<1>1. IInv => AdapterRowsAgree
  <2> SUFFICES ASSUME IInv,
                      NEW row \in BuildAdapterGroups({Desc[id] : id \in DOMAIN listed}),
                      NEW a \in row.ports \cup row.converters, NEW b \in row.ports \cup row.converters
               PROVE  /\ IsMonitored(listed[a]) <=> IsMonitored(listed[b])
                      /\ DiagnosticScore(Desc[a]) = row.score
    BY DEF AdapterRowsAgree
  <2>1. DOMAIN listed \in SUBSET Ids
    BY DEF IInv, TypeOK
  <2>2. /\ a \in DOMAIN listed /\ b \in DOMAIN listed
        /\ AdapterOf[a] = AdapterOf[b] /\ row.score = DiagnosticScore(Desc[a])
    BY <2>1, RowIsAdapter
  <2>3. Decisive(a) = Decisive(b)
    BY <2>1, <2>2, SameSwitch
  <2>4. QED BY <2>2, <2>3, ListedRow
<1>2. QED BY <1>1, WindowImplementsMonitoring, Invariance, PTL

-----------------------------------------------------------------------------
(* One selection: every handler keeps it, so every chain of handlers does.  *)

\* The fields of the window's state.
Fields ==
  {"target", "deviceSel", "watched", "focus", "events", "changes", "eventSel", "changeSel",
   "details", "detailed"}

\* What a chain of handlers hands on.
Handled(w, list) == DOMAIN w = Fields /\ OneSelectionIn(w, list)

\* The details leave the selections alone.
LEMMA DetailsKeep ==
  ASSUME NEW w, NEW list, Handled(w, list)
  PROVE  Handled(UpdateDetails(w, list), list)
BY DEF Handled, UpdateDetails, OneSelectionIn, Fields

\* Selecting a device keeps one selection.
LEMMA DeviceHandled ==
  ASSUME NEW w, NEW list, NEW row, Handled(w, list)
  PROVE  Handled(OnDeviceSelection([w EXCEPT !.deviceSel = row], list), list)
<1> DEFINE v == [w EXCEPT !.deviceSel = row]
           u == [v EXCEPT !.watched = RowDevice(list, v.deviceSel), !.focus = TRUE,
                          !.eventSel = 0, !.changeSel = 0]
<1>1. DOMAIN w = Fields /\ v.deviceSel = row
  BY DEF Handled, Fields
<1>2. CASE row = NoRow
  <2>1. Handled(v, list)
    BY <1>1, <1>2 DEF Handled, OneSelectionIn, Fields
  <2>2. QED BY <1>1, <1>2, <2>1, DetailsKeep DEF OnDeviceSelection
<1>3. CASE row # NoRow
  <2>1. Handled(u, list)
    BY <1>1 DEF Handled, OneSelectionIn, Fields
  <2>2. QED BY <1>1, <1>3, <2>1, DetailsKeep DEF OnDeviceSelection
<1>4. QED BY <1>2, <1>3

\* Selecting an event keeps one selection.
LEMMA EventHandled ==
  ASSUME NEW w, NEW list, NEW n, Handled(w, list)
  PROVE  Handled(OnEventSelection([w EXCEPT !.eventSel = n], list), list)
<1> DEFINE v == [w EXCEPT !.eventSel = n]
           u == [v EXCEPT !.focus = FALSE, !.deviceSel = NoRow, !.changeSel = 0]
<1>1. DOMAIN w = Fields /\ v.eventSel = n
  BY DEF Handled, Fields
<1>2. CASE n = 0
  <2>1. Handled(v, list)
    BY <1>1, <1>2 DEF Handled, OneSelectionIn, Fields
  <2>2. QED BY <1>1, <1>2, <2>1, DetailsKeep DEF OnEventSelection
<1>3. CASE n # 0
  <2>1. Handled(u, list)
    BY <1>1 DEF Handled, OneSelectionIn, Fields
  <2>2. QED BY <1>1, <1>3, <2>1, DetailsKeep DEF OnEventSelection
<1>4. QED BY <1>2, <1>3

\* Selecting a change keeps one selection.
LEMMA ChangeHandled ==
  ASSUME NEW w, NEW list, NEW n, Handled(w, list)
  PROVE  Handled(OnChangeSelection([w EXCEPT !.changeSel = n], list), list)
<1> DEFINE v == [w EXCEPT !.changeSel = n]
           u == [v EXCEPT !.focus = FALSE, !.deviceSel = NoRow, !.eventSel = 0]
<1>1. DOMAIN w = Fields /\ v.changeSel = n
  BY DEF Handled, Fields
<1>2. CASE n = 0
  <2>1. Handled(v, list)
    BY <1>1, <1>2 DEF Handled, OneSelectionIn, Fields
  <2>2. QED BY <1>1, <1>2, <2>1, DetailsKeep DEF OnChangeSelection
<1>3. CASE n # 0
  <2>1. Handled(u, list)
    BY <1>1 DEF Handled, OneSelectionIn, Fields
  <2>2. QED BY <1>1, <1>3, <2>1, DetailsKeep DEF OnChangeSelection
<1>4. QED BY <1>2, <1>3

\* Resetting a table keeps one selection.
LEMMA ResetsKeep ==
  ASSUME NEW w, NEW list, Handled(w, list)
  PROVE  Handled(ResetEvents(w, list), list) /\ Handled(ResetChanges(w, list), list)
BY EventHandled, ChangeHandled DEF ResetEvents, ResetChanges

\* Adding an event to the tables keeps one selection.
LEMMA LoggedKeeps ==
  ASSUME NEW w, NEW e, NEW list, Handled(w, list)
  PROVE  Handled(Logged(w, e, list), list)
<1>1. ASSUME NEW v, Handled(v, list) PROVE Handled(AddToEvents(v, e, list), list)
  <2>1. Handled([v EXCEPT !.events = Added(v.events, e, EventLimit)], list)
    BY <1>1 DEF Handled, OneSelectionIn, Fields
  <2>2. QED BY <2>1, ResetsKeep DEF AddToEvents
<1>2. ASSUME NEW v, Handled(v, list) PROVE Handled(AddToChanges(v, e, list), list)
  <2>1. Handled([v EXCEPT !.changes = Added(v.changes, e, ChangeLimit)], list)
    BY <1>2 DEF Handled, OneSelectionIn, Fields
  <2>2. QED BY <1>2, <2>1, ResetsKeep DEF AddToChanges
<1>3. QED BY <1>1, <1>2 DEF Logged

\* Showing an added event keeps one selection.
LEMMA ShownKeeps ==
  ASSUME NEW w, NEW e, NEW list, Handled(w, list)
  PROVE  Handled(Shown(w, e, list), list)
<1>1. Handled(AutoSelect(w, e, list), list)
  BY EventHandled DEF AutoSelect
<1>2. QED BY <1>1, DetailsKeep DEF Shown, RefreshWatchDetails

\* addEvent keeps one selection.
LEMMA AddEventKeeps ==
  ASSUME NEW w, NEW e, NEW list, Handled(w, list)
  PROVE  Handled(AddEvent(w, e, list), list)
<1>1. ASSUME NEW v, NEW f, Handled(v, list) PROVE Handled(AddedEvent(v, f, list), list)
  BY <1>1, LoggedKeeps, ShownKeeps DEF AddedEvent
<1>2. ASSUME NEW v, Handled(v, list) PROVE Handled(TriggerDetailedLogging(v, e, list), list)
  <2>1. Handled([v EXCEPT !.detailed = TRUE], list)
    BY <1>2 DEF Handled, OneSelectionIn, Fields
  <2>2. QED BY <1>1, <1>2, <2>1 DEF TriggerDetailedLogging
<1>3. Handled(Logged(w, e, list), list)
  BY LoggedKeeps
<1>4. QED BY <1>2, <1>3, ShownKeeps DEF AddEvent

\* A device is selected again only where no event is, and in the new list.
LEMMA RefreshKeeps ==
  ASSUME NEW w, NEW old, NEW new, Handled(w, old)
  PROVE  Handled(RefreshDevices(w, old, new), new)
<1> DEFINE v == [w EXCEPT !.deviceSel = NoRow]
           device == SelectionTarget(w, old)
           row == RowOfDevice(new, device)
           u == [v EXCEPT !.deviceSel = row, !.watched = RowDevice(new, row), !.focus = TRUE]
<1>1. DOMAIN w = Fields /\ Handled(v, new)
  BY DEF Handled, OneSelectionIn, Fields
<1>2. device # NoDevice => w.eventSel = 0 /\ w.changeSel = 0
  BY DEF SelectionTarget, Handled, OneSelectionIn
<1>3. device # NoDevice => Handled(u, new)
  BY <1>1, <1>2 DEF Handled, OneSelectionIn, Fields
<1>4. Handled(RestoreDeviceSelection(v, new, device), new)
  BY <1>1, <1>3 DEF RestoreDeviceSelection
<1>5. QED BY <1>4, DetailsKeep DEF RefreshDevices

\* Applying the filters keeps one selection.
LEMMA FilterKeeps ==
  ASSUME NEW w, NEW filter, NEW list, Handled(w, list)
  PROVE  Handled(ApplyEventFilters(w, filter, list), list)
<1>1. Handled([w EXCEPT !.events.filter = filter], list)
  BY DEF Handled, OneSelectionIn, Fields
<1>2. QED BY <1>1, ResetsKeep, DetailsKeep DEF ApplyEventFilters

\* Every step of the window keeps one selection.
LEMMA SelectionStep ==
  ASSUME Handled(window, listed), [WindowNext]_wvars
  PROVE  Handled(window, listed)'
<1>1. ASSUME UNCHANGED <<window, listed>> PROVE Handled(window, listed)'
  BY <1>1 DEF Handled, OneSelectionIn, RowDevice
<1>2. ASSUME NEW id \in Ids, NEW com \in ComNames \cup {NoCom}, Plugged(id, com)
      PROVE  Handled(window, listed)'
  BY <1>2, <1>1 DEF Plugged, Plug
<1>3. ASSUME NEW id \in Ids, Unplugged(id) PROVE Handled(window, listed)'
  BY <1>3, <1>1 DEF Unplugged, Unplug
<1>4. CASE Refresh
  BY <1>4, RefreshKeeps DEF Refresh
<1>5. ASSUME NEW kind \in PollerKinds, NEW d \in PollerDevices, PollerEvent(Event(kind, d))
      PROVE  Handled(window, listed)'
  BY <1>5, AddEventKeeps, RefreshKeeps DEF PollerEvent
<1>6. ASSUME NEW kind \in OtherKinds, WindowsMessage(Event(kind, NoDevice))
      PROVE  Handled(window, listed)'
  BY <1>6, AddEventKeeps DEF WindowsMessage, vars
<1>7. ASSUME NEW kind \in PcapKinds, NEW d \in RowDevices, PcapEvent(Event(kind, d))
      PROVE  Handled(window, listed)'
  BY <1>7, AddEventKeeps DEF PcapEvent, vars
<1>8. ASSUME NEW r \in ETWRecords, NEW id \in Ids, ETWEvent(NormalizeETW(r, DeviceFromETW(id)))
      PROVE  Handled(window, listed)'
  BY <1>8, AddEventKeeps DEF ETWEvent, vars
<1>9. CASE DetailedLoggingEnds
  BY <1>9 DEF DetailedLoggingEnds, vars, Handled, OneSelectionIn, Fields
<1>10. ASSUME NEW row, SelectDevice(row) PROVE Handled(window, listed)'
  BY <1>10, DeviceHandled DEF SelectDevice, vars
<1>11. ASSUME NEW n, SelectEvent(n) PROVE Handled(window, listed)'
  BY <1>11, EventHandled DEF SelectEvent, vars
<1>12. ASSUME NEW n, SelectChange(n) PROVE Handled(window, listed)'
  BY <1>12, ChangeHandled DEF SelectChange, vars
<1>13. ASSUME NEW d \in RowDevices, NEW checked \in BOOLEAN, Check(d, checked)
       PROVE  Handled(window, listed)'
  BY <1>13, DetailsKeep DEF Check, SetChecked
<1>14. ASSUME NEW kind \in FilterKinds, ChooseFilter(kind) PROVE Handled(window, listed)'
  BY <1>14, FilterKeeps DEF ChooseFilter, vars
<1>15. ASSUME NEW target \in {"all", "ftdi"}, ChooseTarget(target)
       PROVE  Handled(window, listed)'
  <2> DEFINE aimed == [window EXCEPT !.target = target]
             refreshed == RefreshDevices(aimed, listed, listed')
             filtered == ApplyEventFilters(refreshed, [window.events.filter EXCEPT !.target = target], listed')
             changed == [filtered EXCEPT !.changes.filter =
                           [NoFilter EXCEPT !.target = target, !.level = "all"]]
  <2>1. Handled(aimed, listed)
    BY DEF Handled, OneSelectionIn, Fields
  <2>2. Handled(filtered, listed')
    BY <2>1, RefreshKeeps, FilterKeeps
  <2>3. Handled(changed, listed')
    BY <2>2 DEF Handled, OneSelectionIn, Fields
  <2>4. window' = ResetChanges(changed, listed')
    BY <1>15 DEF ChooseTarget
  <2>5. Handled(window', listed')
    BY <2>3, <2>4, ResetsKeep
  <2>6. QED BY <2>5 DEF Handled, OneSelectionIn, RowDevice
<1>16. CASE UNCHANGED wvars
  BY <1>16, <1>1 DEF wvars, vars
<1>17. QED BY <1>2, <1>3, <1>4, <1>5, <1>6, <1>7, <1>8, <1>9, <1>10, <1>11, <1>12, <1>13, <1>14,
              <1>15, <1>16 DEF WindowNext

\* The three tables have one selection between them, and the selected device is
\* the watched one, in any list, with any limits and filters.
THEOREM Selection == WindowSpec => []OneSelection
<1>1. WindowInit => Handled(window, listed)
  BY DEF WindowInit, Handled, OneSelectionIn, Fields
<1>2. Handled(window, listed) => OneSelection
  BY DEF Handled, OneSelection
<1>3. QED BY <1>1, <1>2, SelectionStep, PTL DEF WindowSpec

-----------------------------------------------------------------------------
(* The rows that are picked of a table.                                     *)

\* The body of the recursion in Picked.
PickStep(first, items, chosen, n) ==
  IF n = 0 THEN << >>
  ELSE IF n \in chosen THEN Append(first[n - 1], items[n]) ELSE first[n - 1]

\* first lists what is picked of the first items, for every number of them up to n.
IsPick(first, items, chosen, n) == first = [k \in 0 .. n |-> PickStep(first, items, chosen, k)]

\* The recursion of Picked defines a function.
LEMMA PickExists ==
  ASSUME NEW items, NEW chosen
  PROVE  \A n \in Nat : \E first : IsPick(first, items, chosen, n)
<1> DEFINE Good == {n \in Nat : \E first : IsPick(first, items, chosen, n)}
<1>1. 0 \in Good
  <2> DEFINE first == [k \in 0 .. 0 |-> << >>]
  <2>1. first = [k \in 0 .. 0 |-> PickStep(first, items, chosen, k)]
    BY DEF PickStep
  <2> HIDE DEF first
  <2>2. IsPick(first, items, chosen, 0)
    BY <2>1 DEF IsPick
  <2>3. QED BY <2>2
<1>2. ASSUME NEW n \in Nat, n \in Good PROVE n + 1 \in Good
  <2>0. PICK first : IsPick(first, items, chosen, n)
    BY <1>2
  <2>1. first = [k \in 0 .. n |-> PickStep(first, items, chosen, k)]
    BY <2>0 DEF IsPick
  <2> DEFINE more == [k \in 0 .. n + 1 |-> IF k = n + 1 THEN PickStep(first, items, chosen, k) ELSE first[k]]
  <2>2. ASSUME NEW k \in 0 .. n + 1 PROVE more[k] = PickStep(more, items, chosen, k)
    <3>1. k # 0 => k - 1 \in 0 .. n /\ more[k - 1] = first[k - 1]
      OBVIOUS
    <3>2. PickStep(more, items, chosen, k) = PickStep(first, items, chosen, k)
      BY <3>1 DEF PickStep
    <3>3. k # n + 1 => k \in 0 .. n /\ more[k] = first[k]
      OBVIOUS
    <3>4. k # n + 1 => first[k] = PickStep(first, items, chosen, k)
      BY <2>1, <3>3
    <3>5. QED BY <3>2, <3>3, <3>4
  <2>3. more = [k \in 0 .. n + 1 |-> PickStep(more, items, chosen, k)]
    BY <2>2
  <2> HIDE DEF more
  <2>4. IsPick(more, items, chosen, n + 1)
    BY <2>3 DEF IsPick
  <2>5. n + 1 \in Nat
    OBVIOUS
  <2>6. QED BY <2>4, <2>5
<1>3. Nat \subseteq Good
  <2> HIDE DEF Good
  <2>1. QED BY <1>1, <1>2, Naturals
<1>4. QED BY <1>3

\* Picked is the last of its recursion's values.
LEMMA PickedIs ==
  ASSUME NEW S, NEW items \in Seq(S), NEW chosen
  PROVE  \E first : /\ IsPick(first, items, chosen, Len(items))
                    /\ Picked(items, chosen) = first[Len(items)]
<1> DEFINE n == Len(items)
           first == CHOOSE first : first = [k \in 0 .. n |-> PickStep(first, items, chosen, k)]
<1>1. n \in Nat
  OBVIOUS
<1>2. Picked(items, chosen) = first[n]
  BY DEF Picked, PickStep
<1>3. first = CHOOSE f : IsPick(f, items, chosen, n)
  BY DEF IsPick
<1> HIDE DEF n, first
<1>4. \E f : IsPick(f, items, chosen, n)
  BY <1>1, PickExists
<1>5. IsPick(first, items, chosen, n)
  BY <1>3, <1>4
<1>6. QED BY <1>2, <1>5 DEF n

\* Only what is chosen among the items decides, and the items in their order.
LEMMA PickedPrefix ==
  ASSUME NEW s, NEW t, NEW c, NEW d, NEW n \in Nat, NEW m \in Nat, NEW f, NEW g,
         IsPick(f, s, c, n), IsPick(g, t, d, m),
         n <= m,
         \A k \in 1 .. n : s[k] = t[k] /\ (k \in c <=> k \in d)
  PROVE  \A k \in 0 .. n : f[k] = g[k]
<1> DEFINE Good == {k \in Nat : k <= n => f[k] = g[k]}
<1>1. 0 \in Good
  <2>1. 0 \in 0 .. n /\ 0 \in 0 .. m
    OBVIOUS
  <2>2. f[0] = PickStep(f, s, c, 0) /\ g[0] = PickStep(g, t, d, 0)
    BY <2>1 DEF IsPick
  <2>3. QED BY <2>2 DEF PickStep
<1>2. ASSUME NEW k \in Nat, k \in Good PROVE k + 1 \in Good
  <2> SUFFICES ASSUME k + 1 <= n PROVE f[k + 1] = g[k + 1]
    OBVIOUS
  <2>1. f[k] = g[k]
    BY <1>2
  <2>2. k + 1 \in 0 .. n /\ k + 1 \in 0 .. m /\ k + 1 \in 1 .. n /\ k + 1 # 0 /\ (k + 1) - 1 = k
    OBVIOUS
  <2>3. f[k + 1] = PickStep(f, s, c, k + 1) /\ g[k + 1] = PickStep(g, t, d, k + 1)
    BY <2>2 DEF IsPick
  <2>4. s[k + 1] = t[k + 1] /\ (k + 1 \in c <=> k + 1 \in d)
    BY <2>2
  <2>5. QED BY <2>1, <2>2, <2>3, <2>4 DEF PickStep
<1>3. Nat \subseteq Good
  <2> HIDE DEF Good
  <2>1. QED BY <1>1, <1>2, Naturals
<1>4. QED BY <1>3

\* Picking from items in front of another one.
LEMMA PickedAppend ==
  ASSUME NEW S, NEW items \in Seq(S), NEW x \in S, NEW c, NEW d,
         \A k \in 1 .. Len(items) : k \in c <=> k \in d
  PROVE  Picked(Append(items, x), d) =
           IF Len(items) + 1 \in d THEN Append(Picked(items, c), x) ELSE Picked(items, c)
<1> DEFINE n == Len(items)
           longer == Append(items, x)
<1>1. /\ n \in Nat /\ longer \in Seq(S) /\ Len(longer) = n + 1 /\ longer[n + 1] = x
      /\ \A k \in 1 .. n : longer[k] = items[k]
  OBVIOUS
<1> HIDE DEF longer
<1>2. PICK f : IsPick(f, items, c, n) /\ Picked(items, c) = f[n]
  BY PickedIs
<1>3. PICK g : IsPick(g, longer, d, n + 1) /\ Picked(longer, d) = g[n + 1]
  BY <1>1, PickedIs
<1> HIDE DEF n
<1>4. \A k \in 1 .. n : items[k] = longer[k] /\ (k \in c <=> k \in d)
  BY <1>1 DEF n
<1>5. n + 1 \in Nat /\ n <= n + 1
  BY <1>1
<1>6. f[n] = g[n]
  <2>1. \A k \in 0 .. n : f[k] = g[k]
    BY <1>1, <1>2, <1>3, <1>4, <1>5, PickedPrefix
  <2>2. QED BY <2>1, <1>1
<1>7. g[n + 1] = PickStep(g, longer, d, n + 1)
  <2>1. n + 1 \in 0 .. n + 1
    BY <1>1
  <2>2. g = [k \in 0 .. n + 1 |-> PickStep(g, longer, d, k)]
    BY <1>3 DEF IsPick
  <2>3. QED BY <2>1, <2>2, Zenon
<1>8. n + 1 # 0 /\ (n + 1) - 1 = n
  BY <1>1
<1>9. QED BY <1>1, <1>2, <1>3, <1>6, <1>7, <1>8 DEF PickStep, n, longer

\* What is picked are the chosen items.
LEMMA PickedItems ==
  ASSUME NEW S, NEW items \in Seq(S), NEW chosen
  PROVE  /\ Picked(items, chosen) \in Seq(S)
         /\ ToSet(Picked(items, chosen)) = {items[i] : i \in chosen \cap DOMAIN items}
<1> DEFINE n == Len(items)
<1>1. PICK f : IsPick(f, items, chosen, n) /\ Picked(items, chosen) = f[n]
  BY PickedIs
<1> DEFINE Seen(k) == {items[i] : i \in chosen \cap (1 .. k)}
           Good == {k \in Nat : k <= n => f[k] \in Seq(S) /\ ToSet(f[k]) = Seen(k)}
<1>2. n \in Nat /\ DOMAIN items = 1 .. n /\ \A k \in 1 .. n : items[k] \in S
  OBVIOUS
<1>3. 0 \in Good
  <2>1. 0 \in 0 .. n
    OBVIOUS
  <2>2. f[0] = << >>
    BY <1>1, <2>1 DEF IsPick, PickStep
  <2>3. 1 .. 0 = {} /\ ToSet(<< >>) = {} /\ << >> \in Seq(S)
    BY DEF ToSet
  <2>4. QED BY <2>2, <2>3
<1>4. ASSUME NEW k \in Nat, k \in Good PROVE k + 1 \in Good
  <2> SUFFICES ASSUME k + 1 <= n PROVE f[k + 1] \in Seq(S) /\ ToSet(f[k + 1]) = Seen(k + 1)
    OBVIOUS
  <2>1. f[k] \in Seq(S) /\ ToSet(f[k]) = Seen(k)
    BY <1>4
  <2>2. k + 1 \in 0 .. n /\ k + 1 \in 1 .. n /\ k + 1 # 0 /\ (k + 1) - 1 = k
    OBVIOUS
  <2>3. f[k + 1] = PickStep(f, items, chosen, k + 1)
    BY <1>1, <2>2 DEF IsPick
  <2>4. f[k + 1] = IF k + 1 \in chosen THEN Append(f[k], items[k + 1]) ELSE f[k]
    BY <2>2, <2>3 DEF PickStep
  <2>5. items[k + 1] \in S
    BY <1>2, <2>2
  <2>6. 1 .. k + 1 = (1 .. k) \cup {k + 1}
    OBVIOUS
  <2>7. ASSUME k + 1 \in chosen PROVE ToSet(Append(f[k], items[k + 1])) = ToSet(f[k]) \cup {items[k + 1]}
    <3> DEFINE s == f[k]
               x == items[k + 1]
    <3>1. s \in Seq(S) /\ x \in S
      BY <2>1, <2>5
    <3> HIDE DEF s, x
    <3>2. ToSet(Append(s, x)) = ToSet(s) \cup {x}
      <4>1. /\ DOMAIN Append(s, x) = DOMAIN s \cup {Len(s) + 1} /\ Append(s, x)[Len(s) + 1] = x
            /\ \A i \in DOMAIN s : Append(s, x)[i] = s[i]
        BY <3>1
      <4>2. QED BY <4>1 DEF ToSet
    <3>3. QED BY <3>2 DEF s, x
  <2>8. QED BY <2>1, <2>4, <2>5, <2>6, <2>7
<1>5. Nat \subseteq Good
  <2> HIDE DEF Good
  <2>1. QED BY <1>3, <1>4, Naturals
<1>6. f[n] \in Seq(S) /\ ToSet(f[n]) = Seen(n)
  <2>1. n \in Good
    BY <1>2, <1>5
  <2>2. QED BY <2>1
<1>7. Seen(n) = {items[i] : i \in chosen \cap DOMAIN items}
  BY <1>2
<1>8. QED BY <1>1, <1>6, <1>7

-----------------------------------------------------------------------------
(* The order of the rows is complete, so the first row that is taken for a  *)
(* device exists and IndexOfDevice finds it.                                *)

\* Two different keys are ordered.
LEMMA BeforeIsTotal ==
  ASSUME NEW s \in Seq(Nat), NEW t \in Seq(Nat), s # t
  PROVE  Before(s, t) \/ Before(t, s)
<1> DEFINE Same(i) == (i \in DOMAIN s <=> i \in DOMAIN t) /\ (i \in DOMAIN s => s[i] = t[i])
           Different == {i \in Nat \ {0} : ~Same(i)}
<1>1. DOMAIN s = 1 .. Len(s) /\ DOMAIN t = 1 .. Len(t) /\ Len(s) \in Nat /\ Len(t) \in Nat
  OBVIOUS
<1>2. Different # {}
  <2> SUFFICES ASSUME \A i \in Nat \ {0} : Same(i) PROVE s = t
    BY <1>1
  <2>1. DOMAIN s \subseteq Nat \ {0} /\ DOMAIN t \subseteq Nat \ {0}
    BY <1>1
  <2>2. DOMAIN s = DOMAIN t
    BY <2>1
  <2>3. \A i \in DOMAIN s : s[i] = t[i]
    BY <2>1
  <2>4. s = [i \in DOMAIN s |-> s[i]] /\ t = [i \in DOMAIN t |-> t[i]]
    OBVIOUS
  <2>5. QED BY <2>2, <2>3, <2>4
<1>3. PICK m \in Different : \A k \in Different : m <= k
  <2>1. Different \in SUBSET Nat
    OBVIOUS
  <2> HIDE DEF Different
  <2>2. QED BY <1>2, <2>1, LeastNatural
<1>4. m \in Nat \ {0} /\ ~Same(m) /\ \A j \in 1 .. m - 1 : Same(j)
  BY <1>3
<1>5. ASSUME NEW x \in Seq(Nat), NEW j \in 1 .. m - 1, m \in DOMAIN x
      PROVE  j \in DOMAIN x
  BY <1>4, <1>5
<1>6. (m \in DOMAIN s => s[m] \in Nat) /\ (m \in DOMAIN t => t[m] \in Nat)
  OBVIOUS
<1>7. ASSUME NEW x \in Seq(Nat), NEW y \in Seq(Nat), m \in DOMAIN y,
             \A j \in 1 .. m - 1 : j \in DOMAIN x /\ x[j] = y[j],
             m \in DOMAIN x => x[m] < y[m]
      PROVE  Before(x, y)
  BY <1>7 DEF Before
<1>8. CASE m \in DOMAIN s /\ m \notin DOMAIN t
  BY <1>4, <1>5, <1>7, <1>8
<1>9. CASE m \in DOMAIN t /\ m \notin DOMAIN s
  BY <1>4, <1>5, <1>7, <1>9
<1>10. CASE m \in DOMAIN s /\ m \in DOMAIN t
  <2>1. s[m] < t[m] \/ t[m] < s[m]
    BY <1>4, <1>6, <1>10
  <2>2. \A j \in 1 .. m - 1 : j \in DOMAIN s /\ j \in DOMAIN t /\ s[j] = t[j]
    BY <1>4, <1>5, <1>10
  <2>3. QED BY <1>7, <1>10, <2>1, <2>2
<1>11. QED BY <1>4, <1>8, <1>9, <1>10

\* Three keys in order are in order.
LEMMA BeforeIsTransitive ==
  ASSUME NEW s \in Seq(Nat), NEW t \in Seq(Nat), NEW u \in Seq(Nat), Before(s, t), Before(t, u)
  PROVE  Before(s, u)
<1>1. PICK i \in DOMAIN t : /\ \A l \in 1 .. i - 1 : l \in DOMAIN s /\ s[l] = t[l]
                            /\ i \in DOMAIN s => s[i] < t[i]
  BY DEF Before
<1>2. PICK j \in DOMAIN u : /\ \A l \in 1 .. j - 1 : l \in DOMAIN t /\ t[l] = u[l]
                            /\ j \in DOMAIN t => t[j] < u[j]
  BY DEF Before
<1>3. i \in Nat \ {0} /\ j \in Nat \ {0}
  OBVIOUS
<1>4. (\A l \in 1 .. j : l \in DOMAIN u) /\ (\A l \in 1 .. i : l \in DOMAIN t)
  <2>1. DOMAIN t = 1 .. Len(t) /\ DOMAIN u = 1 .. Len(u) /\ Len(t) \in Nat /\ Len(u) \in Nat
    OBVIOUS
  <2>2. i \in 1 .. Len(t) /\ j \in 1 .. Len(u)
    BY <2>1
  <2>3. QED BY <2>1, <2>2
<1>5. CASE i < j
  <2>1. i \in DOMAIN u /\ t[i] = u[i]
    <3>1. i \in 1 .. j - 1 /\ i \in 1 .. j
      BY <1>3, <1>5
    <3>2. QED BY <1>2, <1>4, <3>1
  <2>2. \A l \in 1 .. i - 1 : l \in 1 .. j - 1
    BY <1>3, <1>5
  <2>3. \A l \in 1 .. i - 1 : l \in DOMAIN s /\ s[l] = u[l]
    BY <1>1, <1>2, <2>2
  <2>4. QED BY <1>1, <2>1, <2>3 DEF Before
<1>6. CASE j < i
  <2>1. j \in DOMAIN s /\ s[j] = t[j]
    <3>1. j \in 1 .. i - 1
      BY <1>3, <1>6
    <3>2. QED BY <1>1, <3>1
  <2>2. j \in DOMAIN t
    <3>1. j \in 1 .. i
      BY <1>3, <1>6
    <3>2. QED BY <1>4, <3>1
  <2>3. \A l \in 1 .. j - 1 : l \in 1 .. i - 1
    BY <1>3, <1>6
  <2>4. \A l \in 1 .. j - 1 : l \in DOMAIN s /\ s[l] = u[l]
    BY <1>1, <1>2, <2>3
  <2>5. QED BY <1>2, <2>1, <2>2, <2>4 DEF Before
<1>7. CASE i = j
  <2>1. \A l \in 1 .. j - 1 : l \in DOMAIN s /\ s[l] = u[l]
    BY <1>1, <1>2, <1>7
  <2>2. j \in DOMAIN s => s[j] < u[j]
    <3> SUFFICES ASSUME j \in DOMAIN s PROVE s[j] < u[j]
      OBVIOUS
    <3>1. s[j] \in Nat /\ t[j] \in Nat /\ u[j] \in Nat
      BY <1>7
    <3>2. QED BY <1>1, <1>2, <1>7, <3>1
  <2>3. QED BY <2>1, <2>2 DEF Before
<1>8. QED BY <1>3, <1>5, <1>6, <1>7

\* A row has a way of identities and a device or none.
LEMMA RowTypes ==
  ASSUME NEW row \in AllRows
  PROVE  row = [way |-> row.way, device |-> row.device] /\ row.way \in Seq(Ids) /\ row.device \in Ids \cup {NoId}
<1>1. PICK id \in Ids : row \in RowsOf(id)
  BY DEF AllRows
<1>2. Desc[id].chain \in Seq(Ids)
  BY DescriptionAssumption
<1>3. Way(id) \in Seq(Ids)
  BY <1>2 DEF Way, Reverse
<1>4. \A n \in 1 .. Len(Way(id)) : SubSeq(Way(id), 1, n) \in Seq(Ids)
  BY <1>3
<1>5. CASE row = [way |-> Way(id), device |-> id]
  BY <1>3, <1>5
<1>6. ASSUME NEW n \in 1 .. Len(Way(id)), row = [way |-> SubSeq(Way(id), 1, n), device |-> NoId]
      PROVE  /\ row = [way |-> row.way, device |-> row.device]
             /\ row.way \in Seq(Ids) /\ row.device \in Ids \cup {NoId}
  BY <1>4, <1>6
<1>7. QED BY <1>1, <1>5, <1>6 DEF RowsOf

\* The key of a row: the ranks of its way, and a letter of its own for a device.
LEMMA KeyOfRow ==
  ASSUME NEW row \in AllRows
  PROVE  /\ RowKey(row) \in Seq(Nat)
         /\ Len(RowKey(row)) = Len(row.way) + (IF row.device = NoId THEN 0 ELSE 1)
         /\ \A i \in 1 .. Len(row.way) : RowKey(row)[i] = Rank[row.way[i]]
         /\ row.device # NoId => RowKey(row)[Len(row.way) + 1] = Cardinality(Ids) + Rank[row.device]
<1> DEFINE ranks == [i \in DOMAIN row.way |-> Rank[row.way[i]]]
           last == IF row.device = NoId THEN << >> ELSE << Cardinality(Ids) + Rank[row.device] >>
<1>1. row.way \in Seq(Ids) /\ row.device \in Ids \cup {NoId}
  BY RowTypes
<1>2. Cardinality(Ids) \in Nat
  BY MonitoringAssumption, FS_CardinalityType
<1>3. \A id \in Ids : Rank[id] \in Nat
  BY <1>2, DescriptionAssumption
<1>4. ranks \in Seq(Nat) /\ Len(ranks) = Len(row.way)
  BY <1>1, <1>3
<1>5. last \in Seq(Nat) /\ Len(last) = (IF row.device = NoId THEN 0 ELSE 1)
  BY <1>1, <1>2, <1>3
<1>6. RowKey(row) = ranks \o last
  BY DEF RowKey
<1>7. row.device # NoId => last[1] = Cardinality(Ids) + Rank[row.device]
  OBVIOUS
<1>8. \A i \in 1 .. Len(row.way) : ranks[i] = Rank[row.way[i]]
  BY <1>1
<1> HIDE DEF ranks, last
<1>9. ranks \o last \in Seq(Nat) /\ Len(ranks \o last) = Len(ranks) + Len(last)
  BY <1>4, <1>5, ConcatProperties
<1>10. \A i \in 1 .. Len(ranks) : (ranks \o last)[i] = ranks[i]
  BY <1>4, <1>5, ConcatProperties
<1>11. Len(last) = 1 => (ranks \o last)[Len(ranks) + 1] = last[1]
  <2> SUFFICES ASSUME Len(last) = 1 PROVE (ranks \o last)[Len(ranks) + 1] = last[1]
    OBVIOUS
  <2> DEFINE n == Len(ranks)
  <2>1. n \in Nat
    BY <1>4
  <2>2. \A i \in 1 .. n + 1 : (ranks \o last)[i] = IF i <= n THEN ranks[i] ELSE last[i - n]
    <3>1. ranks \in Seq(Nat) /\ last \in Seq(Nat)
      BY <1>4, <1>5
    <3>2. \A i \in 1 .. n + Len(last) : (ranks \o last)[i] = IF i <= n THEN ranks[i] ELSE last[i - n]
      BY <3>1, ConcatProperties, Zenon
    <3>3. QED BY <3>2
  <2> HIDE DEF n
  <2>3. n + 1 \in 1 .. n + 1 /\ ~(n + 1 <= n) /\ (n + 1) - n = 1
    BY <2>1
  <2>4. (ranks \o last)[n + 1] = last[1]
    BY <2>2, <2>3
  <2>5. QED BY <2>4 DEF n
<1>12. QED BY <1>4, <1>5, <1>6, <1>7, <1>8, <1>9, <1>10, <1>11

\* A key tells its row.
LEMMA KeyTellsRow ==
  ASSUME NEW row \in AllRows, NEW other \in AllRows, RowKey(row) = RowKey(other)
  PROVE  row = other
<1> DEFINE C == Cardinality(Ids)
<1>1. C \in Nat
  BY MonitoringAssumption, FS_CardinalityType
<1>2. \A id \in Ids : Rank[id] \in 1 .. C
  BY DescriptionAssumption
<1>3. \A a, b \in Ids : Rank[a] = Rank[b] => a = b
  BY DescriptionAssumption DEF IsInjective
<1> HIDE DEF C
<1>4. ASSUME NEW r \in AllRows PROVE r.way \in Seq(Ids) /\ r.device \in Ids \cup {NoId}
  BY <1>4, RowTypes
<1>5. ASSUME NEW r \in AllRows
      PROVE  /\ Len(RowKey(r)) = Len(r.way) + (IF r.device = NoId THEN 0 ELSE 1)
             /\ \A i \in 1 .. Len(r.way) : RowKey(r)[i] \in 1 .. C
             /\ r.device # NoId => RowKey(r)[Len(r.way) + 1] = C + Rank[r.device]
  <2>1. \A i \in 1 .. Len(r.way) : r.way[i] \in Ids
    BY <1>4
  <2>2. QED BY <1>2, <2>1, KeyOfRow DEF C
<1>6. ASSUME NEW r \in AllRows, NEW s \in AllRows, RowKey(r) = RowKey(s), r.device # NoId
      PROVE  s.device # NoId
  <2> SUFFICES ASSUME s.device = NoId PROVE FALSE
    OBVIOUS
  <2>1. Len(r.way) \in Nat /\ Len(s.way) \in Nat /\ r.device \in Ids
    BY <1>4, <1>6
  <2>2. Len(s.way) = Len(r.way) + 1
    <3>1. Len(RowKey(r)) = Len(r.way) + 1 /\ Len(RowKey(s)) = Len(s.way) + 0
      BY <1>5, <1>6
    <3>2. QED BY <1>6, <2>1, <3>1
  <2>3. RowKey(s)[Len(s.way)] \in 1 .. C
    <3>1. Len(s.way) \in 1 .. Len(s.way)
      BY <2>1, <2>2
    <3>2. QED BY <1>5, <3>1
  <2>4. RowKey(s)[Len(s.way)] = C + Rank[r.device]
    BY <1>5, <1>6, <2>2
  <2>5. QED BY <1>1, <1>2, <2>1, <2>3, <2>4
<1>7. row.device = NoId <=> other.device = NoId
  BY <1>6
<1>8. Len(row.way) = Len(other.way)
  <2>1. Len(row.way) \in Nat /\ Len(other.way) \in Nat
    BY <1>4
  <2> DEFINE more == IF row.device = NoId THEN 0 ELSE 1
  <2>2. Len(row.way) + more = Len(other.way) + more
    BY <1>5, <1>7
  <2>3. more \in Nat
    OBVIOUS
  <2> HIDE DEF more
  <2>4. QED BY <2>1, <2>2, <2>3
<1>9. row.way = other.way
  <2>1. \A i \in 1 .. Len(row.way) : row.way[i] \in Ids /\ other.way[i] \in Ids
    BY <1>4, <1>8
  <2>2. \A i \in 1 .. Len(row.way) : Rank[row.way[i]] = Rank[other.way[i]]
    <3>1. \A i \in 1 .. Len(row.way) : RowKey(row)[i] = Rank[row.way[i]]
      BY KeyOfRow
    <3>2. \A i \in 1 .. Len(other.way) : RowKey(other)[i] = Rank[other.way[i]]
      BY KeyOfRow
    <3>3. QED BY <1>8, <3>1, <3>2
  <2>3. \A i \in 1 .. Len(row.way) : row.way[i] = other.way[i]
    BY <1>3, <2>1, <2>2
  <2>4. QED BY <1>4, <1>8, <2>3
<1>10. row.device = other.device
  <2> SUFFICES ASSUME row.device # NoId PROVE row.device = other.device
    BY <1>7
  <2>1. row.device \in Ids /\ other.device \in Ids
    BY <1>4, <1>7
  <2>2. C + Rank[row.device] = C + Rank[other.device]
    BY <1>5, <1>7, <1>8
  <2>3. Rank[row.device] = Rank[other.device]
    BY <1>1, <1>2, <2>1, <2>2
  <2>4. QED BY <1>3, <2>1, <2>3
<1>11. QED BY <1>9, <1>10, RowTypes

\* A function has no more values than arguments.
LEMMA FiniteImage ==
  ASSUME NEW D, IsFiniteSet(D), NEW f, DOMAIN f = D
  PROVE  IsFiniteSet({f[x] : x \in D})
<1> DEFINE I == {f[x] : x \in D}
           g == [x \in D |-> f[x]]
<1>1. g \in Surjection(D, I)
  BY DEF Surjection
<1>2. QED BY <1>1, FS_Surjection

\* There are finitely many rows.
LEMMA RowsAreFinite == IsFiniteSet(AllRows)
<1>1. ASSUME NEW id \in Ids PROVE IsFiniteSet(RowsOf(id))
  <2>1. Way(id) \in Seq(Ids)
    BY DescriptionAssumption DEF Way, Reverse
  <2>2. IsFiniteSet(1 .. Len(Way(id)))
    BY <2>1, FS_Interval
  <2> DEFINE f == [n \in 1 .. Len(Way(id)) |-> [way |-> SubSeq(Way(id), 1, n), device |-> NoId]]
  <2>3. IsFiniteSet({f[n] : n \in 1 .. Len(Way(id))})
    <3>1. DOMAIN f = 1 .. Len(Way(id))
      OBVIOUS
    <3> HIDE DEF f
    <3>2. QED BY <2>2, <3>1, FiniteImage
  <2>4. {f[n] : n \in 1 .. Len(Way(id))}
          = {[way |-> SubSeq(Way(id), 1, n), device |-> NoId] : n \in 1 .. Len(Way(id))}
    OBVIOUS
  <2>5. QED BY <2>3, <2>4, FS_Singleton, FS_Union DEF RowsOf
<1>2. IsFiniteSet({RowsOf(id) : id \in Ids})
  <2> DEFINE f == [id \in Ids |-> RowsOf(id)]
  <2>1. DOMAIN f = Ids
    OBVIOUS
  <2>2. {f[id] : id \in Ids} = {RowsOf(id) : id \in Ids}
    OBVIOUS
  <2> HIDE DEF f
  <2>3. QED BY <2>1, <2>2, MonitoringAssumption, FiniteImage
<1>3. QED BY <1>1, <1>2, FS_UNION DEF AllRows

\* Some row of a set comes before all others, by induction on their number.
LEMMA FirstRow ==
  ASSUME NEW S \in SUBSET AllRows, S # {}
  PROVE  \E row \in S : \A other \in S \ {row} : <<row, other>> \in RowOrder
<1> DEFINE Least(T) == \E row \in T : \A other \in T \ {row} : <<row, other>> \in RowOrder
           Good == {n \in Nat : \A T \in SUBSET AllRows : Cardinality(T) = n /\ T # {} => Least(T)}
<1>1. \A T \in SUBSET AllRows : IsFiniteSet(T)
  BY RowsAreFinite, FS_Subset
<1>2. \A r, s \in AllRows : r # s => <<r, s>> \in RowOrder \/ <<s, r>> \in RowOrder
  <2> SUFFICES ASSUME NEW r \in AllRows, NEW s \in AllRows, r # s
               PROVE  <<r, s>> \in RowOrder \/ <<s, r>> \in RowOrder
    OBVIOUS
  <2>1. RowKey(r) \in Seq(Nat) /\ RowKey(s) \in Seq(Nat) /\ RowKey(r) # RowKey(s)
    BY KeyOfRow, KeyTellsRow
  <2>2. QED BY <2>1, BeforeIsTotal DEF RowOrder, Precedes
<1>3. \A r, s, t \in AllRows :
        <<r, s>> \in RowOrder /\ <<s, t>> \in RowOrder => <<r, t>> \in RowOrder
  <2> SUFFICES ASSUME NEW r \in AllRows, NEW s \in AllRows, NEW t \in AllRows,
                      <<r, s>> \in RowOrder, <<s, t>> \in RowOrder
               PROVE  <<r, t>> \in RowOrder
    OBVIOUS
  <2>1. RowKey(r) \in Seq(Nat) /\ RowKey(s) \in Seq(Nat) /\ RowKey(t) \in Seq(Nat)
    BY KeyOfRow
  <2>2. Before(RowKey(r), RowKey(s)) /\ Before(RowKey(s), RowKey(t))
    BY DEF RowOrder, Precedes
  <2>3. Before(RowKey(r), RowKey(t))
    BY <2>1, <2>2, BeforeIsTransitive
  <2>4. QED BY <2>3 DEF RowOrder, Precedes
<1>4. 0 \in Good
  BY <1>1, FS_EmptySet
<1>5. ASSUME NEW n \in Nat, n \in Good PROVE n + 1 \in Good
  <2> SUFFICES ASSUME NEW T \in SUBSET AllRows, Cardinality(T) = n + 1, T # {} PROVE Least(T)
    OBVIOUS
  <2>1. PICK x \in T : TRUE
    OBVIOUS
  <2>2. Cardinality(T \ {x}) = n /\ T \ {x} \in SUBSET AllRows
    <3>1. IsFiniteSet(T)
      BY <1>1
    <3>2. Cardinality(T \ {x}) = Cardinality(T) - 1
      BY <2>1, <3>1, FS_RemoveElement
    <3>3. QED BY <3>2
  <2>3. CASE T \ {x} = {}
    BY <2>1, <2>3
  <2>4. CASE T \ {x} # {}
    <3>1. PICK m \in T \ {x} : \A other \in (T \ {x}) \ {m} : <<m, other>> \in RowOrder
      BY <1>5, <2>2, <2>4
    <3>2. CASE <<m, x>> \in RowOrder
      BY <3>1, <3>2
    <3>3. CASE <<x, m>> \in RowOrder
      <4>1. \A other \in T \ {x} : <<x, other>> \in RowOrder
        BY <1>3, <3>1, <3>3
      <4>2. QED BY <2>1, <4>1
    <3>4. QED BY <1>2, <3>1, <3>2, <3>3
  <2>5. QED BY <2>3, <2>4
<1>6. Nat \subseteq Good
  <2> HIDE DEF Good
  <2>1. QED BY <1>4, <1>5, Naturals
<1>7. Cardinality(S) \in Nat
  BY <1>1, FS_CardinalityType
<1>8. Cardinality(S) \in Good
  BY <1>6, <1>7
<1>9. QED BY <1>8

\* IndexOfDevice finds a row that is taken for the device, if there is one.
LEMMA RowFound ==
  ASSUME NEW list, NEW device, RowOfDevice(list, device) # NoRow
  PROVE  /\ RowOfDevice(list, device) \in Rows(list)
         /\ SameDeviceForSelection(RowDevice(list, RowOfDevice(list, device)), device)
<1> DEFINE found == {row \in Rows(list) : SameDeviceForSelection(RowDevice(list, row), device)}
<1>1. found # {} /\ RowOfDevice(list, device) = CHOOSE row \in found : \A other \in found \ {row} : <<row, other>> \in RowOrder
  BY DEF RowOfDevice
<1>2. found \in SUBSET AllRows
  BY DEF Rows
<1> HIDE DEF found
<1>3. \E row \in found : \A other \in found \ {row} : <<row, other>> \in RowOrder
  BY <1>1, <1>2, FirstRow
<1>4. RowOfDevice(list, device) \in found
  BY <1>1, <1>3
<1>5. QED BY <1>4 DEF found

\* What a device in the list or in a parent row may say of itself.
Shaped(d) ==
  /\ d.id \in Ids
  /\ d.group \in {NoGroup, Group[d.id]} /\ d.serial \in {NoGroup, Group[d.id]}
  /\ \A r \in ToSet(d.related) : r \in Ids /\ Group[r] = Group[d.id] /\ Group[r] # NoGroup

\* A device that can be selected: one that was listed, or the parent of one.
Watchable(d) == d \in Devices \cup {ParentDeviceSnapshot(id) : id \in Ids} /\ Shaped(d)

\* A device list whose entries can be selected.
ListOK(list) == DOMAIN list \subseteq Ids /\ \A id \in DOMAIN list : Watchable(list[id])

\* No device is not a device.
LEMMA NobodyIsNot ==
  ASSUME NEW d, Watchable(d)
  PROVE  d # NoDevice
<1>1. NoDevice.id = NoId /\ NoId \notin Ids
  BY DescriptionAssumption DEF NoDevice, Device
<1>2. QED BY <1>1 DEF Watchable, Shaped

\* A parent row can be selected.
LEMMA ParentShaped ==
  ASSUME NEW id \in Ids
  PROVE  Watchable(ParentDeviceSnapshot(id))
BY DEF Watchable, Shaped, ParentDeviceSnapshot, Device, ToSet

\* What SetupAPI lists can be selected.
LEMMA SnapshotShaped ==
  ASSUME NEW id \in Ids, NEW present \in SUBSET Ids, NEW com \in ComNames \cup {NoCom}
  PROVE  Watchable(Snapshot(id, present, com))
<1> DEFINE d == Snapshot(id, present, com)
           R == Relatives(id, present)
<1>1. d \in Devices
  BY SnapshotIsDevice
<1>2. IsFiniteSet(R) /\ R \in SUBSET Ids
  <2>1. R \in SUBSET Ids
    BY DEF Relatives
  <2>2. QED BY <2>1, MonitoringAssumption, FS_Subset
<1>3. SetToSeq(R) \in Seq(R)
  BY <1>2, SeqOfSet
<1>4. d.id = id /\ d.group = Group[id] /\ d.serial = Group[id] /\ d.related = SetToSeq(R)
  BY DEF Snapshot, Device
<1>5. \A r \in R : r \in Ids /\ Group[r] = Group[id] /\ Group[r] # NoGroup
  BY DEF Relatives
<1> HIDE DEF R, d
<1>6. \A r \in ToSet(d.related) : r \in R
  BY <1>3, <1>4 DEF ToSet
<1>7. Shaped(d)
  BY <1>4, <1>5, <1>6 DEF Shaped
<1>8. QED BY <1>1, <1>7 DEF Watchable, d

\* The list of a state the check boxes can be in.
LEMMA ListedOK ==
  ASSUME IInv
  PROVE  ListOK(listed)
<1>1. ASSUME NEW id \in DOMAIN listed PROVE id \in Ids /\ Watchable(listed[id])
  <2>1. id \in Ids
    BY DEF IInv, TypeOK
  <2>2. PICK present \in SUBSET Ids, com \in ComNames \cup {NoCom} : listed[id] = Snapshot(id, present, com)
    BY DEF IInv, Enumerated
  <2>3. QED BY <2>1, <2>2, SnapshotShaped
<1>2. QED BY <1>1 DEF ListOK

\* A row of a list shows a device of the list or a parent.
LEMMA RowShows ==
  ASSUME NEW list, ListOK(list), NEW row \in Rows(list)
  PROVE  Watchable(RowDevice(list, row))
<1>1. PICK id \in DOMAIN list : id \in Ids /\ row \in AllRows /\ row \in RowsOf(id)
  BY DEF Rows, RowOwners
<1>2. row.way \in Seq(Ids)
  BY <1>1, RowTypes
<1>3. NoId \notin Ids
  BY DescriptionAssumption
<1>4. CASE row.device = NoId
  <2>1. PICK n \in 1 .. Len(Way(id)) : row = [way |-> SubSeq(Way(id), 1, n), device |-> NoId]
    BY <1>1, <1>3, <1>4 DEF RowsOf
  <2>2. Way(id) \in Seq(Ids)
    BY <1>1, DescriptionAssumption DEF Way, Reverse
  <2>3. Len(SubSeq(Way(id), 1, n)) = n /\ n \in Nat \ {0}
    BY <2>2
  <2>4. Last(row.way) \in Ids
    BY <1>2, <2>1, <2>3 DEF Last
  <2>5. QED BY <1>4, <2>4, ParentShaped DEF RowDevice
<1>5. CASE row.device # NoId
  <2>1. row.device = id
    BY <1>1, <1>5 DEF RowsOf
  <2>2. QED BY <1>1, <1>5, <2>1 DEF RowDevice, ListOK
<1>6. QED BY <1>4, <1>5

\* What is taken for the selected device is its adapter.
LEMMA SelectionIsAdapter ==
  ASSUME NEW a, NEW b, Watchable(a), Watchable(b), SameDeviceForSelection(a, b)
  PROVE  AdapterOf[a.id] = AdapterOf[b.id] \/ KnownByCom(b, a)
<1>1. Shaped(a) /\ Shaped(b)
  BY DEF Watchable
<1>2. CASE a.id = b.id
  BY <1>2
<1>3. CASE a.group # NoGroup /\ a.group = b.group
  BY <1>1, <1>3 DEF Shaped, AdapterOf
<1>4. CASE b.id \in ToSet(a.related) \/ a.id \in ToSet(b.related)
  BY <1>1, <1>4 DEF Shaped, AdapterOf
<1>5. CASE a.serial # NoGroup /\ a.serial = b.serial
  BY <1>1, <1>5 DEF Shaped, AdapterOf
<1>6. QED BY <1>2, <1>3, <1>4, <1>5 DEF SameDeviceForSelection, SameDevice, KnownByCom

-----------------------------------------------------------------------------
(* The tables.                                                              *)

\* A list of events.
EventList(items) == \E S : items \in Seq(S) /\ \A e \in S : e.type \in EventTypes

\* A table holds events, within its limit, and a filter of its combo boxes.
TableOK(table, limit) ==
  /\ table = [items |-> table.items, filter |-> table.filter]
  /\ EventList(table.items) /\ Len(table.items) <= limit /\ table.filter \in Filters

\* What is shown is a list of events of the table.
LEMMA VisibleList ==
  ASSUME NEW table, EventList(table.items)
  PROVE  \E S : Visible(table) \in Seq(S)
<1>1. PICK S : table.items \in Seq(S)
  BY DEF EventList
<1>2. Visible(table) \in Seq(S)
  BY <1>1, PickedItems DEF Visible
<1>3. QED BY <1>2

\* Adding an event keeps a table's limit and its filter.
LEMMA AddedTable ==
  ASSUME NEW table, NEW e, NEW limit \in Nat \ {0}, TableOK(table, limit), e.type \in EventTypes
  PROVE  TableOK(Added(table, e, limit), limit) /\ Added(table, e, limit).filter = table.filter
<1> DEFINE kept == IF Full(table, limit) THEN Tail(table.items) ELSE table.items
           u == Added(table, e, limit)
<1>1. PICK S : table.items \in Seq(S) /\ \A x \in S : x.type \in EventTypes
  BY DEF TableOK, EventList
<1>2. u = [items |-> kept \o << e >>, filter |-> table.filter]
  <2> DEFINE longer == kept \o << e >>
  <2>1. u = [table EXCEPT !.items = longer]
    BY DEF Added
  <2>2. table = [items |-> table.items, filter |-> table.filter]
    BY DEF TableOK
  <2> HIDE DEF longer, u
  <2>3. u = [items |-> longer, filter |-> table.filter]
    BY <2>1, <2>2
  <2>4. QED BY <2>3 DEF longer
<1>3. Len(table.items) \in Nat /\ Len(table.items) <= limit
  BY <1>1 DEF TableOK
<1>4. kept \in Seq(S) /\ Len(kept) < limit
  <2>1. CASE Full(table, limit)
    <3>1. table.items # << >> /\ Len(table.items) = limit
      BY <2>1 DEF Full
    <3>2. Tail(table.items) \in Seq(S) /\ Len(Tail(table.items)) = Len(table.items) - 1
      BY <1>1, <3>1
    <3>3. QED BY <2>1, <3>1, <3>2
  <2>2. CASE ~Full(table, limit)
    BY <1>1, <1>3, <2>2 DEF Full
  <2>3. QED BY <2>1, <2>2
<1> HIDE DEF kept
<1> DEFINE T == S \cup {e}
<1>5. kept \in Seq(T) /\ << e >> \in Seq(T) /\ Len(<< e >>) = 1
  BY <1>4
<1>6. kept \o << e >> \in Seq(T) /\ Len(kept \o << e >>) = Len(kept) + 1
  BY <1>5, ConcatProperties
<1>7. \A x \in T : x.type \in EventTypes
  BY <1>1
<1>8. EventList(kept \o << e >>)
  BY <1>6, <1>7 DEF EventList
<1>9. Len(kept \o << e >>) <= limit
  BY <1>4, <1>6
<1>10. table.filter \in Filters
  BY DEF TableOK
<1>11. QED BY <1>2, <1>8, <1>9, <1>10 DEF TableOK

\* While nothing is dropped, an event that is added is shown below the others or
\* not at all.
LEMMA AddedIsLast ==
  ASSUME NEW table, NEW e, NEW limit, TableOK(table, limit), ~Full(table, limit)
  PROVE  Visible(Added(table, e, limit)) =
           IF EventMatches(e, table.filter) THEN Append(Visible(table), e) ELSE Visible(table)
<1> DEFINE s == table.items
           u == Added(table, e, limit)
           c == {i \in DOMAIN s : EventMatches(s[i], table.filter)}
           d == {i \in DOMAIN u.items : EventMatches(u.items[i], u.filter)}
<1>1. PICK S : s \in Seq(S)
  BY DEF TableOK, EventList
<1>2. s \in Seq(S \cup {e}) /\ e \in S \cup {e} /\ Len(s) \in Nat /\ DOMAIN s = 1 .. Len(s)
  BY <1>1
<1>3. u.items = Append(s, e) /\ u.filter = table.filter
  <2>1. u.items = s \o << e >> /\ u.filter = table.filter
    BY DEF TableOK, Added
  <2>2. s \o << e >> = Append(s, e)
    BY <1>2
  <2>3. QED BY <2>1, <2>2
<1>4. /\ DOMAIN Append(s, e) = 1 .. Len(s) + 1 /\ Append(s, e)[Len(s) + 1] = e
      /\ \A i \in 1 .. Len(s) : Append(s, e)[i] = s[i]
  BY <1>2
<1>5. \A i \in 1 .. Len(s) : i \in c <=> i \in d
  BY <1>2, <1>3, <1>4
<1>6. Len(s) + 1 \in d <=> EventMatches(e, table.filter)
  BY <1>2, <1>3, <1>4
<1>7. Visible(table) = Picked(s, c) /\ Visible(u) = Picked(Append(s, e), d)
  BY <1>3 DEF Visible
<1> HIDE DEF s, u, c, d
<1>8. Picked(Append(s, e), d) = IF Len(s) + 1 \in d THEN Append(Picked(s, c), e) ELSE Picked(s, c)
  BY <1>2, <1>5, PickedAppend
<1>9. QED BY <1>6, <1>7, <1>8 DEF u

\* A row that is shown stays what it is then.
LEMMA AddedKeepsRows ==
  ASSUME NEW table, NEW e, NEW limit, TableOK(table, limit), ~Full(table, limit)
  PROVE  \A n \in DOMAIN Visible(table) :
           /\ n \in DOMAIN Visible(Added(table, e, limit))
           /\ Visible(Added(table, e, limit))[n] = Visible(table)[n]
<1> DEFINE v == Visible(table)
<1>1. PICK S : v \in Seq(S)
  BY VisibleList DEF TableOK
<1>2. v \in Seq(S \cup {e})
  BY <1>1
<1>3. Visible(Added(table, e, limit)) = IF EventMatches(e, table.filter) THEN Append(v, e) ELSE v
  BY AddedIsLast
<1> HIDE DEF v
<1>4. \A n \in DOMAIN v : n \in DOMAIN Append(v, e) /\ Append(v, e)[n] = v[n]
  BY <1>2
<1>5. QED BY <1>3, <1>4 DEF v

-----------------------------------------------------------------------------
(* What a handler keeps.                                                    *)

\* The values of the window's state.
Typed(w, list) ==
  /\ w.target \in {"all", "ftdi"} /\ w.focus \in BOOLEAN /\ w.detailed \in BOOLEAN
  /\ w.watched = NoDevice \/ Watchable(w.watched)
  /\ w.focus => w.watched # NoDevice
  /\ w.deviceSel \in Rows(list) \cup {NoRow}
  /\ w.eventSel \in DOMAIN Visible(w.events) \cup {0}
  /\ w.changeSel \in DOMAIN Visible(w.changes) \cup {0}
  /\ TableOK(w.events, EventLimit) /\ TableOK(w.changes, ChangeLimit)

\* The details are of what is selected.
Current(w, list) == w.details.subject = Subject(w, list)

\* The details of the watched device show every event of its history.
Fresh(w) ==
  w.focus => ToSet(DeviceHistory(w.events.items, w.watched)) \subseteq ToSet(w.details.history)

\* In everything but the details.
Alike(u, w) ==
  /\ DOMAIN u = Fields /\ DOMAIN w = Fields
  /\ u.target = w.target /\ u.deviceSel = w.deviceSel /\ u.watched = w.watched /\ u.focus = w.focus
  /\ u.events = w.events /\ u.changes = w.changes
  /\ u.eventSel = w.eventSel /\ u.changeSel = w.changeSel /\ u.detailed = w.detailed

\* The details are no part of what is selected.
LEMMA AlikeKeeps ==
  ASSUME NEW u, NEW w, NEW list, Alike(u, w)
  PROVE  Subject(u, list) = Subject(w, list) /\ (Typed(w, list) => Typed(u, list))
<1>1. Subject(u, list) = Subject(w, list)
  BY DEF Alike, Subject
<1>2. Typed(w, list) => Typed(u, list)
  BY DEF Alike, Typed
<1>3. QED BY <1>1, <1>2

\* After UpdateDetails the details are of what is selected, and complete.
LEMMA Updated ==
  ASSUME NEW w, NEW list, Handled(w, list)
  PROVE  LET u == UpdateDetails(w, list)
         IN  Alike(u, w) /\ Current(u, list) /\ Fresh(u)
<1> DEFINE u == UpdateDetails(w, list)
<1>1. Alike(u, w) /\ u.details = DetailsOf(w, list)
  BY DEF Handled, Alike, UpdateDetails, Fields
<1>2. Current(u, list)
  BY <1>1, AlikeKeeps DEF Current, DetailsOf
<1>3. w.focus => Subject(w, list) = DeviceSubject(w.watched)
  BY DEF Handled, OneSelectionIn, Subject
<1>4. DeviceSubject(w.watched) # NoSubject /\ DeviceSubject(w.watched).device = w.watched
  <2>1. "device" \in DOMAIN DeviceSubject(w.watched) /\ "device" \notin DOMAIN NoSubject
    BY DEF DeviceSubject, NoSubject
  <2>2. QED BY <2>1 DEF DeviceSubject
<1>5. w.focus => u.details.history = DeviceHistory(w.events.items, w.watched)
  BY <1>1, <1>3, <1>4 DEF DetailsOf
<1>6. Fresh(u)
  BY <1>1, <1>5 DEF Fresh, Alike
<1>7. QED BY <1>1, <1>2, <1>6

\* What holds between the parts of a handler.
Sound(w, list) == Handled(w, list) /\ Typed(w, list) /\ Current(w, list)

\* A handler that ends with the details shows what it has selected.
LEMMA UpdatedSound ==
  ASSUME NEW w, NEW list, Handled(w, list), Typed(w, list)
  PROVE  Sound(UpdateDetails(w, list), list) /\ Fresh(UpdateDetails(w, list))
BY Updated, AlikeKeeps, DetailsKeep DEF Sound

\* The limits of the tables and of the history.
LEMMA LimitTypes == EventLimit \in Nat \ {0} /\ ChangeLimit \in Nat \ {0} /\ HistoryLimit \in Nat \ {0}
BY WindowAssumption

\* The handlers of the selections.
LEMMA DeviceSound ==
  ASSUME NEW w, NEW list, Sound(w, list), ListOK(list), NEW row \in Rows(list) \cup {NoRow}
  PROVE  LET u == OnDeviceSelection([w EXCEPT !.deviceSel = row], list)
         IN  /\ Sound(u, list) /\ Fresh(u)
             /\ u.events = w.events /\ u.changes = w.changes
             /\ row = NoRow => u.watched = w.watched
<1> DEFINE v == [w EXCEPT !.deviceSel = row]
           d == RowDevice(list, row)
           t == [v EXCEPT !.watched = d, !.focus = TRUE, !.eventSel = 0, !.changeSel = 0]
<1>1. DOMAIN w = Fields /\ v.deviceSel = row
  BY DEF Sound, Handled, Fields
<1>2. CASE row = NoRow
  <2>1. /\ Handled(v, list) /\ Typed(v, list)
        /\ v.events = w.events /\ v.changes = w.changes /\ v.watched = w.watched
    BY <1>1, <1>2 DEF Sound, Handled, OneSelectionIn, Typed, Fields
  <2>2. OnDeviceSelection(v, list) = UpdateDetails(v, list)
    BY <1>1, <1>2 DEF OnDeviceSelection
  <2> HIDE DEF v
  <2>3. LET u == UpdateDetails(v, list) IN Sound(u, list) /\ Fresh(u) /\ Alike(u, v)
    BY <2>1, Updated, UpdatedSound
  <2>4. LET u == UpdateDetails(v, list) IN
          u.events = w.events /\ u.changes = w.changes /\ u.watched = w.watched
    BY <2>1, <2>3 DEF Alike
  <2>5. QED BY <2>2, <2>3, <2>4 DEF v
<1>3. CASE row # NoRow
  <2>1. Watchable(d) /\ d # NoDevice
    BY <1>3, RowShows, NobodyIsNot
  <2>2. d = RowDevice(list, v.deviceSel)
    BY <1>1
  <2> HIDE DEF d
  <2>3. /\ DOMAIN t = Fields /\ t.target = w.target /\ t.deviceSel = row /\ t.watched = d /\ t.focus = TRUE
        /\ t.events = w.events /\ t.changes = w.changes /\ t.eventSel = 0 /\ t.changeSel = 0
        /\ t.detailed = w.detailed
    BY <1>1 DEF Fields
  <2>4. OnDeviceSelection(v, list) = UpdateDetails(t, list)
    BY <1>1, <1>3, <2>2 DEF OnDeviceSelection
  <2> HIDE DEF t, v
  <2>5. Handled(t, list)
    BY <2>3 DEF Handled, OneSelectionIn, d
  <2>6. Typed(t, list)
    BY <2>1, <2>3 DEF Sound, Typed
  <2>7. QED BY <1>3, <2>3, <2>4, <2>5, <2>6, Updated, UpdatedSound DEF Alike, v
<1>4. QED BY <1>2, <1>3

\* Selecting an event watches nothing else, and ends the device's selection.
LEMMA EventSound ==
  ASSUME NEW w, NEW list, Handled(w, list), Typed(w, list), NEW n \in DOMAIN Visible(w.events) \cup {0}
  PROVE  LET u == OnEventSelection([w EXCEPT !.eventSel = n], list)
         IN  /\ Sound(u, list) /\ Fresh(u)
             /\ u.target = w.target /\ u.events = w.events /\ u.changes = w.changes
             /\ u.watched = w.watched /\ u.detailed = w.detailed
             /\ u.eventSel = n /\ u.changeSel \in {0, w.changeSel}
             /\ u.focus = (n = 0 /\ w.focus)
<1> DEFINE v == [w EXCEPT !.eventSel = n]
           t == [v EXCEPT !.focus = FALSE, !.deviceSel = NoRow, !.changeSel = 0]
<1>1. DOMAIN w = Fields /\ v.eventSel = n
  BY DEF Handled, Fields
<1>2. CASE n = 0
  <2>1. /\ DOMAIN v = Fields /\ v.target = w.target /\ v.deviceSel = w.deviceSel /\ v.watched = w.watched
        /\ v.focus = w.focus /\ v.events = w.events /\ v.changes = w.changes /\ v.eventSel = 0
        /\ v.changeSel = w.changeSel /\ v.detailed = w.detailed
    BY <1>1, <1>2 DEF Fields
  <2>2. OnEventSelection(v, list) = UpdateDetails(v, list)
    BY <1>2, <2>1 DEF OnEventSelection
  <2> HIDE DEF v
  <2>3. Handled(v, list) /\ Typed(v, list)
    BY <2>1 DEF Handled, OneSelectionIn, Typed
  <2>4. Alike(UpdateDetails(v, list), v)
    BY <2>3, Updated
  <2>5. w.focus \in BOOLEAN
    BY DEF Typed
  <2>6. QED BY <1>2, <2>1, <2>2, <2>3, <2>4, <2>5, UpdatedSound DEF Alike, v
<1>3. CASE n # 0
  <2>1. /\ DOMAIN t = Fields /\ t.target = w.target /\ t.deviceSel = NoRow /\ t.watched = w.watched
        /\ t.focus = FALSE /\ t.events = w.events /\ t.changes = w.changes /\ t.eventSel = n
        /\ t.changeSel = 0 /\ t.detailed = w.detailed
    BY <1>1 DEF Fields
  <2>2. OnEventSelection(v, list) = UpdateDetails(t, list)
    BY <1>1, <1>3 DEF OnEventSelection
  <2> HIDE DEF t, v
  <2>3. Handled(t, list) /\ Typed(t, list)
    BY <2>1 DEF Handled, OneSelectionIn, Typed
  <2>4. Alike(UpdateDetails(t, list), t)
    BY <2>3, Updated
  <2>5. QED BY <1>3, <2>1, <2>2, <2>3, <2>4, UpdatedSound DEF Alike, v
<1>4. QED BY <1>2, <1>3

\* Selecting a change watches nothing else, and ends the device's selection.
LEMMA ChangeSound ==
  ASSUME NEW w, NEW list, Handled(w, list), Typed(w, list), NEW n \in DOMAIN Visible(w.changes) \cup {0}
  PROVE  LET u == OnChangeSelection([w EXCEPT !.changeSel = n], list)
         IN  /\ Sound(u, list) /\ Fresh(u)
             /\ u.target = w.target /\ u.events = w.events /\ u.changes = w.changes
             /\ u.watched = w.watched /\ u.detailed = w.detailed
             /\ u.changeSel = n /\ (n = 0 => u.eventSel = w.eventSel)
             /\ u.focus = (n = 0 /\ w.focus)
<1> DEFINE v == [w EXCEPT !.changeSel = n]
           t == [v EXCEPT !.focus = FALSE, !.deviceSel = NoRow, !.eventSel = 0]
<1>1. DOMAIN w = Fields /\ v.changeSel = n
  BY DEF Handled, Fields
<1>2. CASE n = 0
  <2>1. /\ DOMAIN v = Fields /\ v.target = w.target /\ v.deviceSel = w.deviceSel /\ v.watched = w.watched
        /\ v.focus = w.focus /\ v.events = w.events /\ v.changes = w.changes /\ v.eventSel = w.eventSel
        /\ v.changeSel = 0 /\ v.detailed = w.detailed
    BY <1>1, <1>2 DEF Fields
  <2>2. OnChangeSelection(v, list) = UpdateDetails(v, list)
    BY <1>2, <2>1 DEF OnChangeSelection
  <2> HIDE DEF v
  <2>3. Handled(v, list) /\ Typed(v, list)
    BY <2>1 DEF Handled, OneSelectionIn, Typed
  <2>4. Alike(UpdateDetails(v, list), v)
    BY <2>3, Updated
  <2>5. w.focus \in BOOLEAN
    BY DEF Typed
  <2>6. QED BY <1>2, <2>1, <2>2, <2>3, <2>4, <2>5, UpdatedSound DEF Alike, v
<1>3. CASE n # 0
  <2>1. /\ DOMAIN t = Fields /\ t.target = w.target /\ t.deviceSel = NoRow /\ t.watched = w.watched
        /\ t.focus = FALSE /\ t.events = w.events /\ t.changes = w.changes /\ t.eventSel = 0
        /\ t.changeSel = n /\ t.detailed = w.detailed
    BY <1>1 DEF Fields
  <2>2. OnChangeSelection(v, list) = UpdateDetails(t, list)
    BY <1>1, <1>3 DEF OnChangeSelection
  <2> HIDE DEF t, v
  <2>3. Handled(t, list) /\ Typed(t, list)
    BY <2>1 DEF Handled, OneSelectionIn, Typed
  <2>4. Alike(UpdateDetails(t, list), t)
    BY <2>3, Updated
  <2>5. QED BY <1>3, <2>1, <2>2, <2>3, <2>4, UpdatedSound DEF Alike, v
<1>4. QED BY <1>2, <1>3

-----------------------------------------------------------------------------
(* addEvent, part by part.                                                  *)

\* AddToEvents adds the event, and a row that stays selected denotes the same event.
LEMMA AddToEventsDoes ==
  ASSUME NEW w, NEW e, NEW list, Sound(w, list), e.type \in EventTypes
  PROVE  LET u == AddToEvents(w, e, list)
         IN  /\ Sound(u, list)
             /\ u.target = w.target /\ u.changes = w.changes /\ u.watched = w.watched
             /\ u.focus = w.focus /\ u.detailed = w.detailed /\ u.changeSel = w.changeSel
             /\ u.events = Added(w.events, e, EventLimit)
             /\ u.eventSel # 0 =>
                  /\ u.eventSel = w.eventSel
                  /\ EventMatches(e, w.events.filter) \/ Visible(u.events) = Visible(w.events)
             /\ w.eventSel = 0 => u.details = w.details
<1> DEFINE table == Added(w.events, e, EventLimit)
           v == [w EXCEPT !.events = table]
           u == AddToEvents(w, e, list)
<1>1. Handled(w, list) /\ Typed(w, list) /\ Current(w, list) /\ DOMAIN w = Fields
  BY DEF Sound, Handled
<1>2. TableOK(w.events, EventLimit) /\ TableOK(table, EventLimit)
  BY <1>1, AddedTable, LimitTypes DEF Typed
<1> HIDE DEF table
<1>3. /\ DOMAIN v = Fields /\ v.target = w.target /\ v.deviceSel = w.deviceSel /\ v.watched = w.watched
      /\ v.focus = w.focus /\ v.events = table /\ v.changes = w.changes /\ v.eventSel = w.eventSel
      /\ v.changeSel = w.changeSel /\ v.detailed = w.detailed /\ v.details = w.details
  BY <1>1 DEF Fields
<1>4. u = IF Full(w.events, EventLimit) THEN ResetEvents(v, list) ELSE v
  BY DEF AddToEvents, table
<1> HIDE DEF v, u
<1>5. Handled(v, list)
  BY <1>1, <1>3 DEF Handled, OneSelectionIn
<1>6. CASE w.eventSel = 0
  <2>1. u = v
    BY <1>3, <1>4, <1>6 DEF ResetEvents
  <2>2. Typed(v, list)
    BY <1>1, <1>2, <1>3, <1>6 DEF Typed
  <2>3. Current(v, list)
    BY <1>1, <1>3, <1>6 DEF Current, Subject
  <2>4. QED BY <1>3, <1>5, <1>6, <2>1, <2>2, <2>3 DEF Sound, u, table
<1>7. CASE w.eventSel # 0 /\ Full(w.events, EventLimit)
  <2> DEFINE t == [v EXCEPT !.eventSel = 0]
  <2>1. /\ DOMAIN t = Fields /\ t.target = w.target /\ t.deviceSel = w.deviceSel /\ t.watched = w.watched
        /\ t.focus = w.focus /\ t.events = table /\ t.changes = w.changes /\ t.eventSel = 0
        /\ t.changeSel = w.changeSel /\ t.detailed = w.detailed
    BY <1>3 DEF Fields
  <2>2. u = UpdateDetails(t, list)
    BY <1>3, <1>4, <1>7, <2>1 DEF ResetEvents, OnEventSelection
  <2> HIDE DEF t
  <2>3. Handled(t, list) /\ Typed(t, list)
    BY <1>1, <1>2, <2>1 DEF Handled, OneSelectionIn, Typed
  <2>4. Sound(u, list) /\ Alike(u, t)
    BY <2>2, <2>3, UpdatedSound, Updated
  <2>5. QED BY <1>7, <2>1, <2>4 DEF Alike, u, table
<1>8. CASE w.eventSel # 0 /\ ~Full(w.events, EventLimit)
  <2>1. u = v
    BY <1>4, <1>8
  <2>2. w.eventSel \in DOMAIN Visible(w.events)
    BY <1>1, <1>8 DEF Typed
  <2>3. w.eventSel \in DOMAIN Visible(table) /\ Visible(table)[w.eventSel] = Visible(w.events)[w.eventSel]
    BY <1>2, <1>8, <2>2, AddedKeepsRows DEF table
  <2>4. Typed(v, list)
    BY <1>1, <1>2, <1>3, <2>3 DEF Typed
  <2>5. Current(v, list)
    BY <1>1, <1>3, <1>8, <2>3 DEF Current, Subject
  <2>6. EventMatches(e, w.events.filter) \/ Visible(table) = Visible(w.events)
    BY <1>2, <1>8, AddedIsLast DEF table
  <2>7. QED BY <1>3, <1>5, <1>8, <2>1, <2>4, <2>5, <2>6 DEF Sound, u, table
<1>9. QED BY <1>6, <1>7, <1>8

\* AddToChanges adds the event, and a row that stays selected denotes the same event.
LEMMA AddToChangesDoes ==
  ASSUME NEW w, NEW e, NEW list, Sound(w, list), e.type \in EventTypes
  PROVE  LET u == AddToChanges(w, e, list)
         IN  /\ Sound(u, list)
             /\ u.target = w.target /\ u.events = w.events /\ u.watched = w.watched
             /\ u.focus = w.focus /\ u.detailed = w.detailed /\ u.eventSel = w.eventSel
             /\ u.changeSel # 0 =>
                  /\ u.changeSel = w.changeSel
                  /\ Visible(u.changes)[u.changeSel] = Visible(w.changes)[w.changeSel]
             /\ w.changeSel = 0 => u.details = w.details
<1> DEFINE table == Added(w.changes, e, ChangeLimit)
           v == [w EXCEPT !.changes = table]
           u == AddToChanges(w, e, list)
<1>1. Handled(w, list) /\ Typed(w, list) /\ Current(w, list) /\ DOMAIN w = Fields
  BY DEF Sound, Handled
<1>2. TableOK(w.changes, ChangeLimit) /\ TableOK(table, ChangeLimit)
  BY <1>1, AddedTable, LimitTypes DEF Typed
<1> HIDE DEF table
<1>3. /\ DOMAIN v = Fields /\ v.target = w.target /\ v.deviceSel = w.deviceSel /\ v.watched = w.watched
      /\ v.focus = w.focus /\ v.events = w.events /\ v.changes = table /\ v.eventSel = w.eventSel
      /\ v.changeSel = w.changeSel /\ v.detailed = w.detailed /\ v.details = w.details
  BY <1>1 DEF Fields
<1>4. u = IF e.type \notin USBChanges THEN w
          ELSE IF Full(w.changes, ChangeLimit) THEN ResetChanges(v, list) ELSE v
  BY DEF AddToChanges, table
<1> HIDE DEF v, u
<1>5. Handled(v, list)
  BY <1>1, <1>3 DEF Handled, OneSelectionIn
<1>6. CASE e.type \notin USBChanges
  BY <1>4, <1>6 DEF u
<1>7. CASE e.type \in USBChanges /\ w.changeSel = 0
  <2>1. u = v
    BY <1>3, <1>4, <1>7 DEF ResetChanges
  <2>2. Typed(v, list)
    BY <1>1, <1>2, <1>3, <1>7 DEF Typed
  <2>3. Current(v, list)
    BY <1>1, <1>3, <1>7 DEF Current, Subject
  <2>4. QED BY <1>3, <1>5, <1>7, <2>1, <2>2, <2>3 DEF Sound, u
<1>8. CASE e.type \in USBChanges /\ w.changeSel # 0 /\ Full(w.changes, ChangeLimit)
  <2> DEFINE t == [v EXCEPT !.changeSel = 0]
  <2>1. /\ DOMAIN t = Fields /\ t.target = w.target /\ t.deviceSel = w.deviceSel /\ t.watched = w.watched
        /\ t.focus = w.focus /\ t.events = w.events /\ t.changes = table /\ t.eventSel = w.eventSel
        /\ t.changeSel = 0 /\ t.detailed = w.detailed
    BY <1>3 DEF Fields
  <2>2. u = UpdateDetails(t, list)
    BY <1>3, <1>4, <1>8, <2>1 DEF ResetChanges, OnChangeSelection
  <2> HIDE DEF t
  <2>3. Handled(t, list) /\ Typed(t, list)
    BY <1>1, <1>2, <2>1 DEF Handled, OneSelectionIn, Typed
  <2>4. Sound(u, list) /\ Alike(u, t)
    BY <2>2, <2>3, UpdatedSound, Updated
  <2>5. QED BY <1>8, <2>1, <2>4 DEF Alike, u
<1>9. CASE e.type \in USBChanges /\ w.changeSel # 0 /\ ~Full(w.changes, ChangeLimit)
  <2>1. u = v
    BY <1>4, <1>9
  <2>2. w.changeSel \in DOMAIN Visible(w.changes)
    BY <1>1, <1>9 DEF Typed
  <2>3. w.changeSel \in DOMAIN Visible(table) /\ Visible(table)[w.changeSel] = Visible(w.changes)[w.changeSel]
    BY <1>2, <1>9, <2>2, AddedKeepsRows DEF table
  <2>4. Typed(v, list)
    BY <1>1, <1>2, <1>3, <2>3 DEF Typed
  <2>5. Current(v, list)
    BY <1>1, <1>3, <1>9, <2>3 DEF Current, Subject
  <2>6. QED BY <1>3, <1>5, <1>9, <2>1, <2>3, <2>4, <2>5 DEF Sound, u
<1>10. QED BY <1>6, <1>7, <1>8, <1>9

-----------------------------------------------------------------------------
(* The history of a device: an event that does not concern it adds nothing, *)
(* and the oldest event that is dropped brings nothing back.                *)

\* Two events are near when none between them came late.
LEMMA NearMeans ==
  ASSUME NEW items, NEW i \in Nat, NEW j \in Nat
  PROVE  Near(items, i, j) <=> \A k \in Nat : (i < k /\ k <= j) \/ (j < k /\ k <= i) => ~items[k].late
<1>1. CASE i <= j
  <2>1. Min({i, j}) = i /\ Max({i, j}) = j
    BY <1>1 DEF Min, Max
  <2>2. \A k : k \in i + 1 .. j <=> k \in Nat /\ i < k /\ k <= j
    OBVIOUS
  <2>3. QED BY <1>1, <2>1, <2>2 DEF Near
<1>2. CASE j < i
  <2>1. Min({i, j}) = j /\ Max({i, j}) = i
    BY <1>2 DEF Min, Max
  <2>2. \A k : k \in j + 1 .. i <=> k \in Nat /\ j < k /\ k <= i
    OBVIOUS
  <2>3. QED BY <1>2, <2>1, <2>2 DEF Near
<1>3. QED BY <1>1, <1>2

\* What the history shows.
LEMMA HistoryShows ==
  ASSUME NEW S, NEW items \in Seq(S), NEW device
  PROVE  ToSet(DeviceHistory(items, device)) = {items[i] : i \in Newest(InHistory(items, device))}
<1>1. Newest(InHistory(items, device)) \subseteq DOMAIN items
  BY DEF Newest, InHistory, OfDevice
<1> DEFINE chosen == Newest(InHistory(items, device))
<1>2. ToSet(DeviceHistory(items, device)) = {items[i] : i \in chosen \cap DOMAIN items}
  BY PickedItems DEF DeviceHistory
<1>3. chosen \cap DOMAIN items = chosen
  BY <1>1
<1>4. QED BY <1>2, <1>3

\* An event of another device, and not of the whole system, adds nothing to a history.
LEMMA HistoryOfAppend ==
  ASSUME NEW S, NEW s \in Seq(S), NEW e, NEW device,
         ~SameDeviceForHistory(device, e.device), ~IsSystemPower(e)
  PROVE  ToSet(DeviceHistory(Append(s, e), device)) = ToSet(DeviceHistory(s, device))
<1> DEFINE t == Append(s, e)
           n == Len(s)
<1>1. s \in Seq(S \cup {e}) /\ e \in S \cup {e} /\ n \in Nat
  OBVIOUS
<1>2. /\ t \in Seq(S \cup {e}) /\ DOMAIN s = 1 .. n /\ DOMAIN t = 1 .. n + 1 /\ t[n + 1] = e
      /\ \A i \in 1 .. n : t[i] = s[i]
  BY <1>1
<1> HIDE DEF t, n
<1>3. OfDevice(t, device) = OfDevice(s, device)
  BY <1>1, <1>2 DEF OfDevice
<1>4. ASSUME NEW i \in 1 .. n, NEW j \in 1 .. n PROVE Near(t, i, j) <=> Near(s, i, j)
  <2>1. i \in Nat /\ j \in Nat
    OBVIOUS
  <2>2. \A k \in Nat : (i < k /\ k <= j) \/ (j < k /\ k <= i) => k \in 1 .. n
    BY <1>1
  <2>3. QED BY <1>2, <2>1, <2>2, NearMeans
<1>5. OfDevice(s, device) \subseteq 1 .. n
  BY <1>2 DEF OfDevice
<1>6. \A i \in DOMAIN t : IsSystemPower(t[i]) => i \in 1 .. n
  BY <1>1, <1>2
<1>7. InHistory(t, device) = InHistory(s, device)
  BY <1>1, <1>2, <1>3, <1>4, <1>5, <1>6 DEF InHistory
<1>8. \A i \in Newest(InHistory(s, device)) : t[i] = s[i]
  BY <1>2, <1>5 DEF Newest, InHistory
<1>9. ToSet(DeviceHistory(t, device)) = {t[i] : i \in Newest(InHistory(s, device))}
  BY <1>2, <1>7, HistoryShows
<1>10. ToSet(DeviceHistory(s, device)) = {s[i] : i \in Newest(InHistory(s, device))}
  BY HistoryShows
<1>11. QED BY <1>8, <1>9, <1>10 DEF t

\* The oldest event takes with it only what it brought into a history.
LEMMA HistoryOfTail ==
  ASSUME NEW S, NEW s \in Seq(S), s # << >>, NEW device
  PROVE  ToSet(DeviceHistory(Tail(s), device)) \subseteq ToSet(DeviceHistory(s, device))
<1> DEFINE t == Tail(s)
           n == Len(s)
           old == InHistory(s, device)
           new == InHistory(t, device)
<1>1. /\ n \in Nat /\ n # 0 /\ t \in Seq(S) /\ DOMAIN s = 1 .. n /\ DOMAIN t = 1 .. n - 1
      /\ \A i \in 1 .. n - 1 : t[i] = s[i + 1]
  OBVIOUS
<1> HIDE DEF t, n
<1>2. \A i \in 1 .. n - 1 : i \in OfDevice(t, device) <=> i + 1 \in OfDevice(s, device)
  BY <1>1 DEF OfDevice
<1>3. OfDevice(t, device) \subseteq 1 .. n - 1 /\ OfDevice(s, device) \subseteq 1 .. n
  BY <1>1 DEF OfDevice
<1>4. ASSUME NEW i \in 1 .. n - 1, NEW j \in 1 .. n - 1 PROVE Near(t, i, j) <=> Near(s, i + 1, j + 1)
  <2>1. i \in Nat /\ j \in Nat /\ i + 1 \in Nat /\ j + 1 \in Nat
    OBVIOUS
  <2>2. ASSUME Near(s, i + 1, j + 1) PROVE Near(t, i, j)
    <3> SUFFICES ASSUME NEW k \in Nat, (i < k /\ k <= j) \/ (j < k /\ k <= i) PROVE ~t[k].late
      BY <2>1, NearMeans
    <3>1. k \in 1 .. n - 1 /\ k + 1 \in Nat /\ ((i + 1 < k + 1 /\ k + 1 <= j + 1) \/ (j + 1 < k + 1 /\ k + 1 <= i + 1))
      BY <1>1
    <3>2. ~s[k + 1].late
      BY <2>1, <2>2, <3>1, NearMeans
    <3>3. QED BY <1>1, <3>1, <3>2
  <2>3. ASSUME Near(t, i, j) PROVE Near(s, i + 1, j + 1)
    <3> SUFFICES ASSUME NEW k \in Nat, (i + 1 < k /\ k <= j + 1) \/ (j + 1 < k /\ k <= i + 1) PROVE ~s[k].late
      BY <2>1, NearMeans
    <3>1. k - 1 \in 1 .. n - 1 /\ k - 1 \in Nat /\ ((i < k - 1 /\ k - 1 <= j) \/ (j < k - 1 /\ k - 1 <= i))
      BY <1>1
    <3>2. ~t[k - 1].late
      BY <2>1, <2>3, <3>1, NearMeans
    <3>3. t[k - 1] = s[(k - 1) + 1] /\ (k - 1) + 1 = k
      BY <1>1, <3>1
    <3>4. QED BY <3>2, <3>3
  <2>4. QED BY <2>2, <2>3
<1>5. new \subseteq 1 .. n - 1 /\ old \subseteq 1 .. n
  BY <1>1, <1>3 DEF InHistory
<1>6. ASSUME NEW i \in new PROVE i \in 1 .. n - 1 /\ i + 1 \in old
  <2>1. i \in 1 .. n - 1 /\ i + 1 \in 1 .. n
    BY <1>1, <1>5
  <2>2. CASE i \in OfDevice(t, device)
    BY <1>2, <2>1, <2>2 DEF InHistory
  <2>3. ASSUME NEW j \in OfDevice(t, device), IsSystemPower(t[i]), Near(t, i, j) PROVE i + 1 \in old
    <3>1. j \in 1 .. n - 1 /\ j + 1 \in OfDevice(s, device)
      BY <1>2, <1>3
    <3>2. IsSystemPower(s[i + 1]) /\ Near(s, i + 1, j + 1)
      BY <1>1, <1>4, <2>1, <2>3, <3>1
    <3>3. QED BY <1>1, <2>1, <3>1, <3>2 DEF InHistory
  <2>4. QED BY <2>1, <2>2, <2>3 DEF InHistory
\* What is lost with the oldest event is older than all that stays.
<1>7. ASSUME NEW i \in new, NEW j \in old, i + 1 < j PROVE j - 1 \in new
  <2>1. i \in 1 .. n - 1 /\ j \in 1 .. n /\ j - 1 \in 1 .. n - 1 /\ (j - 1) + 1 = j
    BY <1>1, <1>5, <1>7
  <2>2. CASE j \in OfDevice(s, device)
    BY <1>2, <2>1, <2>2 DEF InHistory
  <2>3. ASSUME NEW m \in OfDevice(s, device), IsSystemPower(s[j]), Near(s, j, m) PROVE j - 1 \in new
    <3>1. IsSystemPower(t[j - 1])
      BY <1>1, <2>1, <2>3
    <3>2. m \in 1 .. n
      BY <1>3
    <3>3. ASSUME NEW l \in OfDevice(t, device), Near(s, j, l + 1) PROVE j - 1 \in new
      <4>1. l \in 1 .. n - 1
        BY <1>3
      <4>2. Near(t, j - 1, l)
        BY <1>4, <2>1, <3>3, <4>1
      <4>3. QED BY <1>1, <2>1, <3>1, <4>2 DEF InHistory
    <3>4. CASE m # 1
      <4>1. m - 1 \in 1 .. n - 1 /\ (m - 1) + 1 = m
        BY <1>1, <3>2, <3>4
      <4>2. m - 1 \in OfDevice(t, device)
        BY <1>2, <4>1
      <4>3. Near(s, j, (m - 1) + 1)
        BY <2>3, <4>1
      <4>4. QED BY <3>3, <4>2, <4>3
    <3>5. CASE m = 1
      <4>1. \A k \in Nat : 1 < k /\ k <= j => ~s[k].late
        BY <2>1, <2>3, <3>5, NearMeans
      <4>2. CASE i \in OfDevice(t, device)
        <5>1. Near(s, j, i + 1)
          BY <1>7, <2>1, <4>1, NearMeans
        <5>2. QED BY <3>3, <4>2, <5>1
      <4>3. ASSUME NEW l \in OfDevice(t, device), Near(t, i, l) PROVE j - 1 \in new
        <5>1. l \in 1 .. n - 1
          BY <1>3
        <5>2. Near(s, i + 1, l + 1)
          BY <1>4, <2>1, <4>3, <5>1
        <5>3. \A k \in Nat : i + 1 < k /\ k <= l + 1 => ~s[k].late
          BY <2>1, <5>1, <5>2, NearMeans
        <5>4. Near(s, j, l + 1)
          <6> SUFFICES ASSUME NEW k \in Nat, (j < k /\ k <= l + 1) \/ (l + 1 < k /\ k <= j) PROVE ~s[k].late
            BY <2>1, <5>1, NearMeans
          <6>1. (i + 1 < k /\ k <= l + 1) \/ (1 < k /\ k <= j)
            BY <1>7, <2>1, <5>1
          <6>2. QED BY <4>1, <5>3, <6>1
        <5>5. QED BY <3>3, <5>4
      <4>4. QED BY <4>2, <4>3 DEF InHistory
    <3>6. QED BY <3>4, <3>5
  <2>4. QED BY <2>2, <2>3 DEF InHistory
<1>8. ASSUME NEW i \in Newest(new) PROVE i + 1 \in Newest(old)
  <2> DEFINE later == {j \in new : j > i}
             laterOld == {j \in old : j > i + 1}
             f == [j \in later |-> j + 1]
             image == {f[j] : j \in later}
  <2>1. i \in new /\ Cardinality(later) < HistoryLimit /\ i + 1 \in old
    BY <1>6 DEF Newest
  <2>2. new \subseteq Nat /\ old \subseteq Nat /\ i \in Nat
    BY <1>5, <2>1
  <2>3. IsFiniteSet(later)
    <3>1. n - 1 \in Int
      BY <1>1
    <3>2. IsFiniteSet(1 .. n - 1)
      BY <3>1, FS_Interval
    <3>3. later \in SUBSET (1 .. n - 1)
      BY <1>5
    <3>4. QED BY <3>2, <3>3, FS_Subset
  <2>4. laterOld \subseteq image
    <3> SUFFICES ASSUME NEW j \in laterOld PROVE j \in image
      OBVIOUS
    <3>1. j \in Nat /\ i + 1 < j
      BY <2>2
    <3>2. j - 1 \in new
      BY <1>7, <2>1, <3>1
    <3>3. j - 1 \in later /\ (j - 1) + 1 = j
      BY <2>2, <3>1, <3>2
    <3>4. f[j - 1] = j
      BY <3>3
    <3>5. QED BY <3>3, <3>4
  <2>5. f \in Surjection(later, image)
    BY DEF Surjection
  <2> HIDE DEF f, image, later, laterOld
  <2>6. IsFiniteSet(image) /\ Cardinality(image) <= Cardinality(later)
    BY <2>3, <2>5, FS_Surjection
  <2>7. IsFiniteSet(laterOld) /\ Cardinality(laterOld) <= Cardinality(image)
    BY <2>4, <2>6, FS_Subset
  <2>8. Cardinality(laterOld) < HistoryLimit
    <3>1. Cardinality(later) \in Nat /\ Cardinality(image) \in Nat /\ Cardinality(laterOld) \in Nat
      BY <2>3, <2>6, <2>7, FS_CardinalityType
    <3>2. QED BY <2>1, <2>6, <2>7, <3>1, LimitTypes
  <2>9. QED BY <2>1, <2>8 DEF Newest, laterOld
<1>9. \A i \in Newest(new) : t[i] = s[i + 1]
  BY <1>1, <1>5 DEF Newest
<1>10. ToSet(DeviceHistory(t, device)) = {t[i] : i \in Newest(new)}
  BY <1>1, HistoryShows
<1>11. ToSet(DeviceHistory(s, device)) = {s[i] : i \in Newest(old)}
  BY HistoryShows
<1> HIDE DEF new, old
<1>12. QED BY <1>8, <1>9, <1>10, <1>11 DEF t

\* Adding an event of another device brings nothing into a history.
LEMMA HistoryOfOther ==
  ASSUME NEW table, NEW e, NEW limit \in Nat \ {0}, NEW device, TableOK(table, limit),
         ~SameDeviceForHistory(device, e.device), ~IsSystemPower(e)
  PROVE  ToSet(DeviceHistory(Added(table, e, limit).items, device))
           \subseteq ToSet(DeviceHistory(table.items, device))
<1> DEFINE s == table.items
           kept == IF Full(table, limit) THEN Tail(s) ELSE s
           longer == kept \o << e >>
<1>1. PICK S : s \in Seq(S)
  BY DEF TableOK, EventList
<1>2. Full(table, limit) => s # << >>
  BY DEF Full
<1>3. kept \in Seq(S)
  BY <1>1, <1>2
<1>4. Added(table, e, limit).items = longer
  <2>1. Added(table, e, limit) = [table EXCEPT !.items = longer]
    BY DEF Added
  <2>2. table = [items |-> table.items, filter |-> table.filter]
    BY DEF TableOK
  <2> HIDE DEF longer
  <2>3. QED BY <2>1, <2>2
<1>5. ToSet(DeviceHistory(kept, device)) \subseteq ToSet(DeviceHistory(s, device))
  BY <1>1, <1>2, HistoryOfTail
<1> HIDE DEF kept
<1>6. longer = Append(kept, e)
  BY <1>3
<1>7. ToSet(DeviceHistory(Append(kept, e), device)) = ToSet(DeviceHistory(kept, device))
  BY <1>3, HistoryOfAppend
<1> HIDE DEF longer
<1>8. QED BY <1>4, <1>5, <1>6, <1>7

\* The selected row is the newest one that is shown.
Latest(w) == w.eventSel = Len(Visible(w.events))

\* u comes from w by an event: the watch stays, and a selection denotes what it
\* did, or the newest event.
Follows(u, w) ==
  /\ u.target = w.target /\ u.watched = w.watched /\ u.focus = w.focus
  /\ u.events.filter = w.events.filter
  /\ u.eventSel # 0 =>
       Latest(u) \/ (u.eventSel = w.eventSel /\ Visible(u.events) = Visible(w.events))
  /\ u.changeSel # 0 =>
       /\ u.changeSel = w.changeSel
       /\ Visible(u.changes)[u.changeSel] = Visible(w.changes)[w.changeSel]

\* One event may come after another.
LEMMA FollowsOn ==
  ASSUME NEW u, NEW v, NEW w, Follows(u, v), Follows(v, w)
  PROVE  Follows(u, w)
BY DEF Follows, Latest

\* addEvent shows an event of this kind in the history of the watched device.
Concerns(w, e) == SameDeviceForHistory(w.watched, e.device) \/ IsSystemPower(e)

\* The first part of addEvent: the tables.
LEMMA LoggedDoes ==
  ASSUME NEW w, NEW e, NEW list, Sound(w, list), e.type \in EventTypes
  PROVE  LET u == Logged(w, e, list)
         IN  /\ Sound(u, list)
             /\ u.target = w.target /\ u.watched = w.watched /\ u.focus = w.focus
             /\ u.detailed = w.detailed
             /\ u.events.filter = w.events.filter
             /\ u.eventSel # 0 =>
                  /\ u.eventSel = w.eventSel
                  /\ EventMatches(e, w.events.filter) \/ Visible(u.events) = Visible(w.events)
             /\ u.changeSel # 0 =>
                  /\ u.changeSel = w.changeSel
                  /\ Visible(u.changes)[u.changeSel] = Visible(w.changes)[w.changeSel]
             /\ Fresh(w) /\ ~Concerns(w, e) => Fresh(u)
<1> DEFINE v == AddToEvents(w, e, list)
           u == AddToChanges(v, e, list)
<1>1. /\ Sound(v, list)
      /\ v.target = w.target /\ v.changes = w.changes /\ v.watched = w.watched
      /\ v.focus = w.focus /\ v.detailed = w.detailed /\ v.changeSel = w.changeSel
      /\ v.events = Added(w.events, e, EventLimit)
      /\ v.eventSel # 0 =>
           /\ v.eventSel = w.eventSel
           /\ EventMatches(e, w.events.filter) \/ Visible(v.events) = Visible(w.events)
      /\ w.eventSel = 0 => v.details = w.details
  BY AddToEventsDoes
<1> HIDE DEF v
<1>2. /\ Sound(u, list)
      /\ u.target = v.target /\ u.events = v.events /\ u.watched = v.watched
      /\ u.focus = v.focus /\ u.detailed = v.detailed /\ u.eventSel = v.eventSel
      /\ u.changeSel # 0 =>
           /\ u.changeSel = v.changeSel
           /\ Visible(u.changes)[u.changeSel] = Visible(v.changes)[v.changeSel]
      /\ v.changeSel = 0 => u.details = v.details
  BY <1>1, AddToChangesDoes
<1>3. Logged(w, e, list) = u
  BY DEF Logged, v
<1> HIDE DEF u
<1>4. TableOK(w.events, EventLimit)
  BY DEF Sound, Typed
<1>5. u.events.filter = w.events.filter
  <2>1. Added(w.events, e, EventLimit).filter = w.events.filter
    BY <1>4, AddedTable, LimitTypes
  <2>2. QED BY <1>1, <1>2, <2>1
<1>6. ASSUME Fresh(w), ~Concerns(w, e) PROVE Fresh(u)
  <2> SUFFICES ASSUME w.focus
               PROVE  ToSet(DeviceHistory(u.events.items, u.watched)) \subseteq ToSet(u.details.history)
    BY <1>1, <1>2 DEF Fresh
  <2>1. w.eventSel = 0 /\ w.changeSel = 0
    BY DEF Sound, Handled, OneSelectionIn
  <2>2. u.details = w.details /\ u.watched = w.watched /\ u.events = Added(w.events, e, EventLimit)
    BY <1>1, <1>2, <2>1
  <2>3. ToSet(DeviceHistory(Added(w.events, e, EventLimit).items, w.watched))
          \subseteq ToSet(DeviceHistory(w.events.items, w.watched))
    BY <1>4, <1>6, HistoryOfOther, LimitTypes DEF Concerns
  <2>4. ToSet(DeviceHistory(w.events.items, w.watched)) \subseteq ToSet(w.details.history)
    BY <1>6 DEF Fresh
  <2>5. QED BY <2>2, <2>3, <2>4
<1>7. QED BY <1>1, <1>2, <1>3, <1>5, <1>6

\* The second part of addEvent: the selection and the details.
LEMMA ShownDoes ==
  ASSUME NEW w, NEW e, NEW list, Sound(w, list)
  PROVE  LET u == Shown(w, e, list)
         IN  /\ Sound(u, list)
             /\ u.target = w.target /\ u.watched = w.watched /\ u.focus = w.focus
             /\ u.events = w.events /\ u.changes = w.changes
             /\ u.eventSel # 0 =>
                  Latest(u) \/ (u.eventSel = w.eventSel /\ ~EventMatches(e, w.events.filter))
             /\ u.changeSel \in {0, w.changeSel}
             /\ Concerns(w, e) => Fresh(u)
             /\ Fresh(w) => Fresh(u)
<1> DEFINE last == Len(Visible(w.events))
           v == AutoSelect(w, e, list)
           u == RefreshWatchDetails(v, e, list)
<1>1. Handled(w, list) /\ Typed(w, list)
  BY DEF Sound
<1>2. PICK S : Visible(w.events) \in Seq(S)
  BY <1>1, VisibleList DEF Typed, TableOK
<1>3. /\ Sound(v, list)
      /\ v.target = w.target /\ v.watched = w.watched /\ v.focus = w.focus
      /\ v.events = w.events /\ v.changes = w.changes
      /\ v.eventSel # 0 =>
           Latest(v) \/ (v.eventSel = w.eventSel /\ ~EventMatches(e, w.events.filter))
      /\ v.changeSel \in {0, w.changeSel}
      /\ Fresh(w) => Fresh(v)
  <2>1. CASE /\ ~w.focus /\ w.deviceSel = NoRow /\ w.changeSel = 0
             /\ Visible(w.events) # << >> /\ EventMatches(e, w.events.filter)
    <3>1. last \in DOMAIN Visible(w.events) /\ last # 0
      BY <1>2, <2>1
    <3>2. v = OnEventSelection([w EXCEPT !.eventSel = last], list)
      BY <2>1 DEF AutoSelect
    <3> HIDE DEF last, v
    <3>3. /\ Sound(v, list) /\ Fresh(v)
          /\ v.target = w.target /\ v.events = w.events /\ v.changes = w.changes
          /\ v.watched = w.watched /\ v.eventSel = last /\ v.changeSel \in {0, w.changeSel}
          /\ v.focus = (last = 0 /\ w.focus)
      BY <1>1, <3>1, <3>2, EventSound
    <3>4. w.focus = FALSE
      BY <1>1, <2>1 DEF Typed
    <3>5. Latest(v)
      BY <3>3 DEF Latest, last
    <3>6. QED BY <3>1, <3>3, <3>4, <3>5
  <2>2. CASE ~(/\ ~w.focus /\ w.deviceSel = NoRow /\ w.changeSel = 0
               /\ Visible(w.events) # << >> /\ EventMatches(e, w.events.filter))
    <3>1. v = w
      BY <2>2 DEF AutoSelect
    <3>2. ASSUME w.eventSel # 0 PROVE ~EventMatches(e, w.events.filter)
      <4>1. ~w.focus /\ w.deviceSel = NoRow /\ w.changeSel = 0
        BY <1>1, <3>2 DEF Handled, OneSelectionIn
      <4>2. w.eventSel \in DOMAIN Visible(w.events)
        BY <1>1, <3>2 DEF Typed
      <4>3. Visible(w.events) # << >>
        BY <4>2
      <4>4. QED BY <2>2, <4>1, <4>3
    <3>3. QED BY <3>1, <3>2
  <2>3. QED BY <2>1, <2>2
<1> HIDE DEF v
<1>4. CASE v.focus /\ Concerns(v, e)
  <2>1. u = UpdateDetails(v, list)
    BY <1>4 DEF RefreshWatchDetails, Concerns
  <2>2. Sound(u, list) /\ Fresh(u) /\ Alike(u, v)
    BY <1>3, <2>1, UpdatedSound, Updated DEF Sound
  <2>3. QED BY <1>3, <2>2 DEF Shown, Alike, Latest, v
<1>5. CASE ~(v.focus /\ Concerns(v, e))
  <2>1. u = v
    BY <1>5 DEF RefreshWatchDetails, Concerns
  <2>2. Concerns(w, e) => ~v.focus
    BY <1>3, <1>5 DEF Concerns
  <2>3. QED BY <1>3, <2>1, <2>2 DEF Shown, Fresh, v
<1>6. QED BY <1>4, <1>5

\* Both parts keep the details complete.
LEMMA AddedEventDoes ==
  ASSUME NEW w, NEW e, NEW list, Sound(w, list), e.type \in EventTypes
  PROVE  LET u == AddedEvent(w, e, list)
         IN  Sound(u, list) /\ Follows(u, w) /\ (Fresh(w) => Fresh(u))
<1> DEFINE v == Logged(w, e, list)
           u == Shown(v, e, list)
<1>1. /\ Sound(v, list)
      /\ v.target = w.target /\ v.watched = w.watched /\ v.focus = w.focus
      /\ v.events.filter = w.events.filter
      /\ v.eventSel # 0 =>
           /\ v.eventSel = w.eventSel
           /\ EventMatches(e, w.events.filter) \/ Visible(v.events) = Visible(w.events)
      /\ v.changeSel # 0 =>
           /\ v.changeSel = w.changeSel
           /\ Visible(v.changes)[v.changeSel] = Visible(w.changes)[w.changeSel]
      /\ Fresh(w) /\ ~Concerns(w, e) => Fresh(v)
  BY LoggedDoes
<1> HIDE DEF v
<1>2. /\ Sound(u, list)
      /\ u.target = v.target /\ u.watched = v.watched /\ u.focus = v.focus
      /\ u.events = v.events /\ u.changes = v.changes
      /\ u.eventSel # 0 =>
           Latest(u) \/ (u.eventSel = v.eventSel /\ ~EventMatches(e, v.events.filter))
      /\ u.changeSel \in {0, v.changeSel}
      /\ Concerns(v, e) => Fresh(u)
      /\ Fresh(v) => Fresh(u)
  BY <1>1, ShownDoes
<1> HIDE DEF u
<1>3. Follows(u, w)
  BY <1>1, <1>2 DEF Follows
<1>4. Fresh(w) => Fresh(u)
  BY <1>1, <1>2 DEF Concerns
<1>5. Follows(w, w)
  BY DEF Follows
<1>6. AddedEvent(w, e, list) = IF IsHeard(w, e) THEN u ELSE w
  BY DEF AddedEvent, u, v
<1>7. QED BY <1>2, <1>3, <1>4, <1>5, <1>6

\* What an event does to the window.
LEMMA AddEventDoes ==
  ASSUME NEW w, NEW e, NEW list, Sound(w, list), e.type \in EventTypes
  PROVE  LET u == AddEvent(w, e, list)
         IN  Sound(u, list) /\ Follows(u, w) /\ (Fresh(w) => Fresh(u))
<1> DEFINE v == Logged(w, e, list)
           f == Announcement(e)
           t == TriggerDetailedLogging(v, e, list)
           a == IF e.type \in Triggers THEN t ELSE v
           u == Shown(a, e, list)
<1>1. /\ Sound(v, list)
      /\ v.target = w.target /\ v.watched = w.watched /\ v.focus = w.focus
      /\ v.events.filter = w.events.filter
      /\ v.eventSel # 0 =>
           /\ v.eventSel = w.eventSel
           /\ EventMatches(e, w.events.filter) \/ Visible(v.events) = Visible(w.events)
      /\ v.changeSel # 0 =>
           /\ v.changeSel = w.changeSel
           /\ Visible(v.changes)[v.changeSel] = Visible(w.changes)[w.changeSel]
      /\ Fresh(w) /\ ~Concerns(w, e) => Fresh(v)
  BY LoggedDoes
<1> HIDE DEF v
<1>2. f.type \in EventTypes
  BY DEF Announcement, Event, Kind, EventTypes
<1> HIDE DEF f
<1>3. Sound(t, list) /\ Follows(t, v) /\ (Fresh(v) => Fresh(t))
  <2> DEFINE on == [v EXCEPT !.detailed = TRUE]
  <2>1. /\ DOMAIN on = Fields /\ on.target = v.target /\ on.deviceSel = v.deviceSel
        /\ on.watched = v.watched /\ on.focus = v.focus /\ on.events = v.events
        /\ on.changes = v.changes /\ on.eventSel = v.eventSel /\ on.changeSel = v.changeSel
        /\ on.detailed = TRUE /\ on.details = v.details
    BY <1>1 DEF Sound, Handled, Fields
  <2> HIDE DEF on
  <2>2. Sound(on, list)
    <3>1. Handled(v, list) /\ Typed(v, list) /\ Current(v, list)
      BY <1>1 DEF Sound
    <3>2. Handled(on, list)
      BY <2>1, <3>1 DEF Handled, OneSelectionIn
    <3>3. Typed(on, list)
      BY <2>1, <3>1 DEF Typed
    <3>4. Subject(on, list) = Subject(v, list)
      BY <2>1 DEF Subject
    <3>5. QED BY <2>1, <3>1, <3>2, <3>3, <3>4 DEF Sound, Current
  <2>3. Follows(on, v) /\ (Fresh(v) => Fresh(on))
    BY <2>1 DEF Follows, Fresh
  <2>4. LET x == AddedEvent(on, f, list)
        IN  Sound(x, list) /\ Follows(x, on) /\ (Fresh(on) => Fresh(x))
    BY <1>2, <2>2, AddedEventDoes
  <2>5. t = IF v.detailed THEN v ELSE AddedEvent(on, f, list)
    BY DEF TriggerDetailedLogging, on, f
  <2>6. Follows(v, v)
    BY DEF Follows
  <2>7. QED BY <1>1, <2>3, <2>4, <2>5, <2>6, FollowsOn
<1> HIDE DEF t
<1>4. Sound(a, list) /\ Follows(a, v) /\ (Fresh(v) => Fresh(a))
  <2>1. Follows(v, v)
    BY DEF Follows
  <2>2. QED BY <1>1, <1>3, <2>1
<1> HIDE DEF a
<1>5. /\ Sound(u, list)
      /\ u.target = a.target /\ u.watched = a.watched /\ u.focus = a.focus
      /\ u.events = a.events /\ u.changes = a.changes
      /\ u.eventSel # 0 =>
           Latest(u) \/ (u.eventSel = a.eventSel /\ ~EventMatches(e, a.events.filter))
      /\ u.changeSel \in {0, a.changeSel}
      /\ Concerns(a, e) => Fresh(u)
      /\ Fresh(a) => Fresh(u)
  BY <1>4, ShownDoes
<1> HIDE DEF u
<1>6. Follows(u, w)
  <2>1. u.eventSel # 0 =>
          Latest(u) \/ (u.eventSel = w.eventSel /\ Visible(u.events) = Visible(w.events))
    <3> SUFFICES ASSUME u.eventSel # 0, ~Latest(u)
                 PROVE  u.eventSel = w.eventSel /\ Visible(u.events) = Visible(w.events)
      OBVIOUS
    <3>1. u.eventSel = a.eventSel /\ ~EventMatches(e, w.events.filter) /\ ~Latest(a)
      BY <1>1, <1>4, <1>5 DEF Follows, Latest
    <3>2. a.eventSel = v.eventSel /\ Visible(a.events) = Visible(v.events)
      BY <1>4, <3>1 DEF Follows
    <3>3. QED BY <1>1, <1>5, <3>1, <3>2
  <2>2. QED BY <1>1, <1>4, <1>5, <2>1 DEF Follows
<1>7. Fresh(w) => Fresh(u)
  <2>1. Concerns(w, e) <=> Concerns(a, e)
    BY <1>1, <1>4 DEF Concerns, Follows
  <2>2. QED BY <1>1, <1>4, <1>5, <2>1
<1>8. Follows(w, w)
  BY DEF Follows
<1>9. AddEvent(w, e, list) = IF IsHeard(w, e) THEN u ELSE w
  BY DEF AddEvent, u, a, t, v
<1>10. QED BY <1>5, <1>6, <1>7, <1>8, <1>9

\* A refresh shows the new list; the watch is moved to what is taken for it there.
LEMMA RefreshDoes ==
  ASSUME NEW w, NEW old, NEW new, Sound(w, old), ListOK(old), ListOK(new)
  PROVE  LET u == RefreshDevices(w, old, new)
         IN  /\ Sound(u, new) /\ Fresh(u)
             /\ u.target = w.target /\ u.events = w.events /\ u.changes = w.changes
             /\ u.eventSel = w.eventSel /\ u.changeSel = w.changeSel
             /\ \/ u.watched = w.watched
                \/ /\ w.watched # NoDevice /\ Watchable(u.watched)
                   /\ SameDeviceForSelection(u.watched, w.watched)
<1> DEFINE device == SelectionTarget(w, old)
           row == RowOfDevice(new, device)
           d == RowDevice(new, row)
           v == [w EXCEPT !.deviceSel = NoRow]
           t == RestoreDeviceSelection(v, new, device)
           x == [v EXCEPT !.deviceSel = row, !.watched = d, !.focus = TRUE]
<1>1. Handled(w, old) /\ Typed(w, old) /\ DOMAIN w = Fields
  BY DEF Sound, Handled
<1>2. device = NoDevice \/ (device = w.watched /\ w.eventSel = 0 /\ w.changeSel = 0)
  BY <1>1 DEF SelectionTarget, Handled, OneSelectionIn
<1> HIDE DEF device
<1>3. /\ DOMAIN v = Fields /\ v.target = w.target /\ v.deviceSel = NoRow /\ v.watched = w.watched
      /\ v.focus = w.focus /\ v.events = w.events /\ v.changes = w.changes
      /\ v.eventSel = w.eventSel /\ v.changeSel = w.changeSel /\ v.detailed = w.detailed
  BY <1>1 DEF Fields
<1>4. t = IF device = NoDevice \/ row = NoRow THEN v ELSE x
  BY DEF RestoreDeviceSelection
<1>5. /\ Handled(t, new) /\ Typed(t, new)
      /\ t.target = w.target /\ t.events = w.events /\ t.changes = w.changes
      /\ t.eventSel = w.eventSel /\ t.changeSel = w.changeSel
      /\ \/ t.watched = w.watched
         \/ /\ w.watched # NoDevice /\ Watchable(t.watched)
            /\ SameDeviceForSelection(t.watched, w.watched)
  <2>1. CASE device = NoDevice \/ row = NoRow
    <3>1. t = v
      BY <1>4, <2>1
    <3> HIDE DEF t, v
    <3>2. Handled(v, new)
      BY <1>1, <1>3 DEF Handled, OneSelectionIn
    <3>3. Typed(v, new)
      BY <1>1, <1>3 DEF Typed
    <3>4. QED BY <1>3, <3>1, <3>2, <3>3
  <2>2. CASE device # NoDevice /\ row # NoRow
    <3>1. row \in Rows(new) /\ SameDeviceForSelection(d, device)
      BY <2>2, RowFound
    <3>2. Watchable(d) /\ d # NoDevice
      BY <3>1, RowShows, NobodyIsNot
    <3>3. t = x
      BY <1>4, <2>2
    <3>4. d = RowDevice(new, row)
      OBVIOUS
    <3> HIDE DEF d, row
    <3>5. /\ DOMAIN x = Fields /\ x.target = w.target /\ x.deviceSel = row /\ x.watched = d
          /\ x.focus = TRUE /\ x.events = w.events /\ x.changes = w.changes
          /\ x.eventSel = w.eventSel /\ x.changeSel = w.changeSel /\ x.detailed = w.detailed
      BY <1>3 DEF Fields
    <3> HIDE DEF x, t, v
    <3>6. w.eventSel = 0 /\ w.changeSel = 0 /\ device = w.watched
      BY <1>2, <2>2
    <3>7. Handled(x, new)
      BY <3>4, <3>5, <3>6 DEF Handled, OneSelectionIn
    <3>8. Typed(x, new)
      BY <1>1, <3>1, <3>2, <3>5 DEF Typed
    <3>9. QED BY <2>2, <3>1, <3>2, <3>3, <3>5, <3>6, <3>7, <3>8
  <2>3. QED BY <2>1, <2>2
<1>6. RefreshDevices(w, old, new) = UpdateDetails(t, new)
  BY DEF RefreshDevices, device
<1> HIDE DEF t
<1>7. QED BY <1>5, <1>6, Updated, UpdatedSound DEF Alike

\* Another filter: the timeline is reset.
LEMMA FilterDoes ==
  ASSUME NEW w, NEW list, Sound(w, list), NEW filter \in Filters
  PROVE  LET u == ApplyEventFilters(w, filter, list)
         IN  /\ Sound(u, list) /\ Fresh(u)
             /\ u.target = w.target /\ u.watched = w.watched /\ u.changes = w.changes
             /\ u.eventSel = 0 /\ u.changeSel = w.changeSel
<1> DEFINE v == [w EXCEPT !.events.filter = filter]
           x == [v EXCEPT !.eventSel = 0]
           t == ResetEvents(v, list)
<1>1. Handled(w, list) /\ Typed(w, list) /\ DOMAIN w = Fields
  BY DEF Sound, Handled
<1>2. TableOK(w.events, EventLimit)
  BY <1>1 DEF Typed
<1> DEFINE table == [w.events EXCEPT !.filter = filter]
<1>3. TableOK(table, EventLimit)
  <2>1. table = [items |-> w.events.items, filter |-> filter]
    BY <1>2 DEF TableOK
  <2> HIDE DEF table
  <2>2. QED BY <1>2, <2>1 DEF TableOK
<1>4. /\ DOMAIN v = Fields /\ v.target = w.target /\ v.deviceSel = w.deviceSel /\ v.watched = w.watched
      /\ v.focus = w.focus /\ v.events = table /\ v.changes = w.changes
      /\ v.eventSel = w.eventSel /\ v.changeSel = w.changeSel /\ v.detailed = w.detailed
  BY <1>1 DEF Fields
<1> HIDE DEF v, table
<1>5. /\ DOMAIN x = Fields /\ x.target = w.target /\ x.deviceSel = w.deviceSel /\ x.watched = w.watched
      /\ x.focus = w.focus /\ x.events = table /\ x.changes = w.changes
      /\ x.eventSel = 0 /\ x.changeSel = w.changeSel /\ x.detailed = w.detailed
  BY <1>4 DEF Fields
<1>6. Handled(x, list) /\ Typed(x, list)
  BY <1>1, <1>3, <1>5 DEF Handled, OneSelectionIn, Typed
<1>7. t = IF v.eventSel = 0 THEN v ELSE UpdateDetails(x, list)
  BY <1>5 DEF ResetEvents, OnEventSelection
<1> HIDE DEF x, t
<1>8. /\ Handled(t, list) /\ Typed(t, list)
      /\ t.target = w.target /\ t.watched = w.watched /\ t.changes = w.changes
      /\ t.eventSel = 0 /\ t.changeSel = w.changeSel
  <2>1. CASE v.eventSel = 0
    <3>1. Handled(v, list) /\ Typed(v, list)
      BY <1>1, <1>3, <1>4, <2>1 DEF Handled, OneSelectionIn, Typed
    <3>2. QED BY <1>4, <1>7, <2>1, <3>1
  <2>2. CASE v.eventSel # 0
    <3>1. Sound(t, list) /\ Alike(t, x)
      BY <1>6, <1>7, <2>2, Updated, UpdatedSound
    <3>2. QED BY <1>5, <3>1 DEF Sound, Alike
  <2>3. QED BY <2>1, <2>2
<1>9. ApplyEventFilters(w, filter, list) = UpdateDetails(t, list)
  BY DEF ApplyEventFilters, t, v
<1>10. QED BY <1>8, <1>9, Updated, UpdatedSound DEF Alike

\* Another filter of the USB changes: they are reset.
LEMMA ChangesFilterDoes ==
  ASSUME NEW w, NEW list, Sound(w, list), Fresh(w), NEW filter \in Filters
  PROVE  LET u == ResetChanges([w EXCEPT !.changes.filter = filter], list)
         IN  /\ Sound(u, list) /\ Fresh(u)
             /\ u.watched = w.watched /\ u.eventSel = w.eventSel /\ u.changeSel = 0
<1> DEFINE v == [w EXCEPT !.changes.filter = filter]
           x == [v EXCEPT !.changeSel = 0]
           t == ResetChanges(v, list)
<1>1. Handled(w, list) /\ Typed(w, list) /\ Current(w, list) /\ DOMAIN w = Fields
  BY DEF Sound, Handled
<1>2. TableOK(w.changes, ChangeLimit)
  BY <1>1 DEF Typed
<1> DEFINE table == [w.changes EXCEPT !.filter = filter]
<1>3. TableOK(table, ChangeLimit)
  <2>1. table = [items |-> w.changes.items, filter |-> filter]
    BY <1>2 DEF TableOK
  <2> HIDE DEF table
  <2>2. QED BY <1>2, <2>1 DEF TableOK
<1>4. /\ DOMAIN v = Fields /\ v.target = w.target /\ v.deviceSel = w.deviceSel /\ v.watched = w.watched
      /\ v.focus = w.focus /\ v.events = w.events /\ v.changes = table /\ v.details = w.details
      /\ v.eventSel = w.eventSel /\ v.changeSel = w.changeSel /\ v.detailed = w.detailed
  BY <1>1 DEF Fields
<1> HIDE DEF v, table
<1>5. /\ DOMAIN x = Fields /\ x.target = w.target /\ x.deviceSel = w.deviceSel /\ x.watched = w.watched
      /\ x.focus = w.focus /\ x.events = w.events /\ x.changes = table
      /\ x.eventSel = w.eventSel /\ x.changeSel = 0 /\ x.detailed = w.detailed
  BY <1>4 DEF Fields
<1>6. Handled(x, list) /\ Typed(x, list)
  BY <1>1, <1>3, <1>5 DEF Handled, OneSelectionIn, Typed
<1>7. t = IF v.changeSel = 0 THEN v ELSE UpdateDetails(x, list)
  BY <1>5 DEF ResetChanges, OnChangeSelection
<1> HIDE DEF x, t
<1>8. CASE v.changeSel = 0
  <2>1. Handled(v, list) /\ Typed(v, list)
    BY <1>1, <1>3, <1>4, <1>8 DEF Handled, OneSelectionIn, Typed
  <2>2. Current(v, list)
    BY <1>1, <1>4, <1>8 DEF Current, Subject
  <2>3. Fresh(v)
    BY <1>4 DEF Fresh
  <2>4. QED BY <1>4, <1>7, <1>8, <2>1, <2>2, <2>3 DEF Sound, t, v
<1>9. CASE v.changeSel # 0
  <2>1. Sound(t, list) /\ Fresh(t) /\ Alike(t, x)
    BY <1>6, <1>7, <1>9, Updated, UpdatedSound
  <2>2. QED BY <1>5, <2>1 DEF Alike, t, v
<1>10. QED BY <1>8, <1>9

-----------------------------------------------------------------------------
(* The steps of the window.                                                 *)

\* A step from w to u moves neither the selected rows ...
SelectionKept(u, w) ==
  /\ u.events # w.events /\ u.eventSel # 0 =>
       Latest(u) \/ (u.eventSel = w.eventSel /\ Visible(u.events) = Visible(w.events))
  /\ u.changes # w.changes /\ u.changeSel # 0 =>
       /\ u.changeSel = w.changeSel
       /\ Visible(u.changes)[u.changeSel] = Visible(w.changes)[w.changeSel]

\* ... nor the watch, except to what is taken for it.
WatchKept(u, w) ==
  \/ u.watched = w.watched
  \/ /\ w.watched # NoDevice /\ Watchable(u.watched)
     /\ SameDeviceForSelection(u.watched, w.watched)

\* What a step may do from w to u, with the device list that it leaves.
Good(u, w, list) == Sound(u, list) /\ Fresh(u) /\ SelectionKept(u, w) /\ WatchKept(u, w)

\* addEvent does no more.
LEMMA EventGood ==
  ASSUME NEW w, NEW e, NEW list, Sound(w, list), Fresh(w), e.type \in EventTypes
  PROVE  Good(AddEvent(w, e, list), w, list)
BY AddEventDoes DEF Good, Follows, SelectionKept, WatchKept

\* Every event that is added has a type the filters know.
LEMMA EventTypesKnown ==
  /\ \A kind \in PollerKinds \cup OtherKinds \cup PcapKinds : \A d : Event(kind, d).type \in EventTypes
  /\ \A r : \A d : NormalizeETW(r, d).type \in EventTypes
  /\ LastWake.type \in EventTypes
<1>1. \A kind, d : Event(kind, d).type = kind.type
  BY DEF Event
<1>2. ASSUME NEW r, NEW d PROVE NormalizeETW(r, d).type \in EventTypes
  <2>1. NormalizeETW(r, d).type = ClassifyETW(r).type
    BY DEF NormalizeETW, Event, Kind
  <2>2. ClassifyETW(r).type \in {"power_d0_entry", "power_d0_exit", "idle_notification", "suspect_suspend", "info"}
    BY DEF ClassifyETW, Classified
  <2>3. QED BY <2>1, <2>2 DEF EventTypes, PowerDowns, PowerUps
<1>3. LastWake.type \in EventTypes
  BY DEF LastWake, Event, Kind, EventTypes
<1>4. QED BY <1>1, <1>2, <1>3, WindowAssumption

\* Every step of the window does no more, but for the user's selection of a row.
LEMMA StepGood ==
  ASSUME ListOK(listed), ListOK(listed)', Sound(window, listed), Fresh(window), [WindowNext]_wvars
  PROVE  /\ Sound(window', listed') /\ Fresh(window') /\ SelectionKept(window', window)
         /\ WatchKept(window', window) \/ \E row \in Rows(listed) : SelectDevice(row)
<1>1. ListOK(listed) /\ ListOK(listed')
  BY DEF ListOK
<1> DEFINE Done == Good(window', window, listed')
<1>2. ASSUME window' = window, listed' = listed PROVE Done
  BY <1>2 DEF Good, SelectionKept, WatchKept
<1>3. ASSUME NEW id \in Ids, NEW com \in ComNames \cup {NoCom}, Plugged(id, com) PROVE Done
  BY <1>2, <1>3 DEF Plugged, Plug
<1>4. ASSUME NEW id \in Ids, Unplugged(id) PROVE Done
  BY <1>2, <1>4 DEF Unplugged, Unplug
<1>5. ASSUME Refresh PROVE Done
  <2>1. window' = RefreshDevices(window, listed, listed')
    BY <1>5 DEF Refresh
  <2>2. QED BY <1>1, <2>1, RefreshDoes DEF Good, SelectionKept, WatchKept
<1>6. ASSUME NEW kind \in PollerKinds, NEW d \in PollerDevices, PollerEvent(Event(kind, d)) PROVE Done
  <2> DEFINE u == AddEvent(window, Event(kind, d), listed)
  <2>1. Good(u, window, listed)
    BY EventGood, EventTypesKnown
  <2>2. window' = RefreshDevices(u, listed, listed')
    BY <1>6 DEF PollerEvent
  <2> HIDE DEF u
  <2>3. /\ Sound(window', listed') /\ Fresh(window')
        /\ window'.events = u.events /\ window'.changes = u.changes
        /\ window'.eventSel = u.eventSel /\ window'.changeSel = u.changeSel
        /\ WatchKept(window', u)
    BY <1>1, <2>1, <2>2, RefreshDoes DEF Good, WatchKept
  <2>4. u.watched = window.watched
    BY AddEventDoes, EventTypesKnown DEF Follows, u
  <2>5. QED BY <2>1, <2>3, <2>4 DEF Good, SelectionKept, WatchKept, Latest
<1>7. ASSUME NEW kind \in OtherKinds, WindowsMessage(Event(kind, NoDevice)) PROVE Done
  <2> DEFINE e == Event(kind, NoDevice)
             u == AddEvent(window, e, listed)
             t == AddEvent(u, LastWake, listed)
  <2>1. Sound(u, listed) /\ Follows(u, window) /\ Fresh(u)
    BY AddEventDoes, EventTypesKnown
  <2>2. listed' = listed /\ window' = IF e.type = "system_wake" THEN t ELSE u
    BY <1>7 DEF WindowsMessage, vars
  <2> HIDE DEF u, e
  <2>3. Sound(t, listed) /\ Follows(t, u) /\ Fresh(t)
    BY <2>1, AddEventDoes, EventTypesKnown
  <2> HIDE DEF t
  <2>4. Follows(t, window)
    BY <2>1, <2>3, FollowsOn
  <2>5. Sound(window', listed) /\ Follows(window', window) /\ Fresh(window')
    BY <2>1, <2>2, <2>3, <2>4
  <2>6. QED BY <2>2, <2>5 DEF Good, Follows, SelectionKept, WatchKept
<1>8. ASSUME NEW e, e.type \in EventTypes, window' = AddEvent(window, e, listed), listed' = listed PROVE Done
  BY <1>8, EventGood
<1>9. ASSUME NEW kind \in PcapKinds, NEW d \in RowDevices, PcapEvent(Event(kind, d)) PROVE Done
  BY <1>9, <1>8, EventTypesKnown DEF PcapEvent, vars
<1>10. ASSUME NEW r \in ETWRecords, NEW id \in Ids, ETWEvent(NormalizeETW(r, DeviceFromETW(id))) PROVE Done
  BY <1>10, <1>8, EventTypesKnown DEF ETWEvent, vars
<1>11. ASSUME DetailedLoggingEnds PROVE Done
  <2>1. listed' = listed /\ window' = [window EXCEPT !.detailed = FALSE]
    BY <1>11 DEF DetailedLoggingEnds, vars
  <2>2. DOMAIN window = Fields
    BY DEF Sound, Handled
  <2>3. /\ DOMAIN window' = Fields /\ window'.target = window.target
        /\ window'.deviceSel = window.deviceSel /\ window'.watched = window.watched
        /\ window'.focus = window.focus /\ window'.events = window.events
        /\ window'.changes = window.changes /\ window'.eventSel = window.eventSel
        /\ window'.changeSel = window.changeSel /\ window'.detailed = FALSE
        /\ window'.details = window.details
    BY <2>1, <2>2 DEF Fields
  <2>4. Handled(window', listed)
    BY <2>3 DEF Sound, Handled, OneSelectionIn
  <2>5. Typed(window', listed)
    BY <2>3 DEF Sound, Typed
  <2>6. Current(window', listed)
    <3>1. Subject(window', listed) = Subject(window, listed)
      BY <2>3 DEF Subject
    <3>2. QED BY <2>3, <3>1 DEF Sound, Current
  <2>7. QED BY <2>1, <2>3, <2>4, <2>5, <2>6 DEF Good, Sound, Fresh, SelectionKept, WatchKept
<1>12. ASSUME NEW row \in Rows(listed) \cup {NoRow}, SelectDevice(row)
       PROVE  /\ Sound(window', listed') /\ Fresh(window') /\ SelectionKept(window', window)
              /\ WatchKept(window', window) \/ row \in Rows(listed)
  <2>1. window' = OnDeviceSelection([window EXCEPT !.deviceSel = row], listed) /\ listed' = listed
    BY <1>12 DEF SelectDevice, vars
  <2>2. /\ Sound(window', listed) /\ Fresh(window')
        /\ window'.events = window.events /\ window'.changes = window.changes
        /\ row = NoRow => window'.watched = window.watched
    BY <1>1, <2>1, DeviceSound
  <2>3. QED BY <2>1, <2>2 DEF SelectionKept, WatchKept
<1>13. ASSUME NEW n \in DOMAIN Visible(window.events) \cup {0}, SelectEvent(n) PROVE Done
  <2>1. window' = OnEventSelection([window EXCEPT !.eventSel = n], listed) /\ listed' = listed
    BY <1>13 DEF SelectEvent, vars
  <2>2. /\ Sound(window', listed) /\ Fresh(window')
        /\ window'.events = window.events /\ window'.changes = window.changes
        /\ window'.watched = window.watched
    BY <2>1, EventSound DEF Sound
  <2>3. QED BY <2>1, <2>2 DEF Good, SelectionKept, WatchKept
<1>14. ASSUME NEW n \in DOMAIN Visible(window.changes) \cup {0}, SelectChange(n) PROVE Done
  <2>1. window' = OnChangeSelection([window EXCEPT !.changeSel = n], listed) /\ listed' = listed
    BY <1>14 DEF SelectChange, vars
  <2>2. /\ Sound(window', listed) /\ Fresh(window')
        /\ window'.events = window.events /\ window'.changes = window.changes
        /\ window'.watched = window.watched
    BY <2>1, ChangeSound DEF Sound
  <2>3. QED BY <2>1, <2>2 DEF Good, SelectionKept, WatchKept
<1>15. ASSUME NEW d \in RowDevices, NEW checked \in BOOLEAN, Check(d, checked) PROVE Done
  <2>1. window' = UpdateDetails(window, listed) /\ listed' = listed
    BY <1>15 DEF Check, SetChecked
  <2>2. Sound(window', listed) /\ Fresh(window') /\ Alike(window', window)
    BY <2>1, Updated, UpdatedSound DEF Sound
  <2>3. QED BY <2>1, <2>2 DEF Good, Alike, SelectionKept, WatchKept
<1>16. ASSUME NEW kind \in FilterKinds, ChooseFilter(kind) PROVE Done
  <2> DEFINE filter == [type |-> kind.type, target |-> window.target, confidence |-> kind.confidence,
                        level |-> kind.level]
  <2>1. window' = ApplyEventFilters(window, filter, listed) /\ listed' = listed
    BY <1>16 DEF ChooseFilter, vars
  <2>2. filter \in Filters
    <3>1. window.target \in {"all", "ftdi"}
      BY DEF Sound, Typed
    <3>2. kind.type \in DOMAIN TypesShown /\ kind.confidence \in DOMAIN ConfidencesShown
          /\ kind.level \in DOMAIN TypesOfLevel
      BY WindowAssumption
    <3>3. QED BY <3>1, <3>2 DEF Filters
  <2> HIDE DEF filter
  <2>3. /\ Sound(window', listed) /\ Fresh(window')
        /\ window'.watched = window.watched /\ window'.changes = window.changes
        /\ window'.eventSel = 0
    BY <2>1, <2>2, FilterDoes
  <2>4. QED BY <2>1, <2>3 DEF Good, SelectionKept, WatchKept
<1>17. ASSUME NEW target \in {"all", "ftdi"}, ChooseTarget(target) PROVE Done
  <2> DEFINE aimed == [window EXCEPT !.target = target]
             refreshed == RefreshDevices(aimed, listed, listed')
             filter == [window.events.filter EXCEPT !.target = target]
             filtered == ApplyEventFilters(refreshed, filter, listed')
             other == [NoFilter EXCEPT !.target = target, !.level = "all"]
  <2>1. window' = ResetChanges([filtered EXCEPT !.changes.filter = other], listed')
    BY <1>17 DEF ChooseTarget
  <2>2. window.events.filter \in Filters
    BY DEF Sound, Typed, TableOK
  <2>3. filter \in Filters
    BY <2>2 DEF Filters
  <2>4. other \in Filters
    BY DEF Filters, NoFilter, TypesShown, ConfidencesShown, TypesOfLevel
  <2>5. DOMAIN window = Fields
    BY DEF Sound, Handled
  <2>6. /\ DOMAIN aimed = Fields /\ aimed.target = target /\ aimed.deviceSel = window.deviceSel
        /\ aimed.watched = window.watched /\ aimed.focus = window.focus
        /\ aimed.events = window.events /\ aimed.changes = window.changes
        /\ aimed.eventSel = window.eventSel /\ aimed.changeSel = window.changeSel
        /\ aimed.detailed = window.detailed /\ aimed.details = window.details
    BY <2>5 DEF Fields
  <2> HIDE DEF aimed, filter, other
  <2>7. Sound(aimed, listed)
    <3>1. Handled(aimed, listed)
      BY <2>6 DEF Sound, Handled, OneSelectionIn
    <3>2. Typed(aimed, listed)
      BY <2>6 DEF Sound, Typed
    <3>3. Subject(aimed, listed) = Subject(window, listed)
      BY <2>6 DEF Subject
    <3>4. QED BY <2>6, <3>1, <3>2, <3>3 DEF Sound, Current
  <2>8. Sound(refreshed, listed') /\ WatchKept(refreshed, window)
    BY <1>1, <2>6, <2>7, RefreshDoes DEF WatchKept
  <2> HIDE DEF refreshed
  <2>9. /\ Sound(filtered, listed') /\ Fresh(filtered) /\ filtered.watched = refreshed.watched
        /\ filtered.eventSel = 0
    BY <2>3, <2>8, FilterDoes
  <2> HIDE DEF filtered
  <2>10. /\ Sound(window', listed') /\ Fresh(window') /\ window'.watched = filtered.watched
         /\ window'.eventSel = 0 /\ window'.changeSel = 0
    BY <2>1, <2>4, <2>9, ChangesFilterDoes
  <2>11. QED BY <2>8, <2>9, <2>10 DEF Good, SelectionKept, WatchKept
<1>18. ASSUME UNCHANGED wvars PROVE Done
  BY <1>2, <1>18 DEF wvars, vars
<1>19. ASSUME Done
       PROVE  /\ Sound(window', listed') /\ Fresh(window') /\ SelectionKept(window', window)
              /\ WatchKept(window', window) \/ \E row \in Rows(listed) : SelectDevice(row)
  BY <1>19 DEF Good
<1> HIDE DEF Done
<1>20. QED
  BY <1>3, <1>4, <1>5, <1>6, <1>7, <1>9, <1>10, <1>11, <1>12, <1>13, <1>14, <1>15, <1>16, <1>17,
     <1>18, <1>19 DEF WindowNext

\* The window as it is opened.
LEMMA InitGood ==
  ASSUME WindowInit
  PROVE  Sound(window, listed) /\ Fresh(window)
<1>1. /\ DOMAIN window = Fields /\ window.target = "ftdi" /\ window.deviceSel = NoRow
      /\ window.watched = NoDevice /\ window.focus = FALSE /\ window.events = NewTable(NoFilter)
      /\ window.changes = NewTable(NoFilter) /\ window.eventSel = 0 /\ window.changeSel = 0
      /\ window.details.subject = NoSubject /\ window.detailed = FALSE
  BY DEF WindowInit, Fields
<1>2. ASSUME NEW limit \in Nat \ {0} PROVE TableOK(NewTable(NoFilter), limit)
  <2>1. EventList(<< >>)
    <3> DEFINE none == {}
    <3>1. << >> \in Seq(none) /\ \A e \in none : e.type \in EventTypes
      OBVIOUS
    <3> HIDE DEF none
    <3>2. \E S : << >> \in Seq(S) /\ \A e \in S : e.type \in EventTypes
      BY <3>1
    <3>3. QED BY <3>2 DEF EventList
  <2>2. NoFilter \in Filters
    BY DEF Filters, NoFilter, TypesShown, ConfidencesShown, TypesOfLevel
  <2>3. QED BY <2>1, <2>2 DEF TableOK, NewTable
<1>3. Handled(window, listed)
  BY <1>1 DEF Handled, OneSelectionIn
<1>4. Typed(window, listed)
  BY <1>1, <1>2, LimitTypes DEF Typed
<1>5. Current(window, listed)
  BY <1>1 DEF Current, Subject
<1>6. QED BY <1>1, <1>3, <1>4, <1>5 DEF Sound, Fresh

\* The inductive invariant of the window.
WindowIInv == IInv /\ ListOK(listed) /\ Sound(window, listed) /\ Fresh(window)

\* The inductive invariant holds throughout.
LEMMA WindowInvariance == WindowSpec => []WindowIInv
<1>1. IInv => ListOK(listed)
  BY ListedOK
<1>2. WindowInit => IInv /\ Sound(window, listed) /\ Fresh(window)
  BY InitGood, InitIInv DEF WindowInit
<1>3. IInv /\ [WindowNext]_wvars => IInv'
  BY StepIInv, WindowStep
<1>4. /\ ListOK(listed) /\ ListOK(listed)' /\ Sound(window, listed) /\ Fresh(window)
      /\ [WindowNext]_wvars
      => Sound(window, listed)' /\ Fresh(window)'
  <2> SUFFICES ASSUME ListOK(listed), ListOK(listed)', Sound(window, listed), Fresh(window),
                      [WindowNext]_wvars
               PROVE  Sound(window', listed') /\ Fresh(window')
    BY DEF Sound, Fresh, Handled, Typed, Current, OneSelectionIn, Subject
  <2>1. QED BY StepGood
<1>5. QED BY <1>1, <1>2, <1>3, <1>4, PTL DEF WindowSpec, WindowIInv

\* The tables of the window have their types and limits, a selected row exists.
THEOREM WindowTypeCorrect == WindowSpec => []WindowTypeOK
<1>1. WindowIInv => WindowTypeOK
  <2> SUFFICES ASSUME WindowIInv PROVE WindowTypeOK
    OBVIOUS
  <2>1. Typed(window, listed)
    BY DEF WindowIInv, Sound
  <2>2. window.watched \in Devices \cup {NoDevice} \cup {ParentDeviceSnapshot(id) : id \in Ids}
    BY <2>1 DEF Typed, Watchable
  <2>3. ASSUME NEW table, NEW limit, TableOK(table, limit)
        PROVE  table.filter \in Filters /\ \A e \in ToSet(table.items) : e.type \in EventTypes
    <3>1. PICK S : table.items \in Seq(S) /\ \A e \in S : e.type \in EventTypes
      BY <2>3 DEF TableOK, EventList
    <3>2. QED BY <2>3, <3>1 DEF TableOK, ToSet
  <2>4. Len(window.events.items) <= EventLimit /\ Len(window.changes.items) <= ChangeLimit
    BY <2>1 DEF Typed, TableOK
  <2>5. QED BY <2>1, <2>2, <2>3, <2>4 DEF WindowTypeOK, Typed, Tables
<1>2. QED BY <1>1, WindowInvariance, PTL

\* The details show what is selected, and miss no event of the watched device.
THEOREM Details == WindowSpec => []DetailsAreCurrent
<1>1. WindowIInv => DetailsAreCurrent
  <2> SUFFICES ASSUME WindowIInv PROVE DetailsAreCurrent
    OBVIOUS
  <2>1. Handled(window, listed) /\ Current(window, listed) /\ Fresh(window)
    BY DEF WindowIInv, Sound
  <2>2. window.details.subject = DetailsOf(window, listed).subject
    BY <2>1 DEF Current, DetailsOf
  <2>3. ASSUME window.focus
        PROVE  DetailsOf(window, listed).history = DeviceHistory(window.events.items, window.watched)
    <3>1. LET u == UpdateDetails(window, listed)
          IN  /\ DOMAIN window = Fields
              /\ Subject(window, listed) = DeviceSubject(window.watched)
      BY <2>1, <2>3 DEF Handled, OneSelectionIn, Subject
    <3>2. DeviceSubject(window.watched) # NoSubject /\ DeviceSubject(window.watched).device = window.watched
      <4>1. "device" \in DOMAIN DeviceSubject(window.watched) /\ "device" \notin DOMAIN NoSubject
        BY DEF DeviceSubject, NoSubject
      <4>2. QED BY <4>1 DEF DeviceSubject
    <3>3. QED BY <3>1, <3>2 DEF DetailsOf
  <2>4. QED BY <2>1, <2>2, <2>3 DEF DetailsAreCurrent, Fresh
<1>2. QED BY <1>1, WindowInvariance, PTL

\* Only the user moves the watch to another adapter.
THEOREM WatchStays == WindowSpec => WatchStaysInAdapter
<1> DEFINE Stays == \/ window'.watched = window.watched
                    \/ \E row \in Rows(listed) : SelectDevice(row)
                    \/ /\ window.watched # NoDevice
                       /\ \/ AdapterOf[window'.watched.id] = AdapterOf[window.watched.id]
                          \/ KnownByCom(window.watched, window'.watched)
<1>1. WindowIInv /\ WindowIInv' /\ [WindowNext]_wvars => [Stays]_wvars
  <2> SUFFICES ASSUME WindowIInv, WindowIInv', [WindowNext]_wvars PROVE Stays
    OBVIOUS
  <2>1. WatchKept(window', window) \/ \E row \in Rows(listed) : SelectDevice(row)
    BY StepGood DEF WindowIInv
  <2>2. ASSUME window.watched # NoDevice, Watchable(window'.watched),
               SameDeviceForSelection(window'.watched, window.watched)
        PROVE  \/ AdapterOf[window'.watched.id] = AdapterOf[window.watched.id]
               \/ KnownByCom(window.watched, window'.watched)
    <3>1. Watchable(window.watched)
      BY <2>2 DEF WindowIInv, Sound, Typed
    <3>2. QED BY <2>2, <3>1, SelectionIsAdapter
  <2>3. QED BY <2>1, <2>2 DEF WatchKept
<1>2. QED BY <1>1, WindowInvariance, PTL DEF WindowSpec, WatchStaysInAdapter

\* No event makes a selected row denote another event than it did or the newest.
THEOREM SelectionStays == WindowSpec => SelectionKeepsEvent
<1> DEFINE was == Visible(window.events)
           is == Visible(window.events)'
           wasChange == Visible(window.changes)
           isChange == Visible(window.changes)'
           Keeps ==
             /\ window'.events # window.events /\ window.eventSel # 0 /\ window'.eventSel # 0
                  => is[window'.eventSel] \in {was[window.eventSel], Last(is)}
             /\ window'.changes # window.changes /\ window.changeSel # 0 /\ window'.changeSel # 0
                  => isChange[window'.changeSel] = wasChange[window.changeSel]
<1>1. WindowIInv /\ WindowIInv' /\ [WindowNext]_wvars => [Keeps]_wvars
  <2> SUFFICES ASSUME WindowIInv, WindowIInv', [WindowNext]_wvars PROVE Keeps
    OBVIOUS
  <2>1. SelectionKept(window', window)
    BY StepGood DEF WindowIInv
  <2>2. QED BY <2>1 DEF SelectionKept, Latest, Last
<1>2. QED BY <1>1, WindowInvariance, PTL DEF WindowSpec, SelectionKeepsEvent

=============================================================================
