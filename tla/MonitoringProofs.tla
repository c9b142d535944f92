-------------------------- MODULE MonitoringProofs --------------------------
(* Proofs about Monitoring: the check boxes implement one switch per        *)
(* adapter, and an unchecked row is silent.                                 *)
EXTENDS Monitoring, FiniteSetTheorems, FunctionTheorems, SequenceTheorems, TLAPS

\* A set read as a sequence: the relatives of a device.
LEMMA SeqOfSet ==
  ASSUME NEW S, IsFiniteSet(S)
  PROVE  SetToSeq(S) \in Seq(S)
<1>1. Cardinality(S) \in Nat /\ ExistsBijection(1 .. Cardinality(S), S)
  BY FS_CardinalityType
<1>2. PICK f \in Bijection(1 .. Cardinality(S), S) : TRUE
  BY <1>1 DEF ExistsBijection
<1>3. f \in [1 .. Cardinality(S) -> S] /\ IsInjective(f)
  BY <1>2 DEF Bijection, Injection
<1>4. SetToSeq(S) \in [1 .. Cardinality(S) -> S]
  BY <1>3 DEF SetToSeq
<1>5. QED BY <1>1, <1>4

\* The keys of a device, without their order.
AnyKeys(d) ==
  (IF d.group # NoGroup THEN {<<"group", d.group>>} ELSE {})
    \cup (IF d.serial # NoGroup THEN {<<"serial", d.serial>>} ELSE {})
    \cup {<<"id", d.related[i]>> : i \in 1 .. Len(d.related)}
    \cup {<<"id", d.id>>}
    \cup (IF d.com # NoCom THEN {<<"com", d.com>>} ELSE {})

\* The parts of the key sequence, in their order.
LEMMA KeyOrder ==
  ASSUME NEW R, NEW d, d.related \in Seq(R)
  PROVE  /\ DeviceMonitorKeys(d) \in Seq(AnyKeys(d))
         /\ KeySet(d) \subseteq AnyKeys(d)
         /\ DeviceMonitorKeys(d) # << >>
         /\ d.group # NoGroup => DeviceMonitorKeys(d)[1] = <<"group", d.group>>
         /\ (d.group = NoGroup /\ d.serial = NoGroup /\ d.related = << >>)
              => DeviceMonitorKeys(d)[1] = <<"id", d.id>>
         /\ (d.group = NoGroup /\ d.serial = NoGroup /\ d.related = << >> /\ d.com = NoCom)
              => Len(DeviceMonitorKeys(d)) = 1
         /\ d.serial # NoGroup => <<"serial", d.serial>> \in KeySet(d)
         /\ <<"id", d.id>> \in KeySet(d)
         /\ \A key : key \in KeySet(d) <=>
                       \E n \in 1 .. Len(DeviceMonitorKeys(d)) : DeviceMonitorKeys(d)[n] = key
<1> DEFINE A == AnyKeys(d)
           g == KeyIf(d.group # NoGroup, <<"group", d.group>>)
           s == KeyIf(d.serial # NoGroup, <<"serial", d.serial>>)
           r == RelatedKeys(d)
           i == << <<"id", d.id>> >>
           c == KeyIf(d.com # NoCom, <<"com", d.com>>)
           K == DeviceMonitorKeys(d)
<1>1. g \in Seq(A) /\ s \in Seq(A) /\ i \in Seq(A) /\ c \in Seq(A)
  BY DEF KeyIf, AnyKeys
<1>2. r \in Seq(A) /\ Len(r) = Len(d.related)
  <2>1. Len(d.related) \in Nat
    OBVIOUS
  <2>2. r \in [1 .. Len(d.related) -> A]
    BY DEF RelatedKeys, AnyKeys
  <2>3. QED BY <2>1, <2>2
<1>3. /\ d.group # NoGroup => Len(g) = 1 /\ g[1] = <<"group", d.group>>
      /\ d.group = NoGroup => g = << >>
      /\ d.serial # NoGroup => Len(s) = 1 /\ s[1] = <<"serial", d.serial>>
      /\ d.serial = NoGroup => s = << >>
      /\ Len(i) = 1 /\ i[1] = <<"id", d.id>>
      /\ d.com = NoCom => c = << >>
  BY DEF KeyIf
<1>4. K = g \o s \o r \o i \o c
  BY DEF DeviceMonitorKeys
<1> HIDE DEF A, g, s, r, i, c, K
<1>5. /\ K \in Seq(A)
      /\ Len(K) = Len(g) + Len(s) + Len(r) + Len(i) + Len(c)
      /\ \A n \in 1 .. Len(g) : K[n] = g[n]
      /\ \A n \in 1 .. Len(s) : K[Len(g) + n] = s[n]
      /\ \A n \in 1 .. Len(i) : K[Len(g) + Len(s) + Len(r) + n] = i[n]
  <2> DEFINE gs == g \o s
             gsr == gs \o r
             gsri == gsr \o i
  <2>1. /\ gs \in Seq(A) /\ Len(gs) = Len(g) + Len(s)
        /\ \A n \in 1 .. Len(g) : gs[n] = g[n]
        /\ \A n \in 1 .. Len(s) : gs[Len(g) + n] = s[n]
    BY <1>1
  <2> HIDE DEF gs
  <2>2. /\ gsr \in Seq(A) /\ Len(gsr) = Len(gs) + Len(r)
        /\ \A n \in 1 .. Len(gs) : gsr[n] = gs[n]
    <3>1. gs \in Seq(A) /\ r \in Seq(A)
      BY <2>1, <1>2
    <3>2. QED BY <3>1
  <2> HIDE DEF gsr
  <2>3. /\ gsri \in Seq(A) /\ Len(gsri) = Len(gsr) + Len(i)
        /\ \A n \in 1 .. Len(gsr) : gsri[n] = gsr[n]
        /\ \A n \in 1 .. Len(i) : gsri[Len(gsr) + n] = i[n]
    <3>1. gsr \in Seq(A) /\ i \in Seq(A)
      BY <2>2, <1>1
    <3>2. QED BY <3>1
  <2>4. K = gsri \o c
    BY <1>4 DEF gsri, gsr, gs
  <2> HIDE DEF gsri
  <2>5. /\ K \in Seq(A) /\ Len(K) = Len(gsri) + Len(c)
        /\ \A n \in 1 .. Len(gsri) : K[n] = gsri[n]
    <3>1. gsri \in Seq(A) /\ c \in Seq(A)
      BY <2>3, <1>1
    <3>2. QED BY <3>1, <2>4
  <2>6. /\ Len(g) \in Nat /\ Len(s) \in Nat /\ Len(r) \in Nat /\ Len(i) \in Nat /\ Len(c) \in Nat
    BY <1>1, <1>2
  <2>7. Len(gs) = Len(g) + Len(s) /\ Len(gsr) = Len(gs) + Len(r) /\ Len(gsri) = Len(gsr) + 1
    BY <2>1, <2>2, <2>3, <1>3
  <2>8. ASSUME NEW n \in 1 .. Len(g) PROVE K[n] = g[n]
    <3>1. n \in 1 .. Len(gs) /\ n \in 1 .. Len(gsr) /\ n \in 1 .. Len(gsri)
      BY <2>6, <2>7
    <3>2. QED BY <3>1, <2>1, <2>2, <2>3, <2>5, Zenon
  <2>9. ASSUME NEW n \in 1 .. Len(s) PROVE K[Len(g) + n] = s[n]
    <3>1. /\ Len(g) + n \in 1 .. Len(gs) /\ Len(g) + n \in 1 .. Len(gsr)
          /\ Len(g) + n \in 1 .. Len(gsri)
      BY <2>6, <2>7
    <3>2. QED BY <3>1, <2>1, <2>2, <2>3, <2>5, Zenon
  <2>10. ASSUME NEW n \in 1 .. Len(i) PROVE K[Len(g) + Len(s) + Len(r) + n] = i[n]
    <3>1. Len(gsr) + n \in 1 .. Len(gsri) /\ Len(gsr) = Len(g) + Len(s) + Len(r)
      BY <2>6, <2>7, <1>3
    <3>2. K[Len(gsr) + n] = i[n]
      BY <3>1, <2>3, <2>5, Zenon
    <3>3. QED BY <3>1, <3>2, Zenon
  <2>11. Len(K) = Len(g) + Len(s) + Len(r) + Len(i) + Len(c)
    BY <2>1, <2>2, <2>3, <2>5, <2>6
  <2>12. QED BY <2>5, <2>8, <2>9, <2>10, <2>11, Zenon
<1>6. \A n \in 1 .. Len(K) : K[n] \in KeySet(d) /\ K[n] \in A
  BY <1>5 DEF KeySet, ToSet, K
<1>7. KeySet(d) \subseteq A
  BY <1>5 DEF KeySet, ToSet, K
<1>8. /\ Len(g) \in Nat /\ Len(s) \in Nat /\ Len(r) \in Nat /\ Len(i) \in Nat /\ Len(c) \in Nat
  BY <1>1, <1>2
<1>9. K # << >>
  BY <1>3, <1>5, <1>8
<1>10. d.group # NoGroup => K[1] = <<"group", d.group>>
  BY <1>3, <1>5
<1>11. (d.group = NoGroup /\ d.serial = NoGroup /\ d.related = << >>) => K[1] = <<"id", d.id>>
  <2> SUFFICES ASSUME d.group = NoGroup, d.serial = NoGroup, d.related = << >>
               PROVE  K[1] = <<"id", d.id>>
    OBVIOUS
  <2>1. Len(g) = 0 /\ Len(s) = 0 /\ Len(r) = 0
    BY <1>2, <1>3
  <2>2. K[Len(g) + Len(s) + Len(r) + 1] = i[1]
    BY <1>3, <1>5
  <2>3. QED BY <2>1, <2>2, <1>3
<1>12. d.serial # NoGroup => <<"serial", d.serial>> \in KeySet(d)
  <2> SUFFICES ASSUME d.serial # NoGroup PROVE <<"serial", d.serial>> \in KeySet(d)
    OBVIOUS
  <2>1. K[Len(g) + 1] = <<"serial", d.serial>> /\ Len(g) + 1 \in 1 .. Len(K)
    BY <1>3, <1>5, <1>8
  <2>2. QED BY <2>1, <1>6
<1>13. <<"id", d.id>> \in KeySet(d)
  <2>1. /\ K[Len(g) + Len(s) + Len(r) + 1] = <<"id", d.id>>
        /\ Len(g) + Len(s) + Len(r) + 1 \in 1 .. Len(K)
    BY <1>3, <1>5, <1>8
  <2>2. QED BY <2>1, <1>6
<1>14. (d.group = NoGroup /\ d.serial = NoGroup /\ d.related = << >> /\ d.com = NoCom) => Len(K) = 1
  BY <1>2, <1>3, <1>5
<1>15. \A key : key \in KeySet(d) <=> \E n \in 1 .. Len(K) : K[n] = key
  <2>1. DOMAIN K = 1 .. Len(K)
    BY <1>5
  <2>2. KeySet(d) = {K[n] : n \in DOMAIN K}
    BY DEF KeySet, ToSet, K
  <2>3. QED BY ONLY <2>1, <2>2
<1>16. QED BY <1>5, <1>7, <1>9, <1>10, <1>11, <1>12, <1>13, <1>14, <1>15 DEF K, A

-----------------------------------------------------------------------------
\* Devices of one adapter have the same decisive key, others another.
LEMMA SameSwitch ==
  ASSUME NEW x \in Ids, NEW y \in Ids, AdapterOf[x] = AdapterOf[y]
  PROVE  Decisive(x) = Decisive(y)
<1>1. CASE Group[x] = NoGroup /\ Group[y] = NoGroup
  BY <1>1 DEF AdapterOf
<1>2. CASE Group[x] # NoGroup /\ Group[y] # NoGroup
  BY <1>2 DEF AdapterOf, Decisive
<1>3. CASE Group[x] = NoGroup /\ Group[y] # NoGroup
  BY <1>3, MonitoringAssumption DEF AdapterOf
<1>4. CASE Group[x] # NoGroup /\ Group[y] = NoGroup
  BY <1>4, MonitoringAssumption DEF AdapterOf
<1>5. QED BY <1>1, <1>2, <1>3, <1>4

FirstKey(d) == DeviceMonitorKeys(d)[1]

\* What a listing knows of a device: its keys contain the decisive one as the
\* first, its own id and serial, and no decisive key of another adapter.
LEMMA SnapshotKeys ==
  ASSUME NEW id \in Ids, NEW present \in SUBSET Ids, NEW com \in ComNames \cup {NoCom},
         NEW d, d = Snapshot(id, present, com)
  PROVE  /\ d.related \in Seq(Ids)
         /\ DeviceMonitorKeys(d) # << >> /\ FirstKey(d) = Decisive(id)
         /\ <<"id", id>> \in KeySet(d)
         /\ Group[id] # NoGroup => <<"serial", Group[id]>> \in KeySet(d)
         /\ \A other \in Ids : Decisive(other) \in KeySet(d) <=> AdapterOf[other] = AdapterOf[id]
         /\ \A g : g # NoGroup =>
              (<<"group", g>> \in KeySet(d) <=> <<"serial", g>> \in KeySet(d))
         /\ KeySet(d) \subseteq Keys
<1> DEFINE R == Relatives(id, present)
<1>1. /\ d.id = id /\ d.group = Group[id] /\ d.serial = Group[id] /\ d.com = com
      /\ d.related \in Seq(R)
      /\ Group[id] = NoGroup => d.related = << >>
  <2>1. IsFiniteSet(R)
    BY FS_Subset, MonitoringAssumption DEF Relatives
  <2>2. SetToSeq(R) \in Seq(R)
    BY <2>1, SeqOfSet
  <2>3. Group[id] = NoGroup => R = {}
    BY DEF Relatives
  <2>4. R = {} => SetToSeq(R) = << >>
    BY <2>2
  <2>5. QED BY <2>2, <2>3, <2>4 DEF Snapshot, Device
<1>2. R \subseteq Ids /\ \A r \in R : Group[r] = Group[id] /\ Group[id] # NoGroup
  BY DEF Relatives
<1> HIDE DEF R
<1>3. d.related \in Seq(Ids) /\ \A i \in 1 .. Len(d.related) : d.related[i] \in R
  BY <1>1, <1>2
<1>4. DeviceMonitorKeys(d) # << >> /\ DeviceMonitorKeys(d)[1] = Decisive(id)
  <2>1. DeviceMonitorKeys(d) # << >>
    BY <1>1, KeyOrder
  <2>2. d.group # NoGroup => DeviceMonitorKeys(d)[1] = <<"group", d.group>>
    BY <1>1, KeyOrder, Zenon
  <2>3. (d.group = NoGroup /\ d.serial = NoGroup /\ d.related = << >>)
           => DeviceMonitorKeys(d)[1] = <<"id", d.id>>
    BY <1>1, KeyOrder, Zenon
  <2>4. QED BY <1>1, <2>1, <2>2, <2>3 DEF Decisive
<1>5. <<"id", id>> \in KeySet(d) /\ (Group[id] # NoGroup => <<"serial", Group[id]>> \in KeySet(d))
  BY <1>1, KeyOrder
<1>6. KeySet(d) \subseteq AnyKeys(d)
  BY <1>1, KeyOrder
<1>7. Decisive(id) \in KeySet(d)
  <2>1. DeviceMonitorKeys(d) \in Seq(AnyKeys(d))
    BY <1>1, KeyOrder
  <2>2. 1 \in 1 .. Len(DeviceMonitorKeys(d))
    BY <2>1, <1>4
  <2>3. QED BY <2>2, <1>4, <1>1, KeyOrder
<1>8. ASSUME NEW other \in Ids, Decisive(other) \in KeySet(d)
      PROVE  AdapterOf[other] = AdapterOf[id]
  <2>1. Decisive(other) \in AnyKeys(d)
    BY <1>6, <1>8
  <2>2. CASE Group[other] # NoGroup
    <3>1. <<"group", Group[other]>> \in AnyKeys(d)
      BY <2>1, <2>2 DEF Decisive
    <3>2. Group[other] = Group[id]
      BY <3>1, <1>1 DEF AnyKeys
    <3>3. QED BY <3>2, <2>2 DEF AdapterOf
  <2>3. CASE Group[other] = NoGroup
    <3>1. <<"id", other>> \in AnyKeys(d)
      BY <2>1, <2>3 DEF Decisive
    <3>2. other = id \/ other \in R
      BY <3>1, <1>1, <1>3 DEF AnyKeys
    <3>3. QED BY <3>2, <1>2, <2>3
  <2>4. QED BY <2>2, <2>3
<1>9. ASSUME NEW other \in Ids, AdapterOf[other] = AdapterOf[id]
      PROVE  Decisive(other) \in KeySet(d)
  BY <1>7, <1>9, SameSwitch
<1>10. ASSUME NEW g, g # NoGroup
       PROVE  <<"group", g>> \in KeySet(d) <=> <<"serial", g>> \in KeySet(d)
  <2>1. <<"group", g>> \in KeySet(d) => g = Group[id]
    BY <1>6, <1>1 DEF AnyKeys
  <2>2. <<"serial", g>> \in KeySet(d) => g = Group[id]
    BY <1>6, <1>1 DEF AnyKeys
  <2>3. g = Group[id] => <<"group", g>> \in KeySet(d) /\ <<"serial", g>> \in KeySet(d)
    BY <1>5, <1>7, <1>10 DEF Decisive
  <2>4. QED BY <2>1, <2>2, <2>3
<1>11. KeySet(d) \subseteq Keys
  <2>1. AnyKeys(d) \subseteq Keys
    BY <1>1, <1>3 DEF AnyKeys, Keys
  <2>2. QED BY <2>1, <1>6
<1>12. FirstKey(d) = Decisive(id)
  BY <1>4 DEF FirstKey
<1>13. QED BY <1>3, <1>4, <1>5, <1>8, <1>9, <1>10, <1>11, <1>12

\* A parent row has its id as the only key.
LEMMA ParentKeys ==
  ASSUME NEW p \in Ids, NEW d, d = ParentDeviceSnapshot(p)
  PROVE  KeySet(d) = {<<"id", p>>}
<1>1. /\ d.id = p /\ d.group = NoGroup /\ d.serial = NoGroup /\ d.com = NoCom
      /\ d.related = << >> /\ d.related \in Seq(Ids)
  BY DEF ParentDeviceSnapshot, Device
<1>2. KeySet(d) \subseteq AnyKeys(d) /\ <<"id", p>> \in KeySet(d)
  BY <1>1, KeyOrder
<1>3. AnyKeys(d) = {<<"id", p>>}
  BY <1>1 DEF AnyKeys
<1>4. QED BY <1>2, <1>3

\* An ETW record has the serial and the id.
LEMMA ETWKeys ==
  ASSUME NEW id \in Ids, NEW d, d = DeviceFromETW(id)
  PROVE  /\ <<"id", id>> \in KeySet(d)
         /\ Group[id] # NoGroup => <<"serial", Group[id]>> \in KeySet(d)
<1>1. /\ d.id = id /\ d.serial = Group[id] /\ d.related \in Seq(Ids)
  BY DEF DeviceFromETW, Device
<1>2. QED BY <1>1, KeyOrder

\* A device whose first key has a choice shows that choice.
LEMMA FirstDecides ==
  ASSUME NEW d, DeviceMonitorKeys(d) # << >>, NEW R, DeviceMonitorKeys(d) \in Seq(R),
         DeviceMonitorKeys(d)[1] \in DOMAIN monitoredByKey
  PROVE  IsMonitored(d) <=> IsMonitoredKey(DeviceMonitorKeys(d)[1])
<1> DEFINE keys == DeviceMonitorKeys(d)
<1>1. /\ 1 \in DOMAIN keys
      /\ \A i \in DOMAIN keys : i \in Nat /\ (i # 1 => 1 \in 1 .. i - 1)
      /\ \A j \in 1 .. 1 - 1 : FALSE
  OBVIOUS
<1> HIDE DEF keys
<1>2. IsMonitored(d) <=>
        \A i \in DOMAIN keys :
          (keys[i] \in DOMAIN monitoredByKey
            /\ \A j \in 1 .. i - 1 : keys[j] \notin DOMAIN monitoredByKey)
              => monitoredByKey[keys[i]]
  BY Zenon DEF IsMonitored, keys
<1>3. IsMonitoredKey(keys[1]) <=> monitoredByKey[keys[1]]
  BY Zenon DEF IsMonitoredKey, keys
<1>4. IsMonitored(d) => monitoredByKey[keys[1]]
  BY <1>1, <1>2, Zenon DEF keys
<1>5. ASSUME monitoredByKey[keys[1]], NEW i \in DOMAIN keys,
             \A j \in 1 .. i - 1 : keys[j] \notin DOMAIN monitoredByKey
      PROVE  monitoredByKey[keys[i]]
  <2>1. i = 1
    BY <1>1, <1>5, Zenon DEF keys
  <2>2. QED BY <1>5, <2>1, Zenon
<1>6. QED BY <1>2, <1>3, <1>4, <1>5, Zenon DEF keys

\* A row that shows as unchecked has a key that is switched off.
LEMMA SomeKeyOff ==
  ASSUME NEW d, NEW R, d.related \in Seq(R), ~IsMonitored(d)
  PROVE  \E key \in KeySet(d) : ~IsMonitoredKey(key)
<1> DEFINE keys == DeviceMonitorKeys(d)
<1>1. PICK i \in DOMAIN keys : keys[i] \in DOMAIN monitoredByKey /\ ~monitoredByKey[keys[i]]
  BY Zenon DEF IsMonitored
<1>2. keys \in Seq(AnyKeys(d))
  BY KeyOrder
<1>3. i \in 1 .. Len(keys)
  BY <1>2
<1>4. keys[i] \in KeySet(d)
  BY <1>3, KeyOrder
<1>5. QED BY <1>1, <1>4, Zenon DEF IsMonitoredKey

-----------------------------------------------------------------------------
\* What a state of the invariant says of a row.
LEMMA ListedRow ==
  ASSUME IInv, NEW id \in DOMAIN listed
  PROVE  /\ id \in Ids
         /\ \E present \in SUBSET Ids, com \in ComNames \cup {NoCom} :
              listed[id] = Snapshot(id, present, com)
         /\ IsMonitored(listed[id]) <=> IsMonitoredKey(Decisive(id))
<1>1. id \in Ids
  BY DEF IInv, TypeOK
<1>2. PICK present \in SUBSET Ids, com \in ComNames \cup {NoCom} :
        listed[id] = Snapshot(id, present, com)
  BY DEF IInv, Enumerated
<1> DEFINE d == listed[id]
<1>. d = Snapshot(id, present, com) /\ d \in Range(listed)
  BY <1>2 DEF Range
<1> HIDE DEF d
<1>3. /\ d.related \in Seq(Ids) /\ DeviceMonitorKeys(d) # << >>
      /\ DeviceMonitorKeys(d)[1] = Decisive(id)
      /\ Decisive(id) \in KeySet(d)
  <2>1. \A other \in Ids : Decisive(other) \in KeySet(d) <=> AdapterOf[other] = AdapterOf[id]
    BY <1>1, SnapshotKeys
  <2>2. d.related \in Seq(Ids) /\ DeviceMonitorKeys(d) # << >>
    BY <1>1, SnapshotKeys
  <2>3. FirstKey(d) = Decisive(id)
    BY <1>1, SnapshotKeys
  <2>4. QED BY <1>1, <2>1, <2>2, <2>3 DEF FirstKey
<1>4. Decisive(id) \in DOMAIN monitoredByKey
  BY <1>3 DEF IInv, TypeOK
<1>5. DeviceMonitorKeys(d) \in Seq(AnyKeys(d))
  BY <1>3, KeyOrder
<1>6. IsMonitored(d) <=> IsMonitoredKey(Decisive(id))
  BY <1>3, <1>4, <1>5, FirstDecides
<1>7. QED BY <1>1, <1>2, <1>6 DEF d

\* Registering keys changes no choice.
LEMMA RegisterKeeps ==
  ASSUME NEW devices, monitoredByKey' = Registered(devices), NEW key
  PROVE  IsMonitoredKey(key)' <=> IsMonitoredKey(key)
<1> DEFINE D == DOMAIN monitoredByKey \cup UNION {KeySet(d) : d \in devices}
<1>1. DOMAIN monitoredByKey' = D /\ \A k \in D : monitoredByKey'[k] = IsMonitoredKey(k)
  BY DEF Registered
<1>2. CASE key \in D
  <2>1. key \in DOMAIN monitoredByKey' /\ monitoredByKey'[key] = IsMonitoredKey(key)
    BY <1>1, <1>2, Zenon
  <2>2. QED BY <2>1, Zenon DEF IsMonitoredKey
<1>3. CASE key \notin D
  BY <1>1, <1>3 DEF IsMonitoredKey
<1>4. QED BY <1>2, <1>3

\* A click changes the choice of the keys of its row.
LEMMA ClickSets ==
  ASSUME NEW d, NEW checked \in BOOLEAN, monitoredByKey' = Chosen(d, checked), NEW key
  PROVE  /\ key \in KeySet(d) => (IsMonitoredKey(key)' <=> checked)
         /\ key \notin KeySet(d) => (IsMonitoredKey(key)' <=> IsMonitoredKey(key))
<1> DEFINE D == DOMAIN monitoredByKey \cup KeySet(d)
<1>1. /\ DOMAIN monitoredByKey' = D
      /\ \A k \in D : monitoredByKey'[k] = IF k \in KeySet(d) THEN checked ELSE monitoredByKey[k]
  BY DEF Chosen
<1>2. CASE key \in KeySet(d)
  <2>1. key \in D /\ monitoredByKey'[key] = checked
    BY <1>1, <1>2
  <2>2. QED BY <1>1, <1>2, <2>1, Zenon DEF IsMonitoredKey
<1>3. CASE key \notin KeySet(d)
  <2>1. key \in DOMAIN monitoredByKey' <=> key \in DOMAIN monitoredByKey
    BY <1>1, <1>3
  <2>2. key \in DOMAIN monitoredByKey => monitoredByKey'[key] = monitoredByKey[key]
    BY <1>1, <1>3
  <2>3. QED BY <1>3, <2>1, <2>2, Zenon DEF IsMonitoredKey
<1>4. QED BY <1>2, <1>3

\* Where a row comes from, and the keys it has.
LEMMA RowKeys ==
  ASSUME IInv, NEW d \in RowDevices
  PROVE  \E id \in Ids :
           /\ d.id = id
           /\ d.related \in Seq(Ids)
           /\ KeySet(d) \subseteq Keys
           /\ \/ \A other \in Ids : Decisive(other) \in KeySet(d) <=> AdapterOf[other] = AdapterOf[id]
              \/ \A other \in Ids : Decisive(other) \notin KeySet(d)
           /\ \A g : g # NoGroup =>
                (<<"group", g>> \in KeySet(d) <=> <<"serial", g>> \in KeySet(d))
           /\ \/ d = ParentDeviceSnapshot(id)
              \/ id \in DOMAIN listed /\ d = listed[id]
<1>1. CASE \E id \in DOMAIN listed : d = listed[id]
  <2>1. PICK id \in DOMAIN listed : d = listed[id]
    BY <1>1
  <2>2. id \in Ids
    BY <2>1, ListedRow
  <2>3. PICK present \in SUBSET Ids, com \in ComNames \cup {NoCom} : d = Snapshot(id, present, com)
    BY <2>1, ListedRow
  <2>4. d.id = id
    BY <2>3 DEF Snapshot, Device
  <2>5. /\ d.related \in Seq(Ids) /\ KeySet(d) \subseteq Keys
        /\ \A other \in Ids : Decisive(other) \in KeySet(d) <=> AdapterOf[other] = AdapterOf[id]
        /\ \A g : g # NoGroup =>
             (<<"group", g>> \in KeySet(d) <=> <<"serial", g>> \in KeySet(d))
    BY <2>2, <2>3, SnapshotKeys
  <2>6. QED BY <2>1, <2>2, <2>4, <2>5, Zenon
<1>2. CASE \E p \in Ids : d = ParentDeviceSnapshot(p)
  <2>1. PICK p \in Ids : d = ParentDeviceSnapshot(p)
    BY <1>2
  <2>2. KeySet(d) = {<<"id", p>>}
    BY <2>1, ParentKeys
  <2>3. d.id = p /\ d.related \in Seq(Ids)
    BY <2>1 DEF ParentDeviceSnapshot, Device
  <2>4. KeySet(d) \subseteq Keys
    BY <2>2 DEF Keys
  <2>5. \A g : <<"group", g>> \notin KeySet(d) /\ <<"serial", g>> \notin KeySet(d)
    BY <2>2
  <2>6. \A other \in Ids : Decisive(other) \in KeySet(d) <=> other = p /\ Group[p] = NoGroup
    BY <2>2 DEF Decisive
  <2>7. CASE Group[p] = NoGroup
    <3>1. \A other \in Ids : AdapterOf[other] = AdapterOf[p] => Decisive(other) = Decisive(p)
      BY SameSwitch
    <3>2. \A other \in Ids : AdapterOf[other] = AdapterOf[p] => Decisive(other) \in KeySet(d)
      BY <3>1, <2>6, <2>7
    <3>3. QED BY <3>2, <2>1, <2>3, <2>4, <2>5, <2>6, Zenon
  <2>8. CASE Group[p] # NoGroup
    BY <2>1, <2>3, <2>4, <2>5, <2>6, <2>8, Zenon
  <2>9. QED BY <2>7, <2>8
<1>3. QED
  <2>1. \A id \in DOMAIN listed : Parents[id] \subseteq Ids
    BY MonitoringAssumption DEF IInv, TypeOK
  <2>2. QED BY <1>1, <1>2, <2>1 DEF RowDevices

-----------------------------------------------------------------------------
\* What a listing says of a device has the type of the list's items.
LEMMA SnapshotIsDevice ==
  ASSUME NEW id \in Ids, NEW present \in SUBSET Ids, NEW com \in ComNames \cup {NoCom}
  PROVE  Snapshot(id, present, com) \in Devices
<1> DEFINE d == Snapshot(id, present, com)
<1>1. d.related \in Seq(Ids)
  BY SnapshotKeys
<1>2. SetToSeq(Relatives(id, present)) \in Seq(Ids)
  BY <1>1 DEF Snapshot, Device
<1>3. QED BY <1>2 DEF Snapshot, Device, Devices

\* Nothing is listed and nothing chosen at first (newDeviceTableModel).
LEMMA InitIInv == Init => IInv
<1> SUFFICES ASSUME Init PROVE IInv
  OBVIOUS
<1>1. /\ DOMAIN attached = {} /\ DOMAIN listed = {} /\ DOMAIN monitoredByKey = {}
  BY DEF Init, Nothing
<1>2. TypeOK
  BY <1>1 DEF TypeOK, Range
<1>3. \A key : IsMonitoredKey(key)
  BY <1>1 DEF IsMonitoredKey
<1>4. Enumerated /\ Paired
  BY <1>1, <1>3 DEF Enumerated, Paired
<1>5. QED BY <1>2, <1>4 DEF IInv

\* Plugging leaves list and choices alone, a refresh changes no choice, and a
\* click sets group and serial of an adapter together.
LEMMA StepIInv == IInv /\ [Next]_vars => IInv'
<1> SUFFICES ASSUME IInv, [Next]_vars PROVE IInv'
  OBVIOUS
<1>1. /\ DOMAIN attached \subseteq Ids
      /\ \A i \in DOMAIN attached : attached[i] \in ComNames \cup {NoCom}
  BY DEF IInv, TypeOK, Range
<1>2. ASSUME UNCHANGED <<listed, monitoredByKey>>,
             DOMAIN attached' \subseteq Ids,
             \A i \in DOMAIN attached' : attached'[i] \in ComNames \cup {NoCom}
      PROVE  IInv'
  <2>1. Range(attached') \subseteq ComNames \cup {NoCom}
    BY <1>2 DEF Range
  <2>2. TypeOK'
    BY <1>2, <2>1 DEF IInv, TypeOK, KeySet, DeviceMonitorKeys, KeyIf, RelatedKeys
  <2>3. Enumerated' /\ Paired'
    BY <1>2 DEF IInv, Enumerated, Paired, IsMonitoredKey
  <2>4. QED BY <2>2, <2>3 DEF IInv
<1>3. ASSUME NEW id \in Ids, NEW com \in ComNames \cup {NoCom}, Plug(id, com) PROVE IInv'
  <2>1. /\ DOMAIN attached' = DOMAIN attached \cup {id}
        /\ \A i \in DOMAIN attached' : attached'[i] = IF i = id THEN com ELSE attached[i]
        /\ UNCHANGED <<listed, monitoredByKey>>
    BY <1>3 DEF Plug
  <2>2. QED BY <2>1, <1>1, <1>2
<1>4. ASSUME NEW id \in Ids, Unplug(id) PROVE IInv'
  <2>1. /\ DOMAIN attached' = DOMAIN attached \ {id}
        /\ \A i \in DOMAIN attached' : attached'[i] = attached[i]
        /\ UNCHANGED <<listed, monitoredByKey>>
    BY <1>4 DEF Unplug, Restrict
  <2>2. QED BY <2>1, <1>1, <1>2
<1>5. ASSUME NEW kept \in SUBSET DOMAIN attached, Set(kept) PROVE IInv'
  <2>1. /\ attached' = attached
        /\ DOMAIN listed' = kept /\ kept \subseteq DOMAIN attached
        /\ \A i \in kept : listed'[i] = Snapshot(i, DOMAIN attached, attached[i])
        /\ monitoredByKey' = Registered(Range(listed'))
    BY <1>5 DEF Set
  <2>2. \A key : IsMonitoredKey(key)' <=> IsMonitoredKey(key)
    BY <2>1, RegisterKeeps
  <2>3. \A d \in Range(listed') :
          \E i \in DOMAIN attached : d = Snapshot(i, DOMAIN attached, attached[i])
    BY <2>1 DEF Range
  <2>4. Enumerated'
    BY <2>1, <1>1 DEF Enumerated
  <2>5. Paired'
    BY <2>2 DEF IInv, Paired
  <2>6. Range(listed') \subseteq Devices
    BY <2>3, <1>1, SnapshotIsDevice
  <2>7. ASSUME NEW d \in Range(listed') PROVE KeySet(d) \subseteq Keys
    <3>1. PICK i \in Ids, present \in SUBSET Ids, com \in ComNames \cup {NoCom} :
            d = Snapshot(i, present, com)
      BY <2>3, <1>1
    <3>2. QED BY <3>1, SnapshotKeys
  <2>8. /\ DOMAIN monitoredByKey' = DOMAIN monitoredByKey \cup UNION {KeySet(d) : d \in Range(listed')}
        /\ \A key \in DOMAIN monitoredByKey' : monitoredByKey'[key] = IsMonitoredKey(key)
    BY <2>1 DEF Registered
  <2>9. DOMAIN monitoredByKey' \subseteq Keys
    BY <2>7, <2>8 DEF IInv, TypeOK
  <2>10. Range(monitoredByKey') \subseteq BOOLEAN
    <3>1. \A key : IsMonitoredKey(key) \in BOOLEAN
      BY DEF IsMonitoredKey
    <3>2. QED BY <3>1, <2>8 DEF Range
  <2>11. \A d \in Range(listed') : KeySet(d) \subseteq DOMAIN monitoredByKey'
    BY <2>8
  <2>12. TypeOK'
    <3>1. Range(attached') \subseteq ComNames \cup {NoCom} /\ DOMAIN attached' \subseteq Ids
      BY <2>1 DEF IInv, TypeOK
    <3>2. QED BY <3>1, <2>1, <1>1, <2>6, <2>9, <2>10, <2>11
              DEF TypeOK, KeySet, DeviceMonitorKeys, KeyIf, RelatedKeys
  <2>13. QED BY <2>4, <2>5, <2>12 DEF IInv
<1>6. ASSUME NEW d \in RowDevices, NEW checked \in BOOLEAN, SetChecked(d, checked) PROVE IInv'
  <2>1. /\ monitoredByKey' = Chosen(d, checked)
        /\ attached' = attached /\ listed' = listed
    BY <1>6 DEF SetChecked
  <2>2. PICK id \in Ids :
          /\ KeySet(d) \subseteq Keys
          /\ \A g : g # NoGroup =>
               (<<"group", g>> \in KeySet(d) <=> <<"serial", g>> \in KeySet(d))
    BY RowKeys
  <2>3. Enumerated'
    BY <2>1 DEF IInv, Enumerated
  <2>4. Paired'
    <3>1. SUFFICES ASSUME NEW x \in Ids, Group[x] # NoGroup
                   PROVE  IsMonitoredKey(<<"group", Group[x]>>)' <=> IsMonitoredKey(<<"serial", Group[x]>>)'
      BY DEF Paired
    <3>2. IsMonitoredKey(<<"group", Group[x]>>) <=> IsMonitoredKey(<<"serial", Group[x]>>)
      BY <3>1 DEF IInv, Paired
    <3>3. QED BY <3>1, <3>2, <2>1, <2>2, ClickSets
  <2>5. /\ DOMAIN monitoredByKey' = DOMAIN monitoredByKey \cup KeySet(d)
        /\ \A key \in DOMAIN monitoredByKey' :
             monitoredByKey'[key] = IF key \in KeySet(d) THEN checked ELSE monitoredByKey[key]
    BY <2>1 DEF Chosen
  <2>6. DOMAIN monitoredByKey' \subseteq Keys /\ Range(monitoredByKey') \subseteq BOOLEAN
    BY <2>2, <2>5 DEF IInv, TypeOK, Range
  <2>7. TypeOK'
    <3>1. \A e \in Range(listed') : KeySet(e) \subseteq DOMAIN monitoredByKey'
      BY <2>1, <2>5 DEF IInv, TypeOK
    <3>2. QED BY <3>1, <2>1, <2>6
              DEF IInv, TypeOK, KeySet, DeviceMonitorKeys, KeyIf, RelatedKeys
  <2>8. QED BY <2>3, <2>4, <2>7 DEF IInv
<1>7. CASE UNCHANGED vars
  BY <1>7, <1>1, <1>2 DEF vars
<1>8. QED BY <1>3, <1>4, <1>5, <1>6, <1>7 DEF Next

-----------------------------------------------------------------------------
\* The inductive invariant holds in every reachable state.
THEOREM Invariance == Spec => []IInv
<1>1. QED BY InitIInv, StepIInv, PTL DEF Spec

\* Type correctness, and every key of a listed device is registered.
THEOREM TypeCorrect == Spec => []TypeOK
<1>1. IInv => TypeOK
  BY DEF IInv
<1>2. QED BY <1>1, Invariance, PTL

\* The switch of an adapter is that of the decisive key of any of its devices.
LEMMA OffIsDecisive ==
  ASSUME NEW id \in Ids
  PROVE  AdapterOf[id] \in Off <=> ~IsMonitoredKey(Decisive(id))
<1>1. AdapterOf[id] \in Off <=>
        \E x \in Ids : ~IsMonitoredKey(Decisive(x)) /\ AdapterOf[x] = AdapterOf[id]
  BY Zenon DEF Off
<1>2. \A x \in Ids : AdapterOf[x] = AdapterOf[id] => Decisive(x) = Decisive(id)
  BY SameSwitch
<1>3. QED BY <1>1, <1>2, Zenon

\* The check box of a listed device shows the switch of its adapter.
THEOREM CheckBoxes == Spec => []CheckBoxShowsSwitch
<1>1. IInv => CheckBoxShowsSwitch
  <2>1. ASSUME IInv, NEW id \in DOMAIN listed
        PROVE  IsMonitored(listed[id]) <=> AdapterOf[id] \notin Off
    <3>1. id \in Ids /\ (IsMonitored(listed[id]) <=> IsMonitoredKey(Decisive(id)))
      BY <2>1, ListedRow
    <3>2. QED BY <3>1, OffIsDecisive, Zenon
  <2>2. QED BY <2>1 DEF CheckBoxShowsSwitch
<1>2. QED BY <1>1, Invariance, PTL

\* No event of a row that shows as unchecked is heard, however its source
\* identifies the device.
THEOREM Silence == Spec => []UncheckedIsSilent
<1>1. IInv => UncheckedIsSilent
  <2> SUFFICES ASSUME IInv, NEW row \in RowDevices, ~IsMonitored(row),
                      NEW d \in Identities(row.id)
               PROVE  ~IsEventMonitored(d)
    BY DEF UncheckedIsSilent
  <2>1. PICK id \in Ids :
          /\ row.id = id /\ row.related \in Seq(Ids)
          /\ row = ParentDeviceSnapshot(id) \/ (id \in DOMAIN listed /\ row = listed[id])
    BY RowKeys
  <2>2. /\ <<"id", id>> \in KeySet(d)
        /\ Group[id] # NoGroup => \/ Decisive(id) \in KeySet(d)
                                  \/ <<"serial", Group[id]>> \in KeySet(d)
    <3>1. CASE d = DeviceFromETW(id)
      BY <3>1, ETWKeys
    <3>2. ASSUME NEW present \in SUBSET Ids, NEW com \in ComNames \cup {NoCom},
                 d = Snapshot(id, present, com)
          PROVE  /\ <<"id", id>> \in KeySet(d)
                 /\ Group[id] # NoGroup => <<"serial", Group[id]>> \in KeySet(d)
      BY <3>2, SnapshotKeys
    <3>3. QED BY <2>1, <3>1, <3>2 DEF Identities
  <2>3. CASE row = ParentDeviceSnapshot(id)
    <3>1. KeySet(row) = {<<"id", id>>}
      BY <2>3, ParentKeys
    <3>2. ~IsMonitoredKey(<<"id", id>>)
      <4>1. \E key \in KeySet(row) : ~IsMonitoredKey(key)
        BY <2>1, SomeKeyOff
      <4>2. QED BY <4>1, <3>1
    <3>3. QED BY <3>2, <2>2, Zenon DEF IsEventMonitored
  <2>4. CASE id \in DOMAIN listed /\ row = listed[id]
    <3>1. ~IsMonitoredKey(Decisive(id))
      BY <2>4, ListedRow
    <3>2. CASE Group[id] = NoGroup
      BY <3>1, <3>2, <2>2 DEF IsEventMonitored, Decisive
    <3>3. CASE Group[id] # NoGroup
      <4>1. ~IsMonitoredKey(<<"group", Group[id]>>) /\ Decisive(id) = <<"group", Group[id]>>
        BY <3>1, <3>3 DEF Decisive
      <4>2. ~IsMonitoredKey(<<"serial", Group[id]>>)
        BY <4>1, <3>3 DEF IInv, Paired
      <4>3. QED BY <3>1, <3>3, <4>2, <2>2, Zenon DEF IsEventMonitored
    <3>4. QED BY <3>2, <3>3
  <2>5. QED BY <2>1, <2>3, <2>4
<1>2. QED BY <1>1, Invariance, PTL

\* The keys implement one switch per adapter.
THEOREM Refinement == Spec => ChoiceSpec
<1>1. Init => Choice!Init
  <2> SUFFICES ASSUME Init PROVE Choice!Init
    OBVIOUS
  <2>1. DOMAIN listed = {} /\ DOMAIN monitoredByKey = {}
    BY DEF Init, Nothing
  <2>2. \A key : IsMonitoredKey(key)
    BY <2>1 DEF IsMonitoredKey
  <2>3. Off = {}
    BY <2>2, Zenon DEF Off
  <2>4. QED BY <2>1, <2>3 DEF Choice!Init
<1>2. IInv /\ [Next]_vars => [Choice!Next]_Choice!vars
  <2> SUFFICES ASSUME IInv, [Next]_vars PROVE [Choice!Next]_Choice!vars
    OBVIOUS
  <2>1. ASSUME \A key : IsMonitoredKey(key)' <=> IsMonitoredKey(key) PROVE Off' = Off
    BY <2>1, Zenon DEF Off, Decisive
  <2>2. ASSUME UNCHANGED <<listed, monitoredByKey>> PROVE UNCHANGED Choice!vars
    <3>1. Off' = Off
      BY <2>1, <2>2 DEF IsMonitoredKey
    <3>2. QED BY <2>2, <3>1 DEF Choice!vars
  <2>3. ASSUME NEW id \in Ids, NEW com \in ComNames \cup {NoCom}, Plug(id, com)
        PROVE  UNCHANGED Choice!vars
    BY <2>2, <2>3 DEF Plug
  <2>4. ASSUME NEW id \in Ids, Unplug(id) PROVE UNCHANGED Choice!vars
    BY <2>2, <2>4 DEF Unplug
  <2>5. ASSUME NEW kept \in SUBSET DOMAIN attached, Set(kept) PROVE Choice!Next
    <3>1. monitoredByKey' = Registered(Range(listed')) /\ DOMAIN listed' \subseteq DOMAIN attached
      BY <2>5 DEF Set
    <3>2. Off' = Off
      BY <3>1, <2>1, RegisterKeeps
    <3>3. DOMAIN listed' \in SUBSET Ids
      BY <3>1 DEF IInv, TypeOK
    <3>4. QED BY <3>2, <3>3 DEF Choice!Next, Choice!Refresh
  <2>6. ASSUME NEW d \in RowDevices, NEW checked \in BOOLEAN, SetChecked(d, checked)
        PROVE  Choice!Next
    <3>1. monitoredByKey' = Chosen(d, checked) /\ listed' = listed
      BY <2>6 DEF SetChecked
    <3>2. PICK id \in Ids :
            \/ \A x \in Ids : Decisive(x) \in KeySet(d) <=> AdapterOf[x] = AdapterOf[id]
            \/ \A x \in Ids : Decisive(x) \notin KeySet(d)
      BY RowKeys
    <3>3. \A x \in Ids : /\ Decisive(x) \in KeySet(d) => (IsMonitoredKey(Decisive(x))' <=> checked)
                         /\ Decisive(x) \notin KeySet(d) =>
                              (IsMonitoredKey(Decisive(x))' <=> IsMonitoredKey(Decisive(x)))
      BY <3>1, ClickSets
    <3>4. Off' \in {Off, Off \cup {AdapterOf[id]}, Off \ {AdapterOf[id]}}
      <4> DEFINE On == {y \in Ids : IsMonitoredKey(Decisive(y))}
      <4>1. /\ Off = {AdapterOf[x] : x \in Ids \ On}
            /\ Off' = {AdapterOf[x] : x \in Ids \ On'}
        BY DEF Off, AdapterOf
      <4>2. /\ \A a : a \in Off <=> \E x \in Ids : x \notin On /\ a = AdapterOf[x]
            /\ \A a : a \in Off' <=> \E x \in Ids : x \notin On' /\ a = AdapterOf[x]
        BY <4>1, Zenon
      <4> HIDE DEF On
      <4>3. CASE \A x \in Ids : Decisive(x) \notin KeySet(d)
        <5>1. \A x \in Ids : x \in On' <=> x \in On
          BY <3>3, <4>3 DEF On
        <5>2. QED BY <5>1, <4>1
      <4>4. CASE \A x \in Ids : Decisive(x) \in KeySet(d) <=> AdapterOf[x] = AdapterOf[id]
        <5>1. \A x \in Ids : /\ checked /\ AdapterOf[x] = AdapterOf[id] => x \in On'
                             /\ ~checked /\ AdapterOf[x] = AdapterOf[id] => x \notin On'
                             /\ AdapterOf[x] # AdapterOf[id] => (x \in On' <=> x \in On)
          BY <3>3, <4>4 DEF On
        <5>2. CASE checked
          <6>1. ASSUME NEW a \in Off' PROVE a \in Off /\ a # AdapterOf[id]
            <7>1. PICK x \in Ids : x \notin On' /\ a = AdapterOf[x]
              BY <6>1, <4>2, Zenon
            <7>2. AdapterOf[x] # AdapterOf[id]
              BY <7>1, <5>1, <5>2, Zenon
            <7>3. QED BY <7>1, <7>2, <5>1, <4>2, Zenon
          <6>2. ASSUME NEW a \in Off, a # AdapterOf[id] PROVE a \in Off'
            <7>1. PICK x \in Ids : x \notin On /\ a = AdapterOf[x]
              BY <6>2, <4>2, Zenon
            <7>2. QED BY <6>2, <7>1, <5>1, <4>2, Zenon
          <6>3. Off' = Off \ {AdapterOf[id]}
            BY <6>1, <6>2
          <6>4. QED BY <6>3
        <5>3. CASE ~checked
          <6>1. ASSUME NEW a \in Off' PROVE a \in Off \/ a = AdapterOf[id]
            <7>1. PICK x \in Ids : x \notin On' /\ a = AdapterOf[x]
              BY <6>1, <4>2, Zenon
            <7>2. QED BY <7>1, <5>1, <4>2, Zenon
          <6>2. ASSUME NEW a \in Off PROVE a \in Off'
            <7>1. PICK x \in Ids : x \notin On /\ a = AdapterOf[x]
              BY <6>2, <4>2, Zenon
            <7>2. x \notin On'
              BY <7>1, <5>1, <5>3, Zenon
            <7>3. QED BY <7>1, <7>2, <4>2, Zenon
          <6>3. AdapterOf[id] \in Off'
            <7>1. id \notin On'
              BY <5>1, <5>3, Zenon
            <7>2. QED BY <7>1, <4>2, Zenon
          <6>4. Off' = Off \cup {AdapterOf[id]}
            BY <6>1, <6>2, <6>3
          <6>5. QED BY <6>4
        <5>4. QED BY <5>2, <5>3
      <4>5. QED BY <3>2, <4>3, <4>4
    <3>5. QED BY <3>1, <3>4 DEF Choice!Next, Choice!Click
  <2>7. CASE UNCHANGED vars
    BY <2>2, <2>7 DEF vars
  <2>8. QED BY <2>3, <2>4, <2>5, <2>6, <2>7 DEF Next
<1>3. QED BY <1>1, <1>2, Invariance, PTL DEF Spec, ChoiceSpec, Choice!Spec
=============================================================================
