--------------------------- MODULE USBPcapProofs ----------------------------
(***************************************************************************)
(* The captures are kept track of: proofs for any number of starts, targets *)
(* and Root Hubs.  The argument is about the closures that are queued: each *)
(* start posts at most two, each once and in order, and what is queued      *)
(* agrees with where the goroutine has got to and with its process.         *)
(***************************************************************************)
EXTENDS USBPcap, Induction, SequenceTheorems

\* What is queued of a start, by where its goroutine is.
Quiet(id) == \A kind \in {"failed", "started", "ended"} : ~Queued(kind, id)

Stage(id) ==
  /\ pc[id] \in {"none", "plan", "written", "spawn"} => process[id] = "none" /\ Quiet(id)
  /\ pc[id] = "spawned" => process[id] \in {"alive", "dead"} /\ Quiet(id)
  /\ pc[id] = "waiting" =>
       process[id] \in {"alive", "killed", "dead"} /\ ~Queued("failed", id) /\ ~Queued("ended", id)
  /\ pc[id] = "done" =>
       \/ process[id] = "none" /\ ~Queued("started", id) /\ ~Queued("ended", id)
       \/ /\ process[id] = "dead" /\ ~Queued("failed", id)
          /\ Queued("started", id) => Queued("ended", id)

Stages == \A id \in IDs : Stage(id)

\* The numbers to come are unused.
Fresh == \A id \in IDs : id > startID => pc[id] = "none"

Once == \A i, j \in DOMAIN posted : posted[i] = posted[j] => i = j

InOrder ==
  \A id \in IDs : \A i, j \in DOMAIN posted :
    posted[i] = <<"started", id>> /\ posted[j] = <<"ended", id>> => i < j

\* At most one of starting and running.
OneFlag == running => ~starting

IInv ==
  /\ TypeOK /\ Stages /\ Fresh /\ Once /\ InOrder /\ OneFlag
  /\ StartingIsBacked /\ CaptureIsTracked /\ RunningIsReal

-----------------------------------------------------------------------------
\* What a closure more, or one less, makes of the queue.
LEMMA Posting ==
  ASSUME IInv,
         NEW kind, NEW id, <<kind, id>> \in Closures, Posts(kind, id),
         ~Queued(kind, id), kind = "started" => ~Queued("ended", id)
  PROVE  /\ posted' \in Seq(Closures) /\ Once' /\ InOrder'
         /\ \A k, i : Queued(k, i)' <=> Queued(k, i) \/ (k = kind /\ i = id)
<1> DEFINE n == Len(posted)
<1> posted \in Seq(Closures) /\ Once /\ InOrder
  BY DEF IInv, TypeOK
<1>1. /\ posted' \in Seq(Closures) /\ DOMAIN posted = 1 .. n /\ DOMAIN posted' = 1 .. n + 1
      /\ posted'[n + 1] = <<kind, id>> /\ \A i \in 1 .. n : posted'[i] = posted[i]
      /\ n \in Nat
  BY DEF Posts
<1>2. \A i \in 1 .. n : posted[i] # <<kind, id>>
  BY <1>1 DEF Queued
<1>3. Once'
  BY <1>1, <1>2 DEF Once
<1>4. InOrder'
  <2> SUFFICES ASSUME NEW o \in IDs, NEW i \in 1 .. n + 1, NEW j \in 1 .. n + 1,
                      posted'[i] = <<"started", o>>, posted'[j] = <<"ended", o>>
               PROVE  i < j
    BY <1>1 DEF InOrder
  <2>1. CASE i \in 1 .. n /\ j \in 1 .. n
    BY <2>1, <1>1 DEF InOrder
  <2>2. CASE i = n + 1 /\ j \in 1 .. n
    BY <2>2, <1>1 DEF Queued
  <2>3. CASE j = n + 1
    BY <2>3, <1>1
  <2>4. QED BY <2>1, <2>2, <2>3, <1>1
<1>5. ASSUME NEW k, NEW i PROVE Queued(k, i)' <=> Queued(k, i) \/ (k = kind /\ i = id)
  BY <1>1 DEF Queued
<1>6. QED BY <1>1, <1>3, <1>4, <1>5

LEMMA Taking ==
  ASSUME IInv,
         NEW kind, NEW id \in IDs, Takes(kind, id)
  PROVE  /\ posted' \in Seq(Closures) /\ Once' /\ InOrder'
         /\ Queued(kind, id)
         /\ kind = "ended" => ~Queued("started", id)
         /\ \A k, i : Queued(k, i)' <=> Queued(k, i) /\ ~(k = kind /\ i = id)
<1> DEFINE n == Len(posted)
<1> posted \in Seq(Closures) /\ Once /\ InOrder
  BY DEF IInv, TypeOK
<1>1. /\ posted' \in Seq(Closures) /\ DOMAIN posted = 1 .. n /\ DOMAIN posted' = 1 .. n - 1
      /\ n \in Nat \ {0} /\ posted[1] = <<kind, id>>
      /\ \A i \in 1 .. n - 1 : posted'[i] = posted[i + 1]
  <2>1. posted # << >> /\ Head(posted) = <<kind, id>> /\ posted' = Tail(posted)
    BY DEF Takes
  <2>2. n \in Nat \ {0} /\ DOMAIN posted = 1 .. n
    BY <2>1, EmptySeq, LenProperties
  <2>3. Tail(posted) \in Seq(Closures) /\ Len(Tail(posted)) = n - 1
        /\ \A i \in 1 .. n - 1 : Tail(posted)[i] = posted[i + 1]
    BY <2>1, HeadTailProperties
  <2>4. DOMAIN Tail(posted) = 1 .. n - 1
    BY <2>3, LenProperties
  <2>5. posted[1] = Head(posted)
    BY <2>1
  <2>6. QED BY <2>1, <2>2, <2>3, <2>4, <2>5
<1>2. \A i \in 2 .. n : posted[i] # <<kind, id>>
  <2> SUFFICES ASSUME NEW i \in 2 .. n, posted[i] = <<kind, id>> PROVE FALSE
    OBVIOUS
  <2>1. i \in DOMAIN posted /\ 1 \in DOMAIN posted /\ posted[i] = posted[1] /\ i # 1
    BY <1>1
  <2>2. QED BY <2>1 DEF Once
<1>3. Once'
  <2> SUFFICES ASSUME NEW i \in 1 .. n - 1, NEW j \in 1 .. n - 1, posted'[i] = posted'[j]
               PROVE  i = j
    BY <1>1 DEF Once
  <2>1. i + 1 \in DOMAIN posted /\ j + 1 \in DOMAIN posted /\ posted[i + 1] = posted[j + 1]
    BY <1>1
  <2>2. i + 1 = j + 1
    BY <2>1 DEF Once
  <2>3. QED BY <2>2
<1>4. InOrder'
  <2> SUFFICES ASSUME NEW o \in IDs, NEW i \in 1 .. n - 1, NEW j \in 1 .. n - 1,
                      posted'[i] = <<"started", o>>, posted'[j] = <<"ended", o>>
               PROVE  i < j
    BY <1>1 DEF InOrder
  <2>1. i + 1 \in 1 .. n /\ j + 1 \in 1 .. n
        /\ posted[i + 1] = <<"started", o>> /\ posted[j + 1] = <<"ended", o>>
    BY <1>1
  <2>2. i + 1 < j + 1
    BY <2>1, <1>1 DEF InOrder
  <2>3. QED BY <2>2
<1>5. ASSUME NEW k, NEW i PROVE Queued(k, i)' <=> Queued(k, i) /\ ~(k = kind /\ i = id)
  <2>1. ASSUME NEW m \in 1 .. n - 1, posted'[m] = <<k, i>>
        PROVE  Queued(k, i) /\ ~(k = kind /\ i = id)
    <3>1. m + 1 \in 2 .. n /\ m + 1 \in DOMAIN posted /\ posted[m + 1] = <<k, i>>
      BY <2>1, <1>1
    <3>2. QED BY <3>1, <1>2 DEF Queued
  <2>2. ASSUME NEW m \in 1 .. n, posted[m] = <<k, i>>, ~(k = kind /\ i = id)
        PROVE  Queued(k, i)'
    <3>1. m # 1
      BY <2>2, <1>1
    <3>2. m - 1 \in 1 .. n - 1 /\ posted'[m - 1] = <<k, i>>
      BY <2>2, <3>1, <1>1
    <3>3. QED BY <3>2, <1>1 DEF Queued
  <2>3. QED BY <2>1, <2>2, <1>1 DEF Queued
<1>6. kind = "ended" => ~Queued("started", id)
  BY <1>1 DEF InOrder, Queued
<1>7. Queued(kind, id)
  BY <1>1 DEF Queued
<1>8. QED BY <1>1, <1>3, <1>4, <1>5, <1>6, <1>7

LEMMA Waiting ==
  ASSUME UNCHANGED posted, Once, InOrder
  PROVE  Once' /\ InOrder' /\ \A k, i : Queued(k, i)' <=> Queued(k, i)
BY DEF Once, InOrder, Queued

-----------------------------------------------------------------------------
\* What the kinds of steps preserve, given what they do to the queue.

\* The user stops, or the program ends: the process is killed and no start is
\* under way.
LEMMA StopPreserves ==
  ASSUME IInv, StopProcess, UNCHANGED <<target, pc, plan, posted, metadata>>,
         ui' \in {"running", "closing", "exited"}
  PROVE  IInv'
<1> USE USBPcapAssumption DEF IDs
<1>1. /\ startID < MaxID /\ startID' = startID + 1 /\ ~starting' /\ ~running' /\ cmd' = 0
      /\ starting' \in BOOLEAN /\ running' \in BOOLEAN
      /\ \A i \in IDs : process'[i] = IF i = cmd /\ process[i] = "alive" THEN "killed" ELSE process[i]
      /\ process' = [i \in IDs |-> IF i = cmd /\ process[i] = "alive" THEN "killed" ELSE process[i]]
  BY DEF StopProcess, Killed
<1>2. Once' /\ InOrder' /\ \A k, i : Queued(k, i)' <=> Queued(k, i)
  BY Waiting DEF IInv
<1>3. TypeOK'
  BY <1>1 DEF IInv, TypeOK
<1>4. Stages'
  <2> SUFFICES ASSUME NEW id \in IDs PROVE Stage(id)'
    BY DEF Stages
  <2>1. Stage(id) /\ process[id] \in {"none", "alive", "killed", "dead"}
    BY DEF IInv, Stages, TypeOK
  <2>2. process[id] = "alive" /\ id = cmd => pc[id] # "spawned"
    BY <2>1 DEF IInv, RunningIsReal, Stage, Quiet
  <2>3. QED BY <1>1, <1>2, <2>1, <2>2 DEF Stage, Quiet
<1>5. Fresh'
  BY <1>1 DEF IInv, Fresh, TypeOK
<1>6. ~Undecided(startID)'
  <2>1. startID' \in IDs /\ startID' > startID
    BY <1>1 DEF IInv, TypeOK
  <2>2. \A id \in IDs : id > startID => pc[id] = "none" /\ Quiet(id)
    BY DEF IInv, Fresh, Stages, Stage
  <2>3. QED BY <2>1, <2>2, <1>2 DEF Undecided, Quiet
<1>7. StartingIsBacked' /\ OneFlag' /\ RunningIsReal'
  BY <1>1, <1>6 DEF StartingIsBacked, OneFlag, RunningIsReal
<1>8. CaptureIsTracked'
  BY <1>1, <1>2 DEF IInv, CaptureIsTracked
<1>9. QED BY <1>2, <1>3, <1>4, <1>5, <1>7, <1>8 DEF IInv

LEMMA StartPreserves ==
  ASSUME IInv, NEW t \in Targets, Start(t)
  PROVE  IInv'
<1> DEFINE new == startID + 1
<1> USE USBPcapAssumption DEF IDs
<1>1. /\ new \in IDs /\ startID' = new /\ starting' /\ ~running /\ ~running'
      /\ pc' = [pc EXCEPT ![new] = "plan"] /\ UNCHANGED <<ui, cmd, plan, process, posted, metadata>>
      /\ target' = [target EXCEPT ![new] = t] /\ cmd = 0
      /\ starting' \in BOOLEAN /\ running' \in BOOLEAN
  BY DEF Start, IInv, TypeOK, RunningIsReal
<1>2. Once' /\ InOrder' /\ \A k, i : Queued(k, i)' <=> Queued(k, i)
  BY <1>1, Waiting DEF IInv
<1>3. pc[new] = "none" /\ Quiet(new) /\ process[new] = "none"
  BY <1>1 DEF IInv, Fresh, Stages, Stage, TypeOK
<1>4. TypeOK'
  BY <1>1, <1>3 DEF IInv, TypeOK
<1>5. \A id \in IDs : pc'[id] = IF id = new THEN "plan" ELSE pc[id]
  BY <1>1 DEF IInv, TypeOK
<1>6. Stages'
  BY <1>1, <1>2, <1>3, <1>5 DEF IInv, Stages, Stage, Quiet
<1>7. Fresh'
  BY <1>1, <1>5 DEF IInv, Fresh, TypeOK
<1>8. StartingIsBacked'
  BY <1>1, <1>5 DEF StartingIsBacked, Undecided
<1>9. CaptureIsTracked'
  <2> SUFFICES ASSUME NEW id \in IDs, process[id] = "alive"
               PROVE  (pc[id] = "spawned" /\ id # new) \/ Queued("started", id)
    BY <1>1, <1>2, <1>5 DEF CaptureIsTracked
  <2>1. QED BY <1>1, <1>3 DEF IInv, CaptureIsTracked
<1>10. OneFlag' /\ RunningIsReal'
  BY <1>1 DEF OneFlag, RunningIsReal
<1>11. QED BY <1>2, <1>4, <1>6, <1>7, <1>8, <1>9, <1>10 DEF IInv

LEMMA ExitPreserves ==
  ASSUME IInv, Exit
  PROVE  IInv'
<1>1. UNCHANGED <<startID, starting, running, cmd, target, pc, plan, process, posted, metadata>>
      /\ ui' = "exited"
  BY DEF Exit, flags
<1>2. Once' /\ InOrder' /\ \A k, i : Queued(k, i)' <=> Queued(k, i)
  BY <1>1, Waiting DEF IInv
<1>3. TypeOK'
  BY <1>1 DEF IInv, TypeOK
<1>4. Stages' /\ Fresh' /\ OneFlag'
  BY <1>1, <1>2 DEF IInv, Stages, Stage, Quiet, Fresh, OneFlag
<1>5. StartingIsBacked' /\ CaptureIsTracked' /\ RunningIsReal'
  BY <1>1, <1>2 DEF IInv, StartingIsBacked, Undecided, CaptureIsTracked, RunningIsReal
<1>6. QED BY <1>2, <1>3, <1>4, <1>5 DEF IInv

-----------------------------------------------------------------------------
\* What a closure that is about to be handled says of its start.
LEMMA Announced ==
  ASSUME IInv, NEW id \in IDs
  PROVE  /\ Queued("failed", id) =>
              pc[id] = "done" /\ process[id] = "none" /\ ~Queued("started", id) /\ ~Queued("ended", id)
         /\ Queued("started", id) =>
              /\ ~Queued("failed", id)
              /\ \/ pc[id] = "waiting" /\ ~Queued("ended", id)
                 \/ pc[id] = "done" /\ process[id] = "dead" /\ Queued("ended", id)
         /\ Queued("ended", id) => pc[id] = "done" /\ process[id] = "dead" /\ ~Queued("failed", id)
<1>1. Stage(id)
  BY DEF IInv, Stages
<1>2. pc[id] \in {"none", "plan", "written", "spawn", "spawned", "waiting", "done"}
  BY DEF IInv, TypeOK
<1>3. QED BY <1>1, <1>2 DEF Stage, Quiet

LEMMA FailedPreserves ==
  ASSUME IInv, NEW id \in IDs, HandleFailed(id)
  PROVE  IInv'
<1>1. /\ Takes("failed", id) /\ UNCHANGED <<ui, startID, running, cmd, target, pc, plan, process, metadata>>
      /\ starting' = (starting /\ startID # id)
  BY DEF HandleFailed, Takes
<1>2. /\ posted' \in Seq(Closures) /\ Once' /\ InOrder' /\ Queued("failed", id)
      /\ \A k, i : Queued(k, i)' <=> Queued(k, i) /\ ~(k = "failed" /\ i = id)
  BY <1>1, Taking
<1>3. pc[id] = "done" /\ process[id] = "none" /\ ~Queued("started", id) /\ ~Queued("ended", id)
  BY <1>2, Announced
<1>4. TypeOK'
  BY <1>1, <1>2 DEF IInv, TypeOK
<1>5. Stages' /\ Fresh' /\ OneFlag'
  BY <1>1, <1>2 DEF IInv, Stages, Stage, Quiet, Fresh, OneFlag
<1>6. StartingIsBacked'
  BY <1>1, <1>2, <1>3 DEF IInv, StartingIsBacked, Undecided
<1>7. CaptureIsTracked' /\ RunningIsReal'
  BY <1>1, <1>2 DEF IInv, CaptureIsTracked, RunningIsReal
<1>8. QED BY <1>2, <1>4, <1>5, <1>6, <1>7 DEF IInv

LEMMA StartedPreserves ==
  ASSUME IInv, NEW id \in IDs, HandleStarted(id)
  PROVE  IInv'
<1> USE USBPcapAssumption DEF IDs
<1>1. Takes("started", id) /\ UNCHANGED <<ui, startID, target, pc, plan, metadata>>
  BY DEF HandleStarted, Takes
<1>2. /\ posted' \in Seq(Closures) /\ Once' /\ InOrder' /\ Queued("started", id)
      /\ \A k, i : Queued(k, i)' <=> Queued(k, i) /\ ~(k = "started" /\ i = id)
  BY <1>1, Taking
<1>3. /\ ~Queued("failed", id)
      /\ \/ pc[id] = "waiting" /\ ~Queued("ended", id)
         \/ pc[id] = "done" /\ process[id] = "dead" /\ Queued("ended", id)
  BY <1>2, Announced
<1>4. CASE startID = id /\ starting
  <2>1. ~starting' /\ running' /\ cmd' = id /\ ~running /\ cmd = 0 /\ UNCHANGED process
        /\ starting' \in BOOLEAN /\ running' \in BOOLEAN
    BY <1>4 DEF HandleStarted, IInv, OneFlag, RunningIsReal
  <2>2. TypeOK'
    BY <1>1, <1>2, <2>1 DEF IInv, TypeOK
  <2>3. Stages' /\ Fresh' /\ OneFlag'
    BY <1>1, <1>2, <1>3, <2>1 DEF IInv, Stages, Stage, Quiet, Fresh, OneFlag
  <2>4. StartingIsBacked'
    BY <1>1, <1>2, <1>3, <1>4, <2>1 DEF StartingIsBacked, Undecided
  <2>5. CaptureIsTracked'
    BY <1>1, <1>2, <2>1 DEF IInv, CaptureIsTracked
  <2>6. RunningIsReal'
    BY <1>1, <1>2, <1>3, <2>1 DEF RunningIsReal
  <2>7. QED BY <1>2, <2>2, <2>3, <2>4, <2>5, <2>6 DEF IInv
<1>5. CASE ~(startID = id /\ starting)
  <2>1. /\ UNCHANGED <<starting, running, cmd>>
        /\ process' = [i \in IDs |-> IF i = id /\ process[i] = "alive" THEN "killed" ELSE process[i]]
    BY <1>5 DEF HandleStarted, Killed
  <2>2. \A i \in IDs : process'[i] = IF i = id /\ process[i] = "alive" THEN "killed" ELSE process[i]
    BY <2>1
  <2>3. TypeOK'
    BY <1>1, <1>2, <2>1 DEF IInv, TypeOK
  <2>4. Stages' /\ Fresh' /\ OneFlag'
    BY <1>1, <1>2, <1>3, <2>1, <2>2 DEF IInv, Stages, Stage, Quiet, Fresh, OneFlag
  <2>5. startID # id
    BY <1>2, <1>5 DEF IInv, StartingIsBacked, Undecided
  <2>6. StartingIsBacked'
    BY <1>1, <1>2, <2>1, <2>5 DEF IInv, StartingIsBacked, Undecided
  <2>7. CaptureIsTracked'
    BY <1>1, <1>2, <1>3, <2>1, <2>2 DEF IInv, CaptureIsTracked
  <2>8. RunningIsReal'
    BY <1>1, <1>2, <2>1 DEF IInv, RunningIsReal
  <2>9. QED BY <1>2, <2>3, <2>4, <2>6, <2>7, <2>8 DEF IInv
<1>6. QED BY <1>4, <1>5

LEMMA EndedPreserves ==
  ASSUME IInv, NEW id \in IDs, HandleEnded(id)
  PROVE  IInv'
<1> USE USBPcapAssumption DEF IDs
<1>1. Takes("ended", id) /\ UNCHANGED <<ui, startID, target, pc, plan, process, metadata>>
  BY DEF HandleEnded, Takes
<1>2. /\ posted' \in Seq(Closures) /\ Once' /\ InOrder' /\ Queued("ended", id) /\ ~Queued("started", id)
      /\ \A k, i : Queued(k, i)' <=> Queued(k, i) /\ ~(k = "ended" /\ i = id)
  BY <1>1, Taking
<1>3. pc[id] = "done" /\ process[id] = "dead" /\ ~Queued("failed", id)
  BY <1>2, Announced
<1>4. \/ cmd = id /\ running /\ ~starting /\ ~starting' /\ ~running' /\ cmd' = 0
         /\ starting' = FALSE /\ running' = FALSE
      \/ cmd # id /\ UNCHANGED <<starting, running, cmd>>
  BY DEF HandleEnded, IInv, OneFlag, RunningIsReal
<1>5. TypeOK'
  <2>1. cmd \in 0 .. MaxID /\ starting \in BOOLEAN /\ running \in BOOLEAN
    BY DEF IInv, TypeOK
  <2>2. cmd' \in 0 .. MaxID
    BY <1>4, <2>1
  <2>3. starting' \in BOOLEAN /\ running' \in BOOLEAN
    BY <1>4, <2>1, Zenon
  <2>4. QED BY <1>1, <1>2, <2>2, <2>3 DEF IInv, TypeOK
<1>6. Stages' /\ Fresh' /\ OneFlag'
  BY <1>1, <1>2, <1>3, <1>4 DEF IInv, Stages, Stage, Quiet, Fresh, OneFlag
<1>7. StartingIsBacked'
  BY <1>1, <1>2, <1>4 DEF IInv, StartingIsBacked, Undecided
<1>8. CaptureIsTracked'
  BY <1>1, <1>2, <1>3, <1>4 DEF IInv, CaptureIsTracked
<1>9. RunningIsReal'
  BY <1>1, <1>2, <1>4 DEF IInv, RunningIsReal
<1>10. QED BY <1>2, <1>5, <1>6, <1>7, <1>8, <1>9 DEF IInv

-----------------------------------------------------------------------------
\* The goroutines.  Their steps leave the flags alone, so that it remains to say
\* what becomes of the start itself.
LEMMA GoroutinePreserves ==
  ASSUME IInv, NEW id \in IDs, UNCHANGED <<ui, startID, starting, running, cmd, target>>,
         TypeOK', Once', InOrder', Stage(id)', pc[id] # "none",
         \A i \in IDs : i # id =>
           pc'[i] = pc[i] /\ process'[i] = process[i] /\ \A k : Queued(k, i)' <=> Queued(k, i),
         id = startID => Undecided(id)' = Undecided(id),
         process'[id] = "alive" =>
           \/ process[id] = "alive" /\ pc[id] # "spawned"
                /\ (Queued("started", id) => Queued("started", id)')
           \/ pc'[id] = "spawned" \/ Queued("started", id)',
         cmd = id => /\ Queued("started", id)' => Queued("started", id)
                     /\ pc[id] = "waiting" => pc'[id] = "waiting" \/ Queued("ended", id)'
                     /\ Queued("ended", id) => Queued("ended", id)'
  PROVE  IInv'
<1> USE DEF IDs
<1>1. Stages'
  BY DEF IInv, Stages, Stage, Quiet
<1>2. Fresh'
  BY DEF IInv, Fresh
<1>3. OneFlag'
  BY DEF IInv, OneFlag
<1>4. StartingIsBacked'
  <2>1. CASE startID = id
    BY <2>1, Zenon DEF IInv, StartingIsBacked
  <2>2. CASE startID # id /\ startID \in IDs
    BY <2>2 DEF IInv, StartingIsBacked, Undecided
  <2>3. CASE startID \notin IDs
    BY <2>3 DEF IInv, StartingIsBacked
  <2>4. QED BY <2>1, <2>2, <2>3
<1>5. CaptureIsTracked'
  BY DEF IInv, CaptureIsTracked
<1>6. RunningIsReal'
  BY USBPcapAssumption DEF IInv, RunningIsReal, TypeOK
<1>7. QED BY <1>1, <1>2, <1>3, <1>4, <1>5, <1>6 DEF IInv

LEMMA PlanFailsPreserves ==
  ASSUME IInv, NEW id \in IDs, PlanFails(id)
  PROVE  IInv'
<1>1. /\ pc[id] = "plan" /\ pc' = [pc EXCEPT ![id] = "done"] /\ Posts("failed", id)
      /\ UNCHANGED <<ui, startID, starting, running, cmd, target, process>>
      /\ plan' = [plan EXCEPT ![id] = NoPlan] /\ metadata' \in {metadata, NoTarget}
  BY DEF PlanFails, At, GoesTo, flags
<1>2. process[id] = "none" /\ ~Queued("failed", id) /\ ~Queued("started", id) /\ ~Queued("ended", id)
  BY <1>1 DEF IInv, Stages, Stage, Quiet
<1>3. <<"failed", id>> \in Closures
  BY DEF Closures
<1>4. /\ posted' \in Seq(Closures) /\ Once' /\ InOrder'
      /\ \A k, i : Queued(k, i)' <=> Queued(k, i) \/ (k = "failed" /\ i = id)
  BY <1>1, <1>2, <1>3, Posting
<1>5. \A i \in IDs : pc'[i] = IF i = id THEN "done" ELSE pc[i]
  BY <1>1 DEF IInv, TypeOK
<1>6. TypeOK'
  BY <1>1, <1>4, <1>5 DEF IInv, TypeOK
<1>7. Stage(id)'
  BY <1>1, <1>2, <1>4, <1>5 DEF Stage, Quiet
<1>8. id = startID => Undecided(id)' = Undecided(id)
  BY <1>1, <1>2, <1>4, <1>5 DEF Undecided
<1>9. QED BY <1>1, <1>2, <1>4, <1>5, <1>6, <1>7, <1>8, GoroutinePreserves

LEMMA SpawnFailsPreserves ==
  ASSUME IInv, NEW id \in IDs, SpawnFails(id)
  PROVE  IInv'
<1>1. /\ pc[id] = "spawn" /\ pc' = [pc EXCEPT ![id] = "done"] /\ Posts("failed", id)
      /\ UNCHANGED <<ui, startID, starting, running, cmd, target, process, metadata>>
      /\ plan' = [plan EXCEPT ![id] = NoPlan]
  BY DEF SpawnFails, At, GoesTo, flags
<1>2. process[id] = "none" /\ ~Queued("failed", id) /\ ~Queued("started", id) /\ ~Queued("ended", id)
  BY <1>1 DEF IInv, Stages, Stage, Quiet
<1>3. <<"failed", id>> \in Closures
  BY DEF Closures
<1>4. /\ posted' \in Seq(Closures) /\ Once' /\ InOrder'
      /\ \A k, i : Queued(k, i)' <=> Queued(k, i) \/ (k = "failed" /\ i = id)
  BY <1>1, <1>2, <1>3, Posting
<1>5. \A i \in IDs : pc'[i] = IF i = id THEN "done" ELSE pc[i]
  BY <1>1 DEF IInv, TypeOK
<1>6. TypeOK'
  BY <1>1, <1>4, <1>5 DEF IInv, TypeOK
<1>7. Stage(id)'
  BY <1>1, <1>2, <1>4, <1>5 DEF Stage, Quiet
<1>8. id = startID => Undecided(id)' = Undecided(id)
  BY <1>1, <1>2, <1>4, <1>5 DEF Undecided
<1>9. QED BY <1>1, <1>2, <1>4, <1>5, <1>6, <1>7, <1>8, GoroutinePreserves

LEMMA PostStartedPreserves ==
  ASSUME IInv, NEW id \in IDs, PostStarted(id)
  PROVE  IInv'
<1>1. /\ pc[id] = "spawned" /\ pc' = [pc EXCEPT ![id] = "waiting"] /\ Posts("started", id)
      /\ UNCHANGED <<ui, startID, starting, running, cmd, target, process, plan, metadata>>
  BY DEF PostStarted, At, GoesTo, flags
<1>2. process[id] \in {"alive", "dead"} /\ ~Queued("failed", id) /\ ~Queued("started", id) /\ ~Queued("ended", id)
  BY <1>1 DEF IInv, Stages, Stage, Quiet
<1>3. <<"started", id>> \in Closures
  BY DEF Closures
<1>4. /\ posted' \in Seq(Closures) /\ Once' /\ InOrder'
      /\ \A k, i : Queued(k, i)' <=> Queued(k, i) \/ (k = "started" /\ i = id)
  BY <1>1, <1>2, <1>3, Posting
<1>5. \A i \in IDs : pc'[i] = IF i = id THEN "waiting" ELSE pc[i]
  BY <1>1 DEF IInv, TypeOK
<1>6. TypeOK'
  BY <1>1, <1>4, <1>5 DEF IInv, TypeOK
<1>7. Stage(id)'
  BY <1>1, <1>2, <1>4, <1>5 DEF Stage, Quiet
<1>8. id = startID => Undecided(id)' = Undecided(id)
  BY <1>1, <1>2, <1>4, <1>5 DEF Undecided
<1>9. cmd # id
  BY <1>1, <1>2, USBPcapAssumption DEF IInv, RunningIsReal, IDs
<1>10. QED BY <1>9, <1>1, <1>2, <1>4, <1>5, <1>6, <1>7, <1>8, GoroutinePreserves

LEMMA PostEndedPreserves ==
  ASSUME IInv, NEW id \in IDs, PostEnded(id)
  PROVE  IInv'
<1>1. /\ pc[id] = "waiting" /\ pc' = [pc EXCEPT ![id] = "done"] /\ Posts("ended", id)
      /\ UNCHANGED <<ui, startID, starting, running, cmd, target, process, metadata>>
      /\ plan' = [plan EXCEPT ![id] = NoPlan] /\ process[id] = "dead"
  BY DEF PostEnded, At, GoesTo, flags
<1>2. ~Queued("failed", id) /\ ~Queued("ended", id)
  BY <1>1 DEF IInv, Stages, Stage, Quiet
<1>3. <<"ended", id>> \in Closures
  BY DEF Closures
<1>4. /\ posted' \in Seq(Closures) /\ Once' /\ InOrder'
      /\ \A k, i : Queued(k, i)' <=> Queued(k, i) \/ (k = "ended" /\ i = id)
  BY <1>1, <1>2, <1>3, Posting
<1>5. \A i \in IDs : pc'[i] = IF i = id THEN "done" ELSE pc[i]
  BY <1>1 DEF IInv, TypeOK
<1>6. TypeOK'
  BY <1>1, <1>4, <1>5 DEF IInv, TypeOK
<1>7. Stage(id)'
  BY <1>1, <1>2, <1>4, <1>5 DEF Stage, Quiet
<1>8. id = startID => Undecided(id)' = Undecided(id)
  BY <1>1, <1>2, <1>4, <1>5 DEF Undecided
<1>9. QED BY <1>1, <1>2, <1>4, <1>5, <1>6, <1>7, <1>8, GoroutinePreserves

LEMMA WriteMetadataPreserves ==
  ASSUME IInv, NEW id \in IDs, WriteMetadata(id)
  PROVE  IInv'
<1>1. /\ pc[id] = "plan" /\ pc' = [pc EXCEPT ![id] = "written"]
      /\ UNCHANGED <<ui, startID, starting, running, cmd, target, process, posted>>
      /\ metadata' = target[id] /\ \E p \in Plans : plan' = [plan EXCEPT ![id] = p]
  BY DEF WriteMetadata, GoesTo, flags
<1>2. Once' /\ InOrder' /\ \A k, i : Queued(k, i)' <=> Queued(k, i)
  BY <1>1, Waiting DEF IInv
<1>3. process[id] = "none" /\ Quiet(id)
  BY <1>1 DEF IInv, Stages, Stage
<1>4. \A i \in IDs : pc'[i] = IF i = id THEN "written" ELSE pc[i]
  BY <1>1 DEF IInv, TypeOK
<1>5. TypeOK'
  BY <1>1, <1>4, USBPcapAssumption DEF IInv, TypeOK
<1>6. Stage(id)'
  BY <1>1, <1>2, <1>3, <1>4 DEF Stage, Quiet
<1>7. id = startID => Undecided(id)' = Undecided(id)
  BY <1>1, <1>2, <1>4 DEF Undecided
<1>8. QED BY <1>1, <1>2, <1>3, <1>4, <1>5, <1>6, <1>7, GoroutinePreserves

\* A start that is no longer active is not the latest: its end decides nothing.
LEMMA CheckActivePreserves ==
  ASSUME IInv, NEW id \in IDs, CheckActive(id)
  PROVE  IInv'
<1> DEFINE to == IF StillActive(id) THEN "spawn" ELSE "done"
<1>1. /\ pc[id] = "written" /\ pc' = [pc EXCEPT ![id] = to]
      /\ UNCHANGED <<ui, startID, starting, running, cmd, target, process, posted, metadata>>
      /\ plan' = IF to = "done" THEN [plan EXCEPT ![id] = NoPlan] ELSE plan
  BY DEF CheckActive, At, GoesTo, flags
<1>2. Once' /\ InOrder' /\ \A k, i : Queued(k, i)' <=> Queued(k, i)
  BY <1>1, Waiting DEF IInv
<1>3. process[id] = "none" /\ Quiet(id)
  BY <1>1 DEF IInv, Stages, Stage
<1>4. /\ to \in {"spawn", "done"}
      /\ \A i \in IDs : pc'[i] = IF i = id THEN to ELSE pc[i]
  BY <1>1 DEF IInv, TypeOK
<1>5. TypeOK'
  BY <1>1, <1>4 DEF IInv, TypeOK
<1>6. Stage(id)'
  BY <1>1, <1>2, <1>3, <1>4 DEF Stage, Quiet
<1>7. id = startID => to = "spawn"
  BY <1>1 DEF IInv, StartingIsBacked, Undecided, StillActive
<1>8. id = startID => Undecided(id)' = Undecided(id)
  BY <1>1, <1>2, <1>4, <1>7 DEF Undecided
<1>9. QED BY <1>1, <1>2, <1>3, <1>4, <1>5, <1>6, <1>8, GoroutinePreserves

LEMMA SpawnPreserves ==
  ASSUME IInv, NEW id \in IDs, Spawn(id)
  PROVE  IInv'
<1>1. /\ pc[id] = "spawn" /\ pc' = [pc EXCEPT ![id] = "spawned"]
      /\ UNCHANGED <<ui, startID, starting, running, cmd, target, plan, posted, metadata>>
      /\ process' = [process EXCEPT ![id] = "alive"]
  BY DEF Spawn, At, GoesTo, flags
<1>2. Once' /\ InOrder' /\ \A k, i : Queued(k, i)' <=> Queued(k, i)
  BY <1>1, Waiting DEF IInv
<1>3. Quiet(id)
  BY <1>1 DEF IInv, Stages, Stage
<1>4. \A i \in IDs : /\ pc'[i] = IF i = id THEN "spawned" ELSE pc[i]
                     /\ process'[i] = IF i = id THEN "alive" ELSE process[i]
  BY <1>1 DEF IInv, TypeOK
<1>5. TypeOK'
  BY <1>1, <1>4 DEF IInv, TypeOK
<1>6. Stage(id)'
  BY <1>1, <1>2, <1>3, <1>4 DEF Stage, Quiet
<1>7. id = startID => Undecided(id)' = Undecided(id)
  BY <1>1, <1>2, <1>4 DEF Undecided
<1>8. QED BY <1>1, <1>2, <1>4, <1>5, <1>6, <1>7, GoroutinePreserves

LEMMA ProcessEndsPreserves ==
  ASSUME IInv, NEW id \in IDs, ProcessEnds(id)
  PROVE  IInv'
<1>1. /\ process[id] \in {"alive", "killed"} /\ process' = [process EXCEPT ![id] = "dead"]
      /\ UNCHANGED <<ui, startID, starting, running, cmd, target, pc, plan, posted, metadata>>
  BY DEF ProcessEnds, flags
<1>2. Once' /\ InOrder' /\ \A k, i : Queued(k, i)' <=> Queued(k, i)
  BY <1>1, Waiting DEF IInv
<1>3. Stage(id) /\ pc[id] \in {"none", "plan", "written", "spawn", "spawned", "waiting", "done"}
  BY DEF IInv, Stages, TypeOK
<1>4. pc[id] \in {"spawned", "waiting"}
  BY <1>1, <1>3 DEF Stage
<1>5. \A i \in IDs : process'[i] = IF i = id THEN "dead" ELSE process[i]
  BY <1>1 DEF IInv, TypeOK
<1>6. TypeOK'
  BY <1>1, <1>5 DEF IInv, TypeOK
<1>7. Stage(id)'
  BY <1>1, <1>2, <1>3, <1>4, <1>5 DEF Stage, Quiet
<1>8. id = startID => Undecided(id)' = Undecided(id)
  BY <1>1, <1>2 DEF Undecided
<1>9. QED BY <1>1, <1>2, <1>4, <1>5, <1>6, <1>7, <1>8, GoroutinePreserves

-----------------------------------------------------------------------------
LEMMA Starts == Init => IInv
<1> SUFFICES ASSUME Init PROVE IInv
  OBVIOUS
<1>1. /\ posted = << >> /\ DOMAIN posted = {} /\ posted \in Seq(Closures)
      /\ \A k, i : ~Queued(k, i)
  BY DEF Init, Queued
<1>2. TypeOK
  <2>1. startID \in 0 .. MaxID /\ cmd \in 0 .. MaxID
    BY USBPcapAssumption DEF Init
  <2>2. \A id \in IDs : pc[id] = "none" /\ plan[id] = NoPlan
    BY DEF Init
  <2>3. QED BY <1>1, <2>1, <2>2 DEF Init, TypeOK
<1>3. Stages /\ Fresh /\ Once /\ InOrder /\ OneFlag
  BY <1>1 DEF Init, Stages, Stage, Quiet, Fresh, Once, InOrder, OneFlag
<1>4. StartingIsBacked /\ CaptureIsTracked /\ RunningIsReal
  BY <1>1 DEF Init, StartingIsBacked, IDs, CaptureIsTracked, RunningIsReal
<1>5. QED BY <1>2, <1>3, <1>4 DEF IInv

LEMMA Preserved == IInv /\ [Next]_vars => IInv'
<1> SUFFICES ASSUME IInv, [Next]_vars PROVE IInv'
  OBVIOUS
<1>1. ASSUME NEW t \in Targets, Start(t) PROVE IInv'
  BY <1>1, StartPreserves
<1>2. CASE Stop
  BY <1>2, StopPreserves DEF Stop, IInv, TypeOK
<1>3. CASE Cleanup
  BY <1>3, StopPreserves DEF Cleanup
<1>4. CASE Exit
  BY <1>4, ExitPreserves
<1>5. ASSUME NEW id \in IDs, Goroutine(id) PROVE IInv'
  BY <1>5, PlanFailsPreserves, WriteMetadataPreserves, CheckActivePreserves, SpawnPreserves,
     SpawnFailsPreserves, PostStartedPreserves, PostEndedPreserves DEF Goroutine
<1>6. ASSUME NEW id \in IDs, HandlePosted(id) PROVE IInv'
  BY <1>6, FailedPreserves, StartedPreserves, EndedPreserves DEF HandlePosted
<1>7. ASSUME NEW id \in IDs, ProcessEnds(id) PROVE IInv'
  BY <1>7, ProcessEndsPreserves
<1>8. CASE UNCHANGED vars
  <2>1. UNCHANGED <<ui, startID, starting, running, cmd, target, pc, plan, process, posted, metadata>>
    BY <1>8 DEF vars, flags
  <2>2. Once' /\ InOrder' /\ \A k, i : Queued(k, i)' <=> Queued(k, i)
    BY <2>1, Waiting DEF IInv
  <2>3. TypeOK' /\ Stages' /\ Fresh' /\ OneFlag'
    BY <2>1, <2>2 DEF IInv, TypeOK, Stages, Stage, Quiet, Fresh, OneFlag
  <2>4. StartingIsBacked' /\ CaptureIsTracked' /\ RunningIsReal'
    BY <2>1, <2>2 DEF IInv, StartingIsBacked, Undecided, CaptureIsTracked, RunningIsReal
  <2>5. QED BY <2>2, <2>3, <2>4 DEF IInv
<1>9. QED BY <1>1, <1>2, <1>3, <1>4, <1>5, <1>6, <1>7, <1>8 DEF Next

LEMMA Invariance == Spec => []IInv
BY Starts, Preserved, PTL DEF Spec

\* The state of the captures keeps its types.
THEOREM CaptureTypes == Spec => []TypeOK
BY Invariance, PTL DEF IInv

\* usbpcapStarting is set exactly as long as the latest start is undecided: it
\* neither refuses later starts for ever nor is cleared by an older one.
THEOREM StartingBacked == Spec => []StartingIsBacked
BY Invariance, PTL DEF IInv

\* Every process that lives and that nobody has killed is the one Stop would
\* kill, or its closure is still to come.
THEOREM CapturesTracked == Spec => []CaptureIsTracked
BY Invariance, PTL DEF IInv

\* A capture shown as running is waited for, or its end is queued behind its
\* start.
THEOREM RunningReal == Spec => []RunningIsReal
BY Invariance, PTL DEF IInv

-----------------------------------------------------------------------------
(***************************************************************************)
(* The choice of addresses.  The scores and totals are sums, of which only  *)
(* this matters: they are numbers, so one of the totals is the highest, and *)
(* they are 0 if there is nothing to add.                                   *)
(***************************************************************************)
\* One step of SumFunctionOnSet: s is summed up by it.
SumStep(it, f, s) ==
  IF s = {} THEN 0 ELSE f[CHOOSE x \in s : TRUE] + it[s \ {CHOOSE x \in s : TRUE}]

\* A finite set loses an element.
LEMMA OneLess ==
  ASSUME NEW S, IsFiniteSet(S), NEW s \in SUBSET S, s # {}, NEW x \in s
  PROVE  /\ s \ {x} \in SUBSET S /\ IsFiniteSet(s)
         /\ Cardinality(s) \in Nat \ {0} /\ Cardinality(s \ {x}) = Cardinality(s) - 1
<1>1. IsFiniteSet(s)
  BY FS_Subset
<1>2. Cardinality(s) \in Nat /\ Cardinality(s) # 0
  BY <1>1, FS_CardinalityType, FS_EmptySet
<1>3. Cardinality(s \ {x}) = Cardinality(s) - 1
  BY <1>1, FS_RemoveElement
<1>4. QED BY <1>1, <1>2, <1>3

\* The recursion of SumFunctionOnSet defines a function.
LEMMA SumExists ==
  ASSUME NEW f, NEW S, IsFiniteSet(S)
  PROVE  \E it : it = [s \in SUBSET S |-> SumStep(it, f, s)]
<1> DEFINE Small(n) == {s \in SUBSET S : Cardinality(s) <= n}
           Good == {n \in Nat : \E it : it = [s \in Small(n) |-> SumStep(it, f, s)]}
<1>1. \A s \in SUBSET S : Cardinality(s) \in Nat /\ (Cardinality(s) = 0 => s = {})
  BY FS_Subset, FS_CardinalityType, FS_EmptySet
<1>2. 0 \in Good
  <2> DEFINE it == [s \in Small(0) |-> 0]
  <2>1. \A s \in Small(0) : it[s] = SumStep(it, f, s)
    BY <1>1 DEF SumStep
  <2>2. QED BY <2>1
<1>3. ASSUME NEW n \in Nat, n \in Good PROVE n + 1 \in Good
  <2>1. PICK it : it = [s \in Small(n) |-> SumStep(it, f, s)]
    BY <1>3
  <2> DEFINE more == [s \in Small(n + 1) |-> SumStep(it, f, s)]
  <2>2. ASSUME NEW s \in Small(n + 1) PROVE SumStep(it, f, s) = SumStep(more, f, s)
    <3>1. CASE s = {}
      BY <3>1 DEF SumStep
    <3>2. CASE s # {}
      <4> DEFINE x == CHOOSE x \in s : TRUE
      <4>1. x \in s
        BY <3>2
      <4> HIDE DEF x
      <4>2. s \ {x} \in Small(n) /\ s \ {x} \in Small(n + 1)
        BY <4>1, <3>2, <1>1, OneLess
      <4>3. it[s \ {x}] = more[s \ {x}]
        BY <4>2, <2>1, Zenon
      <4>4. QED BY <3>2, <4>3 DEF SumStep, x
    <3>3. QED BY <3>1, <3>2
  <2>3. more = [s \in Small(n + 1) |-> SumStep(more, f, s)]
    BY <2>2
  <2> HIDE DEF more
  <2>4. \E g : g = [s \in Small(n + 1) |-> SumStep(g, f, s)]
    BY <2>3, Zenon
  <2>5. n + 1 \in Nat
    OBVIOUS
  <2>6. QED BY <2>4, <2>5, Zenon
<1>4. Cardinality(S) \in Good
  <2> HIDE DEF Good
  <2>1. Nat \subseteq Good
    BY <1>2, <1>3, Naturals
  <2>2. QED BY <2>1, FS_CardinalityType
<1>5. Small(Cardinality(S)) = SUBSET S
  BY FS_Subset
<1>6. QED BY <1>4, <1>5

\* Naturals sum up to a natural, no number to 0.
LEMMA SumIsNatural ==
  ASSUME NEW f, NEW S, IsFiniteSet(S), \A x \in S : f[x] \in Nat
  PROVE  /\ SumFunctionOnSet(f, S) \in Nat
         /\ S = {} => SumFunctionOnSet(f, S) = 0
<1> DEFINE it == CHOOSE it : it = [s \in SUBSET S |-> SumStep(it, f, s)]
<1>1. it = [s \in SUBSET S |-> SumStep(it, f, s)]
  BY SumExists
<1>2. SumFunctionOnSet(f, S) = it[S]
  BY DEF SumFunctionOnSet, FoldFunctionOnSet, MapThenFoldSet, SumStep
<1> HIDE DEF it
<1> DEFINE Good == {n \in Nat : \A s \in SUBSET S : Cardinality(s) = n => it[s] \in Nat}
<1>3. \A s \in SUBSET S : Cardinality(s) \in Nat /\ (Cardinality(s) = 0 => s = {})
  BY FS_Subset, FS_CardinalityType, FS_EmptySet
<1>4. 0 \in Good
  BY <1>1, <1>3 DEF SumStep
<1>5. ASSUME NEW n \in Nat, n \in Good PROVE n + 1 \in Good
  <2> SUFFICES ASSUME NEW s \in SUBSET S, Cardinality(s) = n + 1 PROVE it[s] \in Nat
    OBVIOUS
  <2> DEFINE x == CHOOSE x \in s : TRUE
  <2>1. s # {} /\ x \in s
    BY FS_EmptySet
  <2>2. it[s] = f[x] + it[s \ {x}]
    BY <1>1, <2>1 DEF SumStep
  <2> HIDE DEF x
  <2>3. s \ {x} \in SUBSET S /\ Cardinality(s \ {x}) = n
    BY <2>1, OneLess
  <2>4. QED BY <1>5, <2>1, <2>2, <2>3
<1>6. S \in SUBSET S /\ Cardinality(S) \in Nat
  BY FS_CardinalityType
<1>7. it[S] \in Nat
  <2> HIDE DEF Good
  <2>1. Nat \subseteq Good
    BY <1>4, <1>5, Naturals
  <2>2. QED BY <2>1, <1>6 DEF Good
<1>8. S = {} => it[S] = 0
  BY <1>1, <1>6 DEF SumStep
<1>9. QED BY <1>2, <1>7, <1>8

\* A row that scores contains a fact about the target.
LEMMA ScoreIsNatural ==
  ASSUME NEW row \in Rows
  PROVE  Score(row) \in Nat /\ (row.evidence = {} => Score(row) = 0)
<1>1. IsFiniteSet(DOMAIN Weight)
  <2>1. \A S, x : IsFiniteSet(S) => IsFiniteSet(S \cup {x})
    BY FS_AddElement
  <2>2. IsFiniteSet({})
    BY FS_EmptySet
  <2> DEFINE half == {} \cup {"com"} \cup {"serial"} \cup {"vid"} \cup {"pid"}
             all == half \cup {"friendlyName"} \cup {"description"} \cup {"role"}
  <2>3. IsFiniteSet(half)
    BY <2>1, <2>2
  <2>4. IsFiniteSet(all)
    <3> HIDE DEF half
    <3>1. QED BY <2>1, <2>3
  <2>5. DOMAIN Weight = all
    BY DEF Weight
  <2>6. QED BY <2>4, <2>5
<1>2. row.evidence \in SUBSET DOMAIN Weight
  BY DEF Rows
<1>3. IsFiniteSet(row.evidence)
  BY <1>1, <1>2, FS_Subset
<1>4. \A fact \in row.evidence : Weight[fact] \in Nat
  BY <1>2 DEF Weight
<1>5. QED BY <1>3, <1>4, SumIsNatural DEF Score

\* A list of which the total is positive has a row that matches.
LEMMA TotalIsNatural ==
  ASSUME NEW list \in Seq(Rows)
  PROVE  Total(list) \in Nat /\ (Matching(list) = {} => Total(list) = 0)
<1> DEFINE scores == [r \in Matching(list) |-> Score(list[r])]
<1>1. IsFiniteSet(DOMAIN list) /\ Matching(list) \in SUBSET DOMAIN list
  <2>1. Len(list) \in Nat /\ DOMAIN list = 1 .. Len(list)
    OBVIOUS
  <2>2. QED BY <2>1, FS_Interval DEF Matching
<1>2. IsFiniteSet(Matching(list))
  BY <1>1, FS_Subset
<1>3. \A r \in Matching(list) : scores[r] \in Nat
  BY <1>1, ScoreIsNatural
<1> HIDE DEF scores
<1>4. Total(list) = SumFunctionOnSet(scores, Matching(list))
  BY DEF Total, SumFunction, scores
<1>5. QED BY <1>2, <1>3, <1>4, SumIsNatural

\* Among finitely many numbers there is a first highest one.
LEMMA FirstHighest ==
  ASSUME NEW n \in Nat \ {0}, NEW f, \A i \in 1 .. n : f[i] \in Nat
  PROVE  \E i \in 1 .. n : \A j \in 1 .. n : f[j] <= f[i] /\ (j < i => f[j] < f[i])
<1> DEFINE First(i, m) == \A j \in 1 .. m : f[j] <= f[i] /\ (j < i => f[j] < f[i])
           Good == {m \in Nat : m \in 1 .. n => \E i \in 1 .. m : First(i, m)}
<1>1. 0 \in Good
  OBVIOUS
<1>2. ASSUME NEW m \in Nat, m \in Good PROVE m + 1 \in Good
  <2> SUFFICES ASSUME m + 1 \in 1 .. n PROVE \E i \in 1 .. m + 1 : First(i, m + 1)
    OBVIOUS
  <2>1. \A j \in 1 .. m + 1 : f[j] \in Nat /\ (j # m + 1 => j \in 1 .. m)
    OBVIOUS
  <2>2. CASE m = 0
    <3>1. First(1, m + 1)
      BY <2>1, <2>2
    <3>2. QED BY <3>1
  <2>3. CASE m # 0
    <3>1. PICK i \in 1 .. m : First(i, m)
      BY <2>3, <1>2
    <3>2. CASE f[m + 1] > f[i]
      <4>1. First(m + 1, m + 1)
        BY <3>1, <3>2, <2>1
      <4>2. QED BY <4>1
    <3>3. CASE ~(f[m + 1] > f[i])
      <4>1. First(i, m + 1)
        BY <3>1, <3>3, <2>1
      <4>2. QED BY <4>1
    <3>4. QED BY <3>2, <3>3
  <2>4. QED BY <2>2, <2>3
<1>3. Nat \subseteq Good
  <2> HIDE DEF Good
  <2>1. QED BY <1>1, <1>2, Naturals
<1>4. QED BY <1>3

\* bestInterfaceMatch finds an interface, and none has a higher total.
LEMMA BestIsHighest ==
  ASSUME NEW lists \in Seq(Seq(Rows)), lists # << >>
  PROVE  /\ Best(lists) \in DOMAIN lists
         /\ \A j \in DOMAIN lists : Total(lists[j]) <= Total(lists[Best(lists)])
<1> DEFINE totals == [i \in DOMAIN lists |-> Total(lists[i])]
<1>1. Len(lists) \in Nat \ {0} /\ DOMAIN lists = 1 .. Len(lists)
  BY EmptySeq, LenProperties
<1>2. \A i \in DOMAIN lists : totals[i] \in Nat
  BY TotalIsNatural
<1>3. PICK i \in DOMAIN lists :
        \A j \in DOMAIN lists : totals[j] <= totals[i] /\ (j < i => totals[j] < totals[i])
  <2> HIDE DEF totals
  <2>1. QED BY <1>1, <1>2, FirstHighest
<1>4. \A j \in DOMAIN lists : /\ Total(lists[j]) <= Total(lists[i])
                              /\ j < i => Total(lists[j]) < Total(lists[i])
  BY <1>3
<1>5. QED BY <1>4 DEF Best

\* What an interface may list when it is discovered.
LEMMA DiscoveredLists ==
  ASSUME NEW bus \in Buses, NEW lists \in Discovered(bus)
  PROVE  lists \in Seq(Seq(Rows))
<1>1. bus \in Seq(Seq(Rows))
  BY USBPcapAssumption
<1>2. PICK failed : lists = [i \in DOMAIN bus |-> IF i \in failed THEN << >> ELSE bus[i]]
  BY DEF Discovered
<1>3. Len(bus) \in Nat /\ DOMAIN bus = 1 .. Len(bus)
      /\ \A i \in 1 .. Len(bus) : bus[i] \in Seq(Rows)
  BY <1>1
<1>4. << >> \in Seq(Rows)
  OBVIOUS
<1>5. QED BY <1>2, <1>3, <1>4

\* BuildPlan: every address of a plan is one of a row with evidence, and a plan
\* without addresses is made for the only interface there is.
LEMMA PlansAreJustified ==
  ASSUME NEW p \in Plans
  PROVE  LET chosen == p.lists[p.interface]
         IN IF p.addresses = {}
            THEN Len(p.lists) = 1
            ELSE \A a \in p.addresses :
                   \E r \in DOMAIN chosen : chosen[r].address = a /\ chosen[r].evidence # {}
<1>1. PICK lists : /\ \E bus \in Buses : lists \in Discovered(bus)
                   /\ p = BuildPlan(lists) /\ ~Refuses(lists)
  BY DEF Plans
<1>2. lists \in Seq(Seq(Rows)) /\ lists # << >>
  BY <1>1, DiscoveredLists DEF Refuses
<1>3. /\ p.lists = lists
      /\ p.interface = IF Matched(lists) THEN Best(lists) ELSE 1
      /\ p.addresses = IF Matched(lists) THEN Addresses(lists[Best(lists)]) ELSE {}
  BY <1>1 DEF BuildPlan
<1>4. CASE ~Matched(lists)
  <2> DEFINE n == Len(lists)
  <2>1. n \in Nat /\ n # 0 /\ ~(n > 1)
    BY <1>1, <1>2, <1>4, EmptySeq DEF Refuses
  <2>2. n = 1
    <3> HIDE DEF n
    <3>1. QED BY <2>1
  <2>3. p.lists = lists /\ p.addresses = {}
    BY <1>3, <1>4
  <2>4. QED BY <2>2, <2>3
<1>5. CASE Matched(lists)
  <2> DEFINE best == lists[Best(lists)]
  <2>1. Best(lists) \in DOMAIN lists /\ best \in Seq(Rows)
    BY <1>2, BestIsHighest
  <2>2. Total(best) > 0
    <3>1. PICK i \in DOMAIN lists : Total(lists[i]) > 0
      BY <1>5 DEF Matched
    <3>2. Total(lists[i]) \in Nat /\ Total(best) \in Nat /\ Total(lists[i]) <= Total(best)
      BY <1>2, <2>1, BestIsHighest, TotalIsNatural
    <3>3. QED BY <3>1, <3>2
  <2>3. Matching(best) # {}
    BY <2>1, <2>2, TotalIsNatural
  <2> HIDE DEF best
  <2>4. p.addresses = {best[r].address : r \in Matching(best)} /\ p.lists[p.interface] = best
    BY <1>3, <1>5 DEF Addresses, best
  <2>5. ASSUME NEW a \in p.addresses
        PROVE  \E r \in DOMAIN best : best[r].address = a /\ best[r].evidence # {}
    <3>1. PICK r \in Matching(best) : best[r].address = a
      BY <2>4, <2>5
    <3>2. r \in DOMAIN best /\ best[r] \in Rows /\ Score(best[r]) # 0
      BY <2>1 DEF Matching
    <3>3. QED BY <3>1, <3>2, ScoreIsNatural
  <2>6. p.addresses # {}
    BY <2>3, <2>4
  <2>7. QED BY <2>4, <2>5, <2>6
<1>6. QED BY <1>4, <1>5

\* A capture that has been started is restricted to addresses with evidence for
\* the target, or takes all devices of the only interface, whatever is listed.
THEOREM CapturesJustified == Spec => []CaptureIsJustified
<1>1. IInv => CaptureIsJustified
  <2> SUFFICES ASSUME IInv, NEW id \in IDs, process[id] \in {"alive", "killed"}
               PROVE  plan[id] \in Plans /\ plan[id] # NoPlan
    BY PlansAreJustified DEF CaptureIsJustified
  <2>1. TypeOK /\ Stage(id)
    BY DEF IInv, Stages
  <2>2. pc[id] \in {"spawned", "waiting"}
    BY <2>1 DEF TypeOK, Stage
  <2>3. QED BY <2>1, <2>2 DEF TypeOK
<1>2. QED BY <1>1, Invariance, PTL
=============================================================================
