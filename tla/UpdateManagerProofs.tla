------------------------- MODULE UpdateManagerProofs -------------------------
(***************************************************************************)
(* Proofs about UpdateManager for every set of updates, any number of      *)
(* builds and every interleaving of the threads.                           *)
(***************************************************************************)
EXTENDS UpdateLedger, TLAPS, SequenceTheorems

USE DEF queueVars, historyVars, reportVars

\* Every variable keeps its type.
THEOREM TypeCorrect == Spec => []TypeOK
<1> USE UpdateManagerAssumption DEF TypeOK, Busy
<1>1. Init => TypeOK
  <2> SUFFICES ASSUME Init PROVE TypeOK
    OBVIOUS
  <2>1. updateQueue \in Seq(Update)
    BY EmptySeq DEF Init
  <2>2. pc \in Places /\ cur \in IF pc \in Busy THEN Update ELSE {NoUpdate}
    BY DEF Init, Places
  <2>3. /\ changeId \in [Update -> Nat \cup {NoId}] /\ nextChangeId \in Nat
        /\ built \in [Update -> Nat] /\ completions \in [Update -> Nat]
    BY DEF Init
  <2>4. /\ active \subseteq Update /\ building \subseteq Update
        /\ added \subseteq Update /\ started \subseteq Update /\ raised \subseteq Update
        /\ provisioned \in BOOLEAN /\ unreported \in BOOLEAN
    BY DEF Init
  <2> QED BY <2>1, <2>2, <2>3, <2>4
<1>2. TypeOK /\ [Next]_vars => TypeOK'
  <2> SUFFICES ASSUME TypeOK, [Next]_vars PROVE TypeOK'
    OBVIOUS
  <2>1. ASSUME NEW u \in Update, AddUpdate(u) PROVE TypeOK'
    BY <2>1 DEF AddUpdate, assign_change_id
  <2>2. ASSUME NEW u \in Update, ProvisionSelf(u) PROVE TypeOK'
    BY <2>2 DEF ProvisionSelf
  <2>3. CASE ProvisionByApi
    BY <2>3 DEF ProvisionByApi
  <2>4. CASE BootUpdates
    <3>1. BootSet \subseteq Update
      BY DEF BootSet
    <3>2. updateQueue' \in Seq(Update)
      BY <2>4, ConcatProperties DEF BootUpdates
    <3> QED BY <2>4, <3>1, <3>2 DEF BootUpdates, Places
  <2>5. CASE Take
    <3>1. cur' \in Update /\ updateQueue' \in Seq(Update)
      BY <2>5, HeadTailProperties DEF Take
    <3> QED BY <2>5, <3>1 DEF Take, Places
  <2>6. CASE Mark
    <3>1. active' \subseteq active \cup {cur} /\ pc = "taken" /\ started' = started \cup {cur}
      BY <2>6 DEF Mark, SameEntry
    <3> QED BY <2>6, <3>1 DEF Mark, Places
  <2>7. CASE Yield
    BY <2>7 DEF Yield, Places
  <2>8. ASSUME NEW u \in Update, Resume(u) PROVE TypeOK'
    BY <2>8 DEF Resume
  <2>9. CASE Complete
    BY <2>9 DEF Complete, Places
  <2>10. CASE Retire
    BY <2>10 DEF Retire, SameEntry, Places
  <2>11. CASE Raise
    BY <2>11 DEF Raise, Places
  <2>12. CASE CheckReport \/ SendReport \/ ReportRaises \/ ReportHangs
    BY <2>12 DEF CheckReport, SendReport, ReportRaises, ReportHangs, Places
  <2>13. CASE UNCHANGED vars
    BY <2>13 DEF vars
  <2> QED BY <2>1, <2>2, <2>3, <2>4, <2>5, <2>6, <2>7, <2>8, <2>9, <2>10, <2>11, <2>12,
             <2>13 DEF Next, Work
<1> QED BY <1>1, <1>2, PTL DEF Spec
-----------------------------------------------------------------------------
\* The queue as a set without duplicates.
Distinct ==
  \A i, j \in 1 .. Len(updateQueue) : updateQueue[i] = updateQueue[j] => i = j

LEMMA QueueAppend ==
  ASSUME updateQueue \in Seq(Update), Distinct,
         NEW u \in Update, u \notin Queued, updateQueue' = Append(updateQueue, u)
  PROVE  Queued' = Queued \cup {u} /\ Distinct'
<1> DEFINE n == Len(updateQueue)
<1>1. /\ n \in Nat /\ Len(updateQueue') = n + 1
      /\ \A i \in 1 .. n : updateQueue'[i] = updateQueue[i]
      /\ updateQueue'[n + 1] = u
  OBVIOUS
<1> HIDE DEF n
<1>2. 1 .. Len(updateQueue') = (1 .. n) \cup {n + 1}
  BY <1>1
<1>3. Queued' = Queued \cup {u}
  BY <1>1, <1>2 DEF Queued, n
<1>4. \A i \in 1 .. n : updateQueue[i] # u
  BY DEF Queued, n
<1>5. Distinct'
  BY <1>1, <1>2, <1>4 DEF Distinct, n
<1> QED BY <1>3, <1>5

LEMMA QueueTake ==
  ASSUME updateQueue \in Seq(Update), Distinct,
         updateQueue # <<>>, updateQueue' = Tail(updateQueue)
  PROVE  /\ Head(updateQueue) \in Queued
         /\ Queued' = Queued \ {Head(updateQueue)}
         /\ Distinct'
<1> DEFINE n == Len(updateQueue)
<1>1. /\ n \in Nat \ {0} /\ Len(updateQueue') = n - 1
      /\ \A i \in 1 .. (n - 1) : updateQueue'[i] = updateQueue[i + 1]
      /\ Head(updateQueue) = updateQueue[1]
  BY HeadTailProperties
<1> HIDE DEF n
<1>2. \A i \in 1 .. n : i = 1 \/ (i - 1 \in 1 .. (n - 1) /\ updateQueue[i] = updateQueue'[i - 1])
  BY <1>1
<1>3. \A i \in 1 .. (n - 1) : i + 1 \in 1 .. n /\ updateQueue'[i] # updateQueue[1]
  BY <1>1 DEF Distinct, n
<1>4. Head(updateQueue) \in Queued
  BY <1>1 DEF Queued, n
<1>5. Queued' \subseteq Queued \ {Head(updateQueue)}
  BY <1>1, <1>3 DEF Queued, n
<1>6. Queued \ {Head(updateQueue)} \subseteq Queued'
  BY <1>1, <1>2 DEF Queued, n
<1>7. Distinct'
  BY <1>1, <1>3 DEF Distinct, n
<1> QED BY <1>4, <1>5, <1>6, <1>7

LEMMA QueueBoot ==
  ASSUME updateQueue \in Seq(Update), Distinct,
         Queued \cap BootSet = {}, updateQueue' = updateQueue \o Boot
  PROVE  Queued' = Queued \cup BootSet /\ Distinct'
<1> USE UpdateManagerAssumption
<1> DEFINE n == Len(updateQueue)
           b == Len(Boot)
<1>1. /\ n \in Nat /\ b \in Nat /\ Len(updateQueue') = n + b
      /\ \A i \in 1 .. n : updateQueue'[i] = updateQueue[i]
      /\ \A i \in (n + 1) .. (n + b) : updateQueue'[i] = Boot[i - n]
  BY ConcatProperties
<1>2. \A i \in 1 .. n : \A j \in 1 .. b : updateQueue[i] # Boot[j]
  <2> SUFFICES ASSUME NEW i \in 1 .. n, NEW j \in 1 .. b PROVE updateQueue[i] # Boot[j]
    OBVIOUS
  <2>1. updateQueue[i] \in Queued
    BY DEF Queued
  <2>2. Boot[j] \in BootSet
    BY DEF BootSet
  <2> QED BY <2>1, <2>2
<1> HIDE DEF n, b
<1>3. \A i \in 1 .. (n + b) : i \in 1 .. n \/ (i \in (n + 1) .. (n + b) /\ i - n \in 1 .. b)
  BY <1>1
<1>4. \A j \in 1 .. b : j + n \in 1 .. (n + b) /\ updateQueue'[j + n] = Boot[j]
  <2> SUFFICES ASSUME NEW j \in 1 .. b
               PROVE  j + n \in 1 .. (n + b) /\ updateQueue'[j + n] = Boot[j]
    OBVIOUS
  <2>1. j + n \in (n + 1) .. (n + b) /\ (j + n) - n = j
    BY <1>1
  <2> QED BY <1>1, <2>1
<1>5. \A i \in 1 .. n : i \in 1 .. (n + b)
  BY <1>1
<1>6. Queued' \subseteq Queued \cup BootSet
  BY <1>1, <1>3 DEF Queued, BootSet, n, b
<1>7. Queued \cup BootSet \subseteq Queued'
  <2>1. Queued \subseteq Queued'
    BY <1>1, <1>5 DEF Queued, n
  <2>2. BootSet \subseteq Queued'
    <3> SUFFICES ASSUME NEW j \in 1 .. b PROVE Boot[j] \in Queued'
      BY DEF BootSet, b
    <3>1. j + n \in 1 .. Len(updateQueue') /\ updateQueue'[j + n] = Boot[j]
      BY <1>1, <1>4
    <3> QED BY <3>1 DEF Queued
  <2> QED BY <2>1, <2>2
<1>8. \A i, j \in 1 .. b : Boot[i] = Boot[j] => i = j
  BY DEF b
<1>9. Distinct'
  <2> SUFFICES ASSUME NEW i \in 1 .. (n + b), NEW j \in 1 .. (n + b),
                      updateQueue'[i] = updateQueue'[j]
               PROVE  i = j
    BY <1>1 DEF Distinct
  <2>1. CASE i \in 1 .. n /\ j \in 1 .. n
    BY <1>1, <2>1 DEF Distinct, n
  <2>2. CASE i \in 1 .. n /\ j \notin 1 .. n
    BY <1>1, <1>2, <1>3, <2>2
  <2>3. CASE i \notin 1 .. n /\ j \in 1 .. n
    BY <1>1, <1>2, <1>3, <2>3
  <2>4. CASE i \notin 1 .. n /\ j \notin 1 .. n
    <3>1. i - n = j - n
      BY <1>1, <1>3, <1>8, <2>4
    <3> QED BY <1>1, <3>1
  <2> QED BY <2>1, <2>2, <2>3, <2>4
<1> QED BY <1>6, <1>7, <1>9
-----------------------------------------------------------------------------
\* What makes InOnePlace inductive: where the update in the thread's hands
\* stands in its life, and that the boot updates are not known before boot.
IPlace ==
  /\ InOnePlace
  /\ Ended \subseteq added
  /\ pc \in Busy => cur \in added
  /\ pc \in {"taken", "running"} => cur \notin Ended
  /\ pc = "completed" => cur \in Ended
  /\ pc = "boot" => added \cap BootSet = {}

LEMMA IPlaceInvariant == Spec => []IPlace
<1> USE UpdateManagerAssumption
<1>1. Init => IPlace
  <2> SUFFICES ASSUME Init PROVE IPlace
    OBVIOUS
  <2>1. Queued = {} /\ Ended = {} /\ added = {} /\ building = {} /\ updateQueue = <<>>
    BY DEF Init, Queued, Ended
  <2>2. pc = "boot" /\ \A u \in Update : completions[u] = 0
    BY DEF Init
  <2> QED BY <2>1, <2>2 DEF IPlace, InOnePlace, Busy
<1>2. TypeOK /\ IPlace /\ [Next]_vars => IPlace'
  <2> SUFFICES ASSUME TypeOK, IPlace, [Next]_vars PROVE IPlace'
    OBVIOUS
  <2>a. updateQueue \in Seq(Update) /\ Distinct
    BY DEF TypeOK, IPlace, InOnePlace, Distinct
  <2>b. /\ Queued \cap building = {} /\ cur \notin Queued \cup building
        /\ Queued \cup building = added \ (Ended \cup {cur})
        /\ Ended \subseteq added /\ added \subseteq Update
        /\ cur \in IF pc \in Busy THEN Update ELSE {NoUpdate}
    BY DEF IPlace, InOnePlace, TypeOK
  <2>c. Distinct' <=> (\A i, j \in 1 .. Len(updateQueue) :
                         updateQueue[i] = updateQueue[j] => i = j)'
    BY DEF Distinct
  <2>d. ASSUME UNCHANGED <<completions, raised>> PROVE Ended' = Ended
    BY <2>d DEF Ended
  <2>e. ASSUME UNCHANGED updateQueue PROVE Queued' = Queued /\ Distinct'
    BY <2>a, <2>e DEF Queued, Distinct
  <2>f. NoUpdate \notin added
    BY DEF TypeOK
  <2>1. ASSUME NEW u \in Update, u \notin added,
               updateQueue' = Append(updateQueue, u), added' = added \cup {u},
               UNCHANGED <<pc, cur, building, completions, raised>>,
               pc = "boot" => u \notin BootSet
        PROVE  IPlace'
    <3>1. u \notin Queued
      BY <2>1, <2>b
    <3>2. Queued' = Queued \cup {u} /\ Distinct'
      BY <2>1, <2>a, <3>1, QueueAppend
    <3>3. u # cur /\ u \notin building
      BY <2>1, <2>b DEF IPlace
    <3>4. (Queued \cup building)' = added' \ (Ended' \cup {cur'})
      BY <2>1, <2>b, <2>d, <3>2, <3>3
    <3> QED BY <2>1, <2>b, <2>c, <2>d, <3>2, <3>3, <3>4 DEF IPlace, InOnePlace
  <2>2. ASSUME NEW u \in Update, AddUpdate(u) PROVE IPlace'
    BY <2>1, <2>2 DEF AddUpdate, Client
  <2>3. ASSUME NEW u \in Update, ProvisionSelf(u) PROVE IPlace'
    BY <2>1, <2>3 DEF ProvisionSelf
  <2>4. CASE ProvisionByApi \/ CheckReport \/ SendReport \/ ReportRaises \/ ReportHangs \/ UNCHANGED vars
    <3>1. /\ UNCHANGED <<updateQueue, added, cur, building, completions, raised>>
          /\ UNCHANGED pc \/ (pc' \in {"idle", "report", "dead", "stuck"} /\ pc \notin Busy)
      BY <2>4 DEF ProvisionByApi, CheckReport, SendReport, ReportRaises, ReportHangs, vars, Busy
    <3> QED BY <2>b, <2>c, <2>d, <2>e, <3>1 DEF IPlace, InOnePlace, Busy
  <2>5. CASE BootUpdates
    <3>1. /\ pc = "boot" /\ pc' = "idle" /\ added' = added \cup BootSet
          /\ updateQueue' = updateQueue \o Boot
          /\ UNCHANGED <<cur, building, completions, raised>>
      BY <2>5 DEF BootUpdates
    <3>2. added \cap BootSet = {} /\ BootSet \subseteq Update /\ cur = NoUpdate
      BY <2>b, <3>1 DEF IPlace, BootSet, Busy
    <3>3. Queued' = Queued \cup BootSet /\ Distinct'
      BY <2>a, <2>b, <3>1, <3>2, QueueBoot
    <3>4. (Queued \cup building)' = added' \ (Ended' \cup {cur'})
      BY <2>b, <2>d, <3>1, <3>2, <3>3
    <3>5. (Queued \cap building)' = {} /\ cur' \notin (Queued \cup building)'
      BY <2>b, <3>1, <3>2, <3>3
    <3> QED BY <2>b, <2>c, <2>d, <3>1, <3>2, <3>3, <3>4, <3>5 DEF IPlace, InOnePlace, Busy
  <2>6. CASE Take
    <3>1. /\ updateQueue # <<>> /\ cur' = Head(updateQueue) /\ pc' = "taken" /\ pc = "idle"
          /\ updateQueue' = Tail(updateQueue)
          /\ UNCHANGED <<building, added, completions, raised>>
      BY <2>6 DEF Take
    <3>2. cur' \in Queued /\ Queued' = Queued \ {cur'} /\ Distinct'
      BY <2>a, <3>1, QueueTake
    <3>3. cur = NoUpdate
      BY <2>b, <3>1 DEF Busy
    <3> QED BY <2>b, <2>c, <2>d, <2>f, <3>1, <3>2, <3>3 DEF IPlace, InOnePlace, Busy
  <2>7. CASE Mark
    <3>1. /\ pc = "taken" /\ pc' = "running"
          /\ UNCHANGED <<updateQueue, added, cur, building, completions, raised>>
      BY <2>7 DEF Mark
    <3> QED BY <2>b, <2>c, <2>d, <2>e, <3>1 DEF IPlace, InOnePlace, Busy
  <2>8. CASE Yield
    <3>1. /\ pc = "running" /\ pc' = "check" /\ cur' = NoUpdate
          /\ building' = building \cup {cur}
          /\ UNCHANGED <<updateQueue, added, completions, raised>>
      BY <2>8 DEF Yield
    <3>2. cur \in added /\ cur \notin Ended
      BY <3>1 DEF IPlace, Busy
    <3>3. (Queued \cup building)' = added' \ (Ended' \cup {cur'})
      BY <2>b, <2>d, <2>e, <2>f, <3>1, <3>2
    <3>4. (Queued \cap building)' = {} /\ cur' \notin (Queued \cup building)'
      BY <2>b, <2>e, <2>f, <3>1, <3>2
    <3> QED BY <2>b, <2>c, <2>d, <2>e, <3>1, <3>3, <3>4 DEF IPlace, InOnePlace, Busy
  <2>9. ASSUME NEW u \in Update, Resume(u) PROVE IPlace'
    <3>1. /\ u \in building /\ building' = building \ {u}
          /\ updateQueue' = Append(updateQueue, u)
          /\ UNCHANGED <<pc, cur, added, completions, raised>>
      BY <2>9 DEF Resume
    <3>2. Queued' = Queued \cup {u} /\ Distinct'
      BY <2>a, <2>b, <3>1, QueueAppend
    <3> QED BY <2>b, <2>c, <2>d, <3>1, <3>2 DEF IPlace, InOnePlace
  <2>10. CASE Complete
    <3>1. /\ pc = "running" /\ pc' = "completed"
          /\ completions' = [completions EXCEPT ![cur] = @ + 1]
          /\ UNCHANGED <<updateQueue, added, cur, building, raised>>
      BY <2>10 DEF Complete
    <3>2. cur \in added /\ cur \notin Ended /\ cur \in Update
      BY <2>b, <3>1 DEF IPlace, Busy
    <3>3. completions[cur] = 0
      BY <3>2 DEF Ended, TypeOK
    <3>4. /\ completions'[cur] = 1
          /\ \A u \in Update : u # cur => completions'[u] = completions[u]
      BY <3>1, <3>2, <3>3 DEF TypeOK
    <3>5. Ended' = Ended \cup {cur}
      BY <3>1, <3>2, <3>4 DEF Ended
    <3>6. \A u \in Update : completions'[u] <= 1
      BY <3>4 DEF IPlace, InOnePlace
    <3> QED BY <2>b, <2>c, <2>e, <3>1, <3>2, <3>5, <3>6 DEF IPlace, InOnePlace, Busy
  <2>11. CASE Retire
    <3>1. /\ pc = "completed" /\ pc' = "check" /\ cur' = NoUpdate
          /\ UNCHANGED <<updateQueue, added, building, completions, raised>>
      BY <2>11 DEF Retire
    <3>2. cur \in Ended
      BY <3>1 DEF IPlace
    <3>3. (Queued \cup building)' = added' \ (Ended' \cup {cur'})
      BY <2>b, <2>d, <2>e, <2>f, <3>1, <3>2
    <3>4. cur' \notin (Queued \cup building)'
      BY <2>b, <2>e, <2>f, <3>1
    <3> QED BY <2>b, <2>c, <2>d, <2>e, <3>1, <3>3, <3>4 DEF IPlace, InOnePlace, Busy
  <2>12. CASE Raise
    <3>1. /\ pc = "running" /\ pc' = "check" /\ cur' = NoUpdate
          /\ raised' = raised \cup {cur}
          /\ UNCHANGED <<updateQueue, added, building, completions>>
      BY <2>12 DEF Raise
    <3>2. cur \in added
      BY <3>1 DEF IPlace, Busy
    <3>3. Ended' = Ended \cup {cur}
      BY <3>1 DEF Ended
    <3>4. (Queued \cup building)' = added' \ (Ended' \cup {cur'})
      BY <2>b, <2>e, <2>f, <3>1, <3>3
    <3>5. cur' \notin (Queued \cup building)'
      BY <2>b, <2>e, <2>f, <3>1
    <3> QED BY <2>b, <2>c, <2>e, <3>1, <3>2, <3>3, <3>4, <3>5 DEF IPlace, InOnePlace, Busy
  <2> QED BY <2>2, <2>3, <2>4, <2>5, <2>6, <2>7, <2>8, <2>9, <2>10, <2>11, <2>12
          DEF Next, Work
<1> QED BY <1>1, <1>2, TypeCorrect, PTL DEF Spec

\* An update that has not ended is in the queue, with a build or in the hands of
\* the update thread, once, and no update is answered twice.
THEOREM InOnePlaceHolds == Spec => []InOnePlace
<1>1. IPlace => InOnePlace
  BY DEF IPlace
<1> QED BY <1>1, IPlaceInvariant, PTL
-----------------------------------------------------------------------------
\* What makes TrackedUntilEnded inductive: identifiers tell the clients' updates
\* apart, the updates without one have none of theirs, and whatever builds or
\* runs is recorded as active.
ITrack ==
  /\ \A u \in Client \cap added : changeId[u] \in Nat /\ changeId[u] < nextChangeId
  /\ \A u \in Update \ (Client \cap added) : changeId[u] = NoId
  /\ \A u, v \in Client \cap added : changeId[u] = changeId[v] => u = v
  /\ active \subseteq added
  /\ building \subseteq Client \cap active
  /\ pc \in {"running", "completed"} /\ cur \in Client => cur \in active

LEMMA ITrackInvariant == Spec => []ITrack
<1> USE UpdateManagerAssumption
<1>1. Init => ITrack
  BY DEF Init, ITrack
<1>2. TypeOK /\ IPlace /\ ITrack /\ [Next]_vars => ITrack'
  <2> SUFFICES ASSUME TypeOK, IPlace, ITrack, [Next]_vars PROVE ITrack'
    OBVIOUS
  <2>a. /\ added \subseteq Update /\ active \subseteq Update /\ nextChangeId \in Nat
        /\ cur \in IF pc \in Busy THEN Update ELSE {NoUpdate}
        /\ changeId \in [Update -> Nat \cup {NoId}]
    BY DEF TypeOK
  <2>b. \A u, v \in Client \cap added : changeId[u] = changeId[v] => u = v
    BY DEF ITrack
  <2>c. ASSUME NEW u \in Client \cap added, NEW v \in active, v \in SameEntry(u)
        PROVE  v = u
    BY <2>a, <2>c DEF ITrack, SameEntry
  <2>1. ASSUME NEW u \in Update, AddUpdate(u) PROVE ITrack'
    <3>1. /\ u \in Client \ added /\ added' = added \cup {u}
          /\ changeId' = [changeId EXCEPT ![u] = nextChangeId]
          /\ nextChangeId' = nextChangeId + 1
          /\ UNCHANGED <<pc, cur, active, building>>
      BY <2>1 DEF AddUpdate, assign_change_id
    <3>2. changeId'[u] = nextChangeId /\ \A v \in Update : v # u => changeId'[v] = changeId[v]
      BY <2>a, <3>1
    <3>3. \A v \in (Client \cap added)' : v = u \/ v \in Client \cap added
      BY <3>1 DEF Client
    <3>4. \A v \in (Client \cap added)' : changeId'[v] \in Nat /\ changeId'[v] < nextChangeId'
      BY <2>a, <3>1, <3>2, <3>3 DEF ITrack
    <3>5. \A v, w \in (Client \cap added)' : changeId'[v] = changeId'[w] => v = w
      <4> SUFFICES ASSUME NEW v \in (Client \cap added)', NEW w \in (Client \cap added)',
                          changeId'[v] = changeId'[w]
                   PROVE  v = w
        BY DEF Client
      <4>1. \A x \in Client \cap added : changeId'[x] = changeId[x] /\ changeId[x] # nextChangeId
        BY <2>a, <3>1, <3>2 DEF ITrack
      <4> QED BY <3>2, <3>3, <4>1 DEF ITrack
    <3>6. \A v \in Update \ (Client \cap added)' : changeId'[v] = NoId
      BY <3>1, <3>2 DEF ITrack
    <3> QED BY <3>1, <3>4, <3>5, <3>6 DEF ITrack, Client
  <2>2. ASSUME UNCHANGED <<changeId, nextChangeId>>, Client \cap added' = Client \cap added,
               added \subseteq added'
        PROVE  /\ (\A u \in Client \cap added : changeId[u] \in Nat /\ changeId[u] < nextChangeId)'
               /\ (\A u \in Update \ (Client \cap added) : changeId[u] = NoId)'
               /\ (\A u, v \in Client \cap added : changeId[u] = changeId[v] => u = v)'
    BY <2>2 DEF ITrack, Client
  <2>3. ASSUME NEW u \in Update, ProvisionSelf(u) PROVE ITrack'
    <3>1. Client \cap added' = Client \cap added /\ added \subseteq added'
      BY <2>3 DEF ProvisionSelf, Client
    <3> QED BY <2>2, <2>3, <3>1 DEF ProvisionSelf, ITrack
  <2>4. CASE BootUpdates
    <3>1. Client \cap added' = Client \cap added /\ added \subseteq added'
      BY <2>4 DEF BootUpdates, Client
    <3> QED BY <2>2, <2>4, <3>1 DEF BootUpdates, ITrack
  <2>5. CASE Mark
    <3>1. /\ pc = "taken" /\ active' = (active \ SameEntry(cur)) \cup {cur}
          /\ UNCHANGED <<cur, building, added, changeId, nextChangeId>>
      BY <2>5 DEF Mark
    <3>2. cur \in added /\ cur \notin building
      BY <3>1 DEF IPlace, InOnePlace, Busy
    <3>3. \A v \in building : v \notin SameEntry(cur)
      <4> SUFFICES ASSUME NEW v \in building, v \in SameEntry(cur) PROVE FALSE
        OBVIOUS
      <4>1. v \in Client \cap added /\ v \in active /\ changeId[cur] = changeId[v]
        BY DEF ITrack, SameEntry
      <4>2. cur \in Client \cap added
        BY <2>a, <3>2, <4>1 DEF ITrack
      <4> QED BY <2>b, <3>2, <4>1, <4>2
    <3>4. active' \subseteq added'
      BY <3>1, <3>2 DEF ITrack
    <3>5. building' \subseteq Client \cap active'
      BY <3>1, <3>3 DEF ITrack
    <3> QED BY <2>2, <3>1, <3>4, <3>5 DEF ITrack
  <2>6. CASE Retire
    <3>1. /\ pc = "completed" /\ active' = active \ SameEntry(cur) /\ pc' = "check"
          /\ UNCHANGED <<building, added, changeId, nextChangeId>>
      BY <2>6 DEF Retire
    <3>2. cur \in added /\ cur \notin building
      BY <3>1 DEF IPlace, InOnePlace, Busy
    <3>3. \A v \in building : v \notin SameEntry(cur)
      <4> SUFFICES ASSUME NEW v \in building, v \in SameEntry(cur) PROVE FALSE
        OBVIOUS
      <4>1. v \in Client \cap added /\ v \in active /\ changeId[cur] = changeId[v]
        BY DEF ITrack, SameEntry
      <4>2. cur \in Client \cap added
        BY <2>a, <3>2, <4>1 DEF ITrack
      <4> QED BY <2>b, <3>2, <4>1, <4>2
    <3>4. active' \subseteq added' /\ building' \subseteq Client \cap active'
      BY <3>1, <3>3 DEF ITrack
    <3> QED BY <2>2, <3>1, <3>4 DEF ITrack
  <2>7. CASE Yield
    <3>1. /\ pc = "running" /\ pc' = "check" /\ building' = building \cup {cur}
          /\ built[cur] < Builds[cur]
          /\ UNCHANGED <<active, added, changeId, nextChangeId>>
      BY <2>7 DEF Yield
    <3>2. cur \in Update /\ Builds[cur] > 0
      BY <2>a, <3>1 DEF Busy, TypeOK
    <3>3. cur \in Client \cap active
      BY <3>1, <3>2 DEF ITrack
    <3> QED BY <2>2, <3>1, <3>3 DEF ITrack
  <2>8. ASSUME NEW u \in Update, Resume(u) PROVE ITrack'
    BY <2>2, <2>8 DEF Resume, ITrack
  <2>9. CASE Take \/ Complete \/ Raise
    BY <2>2, <2>9 DEF Take, Complete, Raise, ITrack
  <2>10. CASE ProvisionByApi \/ CheckReport \/ SendReport \/ ReportRaises \/ ReportHangs
    BY <2>2, <2>10 DEF ProvisionByApi, CheckReport, SendReport, ReportRaises, ReportHangs, ITrack
  <2>11. CASE UNCHANGED vars
    BY <2>2, <2>11 DEF vars, ITrack
  <2> QED BY <2>1, <2>3, <2>4, <2>5, <2>6, <2>7, <2>8, <2>9, <2>10, <2>11 DEF Next, Work
<1> QED BY <1>1, <1>2, TypeCorrect, IPlaceInvariant, PTL DEF Spec

\* A change identifier handed to a client finds its change until it has ended.
THEOREM TrackedUntilEndedHolds == Spec => []TrackedUntilEnded
<1>1. TypeOK /\ IPlace /\ ITrack => TrackedUntilEnded
  <2> SUFFICES ASSUME TypeOK, IPlace, ITrack,
                      NEW u \in (Client \cap added) \ Ended, ~(cur = u /\ pc = "taken")
               PROVE  find_change(changeId[u]) = u
    BY DEF TrackedUntilEnded
  <2> USE UpdateManagerAssumption
  <2> DEFINE id == changeId[u]
             inActive == {v \in active : changeId[v] = id}
             inQueue == {i \in 1 .. Len(updateQueue) : changeId[updateQueue[i]] = id}
  <2>1. \A v \in added : changeId[v] = id => v = u
    BY DEF ITrack, TypeOK
  <2>2. u \in Queued \/ u \in active
    <3>1. CASE cur = u
      <4>1. pc \in {"running", "completed"}
        BY <3>1 DEF TypeOK, Busy
      <4> QED BY <3>1, <4>1 DEF ITrack
    <3>2. CASE cur # u
      BY <3>2 DEF IPlace, InOnePlace, ITrack
    <3> QED BY <3>1, <3>2
  <2>3. CASE inActive # {}
    <3>1. \A v \in inActive : v = u
      BY <2>1 DEF ITrack
    <3> QED BY <2>3, <3>1 DEF find_change
  <2>4. CASE inActive = {}
    <3>1. u \in Queued
      BY <2>2, <2>4
    <3>2. PICK k \in 1 .. Len(updateQueue) : updateQueue[k] = u
      BY <3>1 DEF Queued
    <3>3. \A i \in inQueue : i = k
      <4> SUFFICES ASSUME NEW i \in inQueue PROVE i = k
        OBVIOUS
      <4>1. updateQueue[i] \in Queued
        BY DEF Queued
      <4>2. updateQueue[i] \in added
        BY <4>1 DEF IPlace, InOnePlace
      <4>3. updateQueue[i] = u
        BY <2>1, <4>2
      <4> QED BY <3>2, <4>3 DEF IPlace, InOnePlace
    <3>4. inQueue = {k}
      BY <3>2, <3>3
    <3>5. (CHOOSE i \in inQueue : \A j \in inQueue : i <= j) = k
      BY <3>4
    <3> QED BY <2>4, <3>2, <3>4, <3>5 DEF find_change
  <2> QED BY <2>3, <2>4
<1> QED BY <1>1, TypeCorrect, IPlaceInvariant, ITrackInvariant, PTL
-----------------------------------------------------------------------------
\* As long as nothing raised, whatever else is active will end later, and then
\* reports what has gone unreported so far.
IReport ==
  raised = {} =>
    /\ active \subseteq added
    /\ (active \ {cur}) \cap Ended = {}
    /\ pc = "boot" => ~unreported
    /\ pc = "idle" /\ provisioned /\ unreported => added \ Ended # {}

LEMMA IReportInvariant == Spec => []IReport
<1>1. Init => IReport
  BY DEF Init, IReport
<1>2. TypeOK /\ IPlace /\ IReport /\ [Next]_vars => IReport'
  <2> SUFFICES ASSUME TypeOK, IPlace, IReport, [Next]_vars, raised' = {} PROVE IReport'
    BY DEF IReport
  <2> USE UpdateManagerAssumption DEF TypeOK
  <2>0. /\ Ended \subseteq added
        /\ pc \in Busy => cur \in added
        /\ pc \in {"taken", "running"} => cur \notin Ended
        /\ NoUpdate \notin added
    BY DEF IPlace
  <2>a. ASSUME UNCHANGED <<completions, raised>> PROVE Ended' = Ended
    BY <2>a DEF Ended
  <2>1. ASSUME NEW u \in Update, AddUpdate(u) \/ ProvisionSelf(u) PROVE IReport'
    <3>1. /\ u \notin Ended /\ Ended' = Ended /\ added' = added \cup {u}
          /\ UNCHANGED <<pc, cur, active, raised, unreported>>
      BY <2>0, <2>1, <2>a DEF AddUpdate, ProvisionSelf
    <3> QED BY <3>1 DEF IReport
  <2>2. CASE ProvisionByApi
    BY <2>2, <2>a DEF ProvisionByApi, IReport
  <2>3. CASE BootUpdates
    BY <2>3, <2>a DEF BootUpdates, IReport
  <2>4. CASE Take
    BY <2>4, <2>a DEF Take, IReport, Busy
  <2>5. CASE Mark
    <3>1. active' \subseteq active \cup {cur} /\ pc' = "running" /\ pc = "taken"
      BY <2>5 DEF Mark, SameEntry
    <3> QED BY <2>0, <2>5, <2>a, <3>1 DEF Mark, IReport, Busy
  <2>6. CASE Yield
    BY <2>0, <2>6, <2>a DEF Yield, IReport, Busy
  <2>7. ASSUME NEW u \in Update, Resume(u) PROVE IReport'
    BY <2>7, <2>a DEF Resume, IReport
  <2>8. CASE Complete
    <3>1. Ended' = Ended \cup {cur}
      BY <2>8 DEF Complete, Ended, Busy
    <3> QED BY <2>8, <3>1 DEF Complete, IReport
  <2>9. CASE Retire
    <3>1. active' \subseteq active \ {cur} /\ pc' = "check"
      BY <2>9 DEF Retire, SameEntry
    <3> QED BY <2>9, <2>a, <3>1 DEF Retire, IReport
  <2>10. CASE Raise
    BY <2>10 DEF Raise
  <2>11. CASE CheckReport
    <3>1. cur \notin added
      BY <2>0, <2>11 DEF CheckReport, Busy
    <3> QED BY <2>11, <2>a, <3>1 DEF CheckReport, IReport
  <2>12. CASE SendReport \/ ReportRaises \/ ReportHangs
    BY <2>12, <2>a DEF SendReport, ReportRaises, ReportHangs, IReport
  <2>13. CASE UNCHANGED vars
    BY <2>13, <2>a DEF vars, IReport
  <2> QED BY <2>1, <2>2, <2>3, <2>4, <2>5, <2>6, <2>7, <2>8, <2>9, <2>10, <2>11, <2>12,
             <2>13 DEF Next, Work
<1> QED BY <1>1, <1>2, TypeCorrect, IPlaceInvariant, PTL DEF Spec

\* Once everything has ended well the controller has been told.
THEOREM QuiescentReportedHolds == Spec => []QuiescentReported
<1>1. TypeOK /\ IReport => QuiescentReported
  BY DEF IReport, QuiescentReported, TypeOK
<1> QED BY <1>1, TypeCorrect, IReportInvariant, PTL
-----------------------------------------------------------------------------
(* The ledger *)

Items(q) == {q[i] : i \in 1 .. Len(q)}

LEMMA PrecedesAppend ==
  ASSUME NEW q \in Seq(Update), NEW u \in Update
  PROVE  \A a, b : Precedes(Append(q, u), a, b) <=>
                     Precedes(q, a, b) \/ (a \in Items(q) /\ b = u)
<1> DEFINE n == Len(q)
           r == Append(q, u)
<1>1. /\ n \in Nat /\ Len(r) = n + 1 /\ r[n + 1] = u
      /\ \A i \in 1 .. n : r[i] = q[i]
  OBVIOUS
<1> HIDE DEF n, r
<1>2. \A i \in 1 .. Len(r) : i \in 1 .. n \/ i = n + 1
  BY <1>1
<1>3. ASSUME NEW a, NEW b, Precedes(r, a, b)
      PROVE  Precedes(q, a, b) \/ (a \in Items(q) /\ b = u)
  <2>1. PICK i \in 1 .. Len(r), j \in 1 .. Len(r) : i < j /\ r[i] = a /\ r[j] = b
    BY <1>3 DEF Precedes
  <2>2. i \in 1 .. n /\ q[i] = a
    BY <1>1, <2>1
  <2>3. CASE j \in 1 .. n
    BY <1>1, <2>1, <2>2, <2>3 DEF Precedes, n
  <2>4. CASE j = n + 1
    BY <1>1, <2>1, <2>2, <2>4 DEF Items, n
  <2> QED BY <1>2, <2>3, <2>4
<1>4. ASSUME NEW a, NEW b, Precedes(q, a, b) PROVE Precedes(r, a, b)
  <2>1. PICK i \in 1 .. n, j \in 1 .. n : i < j /\ q[i] = a /\ q[j] = b
    BY <1>4 DEF Precedes, n
  <2>2. i \in 1 .. Len(r) /\ j \in 1 .. Len(r) /\ r[i] = a /\ r[j] = b
    BY <1>1, <2>1
  <2> QED BY <2>1, <2>2 DEF Precedes
<1>5. ASSUME NEW a \in Items(q) PROVE Precedes(r, a, u)
  <2>1. PICK i \in 1 .. n : q[i] = a
    BY DEF Items, n
  <2>2. i \in 1 .. Len(r) /\ n + 1 \in 1 .. Len(r) /\ i < n + 1 /\ r[i] = a /\ r[n + 1] = u
    BY <1>1, <2>1
  <2> QED BY <2>2 DEF Precedes
<1> QED BY <1>3, <1>4, <1>5 DEF r

LEMMA PrecedesTail ==
  ASSUME NEW q \in Seq(Update), q # <<>>
  PROVE  \A a, b : Precedes(q, a, b) <=>
                     Precedes(Tail(q), a, b) \/ (a = Head(q) /\ b \in Items(Tail(q)))
<1> DEFINE n == Len(q)
           r == Tail(q)
<1>1. /\ n \in Nat \ {0} /\ Len(r) = n - 1 /\ Head(q) = q[1]
      /\ \A i \in 1 .. (n - 1) : r[i] = q[i + 1]
  BY HeadTailProperties
<1> HIDE DEF n, r
<1>2. \A i \in 1 .. n : i = 1 \/ (i - 1 \in 1 .. Len(r) /\ r[i - 1] = q[i])
  BY <1>1
<1>3. \A i \in 1 .. Len(r) : i + 1 \in 1 .. n /\ q[i + 1] = r[i]
  BY <1>1
<1>4. ASSUME NEW a, NEW b, Precedes(q, a, b)
      PROVE  Precedes(r, a, b) \/ (a = Head(q) /\ b \in Items(r))
  <2>1. PICK i \in 1 .. n, j \in 1 .. n : i < j /\ q[i] = a /\ q[j] = b
    BY <1>4 DEF Precedes, n
  <2>2. j - 1 \in 1 .. Len(r) /\ r[j - 1] = b
    BY <1>2, <2>1
  <2>3. CASE i = 1
    BY <1>1, <2>1, <2>2, <2>3 DEF Items
  <2>4. CASE i # 1
    <3>1. i - 1 \in 1 .. Len(r) /\ r[i - 1] = a /\ i - 1 < j - 1
      BY <1>2, <2>1, <2>4
    <3> QED BY <2>2, <3>1 DEF Precedes
  <2> QED BY <2>3, <2>4
<1>5. ASSUME NEW a, NEW b, Precedes(r, a, b) PROVE Precedes(q, a, b)
  <2>1. PICK i \in 1 .. Len(r), j \in 1 .. Len(r) : i < j /\ r[i] = a /\ r[j] = b
    BY <1>5 DEF Precedes
  <2>2. /\ i + 1 \in 1 .. Len(q) /\ j + 1 \in 1 .. Len(q) /\ i + 1 < j + 1
        /\ q[i + 1] = a /\ q[j + 1] = b
    BY <1>3, <2>1 DEF n
  <2> QED BY <2>2 DEF Precedes
<1>6. ASSUME NEW b \in Items(r) PROVE Precedes(q, Head(q), b)
  <2>1. PICK i \in 1 .. Len(r) : r[i] = b
    BY DEF Items
  <2>2. 1 \in 1 .. Len(q) /\ i + 1 \in 1 .. Len(q) /\ 1 < i + 1 /\ q[i + 1] = b
    BY <1>1, <1>3, <2>1 DEF n
  <2> QED BY <1>1, <2>2 DEF Precedes
<1> QED BY <1>4, <1>5, <1>6 DEF r

LEMMA PrecedesConcat ==
  ASSUME NEW q \in Seq(Update), NEW r \in Seq(Update)
  PROVE  \A a, b : /\ Precedes(q, a, b) => Precedes(q \o r, a, b)
                   /\ a \in Items(q) /\ b \in Items(r) => Precedes(q \o r, a, b)
                   /\ Precedes(q \o r, a, b) => Precedes(q, a, b) \/ b \in Items(r)
<1> DEFINE n == Len(q)
           m == Len(r)
           s == q \o r
<1>1. /\ n \in Nat /\ m \in Nat /\ Len(s) = n + m
      /\ \A i \in 1 .. n : s[i] = q[i]
      /\ \A i \in (n + 1) .. (n + m) : s[i] = r[i - n]
  BY ConcatProperties
<1> HIDE DEF n, m, s
<1>2. \A i \in 1 .. Len(s) : i \in 1 .. n \/ (i \in (n + 1) .. (n + m) /\ i - n \in 1 .. m)
  BY <1>1
<1>3. \A i \in 1 .. m : i + n \in 1 .. Len(s) /\ n < i + n /\ s[i + n] = r[i]
  <2> SUFFICES ASSUME NEW i \in 1 .. m
               PROVE  i + n \in 1 .. Len(s) /\ n < i + n /\ s[i + n] = r[i]
    OBVIOUS
  <2>1. i + n \in (n + 1) .. (n + m) /\ (i + n) - n = i /\ n < i + n
    BY <1>1
  <2>2. i + n \in 1 .. Len(s)
    BY <1>1, <2>1
  <2> QED BY <1>1, <2>1, <2>2
<1>4. ASSUME NEW a, NEW b, Precedes(q, a, b) PROVE Precedes(s, a, b)
  <2>1. PICK i \in 1 .. n, j \in 1 .. n : i < j /\ q[i] = a /\ q[j] = b
    BY <1>4 DEF Precedes, n
  <2>2. i \in 1 .. Len(s) /\ j \in 1 .. Len(s) /\ s[i] = a /\ s[j] = b
    BY <1>1, <2>1
  <2> QED BY <2>1, <2>2 DEF Precedes
<1>5. ASSUME NEW a \in Items(q), NEW b \in Items(r) PROVE Precedes(s, a, b)
  <2>1. PICK i \in 1 .. n, j \in 1 .. m : q[i] = a /\ r[j] = b
    BY DEF Items, n, m
  <2>2. i \in 1 .. Len(s) /\ j + n \in 1 .. Len(s) /\ i < j + n /\ s[i] = a /\ s[j + n] = b
    BY <1>1, <1>3, <2>1
  <2> QED BY <2>2 DEF Precedes
<1>6. ASSUME NEW a, NEW b, Precedes(s, a, b)
      PROVE  Precedes(q, a, b) \/ b \in Items(r)
  <2>1. PICK i \in 1 .. Len(s), j \in 1 .. Len(s) : i < j /\ s[i] = a /\ s[j] = b
    BY <1>6 DEF Precedes
  <2>2. CASE j \in 1 .. n
    <3>1. i \in 1 .. n
      BY <1>1, <2>1, <2>2
    <3> QED BY <1>1, <2>1, <2>2, <3>1 DEF Precedes, n
  <2>3. CASE j \in (n + 1) .. (n + m) /\ j - n \in 1 .. m
    BY <1>1, <2>1, <2>3 DEF Items, m
  <2> QED BY <1>2, <2>2, <2>3
<1> QED BY <1>4, <1>5, <1>6 DEF s

\* Without duplicates a queue is a strict linear order.
LEMMA PrecedesOrders ==
  ASSUME NEW q \in Seq(Update), \A i, j \in 1 .. Len(q) : q[i] = q[j] => i = j
  PROVE  /\ \A a, b : Precedes(q, a, b) => a \in Items(q) /\ b \in Items(q) /\ a # b
         /\ \A a, b \in Items(q) : a # b => Precedes(q, a, b) \/ Precedes(q, b, a)
         /\ \A a, b, c : Precedes(q, a, b) /\ Precedes(q, b, c) => Precedes(q, a, c)
<1> DEFINE n == Len(q)
<1>1. n \in Nat
  OBVIOUS
<1> HIDE DEF n
<1>2. ASSUME NEW a, NEW b, Precedes(q, a, b)
      PROVE  a \in Items(q) /\ b \in Items(q) /\ a # b
  <2>1. PICK i \in 1 .. n, j \in 1 .. n : i < j /\ q[i] = a /\ q[j] = b
    BY <1>2 DEF Precedes, n
  <2>2. i # j
    BY <1>1, <2>1
  <2> QED BY <2>1, <2>2 DEF Items, n
<1>3. ASSUME NEW a \in Items(q), NEW b \in Items(q), a # b
      PROVE  Precedes(q, a, b) \/ Precedes(q, b, a)
  <2>1. PICK i \in 1 .. n, j \in 1 .. n : q[i] = a /\ q[j] = b
    BY DEF Items, n
  <2>2. i < j \/ j < i
    BY <1>1, <1>3, <2>1
  <2> QED BY <2>1, <2>2 DEF Precedes, n
<1>4. ASSUME NEW a, NEW b, NEW c, Precedes(q, a, b), Precedes(q, b, c)
      PROVE  Precedes(q, a, c)
  <2>1. PICK i \in 1 .. n, j \in 1 .. n : i < j /\ q[i] = a /\ q[j] = b
    BY <1>4 DEF Precedes, n
  <2>2. PICK k \in 1 .. n, l \in 1 .. n : k < l /\ q[k] = b /\ q[l] = c
    BY <1>4 DEF Precedes, n
  <2>3. j = k
    BY <2>1, <2>2 DEF n
  <2>4. i < l
    BY <1>1, <2>1, <2>2, <2>3
  <2> QED BY <2>1, <2>2, <2>4 DEF Precedes, n
<1> QED BY <1>2, <1>3, <1>4

\* The updates that wait are ordered.
Ordered == Ledger!Orders(WaitsBefore, Waiting)

LEMMA WaitingOrdered == TypeOK /\ IPlace => Ordered
<1> SUFFICES ASSUME TypeOK, IPlace PROVE Ordered
  OBVIOUS
<1> DEFINE q == updateQueue
           first(u, v) == Precedes(q, u, v) \/ (u \in InHand /\ v \in Queued)
<1>1. q \in Seq(Update) /\ \A i, j \in 1 .. Len(q) : q[i] = q[j] => i = j
  BY DEF TypeOK, IPlace, InOnePlace
<1>2. Queued = Items(q) /\ InHand \cap Queued = {} /\ \A u, v \in InHand : u = v
  BY DEF Queued, Items, InHand, IPlace, InOnePlace
<1>3. Waiting \subseteq InHand \cup Queued
  BY DEF Waiting
<1>4. \A u, v : <<u, v>> \in WaitsBefore <=> u \in Waiting /\ v \in Waiting /\ first(u, v)
  BY DEF WaitsBefore
<1> HIDE DEF q
<1>5. /\ \A a, b : Precedes(q, a, b) => a \in Queued /\ b \in Queued /\ a # b
      /\ \A a, b \in Queued : a # b => Precedes(q, a, b) \/ Precedes(q, b, a)
      /\ \A a, b, c : Precedes(q, a, b) /\ Precedes(q, b, c) => Precedes(q, a, c)
  BY <1>1, <1>2, PrecedesOrders
<1>6. \A u \in Waiting : ~first(u, u)
  BY <1>2, <1>5
<1>7. \A u, v \in Waiting : u # v => first(u, v) \/ first(v, u)
  BY <1>2, <1>3, <1>5
<1>8. \A u, v, w \in Waiting : first(u, v) /\ first(v, w) => first(u, w)
  BY <1>2, <1>3, <1>5
<1>9. WaitsBefore \subseteq Waiting \X Waiting
  BY DEF WaitsBefore
<1> HIDE DEF first
<1> QED BY <1>4, <1>6, <1>7, <1>8, <1>9 DEF Ordered, Ledger!Orders

\* What has been started was queued, and builds, runs or has ended.
ILedger ==
  /\ started \subseteq added
  /\ Ended \subseteq started
  /\ building \subseteq started
  /\ pc \in {"running", "completed"} => cur \in started

LEMMA ILedgerInvariant == Spec => []ILedger
<1>1. Init => ILedger
  BY DEF Init, ILedger, Ended
<1>2. TypeOK /\ IPlace /\ ILedger /\ [Next]_vars => ILedger'
  <2> SUFFICES ASSUME TypeOK, IPlace, ILedger, [Next]_vars PROVE ILedger'
    OBVIOUS
  <2>a. ASSUME UNCHANGED <<completions, raised>> PROVE Ended' = Ended
    BY <2>a DEF Ended
  <2>1. ASSUME NEW u \in Update, AddUpdate(u) \/ ProvisionSelf(u) \/ Resume(u) PROVE ILedger'
    BY <2>1, <2>a DEF AddUpdate, ProvisionSelf, Resume, ILedger
  <2>2. CASE BootUpdates \/ Take
    BY <2>2, <2>a DEF BootUpdates, Take, ILedger
  <2>3. CASE Mark
    <3>1. cur \in added
      BY <2>3 DEF Mark, IPlace, Busy
    <3> QED BY <2>3, <2>a, <3>1 DEF Mark, ILedger
  <2>4. CASE Yield
    BY <2>4, <2>a DEF Yield, ILedger
  <2>5. CASE Complete
    <3>1. Ended' \subseteq Ended \cup {cur}
      BY <2>5 DEF Complete, Ended, TypeOK, Busy
    <3> QED BY <2>5, <3>1 DEF Complete, ILedger
  <2>6. CASE Raise
    <3>1. Ended' \subseteq Ended \cup {cur}
      BY <2>6 DEF Raise, Ended
    <3> QED BY <2>6, <3>1 DEF Raise, ILedger
  <2>7. CASE Retire \/ CheckReport \/ SendReport \/ ReportRaises \/ ReportHangs \/ ProvisionByApi
    BY <2>7, <2>a DEF Retire, CheckReport, SendReport, ReportRaises, ReportHangs, ProvisionByApi, ILedger
  <2>8. CASE UNCHANGED vars
    BY <2>8, <2>a DEF vars, ILedger
  <2> QED BY <2>1, <2>2, <2>3, <2>4, <2>5, <2>6, <2>7, <2>8 DEF Next, Work
<1> QED BY <1>1, <1>2, TypeCorrect, IPlaceInvariant, PTL DEF Spec

\* In which order two updates wait.
WaitsFor(u, v) == Precedes(updateQueue, u, v) \/ (u \in InHand /\ v \in Queued)

LEMMA WaitsBeforeMember ==
  WaitsBefore = {p \in Waiting \X Waiting : WaitsFor(p[1], p[2])}
BY DEF WaitsBefore, WaitsFor

\* New updates that are queued after all others arrive.
LEMMA Arrives ==
  ASSUME ILedger, Ordered',
         NEW S, S # {}, S \cap (added \cup Waiting) = {},
         UNCHANGED <<InHand, started, Ended>>,
         Waiting' = Waiting \cup S,
         \A u, v \in Waiting : WaitsFor(u, v)' <=> WaitsFor(u, v),
         \A u \in Waiting, v \in S : WaitsFor(u, v)'
  PROVE  Ledger!Arrive
<1>1. Waiting' \ Waiting = S
  OBVIOUS
<1>2. S \cap ((started \ Ended) \cup Ended) = {}
  BY DEF ILedger
<1>3. \A u, v : <<u, v>> \in WaitsBefore <=> u \in Waiting /\ v \in Waiting /\ WaitsFor(u, v)
  BY DEF WaitsBefore, WaitsFor
<1>4. \A u, v : <<u, v>> \in WaitsBefore' <=> u \in Waiting' /\ v \in Waiting' /\ WaitsFor(u, v)'
  BY DEF WaitsBefore, WaitsFor
<1>5. Waiting \X S \subseteq WaitsBefore'
  BY <1>4
<1>6. WaitsBefore' \cap (Waiting \X Waiting) = WaitsBefore
  <2>1. WaitsBefore \subseteq Waiting \X Waiting
    BY DEF WaitsBefore
  <2> QED BY <1>3, <1>4, <2>1
<1> QED BY <1>1, <1>2, <1>5, <1>6 DEF Ordered, Ledger!Arrive

\* The ledger does not change when neither those that wait nor their order do.
LEMMA Stays ==
  ASSUME UNCHANGED <<started, Ended>>, Waiting' = Waiting,
         \A u, v \in Waiting : WaitsFor(u, v)' <=> WaitsFor(u, v)
  PROVE  UNCHANGED Ledger!ledgerVars
<1>1. WaitsBefore' = WaitsBefore
  <2>1. \A u, v : <<u, v>> \in WaitsBefore <=> u \in Waiting /\ v \in Waiting /\ WaitsFor(u, v)
    BY DEF WaitsBefore, WaitsFor
  <2>2. \A u, v : <<u, v>> \in WaitsBefore' <=> u \in Waiting' /\ v \in Waiting' /\ WaitsFor(u, v)'
    BY DEF WaitsBefore, WaitsFor
  <2>3. WaitsBefore \subseteq Waiting \X Waiting /\ WaitsBefore' \subseteq Waiting \X Waiting
    BY DEF WaitsBefore
  <2> QED BY <2>1, <2>2, <2>3
<1> QED BY <1>1 DEF Ledger!ledgerVars

LEMMA LedgerStep ==
  ASSUME TypeOK, IPlace, ILedger, Ordered', [Next]_vars
  PROVE  [Ledger!Next]_(Ledger!ledgerVars)
<1> USE UpdateManagerAssumption
<1> SUFFICES Ledger!Arrive \/ Ledger!Open \/ Ledger!End \/ UNCHANGED Ledger!ledgerVars
  BY DEF Ledger!Next
<1>1. /\ updateQueue \in Seq(Update) /\ Distinct /\ Queued = Items(updateQueue)
      /\ Queued \subseteq added /\ NoUpdate \notin added
      /\ Ended \subseteq started /\ started \subseteq added /\ building \subseteq started
      /\ InHand \subseteq added /\ InHand \cap Queued = {}
  BY DEF TypeOK, IPlace, InOnePlace, ILedger, Distinct, Queued, Items, InHand, Busy
<1>2. ASSUME UNCHANGED <<completions, raised>> PROVE Ended' = Ended
  BY <1>2 DEF Ended
<1>3. ASSUME UNCHANGED <<started, updateQueue, InHand, Ended>>
      PROVE  UNCHANGED Ledger!ledgerVars
  <2>1. Queued' = Queued
    BY <1>3 DEF Queued
  <2>2. Waiting' = Waiting
    BY <1>3, <2>1 DEF Waiting
  <2>3. \A u, v : WaitsFor(u, v)' <=> WaitsFor(u, v)
    BY <1>3, <2>1 DEF WaitsFor, Precedes
  <2> QED BY <1>3, <2>2, <2>3, Stays
<1>4. ASSUME NEW u \in Update, u \notin Queued,
             updateQueue' = Append(updateQueue, u), UNCHANGED InHand
      PROVE  /\ Queued' = Queued \cup {u}
             /\ \A v, w : WaitsFor(v, w)' <=>
                  WaitsFor(v, w) \/ (v \in InHand \cup Queued /\ w = u)
  <2>1. Queued' = Queued \cup {u}
    BY <1>1, <1>4, QueueAppend
  <2>2. \A v, w : Precedes(updateQueue', v, w) <=>
                    Precedes(updateQueue, v, w) \/ (v \in Queued /\ w = u)
    BY <1>1, <1>4, PrecedesAppend
  <2> QED BY <1>4, <2>1, <2>2 DEF WaitsFor
<1>5. ASSUME NEW u \in Update, AddUpdate(u) \/ ProvisionSelf(u) PROVE Ledger!Arrive
  <2>1. /\ u \notin added /\ updateQueue' = Append(updateQueue, u)
        /\ UNCHANGED <<pc, cur, started, completions, raised>>
    BY <1>5 DEF AddUpdate, ProvisionSelf
  <2>2. UNCHANGED InHand /\ UNCHANGED Ended
    BY <1>2, <2>1 DEF InHand
  <2>3. /\ Queued' = Queued \cup {u}
        /\ \A v, w : WaitsFor(v, w)' <=>
             WaitsFor(v, w) \/ (v \in InHand \cup Queued /\ w = u)
    BY <1>1, <1>4, <2>1, <2>2
  <2>4. Waiting \subseteq InHand \cup Queued /\ u \notin Waiting
    BY <1>1, <2>1 DEF Waiting
  <2>5. Waiting' = Waiting \cup {u}
    BY <1>1, <2>1, <2>2, <2>3 DEF Waiting
  <2>6. \A v, w \in Waiting : WaitsFor(v, w)' <=> WaitsFor(v, w)
    BY <2>3, <2>4
  <2>7. \A v \in Waiting, w \in {u} : WaitsFor(v, w)'
    BY <2>3, <2>4
  <2>8. {u} # {} /\ {u} \cap (added \cup Waiting) = {} /\ UNCHANGED <<InHand, started, Ended>>
    BY <2>1, <2>2, <2>4
  <2> QED BY <2>5, <2>6, <2>7, <2>8, Arrives
<1>6. CASE BootUpdates
  <2>1. /\ pc = "boot" /\ pc' = "idle" /\ updateQueue' = updateQueue \o Boot
        /\ UNCHANGED <<cur, started, completions, raised>>
    BY <1>6 DEF BootUpdates
  <2>2. UNCHANGED <<InHand, Ended>> /\ InHand = {} /\ added \cap BootSet = {}
    BY <1>2, <2>1 DEF InHand, IPlace
  <2>3. Queued' = Queued \cup BootSet
    BY <1>1, <2>1, <2>2, QueueBoot
  <2>4. /\ \A v, w \in Queued : WaitsFor(v, w)' <=> WaitsFor(v, w)
        /\ \A v \in Queued, w \in BootSet : WaitsFor(v, w)'
    <3>1. BootSet = Items(Boot)
      BY DEF BootSet, Items
    <3>2. \A v, w : /\ Precedes(updateQueue, v, w) => Precedes(updateQueue', v, w)
                    /\ v \in Queued /\ w \in BootSet => Precedes(updateQueue', v, w)
                    /\ Precedes(updateQueue', v, w) => Precedes(updateQueue, v, w) \/ w \in BootSet
      BY <1>1, <2>1, <3>1, PrecedesConcat
    <3>3. \A v, w : (WaitsFor(v, w) <=> Precedes(updateQueue, v, w))
                    /\ (WaitsFor(v, w)' <=> Precedes(updateQueue', v, w))
      BY <2>2 DEF WaitsFor
    <3> QED BY <1>1, <2>2, <3>2, <3>3
  <2>5. Waiting \subseteq Queued /\ Waiting' = Waiting \cup BootSet
    BY <1>1, <2>1, <2>2, <2>3 DEF Waiting
  <2>6. CASE BootSet = {}
    BY <2>1, <2>2, <2>4, <2>5, <2>6, Stays
  <2>7. CASE BootSet # {}
    <3>1. BootSet \cap (added \cup Waiting) = {}
      BY <1>1, <2>2, <2>5
    <3>2. Ledger!Arrive
      BY <2>1, <2>2, <2>4, <2>5, <2>7, <3>1, Arrives
    <3> QED BY <3>2
  <2> QED BY <2>6, <2>7
<1>7. CASE Take
  <2>1. /\ pc = "idle" /\ pc' = "taken" /\ updateQueue # <<>>
        /\ cur' = Head(updateQueue) /\ updateQueue' = Tail(updateQueue)
        /\ UNCHANGED <<started, completions, raised>>
    BY <1>7 DEF Take
  <2>2. InHand = {} /\ InHand' = {Head(updateQueue)} /\ UNCHANGED Ended
    BY <1>2, <2>1 DEF InHand
  <2>3. Head(updateQueue) \in Queued /\ Queued' = Queued \ {Head(updateQueue)}
    BY <1>1, <2>1, QueueTake
  <2>4. Waiting' = Waiting
    BY <2>1, <2>2, <2>3 DEF Waiting
  <2>5. \A v, w : WaitsFor(v, w)' <=> WaitsFor(v, w)
    <3>1. Queued' = Items(Tail(updateQueue))
      BY <2>1 DEF Queued, Items
    <3>2. \A v, w : Precedes(updateQueue, v, w) <=>
                      Precedes(updateQueue', v, w) \/ (v = Head(updateQueue) /\ w \in Queued')
      BY <1>1, <2>1, <3>1, PrecedesTail
    <3> QED BY <2>2, <3>2 DEF WaitsFor
  <2> QED BY <2>1, <2>2, <2>4, <2>5, Stays
<1>8. CASE Mark
  <2>1. /\ pc = "taken" /\ pc' = "running" /\ started' = started \cup {cur}
        /\ UNCHANGED <<cur, updateQueue, completions, raised>>
    BY <1>8 DEF Mark
  <2>2. InHand = {cur} /\ InHand' = {} /\ UNCHANGED <<Ended, Queued>>
    BY <1>2, <2>1 DEF InHand, Queued
  <2>3. cur \notin Queued /\ cur \notin Ended
    BY <1>1, <2>1, <2>2 DEF IPlace
  <2>4. Waiting' = Waiting \ {cur} /\ Waiting' \subseteq Queued
    BY <2>1, <2>2, <2>3 DEF Waiting
  <2>5. \A v, w : WaitsFor(v, w) <=> Precedes(updateQueue, v, w) \/ (v = cur /\ w \in Queued)
    BY <2>2 DEF WaitsFor
  <2>6. \A v, w : WaitsFor(v, w)' <=> Precedes(updateQueue, v, w)
    BY <2>1, <2>2 DEF WaitsFor
  <2>7. CASE cur \in started
    <3>1. started' = started /\ Waiting' = Waiting
      BY <2>1, <2>4, <2>7 DEF Waiting
    <3>2. \A v, w \in Waiting : WaitsFor(v, w)' <=> WaitsFor(v, w)
      BY <2>5, <2>6, <2>7 DEF Waiting
    <3> QED BY <2>2, <3>1, <3>2, Stays
  <2>8. CASE cur \notin started
    <3>1. cur \in Waiting
      BY <2>2, <2>8 DEF Waiting
    <3>2. \A v : ~WaitsFor(v, cur)
      <4>1. \A v, w : Precedes(updateQueue, v, w) => w \in Queued
        BY <1>1, PrecedesOrders DEF Distinct
      <4> QED BY <2>3, <2>5, <4>1
    <3>3. \A v \in Waiting : <<v, cur>> \notin WaitsBefore
      BY <3>2 DEF WaitsBefore, WaitsFor
    <3>4. WaitsBefore' = WaitsBefore \cap (Waiting' \X Waiting')
      <4>1. \A u, v : <<u, v>> \in WaitsBefore <=> u \in Waiting /\ v \in Waiting /\ WaitsFor(u, v)
        BY DEF WaitsBefore, WaitsFor
      <4>2. \A u, v : <<u, v>> \in WaitsBefore' <=> u \in Waiting' /\ v \in Waiting' /\ WaitsFor(u, v)'
        BY DEF WaitsBefore, WaitsFor
      <4>3. WaitsBefore' \subseteq Waiting' \X Waiting'
        BY DEF WaitsBefore
      <4>4. \A u, v \in Waiting' : u # cur /\ (WaitsFor(u, v)' <=> WaitsFor(u, v))
        BY <2>4, <2>5, <2>6
      <4> QED BY <2>4, <4>1, <4>2, <4>3, <4>4
    <3>5. (started \ Ended)' = (started \ Ended) \cup {cur}
      BY <2>1, <2>2, <2>3
    <3>6. Ledger!Open
      BY <2>2, <2>4, <3>1, <3>3, <3>4, <3>5 DEF Ledger!Open
    <3> QED BY <3>6
  <2> QED BY <2>7, <2>8
<1>9. ASSUME NEW u \in Update, Resume(u) PROVE UNCHANGED Ledger!ledgerVars
  <2>1. /\ u \in building /\ updateQueue' = Append(updateQueue, u)
        /\ UNCHANGED <<pc, cur, started, completions, raised>>
    BY <1>9 DEF Resume
  <2>2. UNCHANGED <<InHand, Ended>> /\ u \notin Queued /\ u \in started
    BY <1>1, <1>2, <2>1 DEF InHand, IPlace, InOnePlace
  <2>3. /\ Queued' = Queued \cup {u}
        /\ \A v, w : WaitsFor(v, w)' <=>
             WaitsFor(v, w) \/ (v \in InHand \cup Queued /\ w = u)
    BY <1>4, <2>1, <2>2
  <2>4. Waiting' = Waiting /\ u \notin Waiting
    BY <2>1, <2>2, <2>3 DEF Waiting
  <2> QED BY <2>1, <2>2, <2>3, <2>4, Stays
<1>10. CASE Complete \/ Raise
  <2>1. /\ pc = "running" /\ cur \in started /\ cur \notin Ended
        /\ UNCHANGED <<updateQueue, started>> /\ pc' # "taken"
    BY <1>10 DEF Complete, Raise, ILedger, IPlace
  <2>2. Ended' = Ended \cup {cur}
    <3>1. CASE Complete
      BY <3>1 DEF Complete, Ended, TypeOK, Busy
    <3>2. CASE Raise
      BY <3>2 DEF Raise, Ended
    <3> QED BY <1>10, <3>1, <3>2
  <2>3. UNCHANGED <<InHand, Queued>>
    BY <2>1 DEF InHand, Queued
  <2>4. UNCHANGED <<Waiting, WaitsBefore>>
    BY <2>1, <2>3 DEF Waiting, WaitsBefore
  <2>5. cur \in started \ Ended /\ (started \ Ended)' = (started \ Ended) \ {cur}
    BY <2>1, <2>2
  <2>6. Ledger!End
    BY <2>2, <2>4, <2>5 DEF Ledger!End
  <2> QED BY <2>6
<1>11. CASE \/ Yield \/ Retire \/ CheckReport \/ SendReport \/ ReportRaises \/ ReportHangs
            \/ ProvisionByApi \/ UNCHANGED vars
  <2>1. /\ UNCHANGED <<updateQueue, started, completions, raised>>
        /\ UNCHANGED <<pc, cur>> \/ (pc # "taken" /\ pc' # "taken")
    BY <1>11 DEF Yield, Retire, CheckReport, SendReport, ReportRaises, ReportHangs, ProvisionByApi, vars
  <2>2. UNCHANGED <<InHand, Ended>>
    BY <1>2, <2>1 DEF InHand
  <2> QED BY <1>3, <2>1, <2>2
<1> QED BY <1>5, <1>6, <1>7, <1>8, <1>9, <1>10, <1>11 DEF Next, Work

\* Updates are first processed in the order they were queued in, whatever builds,
\* resumptions and the daemon's own updates come in between, and none is processed again
\* after it ended: the update manager keeps the change ledger.
THEOREM KeepsLedgerHolds == Spec => KeepsLedger
<1>1. Init => Ledger!Init
  <2> SUFFICES ASSUME Init PROVE Ledger!Init
    OBVIOUS
  <2>1. Queued = {} /\ InHand = {} /\ started = {} /\ Ended = {}
    BY DEF Init, Queued, InHand, Ended
  <2>2. Waiting = {}
    BY <2>1 DEF Waiting
  <2>3. WaitsBefore = {}
    BY <2>2 DEF WaitsBefore
  <2> QED BY <2>1, <2>2, <2>3 DEF Ledger!Init
<1>2. Spec => []Ordered
  BY WaitingOrdered, TypeCorrect, IPlaceInvariant, PTL
<1>3. TypeOK /\ IPlace /\ ILedger /\ Ordered' /\ [Next]_vars
        => [Ledger!Next]_(Ledger!ledgerVars)
  BY LedgerStep
<1> QED BY <1>1, <1>2, <1>3, TypeCorrect, IPlaceInvariant, ILedgerInvariant, PTL
        DEF Spec, KeepsLedger, Ledger!Spec
-----------------------------------------------------------------------------
\* Each step of the manager is, for each update, one its execution relies on, or
\* none.
LEMMA ContractStep ==
  ASSUME NEW u \in Update, TypeOK, IPlace, [Next]_vars
  PROVE  [Contract(u)!Next]_(Contract(u)!executionVars)
<1> USE DEF Contract!executionVars
<1>1. ASSUME UNCHANGED <<building, built, completions, raised>>
      PROVE  UNCHANGED Contract(u)!executionVars
  <2>1. Ended' = Ended
    BY <1>1 DEF Ended
  <2> QED BY <1>1, <2>1
<1>2. \A v \in Update : AddUpdate(v) \/ ProvisionSelf(v) => UNCHANGED Contract(u)!executionVars
  BY <1>1 DEF AddUpdate, ProvisionSelf, historyVars
<1>3. CASE \/ ProvisionByApi \/ BootUpdates \/ Take \/ Mark \/ Retire
           \/ CheckReport \/ SendReport \/ ReportRaises \/ ReportHangs \/ UNCHANGED vars
  BY <1>1, <1>3 DEF ProvisionByApi, BootUpdates, Take, Mark, Retire, CheckReport,
       SendReport, ReportRaises, ReportHangs, vars, historyVars
<1>4. CASE Yield
  <2>1. /\ cur \in Update /\ cur \notin Ended /\ cur \notin building
        /\ built[cur] < Builds[cur] /\ built' = [built EXCEPT ![cur] = @ + 1]
        /\ building' = building \cup {cur} /\ UNCHANGED <<completions, raised>>
    BY <1>4 DEF Yield, TypeOK, Busy, IPlace, InOnePlace
  <2>2. Ended' = Ended
    BY <2>1 DEF Ended
  <2>3. CASE u = cur
    <3>1. built'[u] = built[u] + 1
      BY <2>1, <2>3 DEF TypeOK
    <3> QED BY <2>1, <2>2, <2>3, <3>1 DEF Contract!Next, Contract!Yield
  <2>4. CASE u # cur
    <3>1. built'[u] = built[u]
      BY <2>1, <2>4 DEF TypeOK
    <3> QED BY <2>1, <2>2, <2>4, <3>1
  <2> QED BY <2>3, <2>4
<1>5. ASSUME NEW v \in Update, Resume(v)
      PROVE  [Contract(u)!Next]_(Contract(u)!executionVars)
  <2>1. /\ v \in building /\ building' = building \ {v}
        /\ UNCHANGED <<built, completions, raised>>
    BY <1>5 DEF Resume, historyVars
  <2>2. Ended' = Ended /\ v \notin Ended
    BY <2>1 DEF Ended, IPlace, InOnePlace
  <2> QED BY <2>1, <2>2 DEF Contract!Next, Contract!Resume
<1>6. CASE Complete \/ Raise
  <2>1. /\ cur \in Update /\ cur \notin Ended /\ cur \notin building
        /\ UNCHANGED <<building, built>>
    BY <1>6 DEF Complete, Raise, TypeOK, Busy, IPlace, InOnePlace
  <2>2. Ended' = Ended \cup {cur}
    <3>1. CASE Complete
      BY <3>1 DEF Complete, Ended, TypeOK, Busy
    <3>2. CASE Raise
      BY <3>2 DEF Raise, Ended
    <3> QED BY <1>6, <3>1, <3>2
  <2> QED BY <2>1, <2>2 DEF Contract!Next, Contract!End
<1> QED BY <1>2, <1>3, <1>4, <1>5, <1>6 DEF Next, Work

\* No update goes on while its Deferred is pending or after it has ended, whatever the
\* others do: the manager handles each as its execution relies on.
THEOREM KeepsContractsHolds == Spec => KeepsContracts
<1>1. ASSUME NEW u \in Update PROVE Spec => Contract(u)!Spec
  <2>1. Init => Contract(u)!Init
    BY DEF Init, Contract!Init, Ended
  <2>2. TypeOK /\ IPlace /\ [Next]_vars => [Contract(u)!Next]_(Contract(u)!executionVars)
    BY ContractStep
  <2> QED BY <2>1, <2>2, TypeCorrect, IPlaceInvariant, PTL DEF Spec, Contract!Spec
<1> QED BY <1>1 DEF KeepsContracts
=============================================================================
