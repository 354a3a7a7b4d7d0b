------------------------- MODULE UpdateFetcherProofs -------------------------
(***************************************************************************)
(* Proofs about UpdateFetcher, for every set of updates, any number of     *)
(* faults and restarts: what the controller may believe, and, where polls  *)
(* do not overlap, that no update runs twice.                              *)
(***************************************************************************)
EXTENDS UpdateFetcher, TLAPS, SequenceTheorems, FiniteSetTheorems

USE DEF server, outcomes, history, network

\* What is left of a list from its i-th item on.
LEMMA Rest ==
  ASSUME NEW list \in Seq(Item), NEW i \in 1 .. Len(list)
  PROVE  LET rest == SubSeq(list, i, Len(list)) IN
         /\ rest \in Seq(Item)
         /\ Len(rest) = Len(list) - i + 1
         /\ rest # <<>>
         /\ Head(rest) = list[i]
         /\ \A k \in 1 .. Len(rest) : rest[k] = list[i + k - 1]
<1> DEFINE rest == SubSeq(list, i, Len(list))
<1>1. i \in Nat /\ Len(list) \in Nat /\ 1 <= i /\ i <= Len(list)
  BY LenProperties
<1>2. rest = [k \in 1 .. (Len(list) - i + 1) |-> list[i + k - 1]]
  BY <1>1 DEF SubSeq
<1>3. Len(rest) = Len(list) - i + 1
  BY <1>1, <1>2
<1>4. rest \in Seq(Item)
  BY <1>1, SubSeqProperties
<1>5. rest # <<>> /\ Head(rest) = rest[1]
  BY <1>1, <1>3, <1>4
<1> QED BY <1>1, <1>2, <1>3, <1>4, <1>5

\* A list the controller serves: its items are open updates, each once.
LEMMA Served ==
  ASSUME TypeOK, NEW list \in Lists({u \in posted : completed[u] = "no"})
  PROVE  LET items_ == [i \in DOMAIN list |-> [id |-> list[i], started |-> list[i] \in startedFlag]]
         IN /\ items_ \in Seq(Item)
            /\ \A i \in 1 .. Len(items_) :
                 /\ items_[i].id \in posted /\ completed[items_[i].id] = "no"
                 /\ items_[i].started => items_[i].id \in startedFlag
            /\ \A i, j \in 1 .. Len(items_) : items_[i].id = items_[j].id => i = j
            /\ \A u \in posted : completed[u] = "no" => \E i \in 1 .. Len(items_) : items_[i].id = u
<1> DEFINE us == {u \in posted : completed[u] = "no"}
           n == Cardinality(us)
           items_ == [i \in 1 .. n |-> [id |-> list[i], started |-> list[i] \in startedFlag]]
<1>1. us \subseteq Update /\ IsFiniteSet(us)
  BY UpdateFetcherAssumption, FS_Subset DEF TypeOK
<1>2. n \in Nat
  BY <1>1, FS_CardinalityType
<1>3. /\ list \in [1 .. n -> us]
      /\ \A i, j \in 1 .. n : list[i] = list[j] => i = j
  BY DEF Lists
<1>4. DOMAIN list = 1 .. n
  BY <1>3
<1>5. items_ \in Seq(Item) /\ Len(items_) = n
  <2>1. \A i \in 1 .. n : items_[i] \in Item
    BY <1>1, <1>3 DEF Item
  <2> HIDE DEF items_
  <2>2. items_ \in [1 .. n -> Item]
    BY <2>1 DEF items_
  <2> HIDE DEF n
  <2>3. items_ \in Seq(Item)
    BY <1>2, <2>2
  <2>4. DOMAIN items_ = 1 .. n /\ DOMAIN items_ = 1 .. Len(items_) /\ Len(items_) \in Nat
    BY <2>2, <2>3, LenProperties
  <2>5. Len(items_) = n
    BY <1>2, <2>4
  <2> QED BY <2>3, <2>5
<1>6. list \in Injection(1 .. n, us)
  BY <1>3 DEF Injection, IsInjective
<1>7. list \in Surjection(1 .. n, us)
  BY <1>1, <1>2, <1>6, FS_Interval, FS_Injection
<1> QED BY <1>1, <1>2, <1>3, <1>4, <1>5, <1>7 DEF Surjection

Waits == {"waiting", "running", "reporting", "ignoring", "reported"}

\* A pull that works through its list has an item.
HasItem == \A p \in Pull : phase[p] \in Waits => items[p] # <<>>

\* The outcomes of Proceed with an item it does not skip: the item is taken on or
\* given up, or what the controller sent of it raises.
GoesTo(p, list, known, i) ==
  /\ items' = [items EXCEPT ![p] = SubSeq(list, i, Len(list))]
  /\ IF list[i].started
       THEN /\ phase' = [phase EXCEPT ![p] = "ignoring"]
            /\ updates_in_progress' = known
       ELSE /\ phase' = [phase EXCEPT ![p] = "waiting"]
            /\ updates_in_progress' = known \cup {list[i].id}
  /\ abandoned' = abandoned

GivesUp(p, list, known, i) ==
  /\ phase' = [phase EXCEPT ![p] = "idle"]
  /\ items' = [items EXCEPT ![p] = <<>>]
  /\ updates_in_progress' = known \cup {list[i].id}
  /\ abandoned' = abandoned \cup {list[i].id}

LEMMA ProceedCases ==
  ASSUME NEW p, NEW list, NEW known, Proceed(p, list, known), FirstItem(list, known) # {}
  PROVE  \E i \in FirstItem(list, known) : GoesTo(p, list, known, i) \/ GivesUp(p, list, known, i)
BY DEF Proceed, GoesTo, GivesUp

\* What Proceed does to the types: it ends the pull or goes to a later item.
LEMMA ProceedTypes ==
  ASSUME TypeOK, HasItem, NEW p \in Pull, NEW list \in Seq(Item), NEW known \in SUBSET Update,
         Proceed(p, list, known)
  PROVE  /\ phase' \in [Pull -> Phases]
         /\ items' \in [Pull -> Seq(Item)]
         /\ updates_in_progress' \subseteq Update
         /\ abandoned' \subseteq Update
         /\ phase'[p] \in {"idle", "ignoring", "waiting"}
         /\ \A q \in Pull \ {p} : phase'[q] = phase[q] /\ items'[q] = items[q]
         /\ HasItem'
<1>1. CASE FirstItem(list, known) = {}
  BY <1>1, EmptySeq DEF Proceed, TypeOK, Phases, HasItem, Waits
<1>2. CASE FirstItem(list, known) # {}
  <2>1. PICK i \in FirstItem(list, known) : GoesTo(p, list, known, i) \/ GivesUp(p, list, known, i)
    BY <1>2, ProceedCases
  <2>2. i \in 1 .. Len(list) /\ list[i] \in Item
    BY ElementOfSeq DEF FirstItem
  <2>3. CASE GoesTo(p, list, known, i)
    <3>1. SubSeq(list, i, Len(list)) \in Seq(Item) /\ SubSeq(list, i, Len(list)) # <<>>
      BY <2>2, Rest
    <3> QED BY <2>2, <2>3, <3>1 DEF GoesTo, TypeOK, Phases, HasItem, Waits, Item
  <2>4. CASE GivesUp(p, list, known, i)
    BY <2>2, <2>4, EmptySeq DEF GivesUp, TypeOK, Phases, HasItem, Waits, Item
  <2> QED BY <2>1, <2>3, <2>4
<1> QED BY <1>1, <1>2

\* Every variable keeps its type, and a pull that works has an item.
LEMMA TypeInvariant == Spec => [](TypeOK /\ HasItem)
<1> USE UpdateFetcherAssumption
<1>1. Init => TypeOK /\ HasItem
  BY EmptySeq DEF Init, TypeOK, HasItem, Phases, Waits
<1>2. TypeOK /\ HasItem /\ [Next]_vars => TypeOK' /\ HasItem'
  <2> SUFFICES ASSUME TypeOK, HasItem, [Next]_vars PROVE TypeOK' /\ HasItem'
    OBVIOUS
  <2> USE DEF TypeOK, HasItem, Waits
  <2>1. ASSUME NEW u \in Update, Post(u) \/ NoticeArrives(u) \/ NoticeLost(u)
        PROVE  TypeOK' /\ HasItem'
    BY <2>1 DEF Post, NoticeArrives, NoticeLost, Fault
  <2>2. ASSUME NEW p \in Pull, phase[p] \in Waits PROVE Current(p) \in Update
    <3>1. items[p] \in Seq(Item) /\ items[p] # <<>>
      BY <2>2
    <3>2. Head(items[p]) \in Item
      BY <3>1, HeadTailProperties
    <3> QED BY <3>2 DEF Current, Item
  <2>3. ASSUME NEW p \in Pull, pull_update(p) PROVE TypeOK' /\ HasItem'
    BY <2>3 DEF pull_update, Phases
  <2>4. ASSUME NEW p \in Pull, Serve(p) PROVE TypeOK' /\ HasItem'
    <3>1. items' \in [Pull -> Seq(Item)]
      <4> HIDE DEF TypeOK
      <4>1. PICK list \in Lists({u \in posted : completed[u] = "no"}) :
              items' = [items EXCEPT ![p] =
                          [i \in DOMAIN list |-> [id |-> list[i], started |-> list[i] \in startedFlag]]]
        BY <2>4 DEF Serve
      <4>2. [i \in DOMAIN list |-> [id |-> list[i], started |-> list[i] \in startedFlag]] \in Seq(Item)
        BY Served
      <4> QED BY <4>1, <4>2 DEF TypeOK
    <3> QED BY <2>4, <3>1 DEF Serve, Phases
  <2>5. ASSUME NEW p \in Pull, Receive(p) PROVE TypeOK' /\ HasItem'
    <3> HIDE DEF TypeOK, HasItem, Waits
    <3>1. PICK received \in SUBSET Update : Proceed(p, items[p], updates_in_progress \cap received)
      BY <2>5, ElementOfSeq DEF Receive, TypeOK, Item
    <3>2. items[p] \in Seq(Item) /\ updates_in_progress \cap received \in SUBSET Update
      BY DEF TypeOK
    <3> QED BY <2>5, <3>1, <3>2, ProceedTypes DEF Receive, TypeOK
  <2>6. ASSUME NEW p \in Pull, Execute(p) PROVE TypeOK' /\ HasItem'
    BY <2>2, <2>6 DEF Execute, Phases
  <2>7. ASSUME NEW p \in Pull, UpdateComplete(p) PROVE TypeOK' /\ HasItem'
    BY <2>2, <2>7 DEF UpdateComplete, Phases
  <2>8. ASSUME NEW p \in Pull, PatchArrives(p) PROVE TypeOK' /\ HasItem'
    BY <2>2, <2>8 DEF PatchArrives, Phases
  <2>9. ASSUME NEW p \in Pull, PatchAnswered(p) PROVE TypeOK' /\ HasItem'
    <3>1. Tail(items[p]) \in Seq(Item) /\ updates_in_progress \in SUBSET Update
      BY <2>9, HeadTailProperties DEF PatchAnswered
    <3> HIDE DEF TypeOK, HasItem, Waits
    <3> QED BY <2>9, <3>1, ProceedTypes DEF PatchAnswered, TypeOK
  <2>10. ASSUME NEW p \in Pull, RequestFails(p) PROVE TypeOK' /\ HasItem'
    BY <2>2, <2>10, EmptySeq DEF RequestFails, Fault, Misses, Phases
  <2>11. ASSUME NEW p \in Pull, PatchRefused(p) PROVE TypeOK' /\ HasItem'
    BY <2>2, <2>11 DEF PatchRefused, Fault, Misses, Phases
  <2>12. ASSUME NEW p \in Pull, UpdateRaises(p) PROVE TypeOK' /\ HasItem'
    BY <2>2, <2>12, EmptySeq DEF UpdateRaises, Abandons, WaitsForGood, Phases
  <2>13. CASE Restart
    BY <2>13, EmptySeq DEF Restart, Phases
  <2>14. CASE UNCHANGED vars
    BY <2>14 DEF vars
  <2>15. ASSUME NEW p \in Pull, RequestHangs(p) PROVE TypeOK' /\ HasItem'
    BY <2>2, <2>15, EmptySeq DEF RequestHangs, WaitsForGood, Fault, Misses, Phases
  <2>16. ASSUME NEW p \in Pull, TurnNeverComes(p) PROVE TypeOK' /\ HasItem'
    BY <2>2, <2>16, EmptySeq DEF TurnNeverComes, Abandons, WaitsForGood, Phases
  <2> HIDE DEF TypeOK, HasItem, Waits
  <2> QED BY <2>1, <2>3, <2>4, <2>5, <2>6, <2>7, <2>8, <2>9, <2>10, <2>11, <2>12, <2>13, <2>14,
            <2>15, <2>16
         DEF Next, Step
<1> QED BY <1>1, <1>2, PTL DEF Spec

\* Every variable keeps its type.
THEOREM TypeCorrect == Spec => []TypeOK
BY TypeInvariant, PTL
-----------------------------------------------------------------------------
(* Successes are real, with any number of overlapping polls *)

\* A success about to be reported is one of an execution.
SuccessReported ==
  \A p \in Pull : phase[p] = "reporting" /\ result[p] = "success" => Current(p) \in succeeded

\* The controller believes an update succeeded only if an execution of it did.
THEOREM SuccessIsRealHolds == Spec => []SuccessIsReal
<1> DEFINE IInv == SuccessReported /\ SuccessIsReal
<1>1. Init => IInv
  BY DEF Init, SuccessReported, SuccessIsReal
<1>2. TypeOK /\ HasItem /\ IInv /\ [Next]_vars => IInv'
  <2> SUFFICES ASSUME TypeOK, HasItem, SuccessReported, SuccessIsReal, [Next]_vars PROVE IInv'
    OBVIOUS
  <2> USE DEF SuccessReported, SuccessIsReal, Current
  <2>1. ASSUME NEW u \in Update, Post(u) \/ NoticeArrives(u) \/ NoticeLost(u) PROVE IInv'
    BY <2>1 DEF Post, NoticeArrives, NoticeLost
  <2>2. ASSUME NEW p \in Pull, pull_update(p) PROVE IInv'
    BY <2>2 DEF pull_update, TypeOK
  <2>3. ASSUME NEW p \in Pull, Serve(p) PROVE IInv'
    BY <2>3 DEF Serve, TypeOK
  <2>4. ASSUME NEW p \in Pull, NEW list \in Seq(Item), NEW known \in SUBSET Update,
               Proceed(p, list, known), UNCHANGED <<completed, result, succeeded>>
        PROVE  IInv'
    BY <2>4, ProceedTypes
  <2>5. ASSUME NEW p \in Pull, Receive(p) PROVE IInv'
    <3>1. PICK received \in SUBSET Update : Proceed(p, items[p], updates_in_progress \cap received)
      BY <2>5, ElementOfSeq DEF Receive, TypeOK, Item
    <3>2. items[p] \in Seq(Item) /\ updates_in_progress \cap received \in SUBSET Update
      BY DEF TypeOK
    <3> QED BY <2>4, <2>5, <3>1, <3>2 DEF Receive
  <2>6. ASSUME NEW p \in Pull, PatchAnswered(p) PROVE IInv'
    <3>1. Tail(items[p]) \in Seq(Item) /\ updates_in_progress \in SUBSET Update
      BY <2>6, HeadTailProperties DEF PatchAnswered, TypeOK, HasItem, Waits
    <3> QED BY <2>4, <2>6, <3>1 DEF PatchAnswered
  <2>7. ASSUME NEW p \in Pull, Execute(p) PROVE IInv'
    BY <2>7 DEF Execute, TypeOK
  <2>8. ASSUME NEW p \in Pull, UpdateComplete(p) PROVE IInv'
    BY <2>8 DEF UpdateComplete, TypeOK
  <2>9. ASSUME NEW p \in Pull, PatchArrives(p) PROVE IInv'
    BY <2>9 DEF PatchArrives, TypeOK
  <2>10. ASSUME NEW p \in Pull, RequestFails(p) PROVE IInv'
    BY <2>10 DEF RequestFails, TypeOK
  <2>11. ASSUME NEW p \in Pull, PatchRefused(p) PROVE IInv'
    BY <2>11 DEF PatchRefused, TypeOK
  <2>12. ASSUME NEW p \in Pull, UpdateRaises(p) PROVE IInv'
    BY <2>12 DEF UpdateRaises, Abandons, WaitsForGood, TypeOK
  <2>13. CASE Restart
    BY <2>13 DEF Restart, TypeOK
  <2>14. CASE UNCHANGED vars
    BY <2>14 DEF vars
  <2>15. ASSUME NEW p \in Pull, RequestHangs(p) PROVE IInv'
    BY <2>15 DEF RequestHangs, WaitsForGood, TypeOK
  <2>16. ASSUME NEW p \in Pull, TurnNeverComes(p) PROVE IInv'
    BY <2>16 DEF TurnNeverComes, Abandons, WaitsForGood, TypeOK
  <2> HIDE DEF IInv
  <2> QED BY <2>1, <2>2, <2>3, <2>5, <2>6, <2>7, <2>8, <2>9, <2>10, <2>11, <2>12, <2>13, <2>14,
            <2>15, <2>16
         DEF Next, Step
<1> QED BY <1>1, <1>2, TypeInvariant, PTL DEF Spec
-----------------------------------------------------------------------------
(* What is in progress is in hand or settled, with any overlapping polls *)

\* The step of a pull to its next item: the item it leaves is settled, and an update
\* that it adds to the set is in its hands or abandoned.
LEMMA ProceedForgetsNothing ==
  ASSUME TypeOK, HasItem, NothingForgotten, NEW p \in Pull, NEW list \in Seq(Item),
         NEW known \in SUBSET updates_in_progress, Proceed(p, list, known),
         phase[p] \in {"served", "reported"}, UNCHANGED <<completed, unreported>>
  PROVE  NothingForgotten'
<1>1. /\ phase' \in [Pull -> Phases]
      /\ \A q \in Pull \ {p} : phase'[q] = phase[q] /\ items'[q] = items[q]
  <2>1. known \in SUBSET Update
    BY DEF TypeOK
  <2> QED BY <2>1, ProceedTypes
<1>2. \A u : Pursued(u) => Pursued(u)'
  BY <1>1 DEF Pursued, InHand, Current
<1>3. /\ abandoned \subseteq abandoned'
      /\ \A u \in updates_in_progress' : u \in known \/ InHand(u)' \/ u \in abandoned'
  <2>1. CASE FirstItem(list, known) = {}
    BY <2>1 DEF Proceed
  <2>2. CASE FirstItem(list, known) # {}
    <3>1. PICK i \in FirstItem(list, known) :
            GoesTo(p, list, known, i) \/ GivesUp(p, list, known, i)
      BY <2>2, ProceedCases
    <3>2. CASE GivesUp(p, list, known, i)
      BY <3>2 DEF GivesUp
    <3>3. CASE GoesTo(p, list, known, i) /\ list[i].started
      BY <3>3 DEF GoesTo
    <3>4. CASE GoesTo(p, list, known, i) /\ ~list[i].started
      <4>1. Head(SubSeq(list, i, Len(list))) = list[i]
        BY Rest DEF FirstItem
      <4>2. /\ items'[p] = SubSeq(list, i, Len(list)) /\ phase'[p] = "waiting"
            /\ updates_in_progress' = known \cup {list[i].id}
            /\ abandoned' = abandoned
        BY <3>4 DEF GoesTo, TypeOK
      <4> QED BY <4>1, <4>2 DEF InHand, Current
    <3> QED BY <3>1, <3>2, <3>3, <3>4
  <2> QED BY <2>1, <2>2
<1> QED BY <1>2, <1>3 DEF NothingForgotten, Pursued

\* An update in the progress set, which every poll skips, is in the hands of a poll, its
\* outcome was sent, or the daemon abandoned it; overlapping polls leave no other there.
THEOREM NothingForgottenHolds == Spec => []NothingForgotten
<1>1. Init => NothingForgotten
  BY DEF Init, NothingForgotten
<1>2. TypeOK /\ HasItem /\ NothingForgotten /\ [Next]_vars => NothingForgotten'
  <2> SUFFICES ASSUME TypeOK, HasItem, NothingForgotten, [Next]_vars PROVE NothingForgotten'
    OBVIOUS
  <2> USE DEF NothingForgotten, Pursued, InHand, Current
  <2>1. ASSUME NEW u \in Update, Post(u) \/ NoticeArrives(u) \/ NoticeLost(u)
        PROVE  NothingForgotten'
    BY <2>1 DEF Post, NoticeArrives, NoticeLost
  <2>2. ASSUME NEW p \in Pull, pull_update(p) PROVE NothingForgotten'
    BY <2>2 DEF pull_update, TypeOK
  <2>3. ASSUME NEW p \in Pull, Serve(p) PROVE NothingForgotten'
    BY <2>3 DEF Serve, TypeOK
  <2>4. ASSUME NEW p \in Pull, Receive(p) PROVE NothingForgotten'
    <3>1. PICK received : Proceed(p, items[p], updates_in_progress \cap received)
      BY <2>4 DEF Receive
    <3>2. items[p] \in Seq(Item) /\ updates_in_progress \cap received \in SUBSET updates_in_progress
      BY DEF TypeOK
    <3> HIDE DEF NothingForgotten, Pursued, InHand, Current
    <3> QED BY <2>4, <3>1, <3>2, ProceedForgetsNothing DEF Receive
  <2>5. ASSUME NEW p \in Pull, PatchAnswered(p) PROVE NothingForgotten'
    <3>1. Tail(items[p]) \in Seq(Item) /\ updates_in_progress \in SUBSET updates_in_progress
      BY <2>5, HeadTailProperties DEF PatchAnswered, TypeOK, HasItem, Waits
    <3> HIDE DEF NothingForgotten, Pursued, InHand, Current
    <3> QED BY <2>5, <3>1, ProceedForgetsNothing DEF PatchAnswered
  <2>6. ASSUME NEW p \in Pull, Execute(p) PROVE NothingForgotten'
    BY <2>6 DEF Execute, TypeOK
  <2>7. ASSUME NEW p \in Pull, UpdateComplete(p) PROVE NothingForgotten'
    BY <2>7 DEF UpdateComplete, TypeOK
  <2>8. ASSUME NEW p \in Pull, PatchArrives(p) PROVE NothingForgotten'
    BY <2>8 DEF PatchArrives, TypeOK
  <2>9. ASSUME NEW p \in Pull, RequestFails(p) PROVE NothingForgotten'
    BY <2>9 DEF RequestFails, Misses, TypeOK
  <2>10. ASSUME NEW p \in Pull, PatchRefused(p) PROVE NothingForgotten'
    BY <2>10 DEF PatchRefused, Misses, TypeOK
  <2>11. ASSUME NEW p \in Pull, UpdateRaises(p) PROVE NothingForgotten'
    BY <2>11 DEF UpdateRaises, Abandons, WaitsForGood, TypeOK
  <2>12. CASE Restart
    BY <2>12 DEF Restart
  <2>13. CASE UNCHANGED vars
    BY <2>13 DEF vars
  <2>14. ASSUME NEW p \in Pull, RequestHangs(p) PROVE NothingForgotten'
    BY <2>14 DEF RequestHangs, WaitsForGood, Misses, TypeOK
  <2>15. ASSUME NEW p \in Pull, TurnNeverComes(p) PROVE NothingForgotten'
    BY <2>15 DEF TurnNeverComes, Abandons, WaitsForGood, TypeOK
  <2> HIDE DEF NothingForgotten, Pursued, InHand, Current
  <2> QED BY <2>1, <2>2, <2>3, <2>4, <2>5, <2>6, <2>7, <2>8, <2>9, <2>10, <2>11, <2>12, <2>13,
            <2>14, <2>15
         DEF Next, Step
<1> QED BY <1>1, <1>2, TypeInvariant, PTL DEF Spec
-----------------------------------------------------------------------------
(* One poll at a time: no repetition, and failures are real *)

\* The list being worked through, and where the pull is.
todo == items[Timer]
at == phase[Timer]
Open(u) == completed[u] = "no"

\* The list has every update once, those that were open when it was served; none but
\* the one just reported is completed since.
ListOpen ==
  /\ \A i, j \in 1 .. Len(todo) : todo[i].id = todo[j].id => i = j
  /\ \A i \in 1 .. Len(todo) : todo[i].id \in posted /\ (Open(todo[i].id) \/ (at = "reported" /\ i = 1))

\* An update executed in this life of the daemon is in the progress set as long as
\* it is open: a list that is about to be received has it.
Known ==
  \A u \in Update : runs[u] > 0 =>
    /\ u \in posted
    /\ Open(u) => u \in updates_in_progress
    /\ Open(u) /\ at = "served" => \E i \in 1 .. Len(todo) : todo[i].id = u

\* The update that waits for its execution has not had one.
Fresh ==
  at = "waiting" => runs[Current(Timer)] = 0 /\ Current(Timer) \in updates_in_progress

\* An update that is known as started was executed in this life, was interrupted
\* in an earlier one, or is completed.
StartedFor(u) == runs[u] > 0 \/ u \in interrupted \/ ~Open(u)
Started ==
  /\ \A u \in startedFlag \cup notices : StartedFor(u)
  /\ \A i \in 1 .. Len(todo) : todo[i].started => StartedFor(todo[i].id)

\* A failure about to be reported is one.
FailureReported ==
  /\ at = "ignoring" => Current(Timer) \in failed \cup interrupted
  /\ at = "reporting" /\ result[Timer] = "failure" => Current(Timer) \in failed

OneInv == ListOpen /\ Known /\ Fresh /\ Started /\ FailureReported /\ NeverRepeated /\ FailureIsReal

LEMMA OneProceed ==
  ASSUME Pull = {Timer}, TypeOK, HasItem,
         NEW list \in Seq(Item), NEW known \in SUBSET Update, Proceed(Timer, list, known),
         UNCHANGED <<server, notices, result, runs, outcomes>>,
         \A i, j \in 1 .. Len(list) : list[i].id = list[j].id => i = j,
         \A i \in 1 .. Len(list) :
           /\ list[i].id \in posted /\ Open(list[i].id)
           /\ list[i].started => StartedFor(list[i].id),
         \A u \in Update : runs[u] > 0 => u \in posted /\ (Open(u) => u \in known),
         \A u \in startedFlag \cup notices : StartedFor(u),
         NeverRepeated, FailureIsReal
  PROVE  OneInv'
<1> USE DEF Open, StartedFor
<1>1. NeverRepeated' /\ FailureIsReal'
  BY DEF NeverRepeated, FailureIsReal
<1>2. CASE FirstItem(list, known) = {}
  <2>1. at' = "idle" /\ todo' = <<>> /\ updates_in_progress' = known
    BY <1>2 DEF Proceed, TypeOK, at, todo
  <2>2. Len(todo') = 0
    BY <2>1
  <2>3. ListOpen' /\ Started'
    BY <2>1, <2>2 DEF ListOpen, Started
  <2>4. Known' /\ Fresh' /\ FailureReported'
    BY <2>1 DEF Known, Fresh, FailureReported
  <2> QED BY <1>1, <2>3, <2>4 DEF OneInv
<1>3. CASE FirstItem(list, known) # {}
  <2>1. PICK i \in FirstItem(list, known) :
          GoesTo(Timer, list, known, i) \/ GivesUp(Timer, list, known, i)
    BY <1>3, ProceedCases
  <2>2. /\ i \in 1 .. Len(list) /\ Len(list) \in Nat
        /\ list[i].id \in Update /\ list[i].id \notin known
    <3>1. i \in 1 .. Len(list) /\ list[i].id \notin known
      BY DEF FirstItem
    <3>2. list[i] \in Item /\ Len(list) \in Nat
      BY <3>1, ElementOfSeq, LenProperties
    <3> QED BY <3>1, <3>2 DEF Item
  <2>3. CASE GivesUp(Timer, list, known, i)
    <3>1. at' = "idle" /\ todo' = <<>> /\ updates_in_progress' = known \cup {list[i].id}
      BY <2>3, UpdateFetcherAssumption DEF GivesUp, TypeOK, at, todo
    <3>2. Len(todo') = 0
      BY <3>1
    <3>3. ListOpen' /\ Started'
      BY <3>1, <3>2 DEF ListOpen, Started
    <3>4. Known' /\ Fresh' /\ FailureReported'
      BY <3>1 DEF Known, Fresh, FailureReported
    <3> QED BY <1>1, <3>3, <3>4 DEF OneInv
  <2>4. CASE GoesTo(Timer, list, known, i)
    <3>1. /\ todo' = SubSeq(list, i, Len(list))
          /\ Len(todo') = Len(list) - i + 1
          /\ Head(todo') = list[i]
          /\ \A k \in 1 .. Len(todo') : todo'[k] = list[i + k - 1]
      BY <2>2, <2>4, Rest, UpdateFetcherAssumption DEF GoesTo, TypeOK, todo
    <3>2. Current(Timer)' = list[i].id
      BY <3>1 DEF Current, todo
    <3>3. /\ at' = IF list[i].started THEN "ignoring" ELSE "waiting"
          /\ updates_in_progress' = IF list[i].started THEN known ELSE known \cup {list[i].id}
      BY <2>4, UpdateFetcherAssumption DEF GoesTo, TypeOK, at
    <3>4. \A k \in 1 .. Len(todo') : i + k - 1 \in 1 .. Len(list)
      BY <2>2, <3>1
    <3>5. ListOpen'
      BY <2>2, <3>1, <3>4 DEF ListOpen
    <3>6. Known'
      BY <3>3 DEF Known
    <3>7. Started'
      BY <3>1, <3>4 DEF Started
    <3>8. runs[list[i].id] = 0
      BY <2>2 DEF TypeOK
    <3>9. Fresh'
      BY <3>2, <3>3, <3>8 DEF Fresh
    <3>10. FailureReported'
      BY <2>2, <3>2, <3>3, <3>8 DEF FailureReported
    <3> QED BY <1>1, <3>5, <3>6, <3>7, <3>9, <3>10 DEF OneInv
  <2> QED BY <2>1, <2>3, <2>4
<1> QED BY <1>2, <1>3

\* With one poll at a time the invariant is kept.
LEMMA OneStep ==
  ASSUME Pull = {Timer}, TypeOK, HasItem, OneInv, [Next]_vars
  PROVE  OneInv'
<1> USE DEF OneInv, Open, StartedFor
<1>a. Timer \in Pull /\ todo \in Seq(Item) /\ at \in Phases /\ Len(todo) \in Nat
  BY UpdateFetcherAssumption, LenProperties DEF TypeOK, todo, at
<1>b. at \in Waits => /\ todo # <<>> /\ Len(todo) >= 1
                      /\ Current(Timer) \in Update /\ Current(Timer) = todo[1].id
                      /\ Current(Timer) \in posted
                      /\ at # "reported" => Open(Current(Timer))
  <2> SUFFICES ASSUME at \in Waits PROVE
        /\ todo # <<>> /\ Len(todo) >= 1
        /\ Current(Timer) \in Update /\ Current(Timer) = todo[1].id
        /\ Current(Timer) \in posted
        /\ at # "reported" => Open(Current(Timer))
    OBVIOUS
  <2>1. todo # <<>>
    BY <1>a DEF HasItem, at, todo
  <2>2. Len(todo) >= 1 /\ Head(todo) = todo[1]
    BY <1>a, <2>1, EmptySeq
  <2>3. todo[1] \in Item
    BY <1>a, <2>2, ElementOfSeq
  <2> QED BY <1>a, <2>1, <2>2, <2>3 DEF ListOpen, Current, todo, Item
<1>c. \A i \in 1 .. Len(todo) : todo[i].id \in Update
  <2>1. \A i \in 1 .. Len(todo) : todo[i] \in Item
    BY <1>a, ElementOfSeq
  <2> QED BY <2>1 DEF Item
<1>1. ASSUME NEW u \in Update, Post(u) PROVE OneInv'
  BY <1>1 DEF Post, ListOpen, Known, Fresh, Started, FailureReported, NeverRepeated, FailureIsReal,
              Current, todo, at
<1>2. ASSUME NEW u \in Update, NoticeArrives(u) \/ NoticeLost(u) PROVE OneInv'
  BY <1>2 DEF NoticeArrives, NoticeLost, ListOpen, Known, Fresh, Started, FailureReported,
              NeverRepeated, FailureIsReal, Current, todo, at
<1>3. CASE pull_update(Timer)
  BY <1>3 DEF pull_update, TypeOK, ListOpen, Known, Fresh, Started, FailureReported,
              NeverRepeated, FailureIsReal, Current, todo, at
<1>4. CASE Serve(Timer)
  <2>1. PICK list \in Lists({u \in posted : completed[u] = "no"}) :
          items' = [items EXCEPT ![Timer] =
                      [i \in DOMAIN list |-> [id |-> list[i], started |-> list[i] \in startedFlag]]]
    BY <1>4 DEF Serve
  <2>2. todo' = [i \in DOMAIN list |-> [id |-> list[i], started |-> list[i] \in startedFlag]]
    BY <1>a, <2>1 DEF TypeOK, todo
  <2>3. at' = "served" /\ UNCHANGED <<server, notices, result, updates_in_progress, runs, history>>
    BY <1>4, <1>a DEF Serve, TypeOK, at
  <2>4. /\ \A i \in 1 .. Len(todo') :
             /\ todo'[i].id \in posted /\ Open(todo'[i].id)
             /\ todo'[i].started => todo'[i].id \in startedFlag
        /\ \A i, j \in 1 .. Len(todo') : todo'[i].id = todo'[j].id => i = j
        /\ \A u \in posted : Open(u) => \E i \in 1 .. Len(todo') : todo'[i].id = u
    <3> DEFINE L == [i \in DOMAIN list |-> [id |-> list[i], started |-> list[i] \in startedFlag]]
    <3>1. /\ \A i \in 1 .. Len(L) :
               /\ L[i].id \in posted /\ completed[L[i].id] = "no"
               /\ L[i].started => L[i].id \in startedFlag
          /\ \A i, j \in 1 .. Len(L) : L[i].id = L[j].id => i = j
          /\ \A u \in posted : completed[u] = "no" => \E i \in 1 .. Len(L) : L[i].id = u
      BY Served
    <3> HIDE DEF L
    <3> QED BY <2>2, <3>1 DEF L
  <2>5. ListOpen'
    BY <2>3, <2>4 DEF ListOpen
  <2>6. Known' /\ Fresh' /\ FailureReported'
    BY <2>3, <2>4 DEF Known, Fresh, FailureReported
  <2>7. Started'
    BY <2>3, <2>4 DEF Started
  <2>8. NeverRepeated' /\ FailureIsReal'
    BY <2>3 DEF NeverRepeated, FailureIsReal
  <2> QED BY <2>5, <2>6, <2>7, <2>8
<1>5. CASE Receive(Timer)
  <2> DEFINE received == {todo[i].id : i \in 1 .. Len(todo)}
  <2>1. at = "served" /\ Proceed(Timer, todo, updates_in_progress \cap received)
    BY <1>5 DEF Receive, todo, at
  <2>2. \A u \in Update : runs[u] > 0 => u \in posted /\ (Open(u) => u \in updates_in_progress \cap received)
    BY <2>1 DEF Known
  <2>3. updates_in_progress \cap received \in SUBSET Update
    BY DEF TypeOK
  <2>4. UNCHANGED <<server, notices, result, runs, outcomes>>
    BY <1>5 DEF Receive
  <2> HIDE DEF received, OneInv, Open, StartedFor
  <2>5. /\ \A i, j \in 1 .. Len(todo) : todo[i].id = todo[j].id => i = j
        /\ \A i \in 1 .. Len(todo) :
             /\ todo[i].id \in posted /\ Open(todo[i].id)
             /\ todo[i].started => StartedFor(todo[i].id)
        /\ \A u \in startedFlag \cup notices : StartedFor(u)
        /\ NeverRepeated /\ FailureIsReal
    BY <2>1 DEF OneInv, ListOpen, Started
  <2> QED BY <1>a, <2>1, <2>2, <2>3, <2>4, <2>5, OneProceed
<1>6. CASE PatchAnswered(Timer)
  <2>1. at = "reported" /\ Proceed(Timer, Tail(todo), updates_in_progress)
    BY <1>6 DEF PatchAnswered, todo, at
  <2>2. /\ Tail(todo) \in Seq(Item) /\ Len(Tail(todo)) = Len(todo) - 1
        /\ \A i \in 1 .. Len(Tail(todo)) : Tail(todo)[i] = todo[i + 1]
    BY <1>a, <1>b, <2>1, HeadTailProperties DEF Waits
  <2>3. \A i \in 1 .. Len(Tail(todo)) : i + 1 \in 1 .. Len(todo) /\ i + 1 # 1
    BY <1>a, <2>2
  <2>4. UNCHANGED <<server, notices, result, runs, outcomes>> /\ updates_in_progress \in SUBSET Update
    BY <1>6 DEF PatchAnswered, TypeOK
  <2> HIDE DEF OneInv, Open, StartedFor
  <2>5. /\ \A i, j \in 1 .. Len(Tail(todo)) : Tail(todo)[i].id = Tail(todo)[j].id => i = j
        /\ \A i \in 1 .. Len(Tail(todo)) :
             /\ Tail(todo)[i].id \in posted /\ Open(Tail(todo)[i].id)
             /\ Tail(todo)[i].started => StartedFor(Tail(todo)[i].id)
    BY <2>2, <2>3 DEF OneInv, ListOpen, Started
  <2>6. /\ \A u \in Update : runs[u] > 0 => u \in posted /\ (Open(u) => u \in updates_in_progress)
        /\ \A u \in startedFlag \cup notices : StartedFor(u)
        /\ NeverRepeated /\ FailureIsReal
    BY DEF OneInv, Known, Started
  <2> QED BY <2>1, <2>2, <2>4, <2>5, <2>6, OneProceed
<1>7. CASE Execute(Timer)
  <2>1. /\ at = "waiting" /\ at' = "running"
        /\ runs' = [runs EXCEPT ![Current(Timer)] = @ + 1]
        /\ notices' = notices \cup {Current(Timer)}
        /\ UNCHANGED <<server, items, result, updates_in_progress, history>>
    BY <1>7, <1>a DEF Execute, TypeOK, at
  <2>2. todo' = todo /\ Current(Timer)' = Current(Timer)
    BY <2>1 DEF todo, Current
  <2>3. runs[Current(Timer)] = 0 /\ Current(Timer) \in updates_in_progress
    BY <2>1 DEF Fresh
  <2>4. \A u \in Update : runs'[u] = IF u = Current(Timer) THEN 1 ELSE runs[u]
    BY <1>b, <2>1, <2>3 DEF TypeOK, Waits
  <2>5. ListOpen'
    BY <2>1, <2>2 DEF ListOpen
  <2>6. Known' /\ Fresh' /\ FailureReported'
    BY <1>b, <2>1, <2>2, <2>3, <2>4 DEF Known, Fresh, FailureReported, Waits
  <2>7. Started'
    <3>1. \A u \in Update : StartedFor(u) => StartedFor(u)'
      BY <2>1, <2>4 DEF TypeOK
    <3>2. StartedFor(Current(Timer))'
      <4>1. runs'[Current(Timer)'] = 1
        BY <1>b, <2>1, <2>2, <2>4 DEF Waits
      <4> QED BY <4>1
    <3> QED BY <1>c, <2>1, <2>2, <3>1, <3>2 DEF Started, TypeOK
  <2>8. NeverRepeated' /\ FailureIsReal'
    BY <2>1, <2>4 DEF NeverRepeated, FailureIsReal
  <2> QED BY <2>5, <2>6, <2>7, <2>8
<1>8. CASE UpdateComplete(Timer)
  <2>1. /\ at = "running" /\ at' = "reporting"
        /\ UNCHANGED <<server, notices, items, updates_in_progress, runs, interrupted, network>>
        /\ \/ result'[Timer] = "success" /\ failed' = failed
           \/ result'[Timer] = "failure" /\ failed' = failed \cup {Current(Timer)}
    BY <1>8, <1>a DEF UpdateComplete, TypeOK, at
  <2>2. todo' = todo /\ Current(Timer)' = Current(Timer)
    BY <2>1 DEF todo, Current
  <2> QED BY <2>1, <2>2
         DEF ListOpen, Known, Fresh, Started, FailureReported, NeverRepeated, FailureIsReal
<1>9. CASE PatchArrives(Timer)
  <2>1. /\ at \in {"reporting", "ignoring"} /\ at' = "reported"
        /\ completed' = [completed EXCEPT ![Current(Timer)] =
                           IF at = "ignoring" THEN "failure" ELSE result[Timer]]
        /\ UNCHANGED <<posted, startedFlag, notices, items, result, updates_in_progress, runs, history>>
    BY <1>9, <1>a DEF PatchArrives, TypeOK, at
  <2>2. todo' = todo
    BY <2>1 DEF todo
  <2>3. /\ \A u \in Update \ {Current(Timer)} : completed'[u] = completed[u]
        /\ completed'[Current(Timer)] = IF at = "ignoring" THEN "failure" ELSE result[Timer]
        /\ completed'[Current(Timer)] # "no"
    BY <1>a, <1>b, <2>1 DEF TypeOK, Waits
  <2>4. \A i \in 1 .. Len(todo) : todo[i].id \in Update /\ (i # 1 => todo[i].id # Current(Timer))
    BY <1>a, <1>b, <1>c, <2>1 DEF ListOpen, Waits
  <2>5. ListOpen'
    BY <2>1, <2>2, <2>3, <2>4 DEF ListOpen
  <2>6. Known' /\ Fresh' /\ FailureReported' /\ NeverRepeated'
    BY <2>1, <2>3 DEF Known, Fresh, FailureReported, NeverRepeated
  <2>7. Started'
    <3>1. \A u \in Update : StartedFor(u) => StartedFor(u)'
      BY <2>1, <2>3
    <3> QED BY <2>1, <2>2, <2>4, <3>1 DEF Started, TypeOK
  <2>8. FailureIsReal'
    BY <2>1, <2>3 DEF FailureIsReal, FailureReported
  <2> QED BY <2>5, <2>6, <2>7, <2>8
<1>10. CASE RequestFails(Timer) \/ RequestHangs(Timer) \/ UpdateRaises(Timer) \/ TurnNeverComes(Timer)
  <2>1. /\ at' \in {"idle", "stuck"} /\ todo' = <<>>
        /\ UNCHANGED <<server, notices, updates_in_progress, runs, interrupted>>
        /\ failed \subseteq failed'
    BY <1>10, <1>a DEF RequestFails, RequestHangs, UpdateRaises, TurnNeverComes, Abandons,
                       WaitsForGood, TypeOK, at, todo
  <2>2. Len(todo') = 0
    BY <2>1
  <2> QED BY <2>1, <2>2
         DEF ListOpen, Known, Fresh, Started, FailureReported, NeverRepeated, FailureIsReal
<1>11. CASE PatchRefused(Timer)
  <2>1. /\ at \in {"reporting", "ignoring"} /\ at' = "reported"
        /\ UNCHANGED <<server, notices, items, result, updates_in_progress, runs, history>>
    BY <1>11, <1>a DEF PatchRefused, TypeOK, at
  <2>2. todo' = todo
    BY <2>1 DEF todo
  <2> QED BY <2>1, <2>2
         DEF ListOpen, Known, Fresh, Started, FailureReported, NeverRepeated, FailureIsReal
<1>12. CASE Restart
  <2>1. /\ at' = "idle" /\ todo' = <<>>
        /\ interrupted' = interrupted \cup updates_in_progress
        /\ \A u \in Update : runs'[u] = 0
        /\ UNCHANGED <<server, notices, result, succeeded, failed>>
    BY <1>12, <1>a DEF Restart, at, todo
  <2>2. Len(todo') = 0
    BY <2>1
  <2>3. \A u \in Update : StartedFor(u) => StartedFor(u)'
    BY <2>1 DEF Known, TypeOK
  <2>4. Started'
    BY <2>1, <2>2, <2>3 DEF Started, TypeOK
  <2> QED BY <2>1, <2>2, <2>4
         DEF ListOpen, Known, Fresh, FailureReported, NeverRepeated, FailureIsReal
<1>13. CASE UNCHANGED vars
  BY <1>13 DEF vars, ListOpen, Known, Fresh, Started, FailureReported, NeverRepeated, FailureIsReal,
               Current, todo, at
<1> HIDE DEF OneInv
<1> QED BY <1>1, <1>2, <1>3, <1>4, <1>5, <1>6, <1>7, <1>8, <1>9, <1>10, <1>11, <1>12, <1>13
       DEF Next, Step

LEMMA OneInvariant == ASSUME Pull = {Timer} PROVE Spec => []OneInv
<1>1. Init => OneInv
  BY DEF Init, OneInv, ListOpen, Known, Fresh, Started, FailureReported, NeverRepeated, FailureIsReal,
         StartedFor, Open, todo, at
<1>2. TypeOK /\ HasItem /\ OneInv /\ [Next]_vars => OneInv'
  BY OneStep
<1> QED BY <1>1, <1>2, TypeInvariant, PTL DEF Spec

\* Polls that do not overlap execute no update twice while the daemon runs, whatever
\* is lost and in whatever order the controller lists the updates.
THEOREM NeverRepeatedHolds == ASSUME Pull = {Timer} PROVE Spec => []NeverRepeated
<1>1. OneInv => NeverRepeated
  BY DEF OneInv
<1> QED BY <1>1, OneInvariant, PTL

\* The controller believes an update failed only if an execution of it failed or a
\* restart came in between.
LEMMA FailureIsRealHolds == ASSUME Pull = {Timer} PROVE Spec => []FailureIsReal
<1>1. OneInv => FailureIsReal
  BY DEF OneInv
<1> QED BY <1>1, OneInvariant, PTL

\* Polls that do not overlap: whatever requests are lost and whenever the daemon starts
\* again, the controller believes no outcome that an update did not have.
THEOREM OutcomesRealHolds == ASSUME Pull = {Timer} PROVE Spec => []OutcomesReal
<1>1. SuccessIsReal /\ FailureIsReal => OutcomesReal
  BY DEF OutcomesReal
<1> QED BY <1>1, SuccessIsRealHolds, FailureIsRealHolds, PTL
=============================================================================
