-------------------------- MODULE ChangeStreamProofs --------------------------
(***************************************************************************)
(* Proofs about ChangeStream for any number of connections and messages:   *)
(* the loops of the update thread, by index over a list the reactor thread *)
(* changes, deliver what StreamFaithful says.                              *)
(***************************************************************************)
EXTENDS ChangeStream, TLAPS, SequenceTheorems

USE DEF update, reactor, history

Obs == message_observers

\* UpTo is a sequence, and grows by its next number.
LEMMA UpToGrows ==
  ASSUME NEW n \in Nat
  PROVE  /\ UpTo(n) \in Seq(1 .. n) /\ Len(UpTo(n)) = n
         /\ \A i \in 1 .. n : UpTo(n)[i] = i
         /\ Append(UpTo(n), n + 1) = UpTo(n + 1)
<1>1. UpTo(n) \in Seq(1 .. n) /\ Len(UpTo(n)) = n /\ \A i \in 1 .. n : UpTo(n)[i] = i
  <2>1. UpTo(n) \in [1 .. n -> 1 .. n] /\ \A i \in 1 .. n : UpTo(n)[i] = i
    BY DEF UpTo
  <2> QED BY <2>1
<1>2. UpTo(n + 1) \in Seq(1 .. (n + 1)) /\ Len(UpTo(n + 1)) = n + 1
      /\ \A i \in 1 .. (n + 1) : UpTo(n + 1)[i] = i
  <2>1. UpTo(n + 1) \in [1 .. (n + 1) -> 1 .. (n + 1)] /\ \A i \in 1 .. (n + 1) : UpTo(n + 1)[i] = i
    BY DEF UpTo
  <2> QED BY <2>1
<1>3. UpTo(n) \in Seq(1 .. (n + 1))
  BY <1>1, SeqMonotonic
<1>4. /\ Append(UpTo(n), n + 1) \in Seq(1 .. (n + 1))
      /\ Len(Append(UpTo(n), n + 1)) = n + 1
      /\ \A i \in 1 .. (n + 1) : Append(UpTo(n), n + 1)[i] = i
  BY <1>1, <1>3, AppendProperties
<1>5. Append(UpTo(n), n + 1) = UpTo(n + 1)
  BY <1>2, <1>4, SeqEqual
<1> QED BY <1>1, <1>5

\* Removing the i-th of a list moves the later ones up.
LEMMA WithoutOne ==
  ASSUME NEW S, NEW list \in Seq(S), NEW i \in 1 .. Len(list)
  PROVE  /\ Without(list, i) \in Seq(S)
         /\ Len(Without(list, i)) = Len(list) - 1
         /\ \A j \in 1 .. (Len(list) - 1) :
              Without(list, i)[j] = IF j < i THEN list[j] ELSE list[j + 1]
<1> DEFINE a == SubSeq(list, 1, i - 1)
           b == SubSeq(list, i + 1, Len(list))
<1>1. i \in Int /\ Len(list) \in Nat /\ 1 <= i /\ i <= Len(list)
  BY LenProperties
<1>2. \A k \in 1 .. Len(list) : list[k] \in S
  BY ElementOfSeq
<1>3. /\ a \in Seq(S) /\ Len(a) = i - 1
      /\ \A j \in 1 .. (i - 1) : a[j] = list[j]
  BY <1>1, <1>2, SubSeqProperties
<1>4. /\ b \in Seq(S) /\ Len(b) = Len(list) - i
      /\ \A j \in 1 .. (Len(list) - i) : b[j] = list[i + j]
  BY <1>1, <1>2, SubSeqProperties
<1> HIDE DEF a, b
<1>5. /\ a \o b \in Seq(S) /\ Len(a \o b) = Len(list) - 1
      /\ \A j \in 1 .. (Len(list) - 1) : (a \o b)[j] = IF j <= i - 1 THEN a[j] ELSE b[j - (i - 1)]
  <2>1. /\ a \o b \in Seq(S) /\ Len(a \o b) = Len(a) + Len(b)
        /\ \A j \in 1 .. (Len(a) + Len(b)) : (a \o b)[j] = IF j <= Len(a) THEN a[j] ELSE b[j - Len(a)]
    BY <1>3, <1>4, ConcatProperties
  <2>2. Len(a) = i - 1 /\ Len(a) + Len(b) = Len(list) - 1
    BY <1>1, <1>3, <1>4
  <2> QED BY <2>1, <2>2
<1>6. \A j \in 1 .. (Len(list) - 1) : (a \o b)[j] = IF j < i THEN list[j] ELSE list[j + 1]
  <2> SUFFICES ASSUME NEW j \in 1 .. (Len(list) - 1)
               PROVE  (a \o b)[j] = IF j < i THEN list[j] ELSE list[j + 1]
    OBVIOUS
  <2>1. CASE j < i
    <3>1. j \in 1 .. (i - 1) /\ j <= i - 1
      BY <1>1, <2>1
    <3> QED BY <1>3, <1>5, <2>1, <3>1
  <2>2. CASE ~(j < i)
    <3>1. /\ ~(j <= i - 1) /\ j - (i - 1) \in 1 .. (Len(list) - i)
          /\ i + (j - (i - 1)) = j + 1
      BY <1>1, <2>2
    <3> QED BY <1>4, <1>5, <2>2, <3>1
  <2> QED BY <2>1, <2>2
<1> QED BY <1>5, <1>6 DEF Without, a, b
-----------------------------------------------------------------------------
\* The variables one by one.
Typed ==
  /\ messages \in Nat /\ completed \in BOOLEAN
  /\ Obs \in Seq(Observer)
  /\ pc \in Loops \cup {"working", "completing", "closed", "done"}
  /\ index \in Nat \ {0}
  /\ conn \in [Observer -> {"new", "open", "closing", "closed"}]
  /\ received \in [Observer -> Seq(1 .. messages)]
  /\ joining \in Observer \cup {NoObserver}
  /\ stage \in {"idle", "replay", "append", "check"}
  /\ replayed \in Nat \ {0}
  /\ crossed \subseteq Observer /\ unclosed \subseteq Observer

\* The list has connections that are up, each once.
Listed ==
  /\ \A i \in 1 .. Len(Obs) : conn[Obs[i]] \in {"open", "closing"}
  /\ \A i, j \in 1 .. Len(Obs) : Obs[i] = Obs[j] => i = j

\* The observer that joins has the messages replayed so far.
Joins ==
  /\ joining = NoObserver <=> stage = "idle"
  /\ stage \in {"replay", "append"} =>
       /\ conn[joining] = "open"
       /\ \A i \in 1 .. Len(Obs) : Obs[i] # joining
       /\ replayed - 1 <= messages
       /\ received[joining] = UpTo(replayed - 1)
  /\ \A o \in Observer : conn[o] = "new" => received[o] = <<>>

\* The thread sends the last of the messages there are.
Sends ==
  /\ completed <=> pc \in {"closing", "closed", "last", "done"}
  /\ pc \in Loops \cup {"completing"} => messages >= 1

\* What the observer at place i has received when nothing crossed its way: all,
\* but for the message that is about to be sent, or sent to those before it.
Expected(i) ==
  IF pc = "completing" \/ (pc \in Loops /\ i >= index) THEN messages - 1 ELSE messages

Informed ==
  \A i \in 1 .. Len(Obs) : Obs[i] \notin crossed =>
    /\ conn[Obs[i]] = "open" => received[Obs[i]] = UpTo(Expected(i))
    /\ conn[Obs[i]] = "closing" =>
         /\ completed
         /\ received[Obs[i]] = UpTo(messages)
              \/ (pc \in {"last", "done"} /\ received[Obs[i]] = UpTo(messages - 1))

IInv == Typed /\ Listed /\ Joins /\ Sends /\ Informed /\ InOrder

LEMMA Implied == IInv => TypeOK /\ InOrder /\ NothingMissed
<1> SUFFICES ASSUME IInv PROVE TypeOK /\ InOrder /\ NothingMissed
  OBVIOUS
<1>1. TypeOK
  <2> DEFINE up == {o \in Observer : conn[o] \in {"open", "closing"}}
  <2>1. Obs \in [1 .. Len(Obs) -> Observer] /\ Len(Obs) \in Nat
    BY LenProperties DEF IInv, Typed
  <2>2. Obs \in [1 .. Len(Obs) -> up]
    BY <2>1 DEF IInv, Listed
  <2> HIDE DEF up
  <2>3. Obs \in Seq(up)
    BY <2>1, <2>2
  <2> QED BY <2>3 DEF IInv, Typed, TypeOK, Obs, up
<1>2. NothingMissed
  BY DEF IInv, Typed, Informed, Expected, NothingMissed, Obs, Loops
<1> QED BY <1>1, <1>2 DEF IInv

LEMMA Initially == Init => IInv
<1> SUFFICES ASSUME Init PROVE IInv
  OBVIOUS
<1>1. Obs = <<>> /\ Len(Obs) = 0
  BY DEF Init, Obs
<1>2. Typed
  <2>1. <<>> \in Seq(Observer) /\ <<>> \in Seq(1 .. 0)
    BY EmptySeq
  <2>2. received \in [Observer -> Seq(1 .. messages)] /\ Obs \in Seq(Observer)
    BY <1>1, <2>1 DEF Init, Obs
  <2>3. conn \in [Observer -> {"new", "open", "closing", "closed"}]
    BY DEF Init
  <2>4. completed \in BOOLEAN
    BY DEF Init
  <2>5. /\ messages \in Nat /\ index \in Nat \ {0}
        /\ replayed \in Nat \ {0} /\ crossed \subseteq Observer /\ unclosed \subseteq Observer
    BY DEF Init
  <2>6. /\ pc \in Loops \cup {"working", "completing", "closed", "done"}
        /\ joining \in Observer \cup {NoObserver}
        /\ stage \in {"idle", "replay", "append", "check"}
    BY DEF Init, Loops
  <2> QED BY <2>2, <2>3, <2>4, <2>5, <2>6 DEF Typed
<1>3. Listed /\ Informed
  BY <1>1 DEF Listed, Informed
<1>4. Joins /\ Sends
  BY ChangeStreamAssumption DEF Init, Joins, Sends, Loops
<1>5. InOrder
  <2>1. \A o \in Observer : Len(received[o]) = 0
    BY DEF Init
  <2> QED BY <2>1 DEF InOrder
<1> QED BY <1>2, <1>3, <1>4, <1>5 DEF IInv

\* A message sent to one observer: the others keep what they have, and its own list
\* stays in order.
LEMMA Message ==
  ASSUME Typed, InOrder, NEW o \in Observer, NEW n \in 1 .. messages,
         \A i \in 1 .. Len(received[o]) : received[o][i] <= n,
         received' = WithMessage(o, n), messages' = messages
  PROVE  /\ received' \in [Observer -> Seq(1 .. messages)]
         /\ InOrder'
         /\ \A p \in Observer : p # o \/ conn[p] # "open" => received'[p] = received[p]
         /\ conn[o] = "open" => received'[o] = Append(received[o], n)
<1>1. received[o] \in Seq(1 .. messages) /\ Len(received[o]) \in Nat
  BY LenProperties DEF Typed
<1>2. \A i \in 1 .. Len(received[o]) : received[o][i] \in 1 .. messages
  BY <1>1, ElementOfSeq
<1>3. /\ Append(received[o], n) \in Seq(1 .. messages)
      /\ Len(Append(received[o], n)) = Len(received[o]) + 1
      /\ \A i \in 1 .. Len(received[o]) : Append(received[o], n)[i] = received[o][i]
      /\ Append(received[o], n)[Len(received[o]) + 1] = n
  BY <1>1, AppendProperties
<1>4. CASE conn[o] = "open"
  <2>1. received' = [received EXCEPT ![o] = Append(received[o], n)]
    BY <1>4 DEF WithMessage
  <2>2. /\ received'[o] = Append(received[o], n)
        /\ \A p \in Observer \ {o} : received'[p] = received[p]
    BY <2>1 DEF Typed
  <2>3. \A i, j \in 1 .. Len(received'[o]) : i < j => received'[o][i] <= received'[o][j]
    BY <1>1, <1>2, <1>3, <2>2 DEF InOrder
  <2>4. InOrder'
    BY <2>2, <2>3 DEF InOrder
  <2>5. received' \in [Observer -> Seq(1 .. messages)]
    BY <1>3, <2>1 DEF Typed
  <2> QED BY <1>4, <2>2, <2>4, <2>5
<1>5. CASE conn[o] # "open"
  BY <1>5 DEF WithMessage, Typed, InOrder
<1> QED BY <1>4, <1>5
-----------------------------------------------------------------------------
(* The steps of the update thread *)

\* With a longer list of messages the types stay, and what was received.
LEMMA Longer ==
  ASSUME IInv, messages' = messages + 1,
         UNCHANGED <<completed, message_observers, conn, received, reactor, history>>
  PROVE  /\ messages' \in Nat /\ received' \in [Observer -> Seq(1 .. messages')]
         /\ Listed' /\ Joins' /\ InOrder'
<1>1. messages \in Nat /\ 1 .. messages \subseteq 1 .. messages'
  BY DEF IInv, Typed
<1>2. \A o \in Observer : received'[o] \in Seq(1 .. messages')
  <2> SUFFICES ASSUME NEW o \in Observer PROVE received[o] \in Seq(1 .. messages')
    OBVIOUS
  <2>1. received[o] \in Seq(1 .. messages)
    BY DEF IInv, Typed
  <2> QED BY <1>1, <2>1, SeqMonotonic
<1>3. received' \in [Observer -> Seq(1 .. messages')]
  BY <1>2 DEF IInv, Typed
<1>4. Listed' /\ InOrder'
  BY DEF IInv, Listed, InOrder, Obs
<1>5. Joins'
  BY <1>1 DEF IInv, Typed, Joins, Obs
<1> QED BY <1>1, <1>3, <1>4, <1>5

LEMMA SendStep ==
  ASSUME IInv, Progress \/ ProgressOfOutcome
  PROVE  IInv'
<1>1. /\ messages' = messages + 1 /\ index' = 1 /\ messages \in Nat
      /\ \/ pc = "working" /\ pc' = "progress"
         \/ pc = "closed" /\ pc' = "last"
      /\ UNCHANGED <<completed, message_observers, conn, received, reactor, history>>
  BY DEF Progress, ProgressOfOutcome, Send, IInv, Typed
<1>2. Typed'
  BY <1>1, Longer DEF IInv, Typed, Loops, Obs
<1>3. Sends'
  BY <1>1 DEF IInv, Sends, Loops
<1>4. \A i \in 1 .. Len(Obs) : Expected(i) = messages /\ Expected(i)' = messages
  BY <1>1 DEF Expected, Loops
<1>5. Informed'
  BY <1>1, <1>4 DEF IInv, Informed, Sends, Obs
<1> QED BY <1>1, <1>2, <1>3, <1>5, Longer DEF IInv

LEMMA CompleteStep ==
  ASSUME IInv, Complete
  PROVE  IInv'
<1>1. /\ messages' = messages + 1 /\ messages \in Nat
      /\ pc = "working" /\ pc' = "completing" /\ ~completed
      /\ UNCHANGED <<completed, index, message_observers, conn, received, reactor, history>>
  BY DEF Complete, IInv, Typed, Sends
<1>2. Typed'
  BY <1>1, Longer DEF IInv, Typed, Loops, Obs
<1>3. Sends'
  BY <1>1 DEF IInv, Sends, Loops
<1>4. \A i \in 1 .. Len(Obs) : Expected(i) = messages /\ Expected(i)' = messages
  BY <1>1 DEF Expected, Loops
<1>5. Informed'
  BY <1>1, <1>4 DEF IInv, Informed, Obs
<1> QED BY <1>1, <1>2, <1>3, <1>5, Longer DEF IInv

LEMMA SetCompletedStep ==
  ASSUME IInv, SetCompleted
  PROVE  IInv'
<1>1. /\ pc = "completing" /\ pc' = "closing" /\ completed' = TRUE /\ index' = 1 /\ ~completed
      /\ UNCHANGED <<messages, message_observers, conn, received, reactor, history>>
  BY DEF SetCompleted, IInv, Sends
<1>2. Typed' /\ Listed' /\ Joins' /\ InOrder'
  BY <1>1 DEF IInv, Typed, Listed, Joins, InOrder, Loops, Obs
<1>3. Sends'
  BY <1>1 DEF IInv, Sends, Loops
<1>4. \A i \in 1 .. Len(Obs) : Expected(i) = messages - 1 /\ Expected(i)' = messages - 1
  BY <1>1 DEF Expected, Loops
<1>5. Informed'
  BY <1>1, <1>4 DEF IInv, Informed, Obs
<1> QED BY <1>2, <1>3, <1>5 DEF IInv

LEMMA EndLoopStep ==
  ASSUME IInv, EndLoop
  PROVE  IInv'
<1>1. /\ \/ pc = "progress" /\ pc' = "working"
         \/ pc = "closing" /\ pc' = "closed"
         \/ pc = "last" /\ pc' = "done"
      /\ index > Len(Obs)
      /\ UNCHANGED <<messages, completed, index, message_observers, conn, received, reactor, history>>
  BY DEF EndLoop, Loops, Obs
<1>2. Typed' /\ Listed' /\ Joins' /\ InOrder'
  BY <1>1 DEF IInv, Typed, Listed, Joins, InOrder, Loops, Obs
<1>3. Sends'
  BY <1>1 DEF IInv, Sends, Loops
<1>4. \A i \in 1 .. Len(Obs) : Expected(i) = messages /\ Expected(i)' = messages
  <2>1. Len(Obs) \in Nat /\ index \in Nat
    BY LenProperties DEF IInv, Typed
  <2> QED BY <1>1, <2>1 DEF Expected, Loops
<1>5. Informed'
  BY <1>1, <1>4 DEF IInv, Informed, Obs
<1> QED BY <1>2, <1>3, <1>5 DEF IInv

LEMMA NotifyStep ==
  ASSUME IInv, Notify
  PROVE  IInv'
<1> DEFINE o == Obs[index]
<1>1. /\ pc \in Loops /\ index <= Len(Obs)
      /\ received' = WithMessage(o, messages)
      /\ conn' = IF pc = "closing" /\ conn[o] = "open" THEN [conn EXCEPT ![o] = "closing"] ELSE conn
      /\ index' = index + 1
      /\ UNCHANGED <<messages, completed, message_observers, pc, reactor, history>>
  BY DEF Notify, Obs
<1>2. /\ index \in 1 .. Len(Obs) /\ Len(Obs) \in Nat /\ o \in Observer
      /\ messages \in 1 .. messages /\ messages \in Nat /\ index \in Nat
  BY <1>1, LenProperties, ElementOfSeq DEF IInv, Typed, Sends
<1>3. \A i \in 1 .. Len(received[o]) : received[o][i] <= messages
  BY <1>2, ElementOfSeq DEF IInv, Typed
<1>4. /\ received' \in [Observer -> Seq(1 .. messages)]
      /\ InOrder'
      /\ \A p \in Observer : p # o \/ conn[p] # "open" => received'[p] = received[p]
      /\ conn[o] = "open" => received'[o] = Append(received[o], messages)
  BY <1>1, <1>2, <1>3, Message DEF IInv
<1>5. /\ conn' \in [Observer -> {"new", "open", "closing", "closed"}]
      /\ \A p \in Observer : p # o => conn'[p] = conn[p]
      /\ conn[o] \in {"open", "closing"}
      /\ conn'[o] = IF pc = "closing" THEN "closing" ELSE conn[o]
  BY <1>1, <1>2 DEF IInv, Typed, Listed
<1>6. \A i \in 1 .. Len(Obs) : i # index => Obs[i] # o /\ Obs[i] \in Observer
  BY <1>2, ElementOfSeq DEF IInv, Typed, Listed
<1> HIDE DEF o
<1>7. Typed'
  BY <1>1, <1>2, <1>4, <1>5 DEF IInv, Typed, Obs
<1>8. Listed'
  BY <1>1, <1>2, <1>5, <1>6 DEF IInv, Listed, Obs, o
<1>9. Joins'
  <2>1. stage \in {"replay", "append"} => joining \in Observer /\ joining # o
    BY <1>2 DEF IInv, Typed, Joins, o
  <2>2. ASSUME NEW p \in Observer, conn'[p] = "new" PROVE received'[p] = <<>>
    BY <1>4, <1>5, <2>2 DEF IInv, Joins
  <2> QED BY <1>1, <1>4, <1>5, <2>1, <2>2 DEF IInv, Joins, Obs
<1>10. Sends'
  BY <1>1 DEF IInv, Sends
<1>11. Informed'
  <2> SUFFICES ASSUME NEW i \in 1 .. Len(Obs), Obs[i] \notin crossed
               PROVE  /\ conn'[Obs[i]] = "open" => received'[Obs[i]] = UpTo(Expected(i)')
                      /\ conn'[Obs[i]] = "closing" =>
                           /\ completed
                           /\ received'[Obs[i]] = UpTo(messages)
                                \/ (pc \in {"last", "done"} /\ received'[Obs[i]] = UpTo(messages - 1))
    BY <1>1 DEF Informed, Obs
  <2>1. CASE i # index
    <3>1. conn'[Obs[i]] = conn[Obs[i]] /\ received'[Obs[i]] = received[Obs[i]]
      BY <1>4, <1>5, <1>6, <2>1
    <3>2. Expected(i)' = Expected(i)
      BY <1>1, <1>2, <2>1 DEF Expected, Loops
    <3> QED BY <3>1, <3>2 DEF IInv, Informed
  <2>2. CASE i = index
    <3>1. Expected(i)' = messages /\ Expected(i) = messages - 1
      BY <1>1, <1>2, <2>2 DEF Expected, Loops
    <3>2. ASSUME conn[o] = "open" PROVE received'[o] = UpTo(messages)
      <4>1. received[o] = UpTo(messages - 1)
        BY <2>2, <3>1, <3>2 DEF IInv, Informed, o
      <4>2. messages - 1 \in Nat /\ (messages - 1) + 1 = messages
        BY <1>2
      <4> QED BY <1>4, <3>2, <4>1, <4>2, UpToGrows
    <3>3. ASSUME conn[o] = "closing" PROVE
             /\ completed
             /\ received'[o] = UpTo(messages)
                  \/ (pc \in {"last", "done"} /\ received'[o] = UpTo(messages - 1))
      BY <1>2, <1>4, <2>2, <3>3 DEF IInv, Informed, o
    <3>4. pc = "closing" => completed
      BY DEF IInv, Sends
    <3> QED BY <1>5, <2>2, <3>1, <3>2, <3>3, <3>4 DEF o
  <2> QED BY <2>1, <2>2
<1> QED BY <1>4, <1>7, <1>8, <1>9, <1>10, <1>11 DEF IInv, InOrder
-----------------------------------------------------------------------------
(* The steps of the reactor thread *)

LEMMA OpenStep ==
  ASSUME IInv, NEW o \in Observer, onOpen(o)
  PROVE  IInv'
<1>1. /\ joining = NoObserver /\ conn[o] = "new"
      /\ conn' = [conn EXCEPT ![o] = "open"]
      /\ joining' = o /\ stage' = "replay" /\ replayed' = 1
      /\ UNCHANGED <<messages, completed, pc, index, message_observers, received, crossed, unclosed>>
  BY DEF onOpen
<1>2. conn'[o] = "open" /\ \A p \in Observer : p # o => conn'[p] = conn[p]
  BY <1>1 DEF IInv, Typed
<1>3. \A i \in 1 .. Len(Obs) : Obs[i] \in Observer /\ Obs[i] # o
  BY <1>1, ElementOfSeq DEF IInv, Typed, Listed
<1>4. Typed'
  BY <1>1 DEF IInv, Typed, Obs
<1>5. Listed' /\ Sends' /\ InOrder'
  BY <1>1, <1>2, <1>3 DEF IInv, Listed, Sends, InOrder, Obs
<1>6. Joins'
  <2>1. received[o] = <<>> /\ UpTo(0) = <<>>
    BY <1>1 DEF IInv, Joins, UpTo
  <2>2. messages \in Nat
    BY DEF IInv, Typed
  <2>3. o # NoObserver
    BY ChangeStreamAssumption
  <2> QED BY <1>1, <1>2, <1>3, <2>1, <2>2, <2>3 DEF IInv, Joins, Obs
<1>7. Informed'
  BY <1>1, <1>2, <1>3 DEF IInv, Informed, Expected, Obs
<1> QED BY <1>4, <1>5, <1>6, <1>7 DEF IInv

LEMMA ReplayStep ==
  ASSUME IInv, Replay
  PROVE  IInv'
<1>1. /\ stage = "replay" /\ replayed <= messages
      /\ received' = WithMessage(joining, replayed)
      /\ replayed' = replayed + 1
      /\ UNCHANGED <<messages, completed, pc, index, message_observers, conn, joining, stage,
                     crossed, unclosed>>
  BY DEF Replay
<1>2. /\ joining \in Observer /\ conn[joining] = "open"
      /\ replayed - 1 \in Nat /\ replayed \in 1 .. messages /\ replayed = (replayed - 1) + 1
      /\ received[joining] = UpTo(replayed - 1)
  BY <1>1 DEF IInv, Typed, Joins
<1>3. \A i \in 1 .. Len(received[joining]) : received[joining][i] <= replayed
  <2>1. /\ Len(UpTo(replayed - 1)) = replayed - 1
        /\ \A i \in 1 .. (replayed - 1) : UpTo(replayed - 1)[i] = i
    BY <1>2, UpToGrows
  <2> QED BY <1>2, <2>1
<1>4. /\ received' \in [Observer -> Seq(1 .. messages)]
      /\ InOrder'
      /\ \A p \in Observer : p # joining => received'[p] = received[p]
      /\ received'[joining] = Append(received[joining], replayed)
  BY <1>1, <1>2, <1>3, Message DEF IInv
<1>5. received'[joining] = UpTo(replayed)
  <2>1. Append(UpTo(replayed - 1), (replayed - 1) + 1) = UpTo((replayed - 1) + 1)
    BY <1>2, UpToGrows
  <2> QED BY <1>2, <1>4, <2>1
<1>6. \A i \in 1 .. Len(Obs) : Obs[i] \in Observer /\ Obs[i] # joining
  BY <1>1, ElementOfSeq DEF IInv, Typed, Joins
<1>7. Typed'
  BY <1>1, <1>4 DEF IInv, Typed, Obs
<1>8. Listed' /\ Sends'
  BY <1>1 DEF IInv, Listed, Sends, Obs
<1>9. Joins'
  <2>1. replayed' - 1 = replayed
    BY <1>1, <1>2
  <2> QED BY <1>1, <1>2, <1>4, <1>5, <1>6, <2>1 DEF IInv, Joins, Obs
<1>10. Informed'
  BY <1>1, <1>4, <1>6 DEF IInv, Informed, Expected, Obs
<1> QED BY <1>4, <1>7, <1>8, <1>9, <1>10 DEF IInv

LEMMA EndReplayStep ==
  ASSUME IInv, EndReplay
  PROVE  IInv'
BY DEF EndReplay, IInv, Typed, Listed, Joins, Sends, Informed, Expected, InOrder, Obs

LEMMA JoinStep ==
  ASSUME IInv, Join
  PROVE  IInv'
<1>1. /\ stage = "append" /\ stage' = "check"
      /\ Obs' = Append(Obs, joining)
      /\ crossed' = IF replayed <= messages \/ pc \in Loops \cup {"completing"}
                      THEN crossed \cup {joining} ELSE crossed
      /\ UNCHANGED <<messages, completed, pc, index, conn, received, joining, replayed, unclosed>>
  BY DEF Join, Obs
<1>2. /\ joining \in Observer /\ conn[joining] = "open"
      /\ \A i \in 1 .. Len(Obs) : Obs[i] # joining
      /\ replayed - 1 <= messages /\ received[joining] = UpTo(replayed - 1)
      /\ messages \in Nat /\ replayed \in Nat \ {0} /\ Len(Obs) \in Nat
  BY <1>1, LenProperties DEF IInv, Typed, Joins
<1>3. /\ Obs' \in Seq(Observer) /\ Len(Obs') = Len(Obs) + 1
      /\ \A i \in 1 .. Len(Obs) : Obs'[i] = Obs[i]
      /\ Obs'[Len(Obs) + 1] = joining
  BY <1>1, <1>2, AppendProperties DEF IInv, Typed
<1>4. \A i \in 1 .. Len(Obs') : i \in 1 .. Len(Obs) \/ i = Len(Obs) + 1
  BY <1>2, <1>3
<1>5. Typed'
  BY <1>1, <1>2, <1>3 DEF IInv, Typed
<1>6. Listed'
  BY <1>1, <1>2, <1>3, <1>4 DEF IInv, Listed
<1>7. Joins' /\ Sends' /\ InOrder'
  BY <1>1 DEF IInv, Joins, Sends, InOrder
<1>8. Informed'
  <2> SUFFICES ASSUME NEW i \in 1 .. Len(Obs'), Obs'[i] \notin crossed'
               PROVE  /\ conn[Obs'[i]] = "open" => received[Obs'[i]] = UpTo(Expected(i))
                      /\ conn[Obs'[i]] = "closing" =>
                           /\ completed
                           /\ received[Obs'[i]] = UpTo(messages)
                                \/ (pc \in {"last", "done"} /\ received[Obs'[i]] = UpTo(messages - 1))
    BY <1>1 DEF Informed, Expected
  <2>1. CASE i \in 1 .. Len(Obs)
    BY <1>1, <1>3, <2>1 DEF IInv, Informed
  <2>2. CASE i = Len(Obs) + 1
    <3>1. ~(replayed <= messages) /\ pc \notin Loops \cup {"completing"}
      BY <1>1, <1>3, <2>2
    <3>2. replayed - 1 = messages
      BY <1>2, <3>1
    <3>3. Expected(i) = messages
      BY <3>1 DEF Expected
    <3> QED BY <1>2, <1>3, <2>2, <3>2, <3>3
  <2> QED BY <1>4, <2>1, <2>2
<1> QED BY <1>5, <1>6, <1>7, <1>8 DEF IInv

LEMMA CheckStep ==
  ASSUME IInv, CheckCompleted
  PROVE  IInv'
<1>1. /\ stage = "check" /\ stage' = "idle" /\ joining' = NoObserver
      /\ conn' = IF completed /\ conn[joining] = "open"
                   THEN [conn EXCEPT ![joining] = "closing"] ELSE conn
      /\ crossed' = IF pc = "closing" THEN crossed \cup {joining} ELSE crossed
      /\ UNCHANGED <<messages, completed, pc, index, message_observers, received, replayed, unclosed>>
  BY DEF CheckCompleted
<1>2. joining \in Observer
  BY <1>1 DEF IInv, Typed, Joins
<1>3. /\ conn' \in [Observer -> {"new", "open", "closing", "closed"}]
      /\ \A p \in Observer : conn'[p] = IF p = joining /\ completed /\ conn[p] = "open"
                                          THEN "closing" ELSE conn[p]
  BY <1>1, <1>2 DEF IInv, Typed
<1>4. \A i \in 1 .. Len(Obs) : Obs[i] \in Observer
  BY ElementOfSeq DEF IInv, Typed
<1>5. Typed'
  BY <1>1, <1>2, <1>3 DEF IInv, Typed, Obs
<1>6. Listed' /\ Sends' /\ InOrder'
  BY <1>1, <1>3, <1>4 DEF IInv, Listed, Sends, InOrder, Obs
<1>7. Joins'
  BY <1>1, <1>3 DEF IInv, Joins, Obs
<1>8. Informed'
  <2> SUFFICES ASSUME NEW i \in 1 .. Len(Obs), Obs[i] \notin crossed'
               PROVE  /\ conn'[Obs[i]] = "open" => received[Obs[i]] = UpTo(Expected(i))
                      /\ conn'[Obs[i]] = "closing" =>
                           /\ completed
                           /\ received[Obs[i]] = UpTo(messages)
                                \/ (pc \in {"last", "done"} /\ received[Obs[i]] = UpTo(messages - 1))
    BY <1>1 DEF Informed, Expected, Obs
  <2>1. /\ Obs[i] \notin crossed
        /\ conn[Obs[i]] = "open" => received[Obs[i]] = UpTo(Expected(i))
        /\ conn[Obs[i]] = "closing" =>
             /\ completed
             /\ received[Obs[i]] = UpTo(messages)
                  \/ (pc \in {"last", "done"} /\ received[Obs[i]] = UpTo(messages - 1))
    BY <1>1 DEF IInv, Informed
  <2>2. CASE conn'[Obs[i]] = conn[Obs[i]]
    BY <2>1, <2>2
  <2>3. CASE Obs[i] = joining /\ completed /\ conn[Obs[i]] = "open" /\ conn'[Obs[i]] = "closing"
    <3>1. pc \in {"closed", "last", "done"}
      BY <1>1, <2>3 DEF IInv, Sends
    <3>2. Expected(i) = messages \/ (pc = "last" /\ Expected(i) = messages - 1)
      BY <3>1 DEF Expected, Loops
    <3> QED BY <2>1, <2>3, <3>2
  <2> QED BY <1>3, <1>4, <2>2, <2>3
<1> QED BY <1>5, <1>6, <1>7, <1>8 DEF IInv

LEMMA CloseStep ==
  ASSUME IInv, NEW o \in Observer, onClose(o)
  PROVE  IInv'
<1>1. /\ joining = NoObserver /\ conn' = [conn EXCEPT ![o] = "closed"]
      /\ UNCHANGED <<messages, completed, pc, index, received, joining, stage, replayed>>
  BY DEF onClose
<1>2. PICK k \in 1 .. Len(Obs) :
        /\ Obs[k] = o
        /\ Obs' = Without(Obs, k)
        /\ crossed' = crossed \cup Skipped(k)
        /\ unclosed' = IF pc = "closing" THEN unclosed \cup Skipped(k) ELSE unclosed
  BY DEF onClose, Obs
<1>3. Len(Obs) \in Nat /\ index \in Nat /\ k \in Nat
  BY LenProperties DEF IInv, Typed
<1>4. /\ Obs' \in Seq(Observer) /\ Len(Obs') = Len(Obs) - 1
      /\ \A i \in 1 .. (Len(Obs) - 1) : Obs'[i] = IF i < k THEN Obs[i] ELSE Obs[i + 1]
  BY <1>2, WithoutOne DEF IInv, Typed
<1>5. \A i \in 1 .. Len(Obs) : Obs[i] \in Observer
  BY ElementOfSeq DEF IInv, Typed
<1>6. Skipped(k) \subseteq Observer
  BY <1>3, <1>5 DEF Skipped, Obs, IInv, Typed
\* Where the observer at place i was before.
<1> DEFINE was(i) == IF i < k THEN i ELSE i + 1
<1>7. \A i \in 1 .. Len(Obs') : /\ was(i) \in 1 .. Len(Obs) /\ was(i) # k
                                /\ Obs'[i] = Obs[was(i)] /\ Obs'[i] # o
  <2> SUFFICES ASSUME NEW i \in 1 .. Len(Obs')
               PROVE  /\ was(i) \in 1 .. Len(Obs) /\ was(i) # k
                      /\ Obs'[i] = Obs[was(i)] /\ Obs'[i] # o
    OBVIOUS
  <2>1. i \in 1 .. (Len(Obs) - 1) /\ was(i) \in 1 .. Len(Obs) /\ was(i) # k
    BY <1>3, <1>4
  <2>2. Obs'[i] = Obs[was(i)]
    BY <1>4, <2>1
  <2> QED BY <1>2, <2>1, <2>2 DEF IInv, Listed
<1>8. /\ conn' \in [Observer -> {"new", "open", "closing", "closed"}]
      /\ \A p \in Observer : p # o => conn'[p] = conn[p]
      /\ conn'[o] = "closed"
  BY <1>1 DEF IInv, Typed
<1>9. Typed'
  BY <1>1, <1>2, <1>4, <1>6, <1>8 DEF IInv, Typed
<1>10. Listed'
  <2>1. \A i, j \in 1 .. Len(Obs') : was(i) = was(j) => i = j
    BY <1>3, <1>4
  <2> HIDE DEF was
  <2>2. \A i, j \in 1 .. Len(Obs') : Obs'[i] = Obs'[j] => i = j
    BY <1>7, <2>1 DEF IInv, Listed
  <2>3. \A i \in 1 .. Len(Obs') : conn'[Obs'[i]] \in {"open", "closing"}
    BY <1>5, <1>7, <1>8 DEF IInv, Listed
  <2> QED BY <2>2, <2>3 DEF Listed
<1>11. Joins' /\ Sends' /\ InOrder'
  BY <1>1, <1>8 DEF IInv, Joins, Sends, InOrder
<1>12. Informed'
  <2> SUFFICES ASSUME NEW i \in 1 .. Len(Obs'), Obs'[i] \notin crossed'
               PROVE  /\ conn'[Obs'[i]] = "open" => received[Obs'[i]] = UpTo(Expected(i))
                      /\ conn'[Obs'[i]] = "closing" =>
                           /\ completed
                           /\ received[Obs'[i]] = UpTo(messages)
                                \/ (pc \in {"last", "done"} /\ received[Obs'[i]] = UpTo(messages - 1))
    BY <1>1 DEF Informed, Expected
  <2>1. /\ was(i) \in 1 .. Len(Obs) /\ was(i) # k
        /\ Obs'[i] = Obs[was(i)] /\ Obs'[i] # o /\ Obs'[i] \in Observer
    BY <1>5, <1>7
  <2>2. conn'[Obs'[i]] = conn[Obs[was(i)]] /\ received[Obs'[i]] = received[Obs[was(i)]]
    BY <1>8, <2>1
  <2>3. pc \in Loops => (was(i) >= index <=> i >= index)
    <3>1. CASE i < k
      BY <3>1
    <3>2. CASE ~(i < k) /\ pc \in Loops /\ i < index /\ i + 1 >= index
      <4>1. index = i + 1 /\ k < index /\ index <= Len(Obs) /\ was(i) = index
        BY <1>3, <1>4, <2>1, <3>2
      <4>2. Obs[index] \in Skipped(k)
        BY <3>2, <4>1 DEF Skipped, Obs
      <4> QED BY <1>2, <2>1, <4>1, <4>2
    <3>3. CASE ~(i < k) /\ ~(i < index /\ i + 1 >= index)
      BY <1>3, <1>4, <3>3
    <3> QED BY <3>1, <3>2, <3>3
  <2>4. Expected(was(i)) = Expected(i)
    BY <2>3 DEF Expected
  <2> HIDE DEF was
  <2>5. Obs[was(i)] \notin crossed
    BY <1>2, <2>1
  <2> QED BY <2>1, <2>2, <2>4, <2>5 DEF IInv, Informed
<1> QED BY <1>9, <1>10, <1>11, <1>12 DEF IInv
-----------------------------------------------------------------------------
LEMMA Invariant == Spec => []IInv
<1>1. IInv /\ [Next]_vars => IInv'
  <2> SUFFICES ASSUME IInv, [Next]_vars PROVE IInv'
    OBVIOUS
  <2>1. CASE UNCHANGED vars
    BY <2>1 DEF vars, IInv, Typed, Listed, Joins, Sends, Informed, Expected, InOrder, Obs
  <2> QED BY <2>1, SendStep, CompleteStep, SetCompletedStep, EndLoopStep, NotifyStep, OpenStep,
             ReplayStep, EndReplayStep, JoinStep, CheckStep, CloseStep
         DEF Next, UpdateThread, Joining
<1> QED BY <1>1, Initially, PTL DEF Spec

-----------------------------------------------------------------------------
(* The end of the streams *)

\* Every open connection is in the list or about to be; those the loop of complete()
\* has behind it have been told, passed over, or are about to be told.
ICloses ==
  /\ \A o \in Observer : conn[o] = "open" => o = joining \/ \E i \in 1 .. Len(Obs) : Obs[i] = o
  /\ stage = "check" => \E i \in 1 .. Len(Obs) : Obs[i] = joining
  /\ pc = "closing" => \A i \in 1 .. Len(Obs) :
       i < index /\ conn[Obs[i]] = "open" => Obs[i] \in unclosed \cup {joining}
  /\ NoneLeftOpen

LEMMA UpdateThreadCloses ==
  ASSUME IInv, ICloses, Progress \/ Complete \/ UpdateThread
  PROVE  ICloses'
<1>1. UNCHANGED <<message_observers, joining, stage, unclosed>>
  BY DEF Progress, Complete, UpdateThread, ProgressOfOutcome, Send, Notify, EndLoop, SetCompleted
<1>2. CASE Progress \/ ProgressOfOutcome \/ Complete
  BY <1>1, <1>2 DEF Progress, ProgressOfOutcome, Send, Complete, IInv, Sends, ICloses,
       NoneLeftOpen, Obs
<1>3. CASE SetCompleted
  <2>1. pc' = "closing" /\ index' = 1 /\ UNCHANGED conn
    BY <1>3 DEF SetCompleted
  <2> QED BY <1>1, <2>1 DEF ICloses, NoneLeftOpen, Obs
<1>4. CASE EndLoop
  <2>1. /\ pc' # "closing" /\ index > Len(Obs) /\ UNCHANGED <<conn, completed>>
        /\ completed => pc \in {"closing", "last"}
    BY <1>4 DEF EndLoop, IInv, Sends, Loops, Obs
  <2>2. NoneLeftOpen'
    <3> SUFFICES ASSUME completed, pc = "closing", NEW o \in Observer, conn[o] = "open"
                 PROVE  o = joining \/ o \in unclosed
      BY <1>1, <2>1 DEF ICloses, NoneLeftOpen
    <3>1. \A i \in 1 .. Len(Obs) : i < index
      BY <2>1, LenProperties DEF IInv, Typed
    <3> QED BY <3>1 DEF ICloses
  <2> QED BY <1>1, <2>1, <2>2 DEF ICloses, Obs
<1>5. CASE Notify
  <2> DEFINE o == Obs[index]
  <2>1. /\ index \in 1 .. Len(Obs) /\ index \in Nat /\ Len(Obs) \in Nat /\ o \in Observer
        /\ index' = index + 1 /\ UNCHANGED <<pc, completed>>
        /\ conn' = IF pc = "closing" /\ conn[o] = "open"
                     THEN [conn EXCEPT ![o] = "closing"] ELSE conn
    BY <1>5, LenProperties, ElementOfSeq DEF Notify, IInv, Typed, Obs
  <2>2. \A p \in Observer : conn'[p] = "open" => conn[p] = "open" /\ (pc = "closing" => p # o)
    BY <2>1 DEF IInv, Typed
  <2> HIDE DEF o
  <2>3. ASSUME pc = "closing", NEW i \in 1 .. Len(Obs), i < index + 1, conn'[Obs[i]] = "open"
        PROVE  Obs[i] \in unclosed \cup {joining}
    <3>1. Obs[i] \in Observer
      BY ElementOfSeq DEF IInv, Typed
    <3>2. conn[Obs[i]] = "open" /\ i # index
      BY <2>2, <2>3, <3>1 DEF o
    <3>3. i < index
      BY <2>1, <2>3, <3>2
    <3> QED BY <2>3, <3>2, <3>3 DEF ICloses
  <2> QED BY <1>1, <2>1, <2>2, <2>3 DEF ICloses, NoneLeftOpen, Obs
<1> QED BY <1>2, <1>3, <1>4, <1>5 DEF UpdateThread

LEMMA JoiningCloses ==
  ASSUME IInv, ICloses, Joining
  PROVE  ICloses'
<1>1. UNCHANGED <<pc, index, completed, unclosed>>
  BY DEF Joining, Replay, EndReplay, Join, CheckCompleted
<1>2. CASE Replay \/ EndReplay
  BY <1>1, <1>2 DEF Replay, EndReplay, ICloses, NoneLeftOpen, Obs
<1>3. CASE Join
  <2>1. Obs' = Append(Obs, joining) /\ UNCHANGED <<conn, joining>>
    BY <1>3 DEF Join, Obs
  <2>2. /\ Len(Obs) \in Nat /\ Len(Obs') = Len(Obs) + 1
        /\ \A i \in 1 .. Len(Obs) : Obs'[i] = Obs[i]
        /\ Obs'[Len(Obs) + 1] = joining
    <3>1. joining \in Observer
      BY <1>3 DEF Join, IInv, Typed, Joins
    <3> QED BY <2>1, <3>1, LenProperties, AppendProperties DEF IInv, Typed
  <2>3. \A i \in 1 .. Len(Obs') : i \in 1 .. Len(Obs) \/ i = Len(Obs) + 1
    BY <2>2
  <2>4. 1 .. Len(Obs) \subseteq 1 .. Len(Obs') /\ Len(Obs) + 1 \in 1 .. Len(Obs')
    BY <2>2
  <2> QED BY <1>1, <2>1, <2>2, <2>3, <2>4 DEF ICloses, NoneLeftOpen
<1>4. CASE CheckCompleted
  <2>1. /\ stage = "check" /\ stage' = "idle" /\ joining \in Observer
        /\ joining' = NoObserver
        /\ conn' = IF completed /\ conn[joining] = "open"
                     THEN [conn EXCEPT ![joining] = "closing"] ELSE conn
        /\ UNCHANGED message_observers
    BY <1>4 DEF CheckCompleted, IInv, Typed, Joins
  <2>2. \A p \in Observer :
          conn'[p] = "open" => conn[p] = "open" /\ (completed => p # joining)
    BY <2>1 DEF IInv, Typed
  <2>3. pc = "closing" => completed
    BY DEF IInv, Sends
  <2>4. \A i \in 1 .. Len(Obs) : Obs[i] \in Observer
    BY ElementOfSeq DEF IInv, Typed
  <2> QED BY <1>1, <2>1, <2>2, <2>3, <2>4 DEF ICloses, NoneLeftOpen, Obs
<1> QED BY <1>2, <1>3, <1>4 DEF Joining

LEMMA OpenCloses ==
  ASSUME IInv, ICloses, NEW o \in Observer, onOpen(o)
  PROVE  ICloses'
<1>1. /\ joining = NoObserver /\ joining' = o /\ stage' = "replay"
      /\ conn[o] = "new" /\ conn' = [conn EXCEPT ![o] = "open"]
      /\ UNCHANGED <<pc, index, completed, message_observers, unclosed>>
  BY DEF onOpen
<1>2. \A p \in Observer : p # o => conn'[p] = conn[p] /\ p # NoObserver
  BY <1>1, ChangeStreamAssumption DEF IInv, Typed
<1>3. \A i \in 1 .. Len(Obs) : Obs[i] \in Observer /\ Obs[i] # NoObserver
  BY ElementOfSeq, ChangeStreamAssumption DEF IInv, Typed
<1> QED BY <1>1, <1>2, <1>3 DEF ICloses, NoneLeftOpen, Obs

LEMMA CloseCloses ==
  ASSUME IInv, ICloses, NEW o \in Observer, onClose(o)
  PROVE  ICloses'
<1>1. /\ joining = NoObserver /\ conn' = [conn EXCEPT ![o] = "closed"]
      /\ UNCHANGED <<pc, index, completed, joining, stage>>
  BY DEF onClose
<1>2. PICK k \in 1 .. Len(Obs) :
        /\ Obs[k] = o
        /\ Obs' = Without(Obs, k)
        /\ unclosed' = IF pc = "closing" THEN unclosed \cup Skipped(k) ELSE unclosed
  BY DEF onClose, Obs
<1>3. Len(Obs) \in Nat /\ index \in Nat /\ k \in Nat
  BY LenProperties DEF IInv, Typed
<1>4. /\ Len(Obs') = Len(Obs) - 1
      /\ \A i \in 1 .. (Len(Obs) - 1) : Obs'[i] = IF i < k THEN Obs[i] ELSE Obs[i + 1]
  BY <1>2, WithoutOne DEF IInv, Typed
<1>5. /\ \A p \in Observer : p # o => conn'[p] = conn[p]
      /\ conn'[o] = "closed"
  BY <1>1 DEF IInv, Typed
<1>6. \A i \in 1 .. Len(Obs) : Obs[i] \in Observer
  BY ElementOfSeq DEF IInv, Typed
<1>7. stage = "idle"
  BY <1>1 DEF IInv, Joins
<1>8. \A p \in Observer : conn'[p] = "open" => \E i \in 1 .. Len(Obs') : Obs'[i] = p
  <2> SUFFICES ASSUME NEW p \in Observer, conn'[p] = "open"
               PROVE  \E i \in 1 .. Len(Obs') : Obs'[i] = p
    OBVIOUS
  <2>1. conn[p] = "open" /\ p # o /\ p # joining
    BY <1>1, <1>5, ChangeStreamAssumption
  <2>2. PICK j \in 1 .. Len(Obs) : Obs[j] = p
    BY <2>1 DEF ICloses
  <2>3. j # k
    BY <1>2, <2>1, <2>2
  <2>4. CASE j < k
    <3>1. j \in 1 .. (Len(Obs) - 1) /\ Obs'[j] = p
      BY <1>3, <1>4, <2>2, <2>4
    <3> QED BY <1>4, <3>1
  <2>5. CASE k < j
    <3>1. j - 1 \in 1 .. (Len(Obs) - 1) /\ ~(j - 1 < k) /\ (j - 1) + 1 = j
      BY <1>3, <2>5
    <3>2. Obs'[j - 1] = p
      BY <1>4, <2>2, <3>1
    <3> QED BY <1>4, <3>1, <3>2
  <2> QED BY <1>3, <2>3, <2>4, <2>5
<1>9. ASSUME pc = "closing", NEW i \in 1 .. Len(Obs'), i < index, conn'[Obs'[i]] = "open"
      PROVE  Obs'[i] \in unclosed'
  <2> DEFINE w == IF i < k THEN i ELSE i + 1
  <2>1. i \in 1 .. (Len(Obs) - 1) /\ w \in 1 .. Len(Obs) /\ w # k /\ w \in Nat
    BY <1>3, <1>4
  <2>2. Obs'[i] = Obs[w]
    BY <1>4, <2>1
  <2>3. Obs[w] # o /\ Obs[w] \in Observer
    BY <1>2, <1>6, <2>1 DEF IInv, Listed
  <2>4. conn[Obs[w]] = "open"
    BY <1>5, <1>9, <2>2, <2>3
  <2>5. CASE w < index
    BY <1>1, <1>2, <1>9, <2>1, <2>2, <2>3, <2>4, <2>5, ChangeStreamAssumption DEF ICloses
  <2>6. CASE ~(w < index)
    <3>1. w = index /\ k < index /\ index <= Len(Obs)
      BY <1>3, <1>9, <2>1, <2>6
    <3>2. Obs[index] \in Skipped(k)
      BY <1>9, <3>1 DEF Skipped, Loops, Obs
    <3> QED BY <1>2, <1>9, <2>2, <3>1, <3>2
  <2> QED BY <2>5, <2>6
<1>10. NoneLeftOpen'
  BY <1>1, <1>2, <1>5, ChangeStreamAssumption DEF ICloses, NoneLeftOpen
<1> QED BY <1>1, <1>7, <1>8, <1>9, <1>10 DEF ICloses

LEMMA AlwaysCloses == Spec => []ICloses
<1>1. Init => ICloses
  BY DEF Init, ICloses, NoneLeftOpen, Obs
<1>2. IInv /\ ICloses /\ [Next]_vars => ICloses'
  <2> SUFFICES ASSUME IInv, ICloses, [Next]_vars PROVE ICloses'
    OBVIOUS
  <2>1. CASE UNCHANGED vars
    BY <2>1 DEF vars, ICloses, NoneLeftOpen, Obs
  <2> QED BY <2>1, UpdateThreadCloses, JoiningCloses, OpenCloses, CloseCloses DEF Next
<1> QED BY <1>1, <1>2, Invariant, PTL DEF Spec
-----------------------------------------------------------------------------
\* Every variable keeps its type; the list has open connections only.
THEOREM TypeCorrect == Spec => []TypeOK
BY Invariant, Implied, PTL

\* Whatever the two threads do to the shared lists, no client sees messages out of
\* order, who neither joined across a message nor was passed over misses none, and
\* when the update is complete no stream that was not passed over is left open.
THEOREM StreamFaithfulHolds == Spec => []StreamFaithful
<1>1. IInv /\ ICloses => StreamFaithful
  BY Implied DEF ICloses, StreamFaithful
<1> QED BY <1>1, Invariant, AlwaysCloses, PTL
=============================================================================
