------------------------- MODULE ServerRequestsProofs -------------------------
(***************************************************************************)
(* Proofs about ServerRequests for any number of requests, tokens of the   *)
(* semaphore, identities, faults and expiries.                             *)
(***************************************************************************)
EXTENDS ServerRequests, TLAPS, SequenceTheorems, FiniteSetTheorems

USE DEF requests, node, controller

Sem == [tokens : Nat, queue : Seq(Request)]
Phase == {"new", "queued", "sent", "hung", "ok", "failed"}
Try == [stage : {"first", "login", "retry"}, id : 0 .. MaxIdentity, auth : Tokens \cup {NoToken}]

\* The semaphore keeps its type.
LEMMA SemTypes ==
  ASSUME NEW s \in Sem, NEW r \in Request
  PROVE  /\ Acquired(s, r) \in Sem
         /\ Released(s) \in Sem
         /\ Granted(s) \in {"queued", "sent"}
<1>1. s.tokens \in Nat /\ s.queue \in Seq(Request)
  BY DEF Sem
<1>2. Append(s.queue, r) \in Seq(Request)
  BY <1>1, AppendProperties
<1>3. s.queue # <<>> => Tail(s.queue) \in Seq(Request)
  BY <1>1, HeadTailProperties
<1>4. Acquired(s, r) \in Sem
  BY <1>1, <1>2 DEF Acquired, Sem
<1>5. CASE s.queue = <<>>
  <2>1. s.tokens + 1 \in Nat /\ Released(s) = [s EXCEPT !.tokens = @ + 1]
    BY <1>1, <1>5 DEF Released
  <2> QED BY <1>4, <2>1 DEF Granted, Sem
<1>6. CASE s.queue # <<>>
  <2>1. Released(s) = [s EXCEPT !.queue = Tail(@)]
    BY <1>6 DEF Released
  <2> QED BY <1>3, <1>4, <1>6, <2>1 DEF Granted, Sem
<1> QED BY <1>5, <1>6

\* So do the phases when a token is passed on.
LEMMA WokenType ==
  ASSUME TypeOK
  PROVE  Woken \in [Request -> Phase]
<1>1. sem.queue \in Seq(Request)
  BY DEF TypeOK
<1>2. sem.queue # <<>> => Head(sem.queue) \in Request
  BY <1>1, HeadTailProperties
<1> QED BY <1>2 DEF TypeOK, Woken, Phase

\* A login says who logs in.
LoginsNamed == \A r \in Request : try[r].stage = "login" => try[r].auth \in Tokens

LEMMA TypeInvariant == Spec => [](TypeOK /\ LoginsNamed)
<1> USE ServerRequestsAssumption
<1>1. Init => TypeOK /\ LoginsNamed
  <2> SUFFICES ASSUME Init PROVE TypeOK /\ LoginsNamed
    OBVIOUS
  <2>1. sem \in Sem
    BY EmptySeq DEF Init, Sem
  <2>2. try \in [Request -> Try]
    BY DEF Init, NoTry, Try
  <2> QED BY <2>1, <2>2 DEF Init, NoTry, TypeOK, LoginsNamed, Try, Sem
<1>2. TypeOK /\ LoginsNamed /\ [Next]_vars => TypeOK' /\ LoginsNamed'
  <2> SUFFICES ASSUME TypeOK, LoginsNamed, [Next]_vars PROVE TypeOK' /\ LoginsNamed'
    OBVIOUS
  <2>1. sem \in Sem /\ phase \in [Request -> Phase] /\ try \in [Request -> Try]
    BY DEF TypeOK, Sem, Phase, Try
  <2>2. NoTry \in Try /\ [id |-> identity, epoch |-> epoch] \in Tokens
    BY DEF NoTry, Try, Tokens, TypeOK
  <2>3. ASSUME NEW r \in Request, Construct(r)
        PROVE  try' \in [Request -> Try] /\ excused' \subseteq Request /\ LoginsNamed'
    <3>1. [stage |-> "first", id |-> identity, auth |-> token] \in Try
      BY DEF Try, TypeOK
    <3> QED BY <2>1, <2>3, <3>1 DEF Construct, TypeOK, LoginsNamed
  <2>4. ASSUME NEW r \in Request, NEW how \in {"ok", "failed"}, Ends(r, how)
        PROVE  sem' \in Sem /\ phase' \in [Request -> Phase] /\ try' \in [Request -> Try]
               /\ LoginsNamed'
    BY <2>1, <2>2, <2>4, SemTypes, WokenType DEF Ends, Phase, LoginsNamed, NoTry
  <2>5. ASSUME NEW r \in Request, NEW next \in {"login", "retry"}, NEW auth \in Tokens,
               GoesOn(r, next, auth)
        PROVE  sem' \in Sem /\ phase' \in [Request -> Phase] /\ try' \in [Request -> Try]
               /\ LoginsNamed'
    <3>1. Released(sem) \in Sem
      BY <2>1, SemTypes
    <3>2. sem' \in Sem /\ Granted(Released(sem)) \in {"queued", "sent"}
      BY <2>5, <3>1, SemTypes DEF GoesOn
    <3>3. phase' \in [Request -> Phase]
      BY <2>5, <3>2, WokenType DEF GoesOn, Phase
    <3>4. try' \in [Request -> Try]
      BY <2>1, <2>5 DEF GoesOn, Try
    <3>5. LoginsNamed'
      BY <2>1, <2>5 DEF GoesOn, Try, LoginsNamed
    <3> QED BY <3>2, <3>3, <3>4, <3>5
  <2> DEFINE Kept == TypeOK' /\ LoginsNamed'
  <2>6. ASSUME NEW r \in Request, Begin(r) PROVE Kept
    BY <2>1, <2>3, <2>6, SemTypes DEF Begin, TypeOK, Sem, Phase, Try
  <2>8. ASSUME NEW r \in Request, Accepted(r) PROVE Kept
    <3>1. delivered' \subseteq Reports
      BY <2>8 DEF Accepted, Delivers, TypeOK
    <3> QED BY <2>4, <2>8, <3>1 DEF Accepted, TypeOK, Sem, Phase, Try
  <2>9. ASSUME NEW r \in Request, Unauthorized(r) PROVE Kept
    BY <2>2, <2>5, <2>9 DEF Unauthorized, TypeOK, Sem, Phase, Try
  <2>10. ASSUME NEW r \in Request, LoggedIn(r) PROVE Kept
    <3>1. token' \in Tokens
      <4>1. try[r].auth \in Tokens /\ epoch \in 0 .. MaxExpiries
        BY <2>10 DEF LoggedIn, LoginsNamed, TypeOK
      <4>2. try[r].auth.id \in 0 .. MaxIdentity
        BY <4>1 DEF Tokens
      <4> QED BY <2>10, <4>1, <4>2 DEF LoggedIn, Tokens
    <3> QED BY <2>5, <2>10, <3>1 DEF LoggedIn, TypeOK, Sem, Phase, Try
  <2>11. ASSUME NEW r \in Request, Refused(r) PROVE Kept
    BY <2>4, <2>11 DEF Refused, TypeOK, Sem, Phase, Try
  <2>12. ASSUME NEW r \in Request, MayDeliver(r) PROVE delivered' \subseteq Reports
    BY <2>12 DEF MayDeliver, Delivers, TypeOK
  <2>13. ASSUME NEW r \in Request, Fails(r) PROVE Kept
    BY <2>4, <2>12, <2>13 DEF Fails, TypeOK, Sem, Phase, Try
  <2>15. ASSUME NEW r \in Request, CutOff(r) PROVE Kept
    BY <2>12, <2>15 DEF CutOff, TypeOK, LoginsNamed
  <2>17. CASE Provision \/ Expire
    <3>1. excused' \subseteq Request
      BY <2>17 DEF Provision, Expire, TypeOK, Underway
    <3>2. identity' \in 0 .. MaxIdentity /\ epoch' \in 0 .. MaxExpiries
      BY <2>17 DEF Provision, Expire, TypeOK
    <3>3. token' \in Tokens \cup {NoToken} /\ UNCHANGED <<environment, requests, delivered, faults>>
      BY <2>17 DEF Provision, Expire, TypeOK
    <3> QED BY <3>1, <3>2, <3>3 DEF TypeOK, LoginsNamed
  <2>18. CASE UNCHANGED vars
    BY <2>18 DEF vars, TypeOK, LoginsNamed
  <2>19. ASSUME NEW r \in Request,
                Begin(r) \/ Answered(r) \/ Fails(r) \/ CutOff(r)
         PROVE  Kept
    BY <2>6, <2>8, <2>9, <2>10, <2>11, <2>13, <2>15, <2>19 DEF Answered
  <2> QED BY <2>17, <2>18, <2>19 DEF Next
<1> QED BY <1>1, <1>2, PTL DEF Spec

\* Every variable keeps its type; the number of free tokens is never negative.
THEOREM TypeCorrect == Spec => []TypeOK
BY TypeInvariant, PTL
-----------------------------------------------------------------------------
(* The tokens of the semaphore *)

Holders == {r \in Request : phase[r] \in {"sent", "hung"}}

\* Those who wait are in the queue once, and nobody waits while a token is free.
Queue == sem.queue

SlotInv ==
  /\ \A i \in 1 .. Len(Queue) : phase[Queue[i]] = "queued"
  /\ \A i, j \in 1 .. Len(Queue) : Queue[i] = Queue[j] => i = j
  /\ sem.tokens + Cardinality(Holders) = Limit
  /\ Queue # <<>> => sem.tokens = 0

\* A request appended to the queue.
LEMMA Enqueued ==
  ASSUME NEW q \in Seq(Request), NEW r \in Request, NEW ph \in [Request -> Phase],
         \A i \in 1 .. Len(q) : ph[q[i]] = "queued",
         \A i, j \in 1 .. Len(q) : q[i] = q[j] => i = j,
         ph[r] # "queued"
  PROVE  LET long == Append(q, r) new == [ph EXCEPT ![r] = "queued"] IN
         /\ \A i \in 1 .. Len(long) : new[long[i]] = "queued"
         /\ \A i, j \in 1 .. Len(long) : long[i] = long[j] => i = j
         /\ long # <<>>
<1> DEFINE long == Append(q, r)
           new == [ph EXCEPT ![r] = "queued"]
<1>1. /\ Len(long) = Len(q) + 1 /\ Len(q) \in Nat
      /\ \A i \in 1 .. Len(q) : long[i] = q[i] /\ q[i] \in Request
      /\ long[Len(q) + 1] = r /\ long \in Seq(Request)
  BY AppendProperties, LenProperties, ElementOfSeq
<1>2. \A i \in 1 .. Len(long) : i \in 1 .. Len(q) \/ i = Len(q) + 1
  BY <1>1
<1>3. \A i \in 1 .. Len(long) : new[long[i]] = "queued"
  BY <1>1, <1>2
<1>4. \A i \in 1 .. Len(q) : q[i] # r
  OBVIOUS
<1>5. \A i, j \in 1 .. Len(long) : long[i] = long[j] => i = j
  BY <1>1, <1>2, <1>4
<1>6. long # <<>>
  BY <1>1, EmptySeq
<1> QED BY <1>3, <1>5, <1>6

\* The queue without its head, whose request is no longer queued.
LEMMA Dequeued ==
  ASSUME NEW q \in Seq(Request), q # <<>>, NEW ph \in [Request -> Phase],
         \A i \in 1 .. Len(q) : ph[q[i]] = "queued",
         \A i, j \in 1 .. Len(q) : q[i] = q[j] => i = j
  PROVE  /\ Tail(q) \in Seq(Request)
         /\ Head(q) \in Request /\ ph[Head(q)] = "queued"
         /\ \A i \in 1 .. Len(Tail(q)) : Tail(q)[i] # Head(q) /\ ph[Tail(q)[i]] = "queued"
         /\ \A i, j \in 1 .. Len(Tail(q)) : Tail(q)[i] = Tail(q)[j] => i = j
<1>1. /\ Tail(q) \in Seq(Request) /\ Len(Tail(q)) = Len(q) - 1 /\ Len(q) \in Nat \ {0}
      /\ \A i \in 1 .. Len(Tail(q)) : Tail(q)[i] = q[i + 1]
      /\ Head(q) \in Request /\ Head(q) = q[1]
  BY HeadTailProperties, EmptySeq
<1>2. \A i \in 1 .. Len(Tail(q)) : i + 1 \in 1 .. Len(q) /\ i + 1 # 1
  BY <1>1
<1>3. 1 \in 1 .. Len(q)
  BY <1>1
<1> QED BY <1>1, <1>2, <1>3

LEMMA HoldersFinite ==
  IsFiniteSet(Holders) /\ Cardinality(Holders) \in Nat
BY ServerRequestsAssumption, FS_Subset, FS_CardinalityType DEF Holders

\* What the end of a request r does to the semaphore: a token is free again, or the
\* first of those who wait holds it.
LEMMA AfterRelease ==
  ASSUME TypeOK, SlotInv, NEW r \in Request, phase[r] = "sent"
  PROVE  LET s == Released(sem) holders == (Holders \ {r}) \cup {q \in Request : Woken[q] = "sent" /\ phase[q] = "queued"} IN
         /\ s \in Sem /\ Woken \in [Request -> Phase]
         /\ Woken[r] = "sent"
         /\ \A q \in Request : Woken[q] = phase[q] \/ (phase[q] = "queued" /\ Woken[q] = "sent")
         /\ \A i \in 1 .. Len(s.queue) : Woken[s.queue[i]] = "queued"
         /\ \A i, j \in 1 .. Len(s.queue) : s.queue[i] = s.queue[j] => i = j
         /\ s.tokens + Cardinality(holders) = Limit
         /\ IsFiniteSet(holders) /\ r \notin holders
         /\ s.queue # <<>> => s.tokens = 0
<1> DEFINE s == Released(sem)
           chosen == {q \in Request : Woken[q] = "sent" /\ phase[q] = "queued"}
           holders == (Holders \ {r}) \cup chosen
<1>1. /\ Queue \in Seq(Request) /\ sem.tokens \in Nat /\ Limit \in Nat
      /\ phase \in [Request -> Phase] /\ sem \in Sem
  BY ServerRequestsAssumption DEF TypeOK, Queue, Sem, Phase
<1>2. r \in Holders /\ IsFiniteSet(Holders) /\ Cardinality(Holders) \in Nat
  BY HoldersFinite DEF Holders
<1>5. s \in Sem /\ Woken \in [Request -> Phase]
  BY <1>1, SemTypes, WokenType
<1>6. IsFiniteSet(Holders \ {r}) /\ Cardinality(Holders \ {r}) = Cardinality(Holders) - 1
  BY <1>2, FS_RemoveElement
<1>7. CASE Queue = <<>>
  <2>1. s = [sem EXCEPT !.tokens = @ + 1] /\ Woken = phase
    BY <1>7 DEF Released, Woken, Queue
  <2>2. s.tokens = sem.tokens + 1 /\ s.queue = <<>> /\ Len(s.queue) = 0
    BY <1>1, <1>7, <2>1 DEF Sem, Queue
  <2>3. holders = Holders \ {r}
    BY <2>1
  <2> HIDE DEF s, holders
  <2>4. s.tokens + Cardinality(holders) = Limit
    BY <1>1, <1>2, <1>6, <2>2, <2>3 DEF SlotInv
  <2>5. IsFiniteSet(holders) /\ r \notin holders
    BY <1>6, <2>3
  <2> QED BY <1>5, <2>1, <2>2, <2>4, <2>5 DEF s, holders
<1>8. CASE Queue # <<>>
  <2> DEFINE h == Head(Queue)
  <2>1. s = [sem EXCEPT !.queue = Tail(Queue)] /\ Woken = [phase EXCEPT ![h] = "sent"]
    BY <1>8 DEF Released, Woken, Queue
  <2>2. s.tokens = sem.tokens /\ s.tokens = 0 /\ s.queue = Tail(Queue)
    BY <1>1, <1>8, <2>1 DEF Sem, SlotInv
  <2>3. /\ h \in Request /\ phase[h] = "queued"
        /\ \A i \in 1 .. Len(Tail(Queue)) : Tail(Queue)[i] # h /\ phase[Tail(Queue)[i]] = "queued"
        /\ \A i, j \in 1 .. Len(Tail(Queue)) : Tail(Queue)[i] = Tail(Queue)[j] => i = j
        /\ Tail(Queue) \in Seq(Request)
    BY <1>1, <1>8, Dequeued DEF SlotInv
  <2>4. \A q \in Request : Woken[q] = IF q = h THEN "sent" ELSE phase[q]
    BY <1>1, <2>1, <2>3
  <2>5. h # r /\ h \notin Holders \ {r}
    BY <2>3 DEF Holders
  <2>6. chosen = {h}
    BY <2>3, <2>4
  <2>7. holders = (Holders \ {r}) \cup {h}
    BY <2>6
  <2>8. \A i \in 1 .. Len(Tail(Queue)) : Woken[Tail(Queue)[i]] = "queued"
    BY <2>3, <2>4, ElementOfSeq
  <2> HIDE DEF s, holders, h
  <2>9. IsFiniteSet(holders) /\ Cardinality(holders) = Cardinality(Holders)
    BY <1>2, <1>6, <2>5, <2>7, FS_AddElement
  <2>10. s.tokens + Cardinality(holders) = Limit /\ r \notin holders
    BY <2>2, <2>5, <2>7, <2>9 DEF SlotInv
  <2>11. Woken[r] = "sent" /\ \A q \in Request : Woken[q] = phase[q] \/ (phase[q] = "queued" /\ Woken[q] = "sent")
    BY <2>3, <2>4, <2>5
  <2> QED BY <1>5, <2>2, <2>3, <2>8, <2>9, <2>10, <2>11 DEF s, holders
<1> QED BY <1>7, <1>8

\* What asking for a token does, for a request r that has none and does not wait.
LEMMA AfterAcquire ==
  ASSUME NEW s \in Sem, NEW ph \in [Request -> Phase], NEW r \in Request, ph[r] # "queued",
         \A i \in 1 .. Len(s.queue) : ph[s.queue[i]] = "queued",
         \A i, j \in 1 .. Len(s.queue) : s.queue[i] = s.queue[j] => i = j,
         s.queue # <<>> => s.tokens = 0,
         NEW holders, holders = {q \in Request \ {r} : ph[q] \in {"sent", "hung"}},
         s.tokens + Cardinality(holders) = Limit
  PROVE  LET t == Acquired(s, r)
             new == [ph EXCEPT ![r] = Granted(s)]
         IN /\ \A i \in 1 .. Len(t.queue) : new[t.queue[i]] = "queued"
            /\ \A i, j \in 1 .. Len(t.queue) : t.queue[i] = t.queue[j] => i = j
            /\ t.tokens + Cardinality({q \in Request : new[q] \in {"sent", "hung"}}) = Limit
            /\ t.queue # <<>> => t.tokens = 0
<1> DEFINE t == Acquired(s, r)
           new == [ph EXCEPT ![r] = Granted(s)]
           after == {q \in Request : new[q] \in {"sent", "hung"}}
<1>1. s.tokens \in Nat /\ s.queue \in Seq(Request) /\ Limit \in Nat
  BY ServerRequestsAssumption DEF Sem
<1>2. IsFiniteSet(holders) /\ Cardinality(holders) \in Nat /\ r \notin holders
  BY ServerRequestsAssumption, FS_Subset, FS_CardinalityType
<1>3. CASE s.tokens = 0
  <2>1. t = [s EXCEPT !.queue = Append(@, r)] /\ new = [ph EXCEPT ![r] = "queued"]
    BY <1>3 DEF Acquired, Granted
  <2>2. t.tokens = 0 /\ t.queue = Append(s.queue, r)
    BY <1>1, <1>3, <2>1 DEF Sem
  <2>3. after = holders
    BY <2>1
  <2>4. /\ \A i \in 1 .. Len(Append(s.queue, r)) : new[Append(s.queue, r)[i]] = "queued"
        /\ \A i, j \in 1 .. Len(Append(s.queue, r)) :
              Append(s.queue, r)[i] = Append(s.queue, r)[j] => i = j
    BY <1>1, <2>1, Enqueued
  <2> QED BY <1>3, <2>2, <2>3, <2>4
<1>4. CASE s.tokens # 0
  <2>1. t = [s EXCEPT !.tokens = @ - 1] /\ new = [ph EXCEPT ![r] = "sent"]
    BY <1>4 DEF Acquired, Granted
  <2>2. t.tokens = s.tokens - 1 /\ t.queue = <<>> /\ s.queue = <<>> /\ Len(t.queue) = 0
    BY <1>1, <1>4, <2>1 DEF Sem
  <2>3. after = holders \cup {r}
    BY <2>1
  <2> HIDE DEF t, after
  <2>4. Cardinality(after) = Cardinality(holders) + 1
    BY <1>2, <2>3, FS_AddElement
  <2>5. t.tokens + Cardinality(after) = Limit
    BY <1>1, <1>2, <2>2, <2>4
  <2> QED BY <2>2, <2>5 DEF t, after
<1> QED BY <1>3, <1>4

\* The semaphore has Limit tokens for ever: each is free, or held by a request that is
\* sent or was cut off.
THEOREM SlotsConservedHolds == Spec => []SlotsConserved
<1> USE ServerRequestsAssumption
<1>1. Init => SlotInv
  <2> SUFFICES ASSUME Init PROVE SlotInv
    OBVIOUS
  <2>1. Queue = <<>> /\ Len(Queue) = 0 /\ sem.tokens = Limit
    BY DEF Init, Queue
  <2>2. Holders = {}
    BY DEF Init, Holders
  <2> QED BY <2>1, <2>2, FS_EmptySet DEF SlotInv
<1>2. TypeOK /\ LoginsNamed /\ SlotInv /\ [Next]_vars => SlotInv'
  <2> SUFFICES ASSUME TypeOK, SlotInv, [Next]_vars PROVE SlotInv'
    OBVIOUS
  <2>3. sem \in Sem /\ phase \in [Request -> Phase] /\ Queue = sem.queue
    BY DEF TypeOK, Sem, Phase, Queue
  <2>4. ASSUME NEW r \in Request, phase[r] = "sent", NEW how \in {"ok", "failed"}, Ends(r, how)
        PROVE  SlotInv'
    <3> DEFINE s == Released(sem)
               holders == (Holders \ {r}) \cup {q \in Request : Woken[q] = "sent" /\ phase[q] = "queued"}
    <3>1. /\ s \in Sem /\ Woken \in [Request -> Phase] /\ Woken[r] = "sent"
          /\ \A q \in Request : Woken[q] = phase[q] \/ (phase[q] = "queued" /\ Woken[q] = "sent")
          /\ \A i \in 1 .. Len(s.queue) : Woken[s.queue[i]] = "queued"
          /\ \A i, j \in 1 .. Len(s.queue) : s.queue[i] = s.queue[j] => i = j
          /\ s.tokens + Cardinality(holders) = Limit
          /\ s.queue # <<>> => s.tokens = 0
      BY <2>4, AfterRelease
    <3>2. sem' = s /\ phase' = [Woken EXCEPT ![r] = how]
      BY <2>4 DEF Ends
    <3>3. Holders' = holders
      <4>1. \A q \in Request : phase'[q] = IF q = r THEN how ELSE Woken[q]
        BY <3>1, <3>2
      <4> QED BY <3>1, <4>1, <2>4 DEF Holders
    <3>4. \A i \in 1 .. Len(s.queue) : s.queue[i] # r /\ phase'[s.queue[i]] = "queued"
      <4>1. \A i \in 1 .. Len(s.queue) : s.queue[i] \in Request
        BY <3>1, ElementOfSeq DEF Sem
      <4> QED BY <3>1, <3>2, <4>1
    <3> HIDE DEF s, holders
    <3> QED BY <2>4, <3>1, <3>2, <3>3, <3>4 DEF SlotInv, Queue
  <2>5. ASSUME NEW r \in Request, phase[r] = "sent", NEW next, NEW auth, GoesOn(r, next, auth)
        PROVE  SlotInv'
    <3> DEFINE s == Released(sem)
               holders == (Holders \ {r}) \cup {q \in Request : Woken[q] = "sent" /\ phase[q] = "queued"}
    <3>1. /\ s \in Sem /\ Woken \in [Request -> Phase] /\ Woken[r] = "sent"
          /\ \A q \in Request : Woken[q] = phase[q] \/ (phase[q] = "queued" /\ Woken[q] = "sent")
          /\ \A i \in 1 .. Len(s.queue) : Woken[s.queue[i]] = "queued"
          /\ \A i, j \in 1 .. Len(s.queue) : s.queue[i] = s.queue[j] => i = j
          /\ s.tokens + Cardinality(holders) = Limit
          /\ s.queue # <<>> => s.tokens = 0
          /\ r \notin holders
      BY <2>5, AfterRelease
    <3>2. sem' = Acquired(s, r) /\ phase' = [Woken EXCEPT ![r] = Granted(s)]
      BY <2>5 DEF GoesOn
    <3>3. holders = {q \in Request \ {r} : Woken[q] \in {"sent", "hung"}}
      BY <3>1 DEF Holders
    <3> HIDE DEF s, holders
    <3>4. Woken[r] # "queued"
      BY <3>1
    <3> DEFINE t == Acquired(s, r)
               new == [Woken EXCEPT ![r] = Granted(s)]
    <3>5. /\ \A i \in 1 .. Len(t.queue) : new[t.queue[i]] = "queued"
          /\ \A i, j \in 1 .. Len(t.queue) : t.queue[i] = t.queue[j] => i = j
          /\ t.tokens + Cardinality({q \in Request : new[q] \in {"sent", "hung"}}) = Limit
          /\ t.queue # <<>> => t.tokens = 0
      BY <3>1, <3>3, <3>4, AfterAcquire
    <3>6. sem' = t /\ phase' = new
      BY <3>2
    <3> HIDE DEF t, new
    <3> QED BY <2>5, <3>5, <3>6 DEF SlotInv, Queue, Holders
  <2>6. ASSUME NEW r \in Request, Begin(r) PROVE SlotInv'
    <3>1. phase[r] \in {"new", "failed"}
      BY <2>6 DEF Begin, Fresh
    <3>2. sem' = Acquired(sem, r) /\ phase' = [phase EXCEPT ![r] = Granted(sem)]
      BY <2>6 DEF Begin
    <3>3. Holders = {q \in Request \ {r} : phase[q] \in {"sent", "hung"}}
      BY <3>1 DEF Holders
    <3>4. /\ \A i \in 1 .. Len(sem.queue) : phase[sem.queue[i]] = "queued"
          /\ \A i, j \in 1 .. Len(sem.queue) : sem.queue[i] = sem.queue[j] => i = j
          /\ sem.tokens + Cardinality(Holders) = Limit
          /\ sem.queue # <<>> => sem.tokens = 0
      BY DEF SlotInv, Queue
    <3>5. phase[r] # "queued"
      BY <3>1
    <3> DEFINE t == Acquired(sem, r)
               new == [phase EXCEPT ![r] = Granted(sem)]
    <3>6. /\ \A i \in 1 .. Len(t.queue) : new[t.queue[i]] = "queued"
          /\ \A i, j \in 1 .. Len(t.queue) : t.queue[i] = t.queue[j] => i = j
          /\ t.tokens + Cardinality({q \in Request : new[q] \in {"sent", "hung"}}) = Limit
          /\ t.queue # <<>> => t.tokens = 0
      BY <2>3, <3>3, <3>4, <3>5, AfterAcquire
    <3>7. sem' = t /\ phase' = new
      BY <3>2
    <3> HIDE DEF t, new
    <3> QED BY <3>2, <3>6, <3>7 DEF SlotInv, Queue, Holders
  <2>7. ASSUME NEW r \in Request, CutOff(r) PROVE SlotInv'
    <3>1. sem' = sem /\ phase[r] = "sent"
          /\ phase' = [phase EXCEPT ![r] = "hung"]
      BY <2>7 DEF CutOff
    <3>2. \A q \in Request : phase'[q] = IF q = r THEN "hung" ELSE phase[q]
      BY <2>3, <3>1
    <3>3. Holders' = Holders
      BY <3>1, <3>2 DEF Holders
    <3>4. \A i \in 1 .. Len(Queue) : phase'[Queue[i]] = "queued"
      <4>1. \A i \in 1 .. Len(Queue) : Queue[i] \in Request
        BY <2>3, ElementOfSeq DEF Sem
      <4> QED BY <3>1, <3>2, <4>1 DEF SlotInv
    <3> QED BY <3>1, <3>3, <3>4 DEF SlotInv, Queue
  <2>9. ASSUME NEW r \in Request, Answered(r) \/ Fails(r) PROVE SlotInv'
    <3>1. phase[r] = "sent"
      BY <2>9 DEF Answered, Accepted, Unauthorized, LoggedIn, Refused, Fails
    <3>2. CASE Accepted(r) \/ Refused(r) \/ Fails(r)
      BY <2>4, <3>1, <3>2 DEF Accepted, Refused, Fails
    <3>3. CASE Unauthorized(r) \/ LoggedIn(r)
      BY <2>5, <3>1, <3>3 DEF Unauthorized, LoggedIn
    <3> QED BY <2>9, <3>2, <3>3 DEF Answered
  <2>10. CASE Provision \/ Expire \/ UNCHANGED vars
    BY <2>10 DEF Provision, Expire, vars, SlotInv, Queue, Holders
  <2> QED BY <2>6, <2>7, <2>9, <2>10 DEF Next
<1>3. SlotInv => SlotsConserved
  BY DEF SlotInv, SlotsConserved, Holders, Queue
<1> QED BY <1>1, <1>2, <1>3, TypeInvariant, PTL DEF Spec
-----------------------------------------------------------------------------
(* The tokens of the controller *)

\* Those in the queue wait, each once.
QueueInv ==
  /\ \A i \in 1 .. Len(Queue) : phase[Queue[i]] = "queued"
  /\ \A i, j \in 1 .. Len(Queue) : Queue[i] = Queue[j] => i = j

\* A request that nothing has happened to has the identity of the node, logs in as
\* the node, and makes its second try with a token that is valid.
Valid(r) ==
  /\ phase[r] # "failed"
  /\ r \in Underway =>
       /\ identity > 0 /\ try[r].id = identity
       /\ try[r].stage = "login" => try[r].auth.id = identity
       /\ try[r].stage = "retry" => try[r].auth = [id |-> identity, epoch |-> epoch]

VainInv == QueueInv /\ \A r \in Request \ excused : Valid(r)

\* What the end of a request r does to those who wait.
LEMMA QueueRelease ==
  ASSUME TypeOK, QueueInv, NEW r \in Request, phase[r] = "sent"
  PROVE  LET q == Released(sem).queue IN
         /\ Released(sem) \in Sem /\ Woken \in [Request -> Phase]
         /\ Woken[r] = "sent"
         /\ \A p \in Request : Woken[p] = phase[p] \/ (phase[p] = "queued" /\ Woken[p] = "sent")
         /\ \A i \in 1 .. Len(q) : Woken[q[i]] = "queued" /\ q[i] \in Request
         /\ \A i, j \in 1 .. Len(q) : q[i] = q[j] => i = j
<1> DEFINE q == Released(sem).queue
<1>1. Queue \in Seq(Request) /\ phase \in [Request -> Phase] /\ sem \in Sem /\ Queue = sem.queue
  BY DEF TypeOK, Queue, Sem, Phase
<1>2. Released(sem) \in Sem /\ Woken \in [Request -> Phase]
  BY <1>1, SemTypes, WokenType
<1>3. q \in Seq(Request) /\ \A i \in 1 .. Len(q) : q[i] \in Request
  BY <1>2, ElementOfSeq DEF Sem
<1>4. CASE Queue = <<>>
  <2>1. q = <<>> /\ Woken = phase /\ Len(q) = 0
    BY <1>1, <1>4 DEF Released, Woken, Sem
  <2> QED BY <1>2, <2>1
<1>5. CASE Queue # <<>>
  <2> DEFINE h == Head(Queue)
  <2>1. q = Tail(Queue) /\ Woken = [phase EXCEPT ![h] = "sent"]
    BY <1>1, <1>5 DEF Released, Woken, Sem
  <2>2. /\ h \in Request /\ phase[h] = "queued"
        /\ \A i \in 1 .. Len(q) : q[i] # h /\ phase[q[i]] = "queued"
        /\ \A i, j \in 1 .. Len(q) : q[i] = q[j] => i = j
    BY <1>1, <1>5, <2>1, Dequeued DEF QueueInv
  <2> HIDE DEF q, h
  <2>3. \A p \in Request : Woken[p] = IF p = h THEN "sent" ELSE phase[p]
    BY <1>1, <2>1, <2>2
  <2> QED BY <1>2, <1>3, <2>2, <2>3 DEF q
<1> QED BY <1>4, <1>5

\* What asking for a token does to them.
LEMMA QueueAcquire ==
  ASSUME NEW s \in Sem, NEW ph \in [Request -> Phase], NEW r \in Request, ph[r] # "queued",
         \A i \in 1 .. Len(s.queue) : ph[s.queue[i]] = "queued",
         \A i, j \in 1 .. Len(s.queue) : s.queue[i] = s.queue[j] => i = j
  PROVE  LET q == Acquired(s, r).queue
             new == [ph EXCEPT ![r] = Granted(s)]
         IN /\ \A i \in 1 .. Len(q) : new[q[i]] = "queued"
            /\ \A i, j \in 1 .. Len(q) : q[i] = q[j] => i = j
            /\ new[r] \in {"queued", "sent"}
            /\ \A p \in Request : p # r => new[p] = ph[p]
<1> DEFINE q == Acquired(s, r).queue
           new == [ph EXCEPT ![r] = Granted(s)]
<1>1. s.queue \in Seq(Request)
  BY DEF Sem
<1>2. new[r] \in {"queued", "sent"} /\ \A p \in Request : p # r => new[p] = ph[p]
  BY DEF Granted
<1>3. CASE s.tokens = 0
  <2>1. q = Append(s.queue, r) /\ new = [ph EXCEPT ![r] = "queued"]
    BY <1>3 DEF Acquired, Granted, Sem
  <2> QED BY <1>1, <1>2, <2>1, Enqueued
<1>4. CASE s.tokens # 0
  <2>1. q = s.queue
    BY <1>4 DEF Acquired, Sem
  <2>2. \A i \in 1 .. Len(q) : q[i] \in Request /\ q[i] # r
    BY <1>1, <2>1, ElementOfSeq
  <2> HIDE DEF q, new
  <2> QED BY <1>2, <2>1, <2>2 DEF q, new
<1> QED BY <1>3, <1>4

\* No request is given up unless something happened to it.
THEOREM NeverRefusedInVainHolds == Spec => []NeverRefusedInVain
<1> USE ServerRequestsAssumption
<1>1. Init => VainInv
  <2> SUFFICES ASSUME Init PROVE VainInv
    OBVIOUS
  <2>1. Queue = <<>> /\ Len(Queue) = 0
    BY DEF Init, Queue
  <2>2. \A r \in Request : phase[r] = "new"
    BY DEF Init
  <2> QED BY <2>1, <2>2 DEF VainInv, QueueInv, Valid, Underway
<1>2. TypeOK /\ LoginsNamed /\ VainInv /\ [Next]_vars => VainInv'
  <2> SUFFICES ASSUME TypeOK, LoginsNamed, VainInv, [Next]_vars PROVE VainInv'
    OBVIOUS
  <2>1. /\ sem \in Sem /\ phase \in [Request -> Phase] /\ try \in [Request -> Try]
        /\ Queue = sem.queue /\ QueueInv /\ \A q \in Request \ excused : Valid(q)
    BY DEF TypeOK, Sem, Phase, Try, Queue, VainInv
  <2>2. \A i \in 1 .. Len(Queue) : Queue[i] \in Request
    BY <2>1, ElementOfSeq DEF Sem
  \* Other requests stay as they are, or get a token.
  <2>4. ASSUME NEW q \in Request \ excused, UNCHANGED <<identity, epoch>>, try'[q] = try[q],
               phase'[q] = phase[q] \/ (phase[q] = "queued" /\ phase'[q] = "sent")
        PROVE  Valid(q)'
    BY <2>1, <2>4 DEF Valid, Underway
  <2>5. ASSUME NEW r \in Request, phase[r] = "sent",
               NEW how \in {"ok", "failed"}, Ends(r, how),
               UNCHANGED <<identity, epoch>>,
               excused \ {r} \subseteq excused', how = "failed" => r \in excused'
        PROVE  VainInv'
    <3> DEFINE q == Released(sem).queue
    <3>1. /\ Released(sem) \in Sem /\ Woken \in [Request -> Phase] /\ Woken[r] = "sent"
          /\ \A p \in Request : Woken[p] = phase[p] \/ (phase[p] = "queued" /\ Woken[p] = "sent")
          /\ \A i \in 1 .. Len(q) : Woken[q[i]] = "queued" /\ q[i] \in Request
          /\ \A i, j \in 1 .. Len(q) : q[i] = q[j] => i = j
      BY <2>1, <2>5, QueueRelease
    <3>2. /\ Queue' = q /\ phase'[r] = how
          /\ \A p \in Request : p # r => phase'[p] = Woken[p] /\ try'[p] = try[p]
      BY <2>1, <2>5, <3>1 DEF Ends, Queue
    <3> HIDE DEF q
    <3>3. QueueInv'
      BY <2>1, <2>5, <3>1, <3>2 DEF QueueInv
    <3>4. ASSUME NEW p \in Request \ excused', p # r PROVE Valid(p)'
      BY <2>4, <2>5, <3>1, <3>2, <3>4
    <3>5. r \notin excused' => Valid(r)'
      BY <2>5, <3>2 DEF Valid, Underway
    <3> QED BY <3>3, <3>4, <3>5 DEF VainInv
  <2>6. ASSUME NEW r \in Request, phase[r] = "sent", NEW next, NEW auth,
               GoesOn(r, next, auth), UNCHANGED <<identity, epoch, excused>>,
               \/ next = "login" /\ auth.id = identity
               \/ next = "retry" /\ (r \notin excused => auth = [id |-> identity, epoch |-> epoch])
        PROVE  VainInv'
    <3> DEFINE q == Released(sem).queue
    <3>1. /\ Released(sem) \in Sem /\ Woken \in [Request -> Phase] /\ Woken[r] = "sent"
          /\ \A p \in Request : Woken[p] = phase[p] \/ (phase[p] = "queued" /\ Woken[p] = "sent")
          /\ \A i \in 1 .. Len(q) : Woken[q[i]] = "queued" /\ q[i] \in Request
          /\ \A i, j \in 1 .. Len(q) : q[i] = q[j] => i = j
      BY <2>1, <2>6, QueueRelease
    <3> DEFINE t == Acquired(Released(sem), r).queue
               new == [Woken EXCEPT ![r] = Granted(Released(sem))]
    <3>2. /\ \A i \in 1 .. Len(t) : new[t[i]] = "queued"
          /\ \A i, j \in 1 .. Len(t) : t[i] = t[j] => i = j
          /\ new[r] \in {"queued", "sent"}
          /\ \A p \in Request : p # r => new[p] = Woken[p]
      BY <3>1, QueueAcquire
    <3>3. /\ Queue' = t /\ phase' = new
          /\ try'[r] = [try[r] EXCEPT !.stage = next, !.auth = auth]
          /\ \A p \in Request : p # r => try'[p] = try[p]
      BY <2>1, <2>6 DEF GoesOn, Queue
    <3> HIDE DEF t, new, q
    <3>4. QueueInv'
      BY <2>1, <2>6, <3>1, <3>2, <3>3 DEF QueueInv
    <3>5. ASSUME NEW p \in Request \ excused, p # r PROVE Valid(p)'
      BY <2>4, <2>6, <3>1, <3>2, <3>3, <3>5
    <3>6. r \notin excused => Valid(r)'
      <4>1. try[r] \in Try /\ r \in Underway
        BY <2>1, <2>6 DEF Underway
      <4>2. /\ try'[r].id = try[r].id /\ try'[r].stage = next /\ try'[r].auth = auth
        BY <3>3, <4>1 DEF Try
      <4> QED BY <2>1, <2>6, <3>2, <3>3, <4>1, <4>2 DEF Valid, Underway
    <3> QED BY <2>6, <3>4, <3>5, <3>6 DEF VainInv
  \* A request that is made.
  <2>7. ASSUME NEW r \in Request, Construct(r), phase'[r] \in {"queued", "sent"},
               UNCHANGED <<identity, epoch>>
        PROVE  /\ r \notin excused' => Valid(r)'
               /\ \A p \in Request : p # r => try'[p] = try[p] /\ (p \in excused' <=> p \in excused)
    BY <2>1, <2>7 DEF Construct, Valid, Underway, TypeOK
  <2>8. ASSUME NEW r \in Request, Begin(r) PROVE VainInv'
    <3> DEFINE t == Acquired(sem, r).queue
               new == [phase EXCEPT ![r] = Granted(sem)]
    <3>1. phase[r] \in {"new", "failed"}
      BY <2>8 DEF Begin, Fresh
    <3>2. /\ \A i \in 1 .. Len(t) : new[t[i]] = "queued"
          /\ \A i, j \in 1 .. Len(t) : t[i] = t[j] => i = j
          /\ new[r] \in {"queued", "sent"}
          /\ \A p \in Request : p # r => new[p] = phase[p]
      <4>1. /\ phase[r] # "queued"
            /\ \A i \in 1 .. Len(sem.queue) : phase[sem.queue[i]] = "queued"
            /\ \A i, j \in 1 .. Len(sem.queue) : sem.queue[i] = sem.queue[j] => i = j
        BY <2>1, <3>1 DEF QueueInv
      <4> QED BY <2>1, <4>1, QueueAcquire
    <3>3. Queue' = t /\ phase' = new /\ Construct(r) /\ UNCHANGED <<identity, epoch>>
      BY <2>8 DEF Begin, Queue
    <3> HIDE DEF t, new
    <3>4. QueueInv'
      BY <2>1, <3>1, <3>2, <3>3 DEF QueueInv
    <3>5. ASSUME NEW p \in Request \ excused', p # r PROVE Valid(p)'
      BY <2>4, <2>7, <3>2, <3>3, <3>5
    <3> QED BY <2>7, <3>2, <3>3, <3>4, <3>5 DEF VainInv
  <2>11. ASSUME NEW r \in Request, Accepted(r) PROVE VainInv'
    BY <2>5, <2>11 DEF Accepted
  <2>12. ASSUME NEW r \in Request, Unauthorized(r) PROVE VainInv'
    BY <2>6, <2>12 DEF Unauthorized
  <2>13. ASSUME NEW r \in Request, LoggedIn(r) PROVE VainInv'
    <3>1. r \notin excused => try[r].auth.id = identity
      BY <2>1, <2>13 DEF LoggedIn, Valid, Underway
    <3>2. phase[r] = "sent" /\ UNCHANGED <<identity, epoch, excused>>
          /\ GoesOn(r, "retry", [id |-> try[r].auth.id, epoch |-> epoch])
      BY <2>13 DEF LoggedIn
    <3> QED BY <2>6, <3>1, <3>2
  <2>14. ASSUME NEW r \in Request, Refused(r) PROVE VainInv'
    <3>1. r \in excused
      <4> SUFFICES ASSUME r \notin excused PROVE FALSE
        OBVIOUS
      <4>1. /\ identity > 0 /\ try[r].id = identity /\ identity \in 0 .. MaxIdentity
            /\ try[r].stage = "login" => try[r].auth.id = identity
            /\ try[r].stage = "retry" => try[r].auth = [id |-> identity, epoch |-> epoch]
        BY <2>1, <2>14 DEF Refused, Valid, Underway, TypeOK
      <4>2. [id |-> identity, epoch |-> epoch] \in [id : 0 .. MaxIdentity, epoch : 0 .. MaxExpiries]
        BY DEF TypeOK
      <4>3. try[r].stage = "retry" => Authorized(r)
        BY <4>1, <4>2 DEF Authorized
      <4> QED BY <2>14, <4>1, <4>3 DEF Refused
    <3> QED BY <2>5, <2>14, <3>1 DEF Refused
  <2>15. ASSUME NEW r \in Request, Fails(r) PROVE VainInv'
    BY <2>5, <2>15 DEF Fails
  <2>16. ASSUME NEW r \in Request, CutOff(r) PROVE VainInv'
    <3>1. /\ phase[r] = "sent" /\ UNCHANGED <<sem, try, identity, epoch, excused>>
          /\ phase' = [phase EXCEPT ![r] = "hung"]
      BY <2>16 DEF CutOff
    <3>2. \A p \in Request : p # r => phase'[p] = phase[p]
      BY <2>1, <3>1
    <3>3. QueueInv'
      BY <2>1, <2>2, <3>1, <3>2 DEF QueueInv, Queue
    <3>4. ASSUME NEW p \in Request \ excused', p # r PROVE Valid(p)'
      BY <2>4, <3>1, <3>2, <3>4
    <3>5. r \notin excused' => Valid(r)'
      BY <2>1, <3>1 DEF Valid, Underway
    <3> QED BY <3>3, <3>4, <3>5 DEF VainInv
  <2>17. CASE Provision \/ Expire
    <3>1. UNCHANGED <<sem, phase, try>> /\ excused \subseteq excused'
      BY <2>17 DEF Provision, Expire
    <3>2. QueueInv'
      BY <2>1, <3>1 DEF QueueInv, Queue
    <3>3. ASSUME NEW p \in Request \ excused' PROVE Valid(p)'
      BY <2>1, <2>17, <3>1, <3>3 DEF Provision, Expire, Valid, Underway
    <3> QED BY <3>2, <3>3 DEF VainInv
  <2>18. CASE UNCHANGED vars
    BY <2>1, <2>18 DEF vars, VainInv, QueueInv, Queue, Valid, Underway
  <2> QED BY <2>8, <2>11, <2>12, <2>13, <2>14, <2>15, <2>16, <2>17, <2>18
       DEF Next, Answered
<1>3. VainInv => NeverRefusedInVain
  BY DEF VainInv, Valid, NeverRefusedInVain
<1> QED BY <1>1, <1>2, <1>3, TypeInvariant, PTL DEF Spec
=============================================================================
