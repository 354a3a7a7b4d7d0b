------------------------- MODULE ExecutionPlanProofs -------------------------
(***************************************************************************)
(* Proofs about ExecutionPlan for every set of entries, every assignment   *)
(* of priorities and abort functions and every plan made of them.          *)
(***************************************************************************)
EXTENDS ExecutionPlan, TLAPS, SequenceTheorems, FiniteSetTheorems, WellFoundedInduction

\* A non-empty set of positions of a list has a latest one.
LEMMA MaximumExists ==
  ASSUME NEW n \in Nat, NEW S \in SUBSET (1 .. n), S # {}
  PROVE  \E m \in S : \A k \in S : k <= m
<1> DEFINE R == OpToRel(<, Nat)
           T == {n - k : k \in S}
<1>1. T \subseteq Nat /\ T # {}
  <2>1. \A k \in 1 .. n : n - k \in Nat
    OBVIOUS
  <2> QED BY <2>1
<1>2. \E x \in T : \A y \in T : ~ (<<y, x>> \in R)
  <2>1. IsWellFoundedOn(R, Nat)
    BY NatLessThanWellFounded
  <2> QED BY <1>1, <2>1, WFMin
<1>3. \A x, y \in Nat : y < x => <<y, x>> \in R
  BY DEF OpToRel
<1>4. PICK x \in T : \A y \in T : x <= y
  <2>1. PICK x \in T : \A y \in T : ~ (<<y, x>> \in R)
    BY <1>2
  <2>2. ASSUME NEW y \in T PROVE x <= y
    <3>1. x \in Nat /\ y \in Nat
      BY <1>1
    <3>2. ~(y < x)
      BY <2>1, <1>3, <3>1
    <3> QED BY <3>1, <3>2
  <2> QED BY <2>2
<1>5. PICK m \in S : x = n - m
  BY <1>4
<1>6. \A k \in S : n - m <= n - k
  BY <1>4, <1>5
<1> QED BY <1>6

\* ... and it is the one getNextAbort takes.
LEMMA LatestProperties ==
  ASSUME NEW n \in Nat, NEW S \in SUBSET (1 .. n), S # {}
  PROVE  Latest(S) \in S /\ \A k \in S : k <= Latest(S)
BY MaximumExists DEF Latest
-----------------------------------------------------------------------------
\* Every variable keeps its type, whatever the plan.
THEOREM TypeCorrect == Spec => []TypeOK
<1>1. Init => TypeOK
  <2> SUFFICES ASSUME Init PROVE TypeOK
    OBVIOUS
  <2>1. returned \in Seq(Step)
    BY EmptySeq DEF Init
  <2>2. toUndo \subseteq 1 .. Len(returned)
    BY DEF Init
  <2>3. effect \in [Step -> {"none", "partial", "done"}]
    BY DEF Init
  <2>4. phase \in Phases /\ outcome \in Outcomes
    BY DEF Init, Phases, Outcomes
  <2>5. /\ working \subseteq Step /\ maxPriorityReturned \in Nat
        /\ skipFunctions \subseteq Skippable
        /\ sameError \in BOOLEAN /\ undoFailed \in BOOLEAN
    BY DEF Init
  <2> QED BY <2>1, <2>2, <2>3, <2>4, <2>5 DEF TypeOK
<1>2. TypeOK /\ [Next]_vars => TypeOK'
  <2> SUFFICES ASSUME TypeOK, [Next]_vars PROVE TypeOK'
    OBVIOUS
  <2> USE DEF TypeOK
  <2> USE PlanMapAssumption, ExecutionPlanAssumption
  <2>1. CASE Generate
    BY <2>1 DEF Generate, abortVars, Phases
  <2>2. CASE Reject
    BY <2>2 DEF Reject, planVars, abortVars, Phases, Outcomes
  <2>3. CASE CallNext
    <3>1. PICK s \in Step : Skip(s) \/ CallReturns(s) \/ CallYields(s)
                              \/ CallRaises(s) \/ AddRaises(s)
      BY <2>3 DEF CallNext
    <3>2. CASE Skip(s)
      BY <3>2 DEF Skip, Pop, Todo, abortVars
    <3>3. ASSUME NEW added \in SUBSET Step, HandOut(s, added)
          PROVE  /\ working' \in SUBSET Step
                 /\ maxPriorityReturned' \in Nat
                 /\ returned' \in Seq(Step)
                 /\ Len(returned') = Len(returned) + 1
      BY <3>3 DEF HandOut, Pop
    <3>4. Undoable(returned') \subseteq 1 .. (Len(returned') - 1)
      BY DEF Undoable
    <3>5. CASE CallReturns(s)
      BY <3>3, <3>5 DEF CallReturns, HandOut, Pop, ServicePlans, SkipRequests, abortVars
    <3>6. CASE CallYields(s)
      BY <3>3, <3>6 DEF CallYields, abortVars, Phases
    <3>7. CASE CallRaises(s)
      BY <3>3, <3>4, <3>7 DEF CallRaises, Phases
    <3>8. CASE AddRaises(s)
      BY <3>3, <3>4, <3>8 DEF AddRaises, ServicePlans, Phases
    <3> QED BY <3>1, <3>2, <3>5, <3>6, <3>7, <3>8
  <2>4. CASE Resume
    BY <2>4 DEF Resume, planVars, abortVars, Phases
  <2>5. CASE Finish
    BY <2>5 DEF Finish, planVars, abortVars, Phases, Outcomes
  <2>6. CASE UndoReturns
    BY <2>6 DEF UndoReturns, Undone, planVars
  <2>7. CASE UndoRaises
    BY <2>7 DEF UndoRaises, planVars, Phases, Outcomes
  <2>8. CASE AbortEnds
    BY <2>8 DEF AbortEnds, planVars, abortVars, Phases, Outcomes
  <2>9. CASE UNCHANGED vars
    BY <2>9 DEF vars, planVars, abortVars
  <2> QED BY <2>1, <2>2, <2>3, <2>4, <2>5, <2>6, <2>7, <2>8, <2>9 DEF Next
<1> QED BY <1>1, <1>2, PTL DEF Spec
-----------------------------------------------------------------------------
\* Handing out an entry appends it to those handed out before.
LEMMA HandOutAppends ==
  ASSUME TypeOK, NEW s \in Step, NEW added, HandOut(s, added)
  PROVE  /\ s \in working
         /\ Len(returned') = Len(returned) + 1
         /\ \A i \in 1 .. Len(returned) : returned'[i] = returned[i]
         /\ returned'[Len(returned) + 1] = s
         /\ HandedOut' = HandedOut \cup {s}
<1>1. s \in working
  BY DEF HandOut, Pop, Todo
<1>2. /\ Len(returned') = Len(returned) + 1
      /\ \A i \in 1 .. Len(returned) : returned'[i] = returned[i]
      /\ returned'[Len(returned) + 1] = s
  BY DEF HandOut, TypeOK
<1>3. 1 .. Len(returned') = (1 .. Len(returned)) \cup {Len(returned) + 1}
  BY <1>2 DEF TypeOK
<1>4. HandedOut' = HandedOut \cup {s}
  BY <1>2, <1>3 DEF HandedOut
<1> QED BY <1>1, <1>2, <1>4

\* What a step can do to the heap: fill it, pop an entry to skip it, or hand an
\* entry out, adding entries only for the generator and only in order.
LEMMA PlanSteps ==
  ASSUME TypeOK, [Next]_vars
  PROVE  \/ UNCHANGED <<working, maxPriorityReturned, returned>>
            /\ (phase' = "planning" => phase = "planning")
         \/ Generate
         \/ \E s \in Step : Skip(s)
         \/ \E s \in Step, added \in SUBSET Late :
              /\ HandOut(s, added)
              /\ phase' # "planning"
              /\ added # {} => s = Generator
              /\ \A a \in added : Priority[s] <= Priority[a]
<1> USE PlanMapAssumption, ExecutionPlanAssumption
<1>1. CASE CallNext
  <2>1. PICK s \in Step : Skip(s) \/ CallReturns(s) \/ CallYields(s)
                            \/ CallRaises(s) \/ AddRaises(s)
    BY <1>1 DEF CallNext
  <2>2. CASE CallReturns(s)
    <3>1. PICK added \in SUBSET Late :
            /\ s # Generator => added = {}
            /\ \A a \in added : ~OutOfOrder(a, Priority[s])
            /\ HandOut(s, added)
      BY <2>2 DEF CallReturns, ServicePlans
    <3>2. phase' # "planning"
      BY <2>2, <3>1 DEF CallReturns, HandOut, Pop
    <3> QED BY <3>1, <3>2 DEF OutOfOrder
  <2>3. CASE CallYields(s)
    <3>1. HandOut(s, {}) /\ phase' # "planning"
      BY <2>3 DEF CallYields
    <3> QED BY <3>1
  <2>4. CASE CallRaises(s)
    <3>1. HandOut(s, {}) /\ phase' # "planning"
      BY <2>4 DEF CallRaises
    <3> QED BY <3>1
  <2>5. CASE AddRaises(s)
    <3>1. PICK added \in SUBSET Late :
            HandOut(s, {a \in added : ~OutOfOrder(a, Priority[s])})
      BY <2>5 DEF AddRaises, ServicePlans
    <3>2. phase' # "planning" /\ s = Generator
      BY <2>5 DEF AddRaises
    <3> DEFINE inOrder == {a \in added : ~OutOfOrder(a, Priority[s])}
    <3>3. inOrder \in SUBSET Late /\ \A a \in inOrder : Priority[s] <= Priority[a]
      BY DEF OutOfOrder
    <3> QED BY <3>1, <3>2, <3>3
  <2> QED BY <2>1, <2>2, <2>3, <2>4, <2>5
<1>2. CASE Reject \/ Finish \/ Resume \/ UndoReturns \/ UndoRaises \/ AbortEnds
  BY <1>2 DEF Reject, Finish, Resume, UndoReturns, UndoRaises, AbortEnds, planVars
<1>3. CASE UNCHANGED vars
  BY <1>3 DEF vars, planVars
<1> QED BY <1>1, <1>2, <1>3 DEF Next
-----------------------------------------------------------------------------
\* What makes PlanOrder inductive: the heap holds nothing that belongs before
\* the last entry popped, nothing is both in it and handed out, and the late
\* entries come only after the generator.
IOrder ==
  /\ phase = "planning" => returned = <<>> /\ maxPriorityReturned = 0
  /\ \A s \in working : maxPriorityReturned <= Priority[s]
  /\ \A s \in HandedOut : Priority[s] <= maxPriorityReturned /\ s \notin working
  /\ (working \cup HandedOut) \cap Late # {} => Generator \in HandedOut
  /\ PlanOrder

LEMMA IOrderInvariant == Spec => []IOrder
<1>1. Init => IOrder
  BY DEF Init, IOrder, HandedOut, PlanOrder
<1>2. TypeOK /\ IOrder /\ [Next]_vars => IOrder'
  <2> SUFFICES ASSUME TypeOK, IOrder, [Next]_vars PROVE IOrder'
    OBVIOUS
  <2> USE PlanMapAssumption, ExecutionPlanAssumption
  <2>1. CASE UNCHANGED <<working, maxPriorityReturned, returned>>
               /\ (phase' = "planning" => phase = "planning")
    BY <2>1 DEF IOrder, HandedOut, PlanOrder
  <2>2. CASE Generate
    BY <2>2 DEF Generate, IOrder, HandedOut, PlanOrder
  <2>3. ASSUME NEW s \in Step, Skip(s) PROVE IOrder'
    <3>1. /\ s \in working /\ \A t \in working : Priority[s] <= Priority[t]
          /\ working' = working \ {s} /\ maxPriorityReturned' = Priority[s]
          /\ UNCHANGED returned /\ phase' # "planning"
      BY <2>3 DEF Skip, Pop, Todo
    <3>2. \A t \in HandedOut : Priority[t] <= Priority[s]
      <4> SUFFICES ASSUME NEW t \in HandedOut PROVE Priority[t] <= Priority[s]
        OBVIOUS
      <4>1. t \in Step
        BY DEF HandedOut, TypeOK
      <4> QED BY <3>1, <4>1 DEF IOrder, TypeOK
    <3> QED BY <3>1, <3>2 DEF IOrder, HandedOut, PlanOrder
  <2>4. ASSUME NEW s \in Step, NEW added \in SUBSET Late, HandOut(s, added),
               phase' # "planning", added # {} => s = Generator,
               \A a \in added : Priority[s] <= Priority[a]
        PROVE  IOrder'
    <3>1. /\ s \in working /\ \A t \in working : Priority[s] <= Priority[t]
          /\ working' = (working \ {s}) \cup added
          /\ maxPriorityReturned' = Priority[s]
      BY <2>4 DEF HandOut, Pop, Todo
    <3>2. /\ Len(returned') = Len(returned) + 1
          /\ \A i \in 1 .. Len(returned) : returned'[i] = returned[i]
          /\ returned'[Len(returned) + 1] = s
          /\ HandedOut' = HandedOut \cup {s}
      BY <2>4, HandOutAppends
    <3>3. \A t \in HandedOut : t \in Step /\ Priority[t] <= Priority[s] /\ t # s
      <4> SUFFICES ASSUME NEW t \in HandedOut
                   PROVE  t \in Step /\ Priority[t] <= Priority[s] /\ t # s
        OBVIOUS
      <4>1. t \in Step
        BY DEF HandedOut, TypeOK
      <4> QED BY <3>1, <4>1 DEF IOrder, TypeOK
    <3>4. \A a \in added : a \notin HandedOut'
      BY <2>4, <3>1, <3>2 DEF IOrder
    <3>5. PlanOrder'
      <4> SUFFICES ASSUME NEW i \in 1 .. Len(returned'), NEW j \in 1 .. Len(returned'), i < j
                   PROVE  /\ Priority[returned'[i]] <= Priority[returned'[j]]
                          /\ returned'[i] # returned'[j]
        BY DEF PlanOrder
      <4>1. i \in 1 .. Len(returned) /\ returned'[i] = returned[i] /\ returned[i] \in HandedOut
        BY <3>2 DEF TypeOK, HandedOut
      <4>2. CASE j \in 1 .. Len(returned)
        BY <3>2, <4>1, <4>2 DEF IOrder, PlanOrder
      <4>3. CASE j = Len(returned) + 1
        BY <3>2, <3>3, <4>1, <4>3
      <4>4. Len(returned) \in Nat
        BY DEF TypeOK
      <4>5. j \in 1 .. Len(returned) \/ j = Len(returned) + 1
        <5>1. Len(returned') = Len(returned) + 1
          BY <3>2
        <5> QED BY <4>4, <5>1
      <4> QED BY <4>2, <4>3, <4>5
    <3>6. \A t \in HandedOut' : Priority[t] <= maxPriorityReturned' /\ t \notin working'
      BY <3>1, <3>2, <3>3, <3>4 DEF IOrder
    <3>7. (working' \cup HandedOut') \cap Late # {} => Generator \in HandedOut'
      BY <2>4, <3>1, <3>2 DEF IOrder
    <3>8. \A t \in working' : maxPriorityReturned' <= Priority[t]
      BY <2>4, <3>1
    <3> QED BY <2>4, <3>5, <3>6, <3>7, <3>8 DEF IOrder
  <2> QED BY <2>1, <2>2, <2>3, <2>4, PlanSteps
<1> QED BY <1>1, <1>2, TypeCorrect, PTL DEF Spec

\* The functions of every plan are called in order of priority, each once.
THEOREM PlanOrderHolds == Spec => []PlanOrder
<1>1. IOrder => PlanOrder
  BY DEF IOrder
<1> QED BY <1>1, IOrderInvariant, PTL
-----------------------------------------------------------------------------
\* What makes SuccessIsComplete inductive: an unfinished build has its check
\* still ahead of it, and nothing else handed out is unfinished.
Unchecked(s) == s \in Async /\ CheckedBy[s] \in working

IComplete ==
  /\ outcome # "none" => phase = "finished"
  /\ phase \in {"executing", "waiting"} =>
       /\ \A a \in Async \cap working : CheckedBy[a] \in working
       /\ \A s \in HandedOut \ Leftover : effect[s] = "done" \/ Unchecked(s)
  /\ phase = "waiting" => returned # <<>> /\ Unchecked(returned[Len(returned)])
  /\ SuccessIsComplete

LEMMA ICompleteInvariant == Spec => []IComplete
<1>1. Init => IComplete
  BY DEF Init, IComplete, SuccessIsComplete
<1>2. TypeOK /\ IOrder /\ IComplete /\ [Next]_vars => IComplete'
  <2> SUFFICES ASSUME TypeOK, IOrder, IComplete, [Next]_vars PROVE IComplete'
    OBVIOUS
  <2> USE PlanMapAssumption, ExecutionPlanAssumption
  <2>1. CASE Generate
    <3>1. HandedOut' = {} /\ Async \cap working' = {}
      BY <2>1 DEF Generate, IOrder, HandedOut
    <3>2. phase' = "executing" /\ outcome' = outcome /\ phase = "planning"
      BY <2>1 DEF Generate
    <3> QED BY <3>1, <3>2 DEF IComplete, SuccessIsComplete
  <2>2. CASE Reject
    BY <2>2 DEF Reject, IComplete, SuccessIsComplete
  <2>3. CASE CallNext
    <3>1. PICK s \in Step : Skip(s) \/ CallReturns(s) \/ CallYields(s)
                              \/ CallRaises(s) \/ AddRaises(s)
      BY <2>3 DEF CallNext
    <3>2. /\ phase = "executing" /\ s \in working
          /\ \A t \in working : Priority[s] <= Priority[t]
      BY <3>1 DEF Skip, CallReturns, CallYields, CallRaises, AddRaises, HandOut, Pop, Todo
    <3>3. \A a \in Async : a \in working => s # CheckedBy[a]
      BY <3>2
    <3>4. CASE Skip(s)
      <4>1. \A a \in Async : s # CheckedBy[a]
        BY <3>4 DEF Skip, TypeOK
      <4>2. working' = working \ {s} /\ UNCHANGED <<phase, outcome, returned, effect>>
        BY <3>4 DEF Skip, Pop
      <4>3. HandedOut' = HandedOut
        BY <4>2 DEF HandedOut
      <4> QED BY <3>2, <4>1, <4>2, <4>3 DEF IComplete, SuccessIsComplete, Unchecked
    <3>5. CASE CallReturns(s)
      <4>1. PICK added \in ServicePlans : HandOut(s, added)
        BY <3>5 DEF CallReturns
      <4>2. \A a \in Async \ Leftover : s = CheckedBy[a] => effect[a] = "done"
        BY <3>5 DEF CallReturns, BuildFailed
      <4>3. /\ effect' = [effect EXCEPT ![s] = "done"] /\ s \notin Async
            /\ UNCHANGED <<phase, outcome>>
        BY <3>5 DEF CallReturns
      <4>4. working' = (working \ {s}) \cup added /\ HandedOut' = HandedOut \cup {s}
        BY <4>1, HandOutAppends DEF HandOut, Pop
      <4>5. \A a \in Async \cap working' : CheckedBy[a] \in working'
        BY <3>2, <3>3, <4>4 DEF IComplete, ServicePlans
      <4>6. ASSUME NEW t \in HandedOut' \ Leftover PROVE effect'[t] = "done" \/ Unchecked(t)'
        <5>1. CASE t = s
          BY <4>3, <5>1 DEF TypeOK
        <5>2. CASE t # s /\ effect[t] = "done"
          BY <4>3, <5>2 DEF TypeOK
        <5>3. CASE t # s /\ effect[t] # "done"
          <6>1. t \in Async /\ CheckedBy[t] \in working /\ CheckedBy[t] # s
            BY <3>2, <4>2, <4>4, <5>3 DEF IComplete, Unchecked
          <6> QED BY <4>4, <6>1 DEF Unchecked
        <5> QED BY <5>1, <5>2, <5>3
      <4> QED BY <3>2, <4>3, <4>5, <4>6 DEF IComplete, SuccessIsComplete
    <3>6. CASE CallYields(s)
      <4>1. HandOut(s, {}) /\ s \in Async
        BY <3>6 DEF CallYields
      <4>2. /\ effect' = [effect EXCEPT ![s] = "partial"]
            /\ phase' = "waiting" /\ UNCHANGED outcome
        BY <3>6 DEF CallYields
      <4>3. /\ working' = working \ {s} /\ HandedOut' = HandedOut \cup {s}
            /\ Len(returned') = Len(returned) + 1 /\ returned'[Len(returned) + 1] = s
        BY <4>1, HandOutAppends DEF HandOut, Pop
      <4>4. \A a \in Async : s # CheckedBy[a]
        BY <4>1
      <4>5. Unchecked(s)'
        BY <3>2, <4>1, <4>3, <4>4 DEF IComplete, Unchecked
      <4>6. \A a \in Async \cap working' : CheckedBy[a] \in working'
        BY <3>2, <4>3, <4>4 DEF IComplete
      <4>7. ASSUME NEW t \in HandedOut' \ Leftover PROVE effect'[t] = "done" \/ Unchecked(t)'
        <5>1. CASE t = s
          BY <4>5, <5>1
        <5>2. CASE t # s
          BY <3>2, <4>2, <4>3, <4>4, <5>2 DEF IComplete, Unchecked, TypeOK
        <5> QED BY <5>1, <5>2
      <4>8. returned' # <<>> /\ returned'[Len(returned')] = s
        BY <4>3 DEF TypeOK
      <4> QED BY <3>2, <4>2, <4>5, <4>6, <4>7, <4>8 DEF IComplete, SuccessIsComplete
    <3>7. CASE CallRaises(s) \/ AddRaises(s)
      BY <3>2, <3>7 DEF CallRaises, AddRaises, IComplete, SuccessIsComplete
    <3> QED BY <3>1, <3>4, <3>5, <3>6, <3>7
  <2>4. CASE Resume
    <3>1. /\ phase = "waiting" /\ phase' = "executing"
          /\ UNCHANGED <<outcome, working, returned>>
      BY <2>4 DEF Resume, planVars
    <3> DEFINE last == returned[Len(returned)]
    <3>2. \A t \in Step : t # last => effect'[t] = effect[t]
      BY <2>4 DEF Resume, TypeOK
    <3>3. Unchecked(last)
      BY <3>1 DEF IComplete
    <3>4. HandedOut' = HandedOut /\ HandedOut \subseteq Step
      BY <3>1 DEF HandedOut, TypeOK
    <3>5. ASSUME NEW t \in HandedOut \ Leftover PROVE effect'[t] = "done" \/ Unchecked(t)'
      <4>1. CASE t = last
        BY <3>1, <3>3, <4>1 DEF Unchecked
      <4>2. CASE t # last
        BY <3>1, <3>2, <3>4, <4>2 DEF IComplete, Unchecked
      <4> QED BY <4>1, <4>2
    <3> QED BY <3>1, <3>4, <3>5 DEF IComplete, SuccessIsComplete
  <2>5. CASE Finish
    <3>1. /\ phase = "executing" /\ working = {} /\ phase' = "finished"
          /\ UNCHANGED <<returned, effect>>
      BY <2>5 DEF Finish, planVars
    <3>2. \A s \in HandedOut \ Leftover : effect[s] = "done"
      BY <3>1 DEF IComplete, Unchecked
    <3> QED BY <3>1, <3>2 DEF IComplete, SuccessIsComplete, HandedOut
  <2>6. CASE UndoReturns \/ UndoRaises \/ AbortEnds
    BY <2>6 DEF UndoReturns, UndoRaises, AbortEnds, IComplete, SuccessIsComplete
  <2>7. CASE UNCHANGED vars
    BY <2>7 DEF vars, planVars, IComplete, SuccessIsComplete, HandedOut, Unchecked
  <2> QED BY <2>1, <2>2, <2>3, <2>4, <2>5, <2>6, <2>7 DEF Next
<1> QED BY <1>1, <1>2, TypeCorrect, IOrderInvariant, PTL DEF Spec

\* No update is reported as a success with a build, or any other function it
\* called, left unfinished, unless the image it should make was there before.
THEOREM SuccessIsCompleteHolds == Spec => []SuccessIsComplete
<1>1. IComplete => SuccessIsComplete
  BY DEF IComplete
<1> QED BY <1>1, ICompleteInvariant, PTL
-----------------------------------------------------------------------------
\* getNextAbort keeps, for every entry before the failing one that has an abort
\* function, a position at or after it with the same abort function.
LEMMA UndoableCovers ==
  ASSUME NEW list \in Seq(Step), NEW i \in 1 .. (Len(list) - 1), UndoOf[list[i]] # NoUndo
  PROVE  \E q \in Undoable(list) : i <= q /\ UndoOf[list[q]] = UndoOf[list[i]]
<1> DEFINE n == Len(list) - 1
           Same == {j \in 1 .. n : i <= j /\ UndoOf[list[j]] = UndoOf[list[i]]}
<1>1. n \in Nat /\ Same \in SUBSET (1 .. n) /\ i \in Same
  OBVIOUS
<1>2. PICK q \in Same : \A k \in Same : k <= q
  BY <1>1, MaximumExists
<1>3. \A j \in (q + 1) .. n : UndoOf[list[j]] # UndoOf[list[q]]
  <2> SUFFICES ASSUME NEW j \in (q + 1) .. n, UndoOf[list[j]] = UndoOf[list[q]]
               PROVE  FALSE
    OBVIOUS
  <2>1. j \in Same
    BY <1>1, <1>2
  <2> QED BY <1>1, <1>2, <2>1
<1>4. q \in Undoable(list)
  BY <1>2, <1>3 DEF Undoable
<1> QED BY <1>2, <1>4

\* What makes AbortUndoesEarlierSteps inductive: as long as no abort function
\* raised, an entry whose work is still there has its abort function, or the
\* one it shares with a later entry, still to be called.
Covered(i) ==
  \/ effect[returned[i]] = "none"
  \/ \E q \in toUndo : i <= q /\ UndoOf[returned[q]] = UndoOf[returned[i]]

IUndo ==
  /\ phase = "aborting" => toUndo \subseteq 1 .. (Len(returned) - 1)
  /\ phase = "aborting" /\ ~undoFailed =>
       \A i \in 1 .. (Len(returned) - 1) : UndoOf[returned[i]] # NoUndo => Covered(i)
  /\ outcome = "failed" => phase = "finished"
  /\ AbortUndoesEarlierSteps

LEMMA IUndoInvariant == Spec => []IUndo
<1>1. Init => IUndo
  BY DEF Init, IUndo, AbortUndoesEarlierSteps
<1>2. TypeOK /\ IUndo /\ [Next]_vars => IUndo'
  <2> SUFFICES ASSUME TypeOK, IUndo, [Next]_vars PROVE IUndo'
    OBVIOUS
  <2>1. CASE Generate \/ Reject \/ Resume \/ Finish
    BY <2>1 DEF Generate, Reject, Resume, Finish, IUndo, AbortUndoesEarlierSteps
  <2>2. CASE CallNext
    <3>1. PICK s \in Step : Skip(s) \/ CallReturns(s) \/ CallYields(s)
                              \/ CallRaises(s) \/ AddRaises(s)
      BY <2>2 DEF CallNext
    <3>2. CASE Skip(s) \/ CallReturns(s) \/ CallYields(s)
      BY <3>2 DEF Skip, CallReturns, CallYields, HandOut, Pop, IUndo, AbortUndoesEarlierSteps
    <3>3. CASE CallRaises(s) \/ AddRaises(s)
      <4>1. /\ toUndo' = Undoable(returned') /\ phase' = "aborting"
            /\ UNCHANGED outcome /\ phase = "executing"
        BY <3>3 DEF CallRaises, AddRaises, HandOut, Pop
      <4>2. returned' \in Seq(Step)
        <5>1. returned' = Append(returned, s)
          BY <3>3 DEF CallRaises, AddRaises, HandOut
        <5> QED BY <5>1 DEF TypeOK
      <4>3. toUndo' \subseteq 1 .. (Len(returned') - 1)
        BY <4>1 DEF Undoable
      <4>4. \A i \in 1 .. (Len(returned') - 1) :
              UndoOf[returned'[i]] # NoUndo => Covered(i)'
        BY <4>1, <4>2, UndoableCovers DEF Covered
      <4> QED BY <4>1, <4>3, <4>4 DEF IUndo, AbortUndoesEarlierSteps
    <3> QED BY <3>1, <3>2, <3>3
  <2>3. CASE UndoReturns
    <3> DEFINE p == Latest(toUndo)
    <3>1. /\ toUndo' = toUndo \ {p} /\ effect' = Undone(UndoOf[returned[p]])
          /\ phase = "aborting" /\ UNCHANGED <<phase, outcome, returned, undoFailed>>
      BY <2>3 DEF UndoReturns, planVars
    <3>2. ASSUME ~undoFailed, NEW i \in 1 .. (Len(returned) - 1),
                 UndoOf[returned[i]] # NoUndo
          PROVE  Covered(i)'
      <4>1. returned[i] \in Step
        BY DEF TypeOK
      <4>2. CASE UndoOf[returned[i]] = UndoOf[returned[p]]
        BY <3>1, <4>1, <4>2 DEF Undone, Covered
      <4>3. CASE UndoOf[returned[i]] # UndoOf[returned[p]]
        <5>1. Covered(i)
          BY <3>1, <3>2 DEF IUndo
        <5>2. effect'[returned[i]] = effect[returned[i]]
          BY <3>1, <4>1, <4>3 DEF Undone
        <5> QED BY <3>1, <4>3, <5>1, <5>2 DEF Covered
      <4> QED BY <4>2, <4>3
    <3> QED BY <3>1, <3>2 DEF IUndo, AbortUndoesEarlierSteps
  <2>4. CASE UndoRaises
    BY <2>4 DEF UndoRaises, planVars, IUndo, AbortUndoesEarlierSteps
  <2>5. CASE AbortEnds
    BY <2>5 DEF AbortEnds, planVars, abortVars, IUndo, AbortUndoesEarlierSteps, Covered
  <2>6. CASE UNCHANGED vars
    BY <2>6 DEF vars, planVars, abortVars, IUndo, AbortUndoesEarlierSteps, Covered
  <2> QED BY <2>1, <2>2, <2>3, <2>4, <2>5, <2>6 DEF Next
<1> QED BY <1>1, <1>2, TypeCorrect, PTL DEF Spec

\* An abort that reaches its end without an abort function raising has undone
\* everything before the failing entry that can be undone.
THEOREM AbortUndoesEarlierStepsHolds == Spec => []AbortUndoesEarlierSteps
<1>1. IUndo => AbortUndoesEarlierSteps
  BY DEF IUndo
<1> QED BY <1>1, IUndoInvariant, PTL

\* The work of an entry is undone only after what later entries did, abort
\* functions shared with a later entry excepted.
THEOREM UndoneInReverseHolds == Spec => UndoneInReverse
<1> DEFINE Reverse ==
      \A i, j \in 1 .. (Len(returned) - 1) :
        LET a == returned[i]
            b == returned[j]
        IN (/\ phase = "aborting" /\ ~undoFailed /\ i < j
            /\ effect[a] # "none" /\ effect'[a] = "none"
            /\ UndoOf[b] # NoUndo /\ effect'[b] # "none")
           => \E k \in (j + 1) .. (Len(returned) - 1) : UndoOf[returned[k]] = UndoOf[a]
<1>1. TypeOK /\ IUndo /\ [Next]_vars => [Reverse]_vars
  <2> SUFFICES ASSUME TypeOK, IUndo, [Next]_vars,
                      NEW i \in 1 .. (Len(returned) - 1),
                      NEW j \in 1 .. (Len(returned) - 1),
                      phase = "aborting", ~undoFailed, i < j,
                      effect[returned[i]] # "none", effect'[returned[i]] = "none",
                      UndoOf[returned[j]] # NoUndo, effect'[returned[j]] # "none"
               PROVE  \E k \in (j + 1) .. (Len(returned) - 1) :
                        UndoOf[returned[k]] = UndoOf[returned[i]]
    OBVIOUS
  <2>1. UndoReturns
    BY DEF Next, Generate, Reject, CallNext, Skip, CallReturns, CallYields, CallRaises,
           AddRaises, HandOut, Pop, Resume, Finish, UndoRaises, AbortEnds, vars
  <2> DEFINE p == Latest(toUndo)
  <2>2. /\ toUndo # {} /\ toUndo \subseteq 1 .. (Len(returned) - 1)
        /\ effect' = Undone(UndoOf[returned[p]])
    BY <2>1 DEF UndoReturns, IUndo
  <2>3. p \in toUndo /\ \A k \in toUndo : k <= p
    <3>1. Len(returned) - 1 \in Nat
      BY DEF TypeOK
    <3> QED BY <2>2, <3>1, LatestProperties
  <2>4. returned[i] \in Step /\ returned[j] \in Step
    BY DEF TypeOK
  <2>5. UndoOf[returned[i]] = UndoOf[returned[p]]
    BY <2>2, <2>4 DEF Undone
  <2>6. UndoOf[returned[j]] # UndoOf[returned[p]] /\ effect[returned[j]] # "none"
    BY <2>2, <2>4 DEF Undone
  <2>7. PICK q \in toUndo : j <= q /\ UndoOf[returned[q]] = UndoOf[returned[j]]
    BY <2>6 DEF IUndo, Covered
  <2>8. p \in (j + 1) .. (Len(returned) - 1)
    <3>1. j <= p /\ j # p /\ p \in 1 .. (Len(returned) - 1)
      <4>1. q <= p /\ p \in 1 .. (Len(returned) - 1) /\ q \in 1 .. (Len(returned) - 1)
        BY <2>2, <2>3
      <4>2. j # p
        BY <2>6
      <4>3. j <= q
        BY <2>7
      <4> QED BY <4>1, <4>2, <4>3
    <3>2. Len(returned) \in Nat
      BY DEF TypeOK
    <3> QED BY <3>1, <3>2
  <2> QED BY <2>5, <2>8
<1> QED BY <1>1, TypeCorrect, IUndoInvariant, PTL DEF Spec, UndoneInReverse
-----------------------------------------------------------------------------
\* Popping an entry leaves fewer ahead, also where it adds some: the generator's
\* entries were ahead from the beginning, and it comes once.
LEMMA PopShrinks ==
  ASSUME TypeOK, IOrder, NEW s \in Step, NEW added \in SUBSET Late,
         s # Generator => added = {}, Pop(s, added)
  PROVE  /\ Cardinality(Ahead) \in Nat /\ Cardinality(Ahead') \in Nat
         /\ Cardinality(Ahead') < Cardinality(Ahead)
<1> USE PlanMapAssumption, ExecutionPlanAssumption
<1>1. s \in working /\ working' = (working \ {s}) \cup added
  BY DEF Pop, Todo
<1>2. Generator \in working => working \cap Late = {}
  BY DEF IOrder
<1>3. Ahead' \subseteq Ahead \ {s} /\ s \in Ahead
  <2>1. CASE s = Generator
    BY <1>1, <2>1 DEF Ahead
  <2>2. CASE s # Generator
    BY <1>1, <1>2, <2>2 DEF Ahead
  <2> QED BY <2>1, <2>2
<1>4. IsFiniteSet(Ahead)
  <2>1. Ahead \in SUBSET Step
    BY DEF Ahead, TypeOK
  <2> QED BY <2>1, FS_Subset
<1>5. /\ IsFiniteSet(Ahead \ {s})
      /\ Cardinality(Ahead \ {s}) = Cardinality(Ahead) - 1
  BY <1>3, <1>4, FS_RemoveElement
<1>6. IsFiniteSet(Ahead') /\ Cardinality(Ahead') <= Cardinality(Ahead \ {s})
  <2>1. Ahead' \in SUBSET (Ahead \ {s})
    BY <1>3
  <2> QED BY <1>5, <2>1, FS_Subset
<1>7. Cardinality(Ahead) \in Nat /\ Cardinality(Ahead') \in Nat
  BY <1>4, <1>6, FS_CardinalityType
<1> QED BY <1>5, <1>6, <1>7

\* No execution goes on for ever: each step of it is progress.
THEOREM OnlyForwardHolds == Spec => OnlyForward
<1>1. TypeOK /\ IOrder /\ [Next]_vars
        => [Stage' < Stage \/ (Stage' = Stage /\ Remaining' < Remaining)]_vars
  <2> SUFFICES ASSUME TypeOK, IOrder, Next
               PROVE  Stage' < Stage \/ (Stage' = Stage /\ Remaining' < Remaining)
    OBVIOUS
  <2>1. CASE Generate \/ Reject
    BY <2>1 DEF Generate, Reject, Stage
  <2>2. CASE CallNext
    <3>1. PICK s \in Step : Skip(s) \/ CallReturns(s) \/ CallYields(s)
                              \/ CallRaises(s) \/ AddRaises(s)
      BY <2>2 DEF CallNext
    <3>2. CASE Skip(s) \/ CallReturns(s)
      <4>1. PICK added \in SUBSET Late : Pop(s, added) /\ (s # Generator => added = {})
        <5>1. CASE Skip(s)
          BY <5>1 DEF Skip
        <5>2. CASE CallReturns(s)
          BY <5>2 DEF CallReturns, HandOut, ServicePlans
        <5> QED BY <3>2, <5>1, <5>2
      <4>2. phase = "executing" /\ phase' = "executing"
        BY <3>2, <4>1 DEF Skip, CallReturns, Pop
      <4> QED BY <4>1, <4>2, PopShrinks DEF Stage, Remaining
    <3>3. CASE CallYields(s)
      <4>1. Pop(s, {}) /\ phase = "executing" /\ phase' = "waiting"
        BY <3>3 DEF CallYields, HandOut, Pop
      <4>2. /\ Cardinality(Ahead) \in Nat /\ Cardinality(Ahead') \in Nat
            /\ Cardinality(Ahead') < Cardinality(Ahead)
        BY <4>1, PopShrinks
      <4>3. 2 * Cardinality(Ahead') + 1 < 2 * Cardinality(Ahead)
        BY <4>2
      <4> QED BY <4>1, <4>3 DEF Stage, Remaining
    <3>4. CASE CallRaises(s) \/ AddRaises(s)
      BY <3>4 DEF CallRaises, AddRaises, HandOut, Pop, Stage
    <3> QED BY <3>1, <3>2, <3>3, <3>4
  <2>3. CASE Resume
    <3>1. phase = "waiting" /\ phase' = "executing" /\ working' = working
      BY <2>3 DEF Resume, planVars
    <3>2. Ahead' = Ahead /\ Cardinality(Ahead) \in Nat
      <4>1. Ahead \in SUBSET Step
        BY ExecutionPlanAssumption DEF Ahead, TypeOK
      <4> QED BY <3>1, <4>1, ExecutionPlanAssumption, FS_Subset, FS_CardinalityType DEF Ahead
    <3> QED BY <3>1, <3>2 DEF Stage, Remaining
  <2>4. CASE UndoReturns \/ UndoRaises
    <3>0. toUndo \in SUBSET (1 .. Len(returned)) /\ Len(returned) \in Nat
      BY DEF TypeOK
    <3>1. PICK i \in toUndo : toUndo' = toUndo \ {i}
      <4>1. toUndo # {} /\ toUndo' = toUndo \ {Latest(toUndo)}
        BY <2>4 DEF UndoReturns, UndoRaises
      <4> QED BY <3>0, <4>1, LatestProperties
    <3>2. IsFiniteSet(toUndo)
      <4>1. IsFiniteSet(1 .. Len(returned))
        BY <3>0, FS_Interval
      <4> QED BY <3>0, <4>1, FS_Subset
    <3>3. Cardinality(toUndo) \in Nat /\ Cardinality(toUndo') = Cardinality(toUndo) - 1
      BY <3>1, <3>2, FS_CardinalityType, FS_RemoveElement
    <3>4. phase = "aborting" /\ phase' \in {"aborting", "finished"}
      BY <2>4 DEF UndoReturns, UndoRaises
    <3> QED BY <3>3, <3>4 DEF Stage, Remaining
  <2>5. CASE Finish \/ AbortEnds
    BY <2>5 DEF Finish, AbortEnds, Stage
  <2> QED BY <2>1, <2>2, <2>3, <2>4, <2>5 DEF Next
<1> QED BY <1>1, TypeCorrect, IOrderInvariant, PTL DEF Spec, OnlyForward
-----------------------------------------------------------------------------
\* The Async entries that have yielded are finitely many, and none of them is the
\* one that a step hands out.
LEMMA YieldedFinite ==
  ASSUME TypeOK
  PROVE  /\ Yielded \subseteq Async \cap HandedOut
         /\ IsFiniteSet(Yielded) /\ Cardinality(Yielded) \in Nat
<1> DEFINE n == Len(returned) - IF phase = "aborting" \/ outcome \in {"failed", "stuck"}
                                 THEN 1 ELSE 0
<1>1. 1 .. n \subseteq 1 .. Len(returned)
  <2>1. Len(returned) \in Nat
    BY DEF TypeOK
  <2> QED BY <2>1
<1>2. Yielded \subseteq Async \cap HandedOut
  BY <1>1 DEF Yielded, HandedOut
<1>3. Yielded \in SUBSET Step
  BY <1>2, ExecutionPlanAssumption
<1> QED BY <1>2, <1>3, ExecutionPlanAssumption, FS_Subset, FS_CardinalityType

\* Where nothing has failed, every Async entry handed out has yielded.
LEMMA YieldedAll ==
  ASSUME phase # "aborting", outcome \notin {"failed", "stuck"}, TypeOK
  PROVE  Yielded = Async \cap HandedOut
<1>1. Len(returned) - 0 = Len(returned)
  BY DEF TypeOK
<1> QED BY <1>1 DEF Yielded, HandedOut

LEMMA YieldedAllNext ==
  ASSUME phase' # "aborting", outcome' \notin {"failed", "stuck"}, TypeOK'
  PROVE  Yielded' = Async \cap HandedOut'
<1>1. Len(returned') - 0 = Len(returned')
  BY DEF TypeOK
<1> QED BY <1>1 DEF Yielded, HandedOut

\* The entry that raises is not one that has yielded.
LEMMA RaiseYieldsNothing ==
  ASSUME TypeOK, outcome \notin {"failed", "stuck"}, NEW s \in Step, NEW added,
         HandOut(s, added), phase' = "aborting"
  PROVE  Yielded' = Yielded
<1>1. /\ Len(returned') - 1 = Len(returned)
      /\ \A i \in 1 .. Len(returned) : returned'[i] = returned[i]
  BY HandOutAppends DEF TypeOK
<1>2. Yielded = Async \cap HandedOut
  <2>1. phase = "executing"
    BY DEF HandOut, Pop
  <2> QED BY <2>1, YieldedAll
<1>3. Yielded' = Async \cap {returned'[i] : i \in 1 .. Len(returned)}
  BY <1>1 DEF Yielded
<1> QED BY <1>1, <1>2, <1>3 DEF HandedOut

\* Each step of execute() is one that the update manager expects, or none.
LEMMA ContractStep ==
  ASSUME TypeOK, TypeOK', IOrder, IComplete, [Next]_vars
  PROVE  [Contract!Next]_(Contract!executionVars)
<1> USE DEF Contract!executionVars
<1>1. CASE Generate
  <2>1. UNCHANGED <<returned, outcome>> /\ phase = "planning" /\ phase' = "executing"
    BY <1>1 DEF Generate
  <2>2. Yielded' = Yielded
    BY <2>1 DEF Yielded
  <2> QED BY <2>1, <2>2
<1>2. CASE Reject
  <2>1. UNCHANGED returned /\ phase = "planning" /\ phase' = "finished" /\ outcome' = "rejected"
    BY <1>2 DEF Reject, planVars
  <2>2. outcome = "none"
    BY <2>1 DEF IComplete
  <2>3. Yielded' = Yielded
    BY <2>1, <2>2 DEF Yielded
  <2> QED BY <2>1, <2>3 DEF Contract!Next, Contract!End
<1>3. CASE CallNext
  <2>1. PICK s \in Step : Skip(s) \/ CallReturns(s) \/ CallYields(s)
                            \/ CallRaises(s) \/ AddRaises(s)
    BY <1>3 DEF CallNext
  <2>2. phase = "executing" /\ outcome = "none" /\ UNCHANGED outcome
    <3>1. phase = "executing" /\ UNCHANGED outcome
      BY <2>1 DEF Skip, CallReturns, CallYields, CallRaises, AddRaises, HandOut, Pop
    <3> QED BY <3>1 DEF IComplete
  <2>3. Yielded = Async \cap HandedOut
    BY <2>2, YieldedAll
  <2>4. CASE Skip(s)
    <3>1. UNCHANGED <<phase, returned>>
      BY <2>4 DEF Skip
    <3>2. Yielded' = Yielded
      BY <2>2, <3>1 DEF Yielded
    <3> QED BY <2>2, <3>1, <3>2
  <2>5. CASE CallReturns(s)
    <3>1. PICK added : HandOut(s, added)
      BY <2>5 DEF CallReturns
    <3>2. phase' = "executing" /\ s \notin Async
      BY <2>2, <2>5 DEF CallReturns
    <3>3. Yielded' = Async \cap HandedOut'
      BY <2>2, <3>2, YieldedAllNext
    <3>4. HandedOut' = HandedOut \cup {s}
      BY <3>1, HandOutAppends
    <3>5. Yielded' = Yielded
      BY <2>3, <3>2, <3>3, <3>4
    <3> QED BY <2>2, <3>2, <3>5
  <2>6. CASE CallYields(s)
    <3>1. HandOut(s, {}) /\ phase' = "waiting" /\ s \in Async
      BY <2>6 DEF CallYields
    <3>2. s \in working /\ HandedOut' = HandedOut \cup {s}
      BY <3>1, HandOutAppends
    <3>3. s \notin Yielded
      BY <2>3, <3>2 DEF IOrder
    <3>4. Yielded' = Yielded \cup {s}
      BY <2>2, <2>3, <3>1, <3>2, YieldedAllNext
    <3>5. /\ IsFiniteSet(Yielded) /\ Cardinality(Yielded) \in Nat
          /\ Cardinality(Yielded') = Cardinality(Yielded) + 1
      BY <3>3, <3>4, YieldedFinite, FS_AddElement
    <3>6. IsFiniteSet(Async) /\ Cardinality(Async) \in Nat
      BY ExecutionPlanAssumption, FS_Subset, FS_CardinalityType
    <3>7. Cardinality(Yielded') <= Cardinality(Async)
      <4>1. Yielded' \in SUBSET Async
        BY DEF Yielded
      <4> QED BY <3>6, <4>1, FS_Subset
    <3>8. Cardinality(Yielded) < Cardinality(Async)
      BY <3>5, <3>6, <3>7
    <3> QED BY <2>2, <3>1, <3>5, <3>8 DEF Contract!Next, Contract!Yield
  <2>7. CASE CallRaises(s) \/ AddRaises(s)
    <3>1. phase' = "aborting" /\ \E added : HandOut(s, added)
      BY <2>7 DEF CallRaises, AddRaises
    <3>2. Yielded' = Yielded
      BY <2>2, <3>1, RaiseYieldsNothing
    <3> QED BY <2>2, <3>1, <3>2
  <2> QED BY <2>1, <2>4, <2>5, <2>6, <2>7
<1>4. CASE Resume
  <2>1. /\ phase = "waiting" /\ phase' = "executing"
        /\ UNCHANGED <<outcome, returned>>
    BY <1>4 DEF Resume, planVars
  <2>2. Yielded' = Yielded
    BY <2>1 DEF Yielded
  <2> QED BY <2>1, <2>2 DEF Contract!Next, Contract!Resume
<1>5. CASE Finish
  <2>1. /\ phase = "executing" /\ phase' = "finished" /\ outcome' = "success"
        /\ UNCHANGED returned
    BY <1>5 DEF Finish, planVars
  <2>2. outcome = "none"
    BY <2>1 DEF IComplete
  <2>3. Yielded' = Yielded
    BY <2>1, <2>2 DEF Yielded
  <2> QED BY <2>1, <2>3 DEF Contract!Next, Contract!End
<1>6. CASE UndoReturns \/ UndoRaises \/ AbortEnds
  <2>1. /\ phase = "aborting"
        /\ \/ UNCHANGED phase
           \/ phase' = "finished" /\ outcome' \in {"failed", "stuck"}
        /\ UNCHANGED returned
    BY <1>6 DEF UndoReturns, UndoRaises, AbortEnds, planVars
  <2>2. Yielded' = Yielded
    BY <2>1 DEF Yielded
  <2> QED BY <2>1, <2>2 DEF Contract!Next, Contract!End
<1>7. CASE UNCHANGED vars
  <2>1. UNCHANGED <<phase, outcome, returned>>
    BY <1>7 DEF vars, planVars
  <2>2. Yielded' = Yielded
    BY <2>1 DEF Yielded
  <2> QED BY <2>1, <2>2
<1> QED BY <1>1, <1>2, <1>3, <1>4, <1>5, <1>6, <1>7 DEF Next

\* execute() hands back at most as many Deferreds as its plan has Async entries, does
\* nothing while one is pending and ends once.
THEOREM KeepsContractHolds == Spec => KeepsContract
<1>1. Init => Contract!Init
  <2> SUFFICES ASSUME Init PROVE Contract!Init
    OBVIOUS
  <2>1. Yielded = {}
    BY DEF Init, Yielded
  <2> QED BY <2>1, FS_EmptySet DEF Init, Contract!Init
<1>2. TypeOK /\ TypeOK' /\ IOrder /\ IComplete /\ [Next]_vars
        => [Contract!Next]_(Contract!executionVars)
  BY ContractStep
<1> QED BY <1>1, <1>2, TypeCorrect, IOrderInvariant, ICompleteInvariant, PTL
        DEF Spec, KeepsContract, Contract!Spec
=============================================================================
