---------------------------- MODULE ExecutionPlan ----------------------------
(***************************************************************************)
(* One update's way through UpdateObject.execute: generate the plan, call  *)
(* its functions in order of priority, suspend at a function that returns  *)
(* a Deferred and go on when it fires, and undo what was done when a       *)
(* function raises (core/plan/executionplan.py).                           *)
(*                                                                         *)
(* What the functions do to the system is "effect": a function that        *)
(* returns has done its work, one that raises has done none or part of it. *)
(***************************************************************************)
EXTENDS PlanMap, FiniteSets

CONSTANTS
  FuncOf,     \* the function of each entry
  Skippable,  \* functions that another function may ask to be skipped
  Generator,  \* the entry that adds entries while it runs (generate_service_plans)
  Late,       \* the entries it can add
  Async,      \* entries whose function returns a Deferred (prepare_image)
  CheckedBy,  \* the entry that looks for the image of an Async one (check_image)
  Leftover    \* entries whose image is there already, from an earlier build or pull

ASSUME ExecutionPlanAssumption ==
  /\ IsFiniteSet(Step)
  /\ Late \subseteq Step
  /\ Generator \in Step \ Late
  /\ Async \subseteq Late
  /\ CheckedBy \in [Async -> Late \ Async]
  /\ Leftover \subseteq Async
  /\ \A a \in Async : Priority[a] < Priority[CheckedBy[a]]
  /\ \A a \in Async : FuncOf[CheckedBy[a]] \notin Skippable

VARIABLES
  phase,       \* where execute() is
  outcome,     \* how it ended
  working,     \* workingPlans: entries not handed out yet
  maxPriorityReturned,
  skipFunctions,
  returned,    \* entries handed out, in order (abortPlans holds their undo)
  effect,      \* what each entry's function has done to the system
  toUndo,      \* workingAbortPlans, as positions in "returned"
  sameError,   \* the last abort function raised
  undoFailed   \* history: some abort function raised

planVars == <<working, maxPriorityReturned, skipFunctions, returned>>
abortVars == <<toUndo, sameError, undoFailed>>
vars == <<phase, outcome, planVars, effect, abortVars>>

Phases == {"planning", "executing", "waiting", "aborting", "finished"}
Outcomes == {"none", "rejected", "success", "failed", "stuck"}

TypeOK ==
  /\ phase \in Phases
  /\ outcome \in Outcomes
  /\ working \subseteq Step
  /\ maxPriorityReturned \in Nat
  /\ skipFunctions \subseteq Skippable
  /\ returned \in Seq(Step)
  /\ effect \in [Step -> {"none", "partial", "done"}]
  /\ toUndo \subseteq 1 .. Len(returned)
  /\ sameError \in BOOLEAN
  /\ undoFailed \in BOOLEAN
-----------------------------------------------------------------------------
Init ==
  /\ phase = "planning"
  /\ outcome = "none"
  /\ working = {}
  /\ maxPriorityReturned = 0
  /\ skipFunctions = {}
  /\ returned = <<>>
  /\ effect = [s \in Step |-> "none"]
  /\ toUndo = {}
  /\ sameError = FALSE
  /\ undoFailed = FALSE

\* The modules of updateModuleList add their entries; which ones depends on
\* the update.  Nothing has been handed out, so no entry is out of order.
Generate ==
  /\ phase = "planning"
  /\ \E plan \in SUBSET (Step \ Late) : working' = plan
  /\ phase' = "executing"
  /\ UNCHANGED <<outcome, maxPriorityReturned, skipFunctions, returned, effect, abortVars>>

\* A module's generatePlans returns True, for example because validate_change
\* refuses the update: it completes without executing anything.
Reject ==
  /\ phase = "planning"
  /\ phase' = "finished"
  /\ outcome' = "rejected"
  /\ UNCHANGED <<planVars, effect, abortVars>>

\* getNextTodo pops the entry s; "added" is what its function adds to the heap.
Pop(s, added) ==
  /\ phase = "executing"
  /\ s \in Todo(working)
  /\ working' = (working \ {s}) \cup added
  /\ maxPriorityReturned' = Priority[s]

\* ... and hands it out, so that its function is called.
HandOut(s, added) ==
  /\ Pop(s, added)
  /\ FuncOf[s] \notin skipFunctions
  /\ returned' = Append(returned, s)

\* A function that was registered to be skipped is popped and passed over.
Skip(s) ==
  /\ Pop(s, {})
  /\ FuncOf[s] \in skipFunctions
  /\ UNCHANGED <<phase, outcome, skipFunctions, returned, effect, abortVars>>

\* Faulty variant: check_image finds nothing wrong.
BuildNeverFailed(s) == FALSE

\* check_image raises when there is no image of that name: the build has failed
\* and no earlier one left an image.
BuildFailed(s) ==
  \E a \in Async \ Leftover : CheckedBy[a] = s /\ effect[a] # "done"

\* The entries generate_service_plans may add: never a build without its check.
ServicePlans ==
  {added \in SUBSET Late : \A a \in Async \cap added : CheckedBy[a] \in added}

\* Faulty variant: a function asks for itself to be skipped.
SkipsItself(s) == {{FuncOf[s]}}

\* What the function of s may return to be skipped: reloads, by nothing (None) or
\* a set of them.
SkipRequests(s) == SUBSET Skippable

\* The function does its work and returns None or functions to skip.
CallReturns(s) ==
  /\ s \notin Async
  /\ ~BuildFailed(s)
  /\ \E added \in ServicePlans :
       /\ s # Generator => added = {}
       /\ \A a \in added : ~OutOfOrder(a, Priority[s])
       /\ HandOut(s, added)
  /\ effect' = [effect EXCEPT ![s] = "done"]
  /\ \E skip \in SkipRequests(s) : skipFunctions' = skipFunctions \cup skip
  /\ UNCHANGED <<phase, outcome, abortVars>>

\* The function starts a thread and returns a Deferred; execute() returns it.
CallYields(s) ==
  /\ s \in Async
  /\ HandOut(s, {})
  /\ effect' = [effect EXCEPT ![s] = "partial"]
  /\ phase' = "waiting"
  /\ UNCHANGED <<outcome, skipFunctions, abortVars>>

\* Faulty variant: only a good result resumes the update (addCallback).
ResumeUnlessFailed ==
  /\ phase = "waiting"
  /\ LET s == returned[Len(returned)]
     IN /\ effect[s] = "partial"
        /\ \/ effect' = [effect EXCEPT ![s] = "done"] /\ phase' = "executing"
           \/ effect' = [effect EXCEPT ![s] = "none"] /\ UNCHANGED phase
  /\ UNCHANGED <<outcome, planVars, abortVars>>

\* The thread ends, well or badly; either way the update is resumed (addBoth).
Resume ==
  /\ phase = "waiting"
  /\ LET s == returned[Len(returned)]
     IN \E result \in {"done", "partial"} : effect' = [effect EXCEPT ![s] = result]
  /\ phase' = "executing"
  /\ UNCHANGED <<outcome, planVars, abortVars>>

\* The function raises, leaving no effect or part of it, and abortPlans begins:
\* its first getNextAbort lists what is to be undone.
CallRaises(s) ==
  /\ HandOut(s, {})
  /\ \E left \in {"none", "partial"} : effect' = [effect EXCEPT ![s] = left]
  /\ phase' = "aborting"
  /\ toUndo' = Undoable(returned')
  /\ UNCHANGED <<outcome, skipFunctions, sameError, undoFailed>>

\* The generator adds an entry that belongs before itself: addPlans raises, the
\* entries added before it stay in the heap.
AddRaises(s) ==
  /\ s = Generator
  /\ \E added \in ServicePlans :
       /\ \E a \in added : OutOfOrder(a, Priority[s])
       /\ HandOut(s, {a \in added : ~OutOfOrder(a, Priority[s])})
  /\ effect' = [effect EXCEPT ![s] = "partial"]
  /\ phase' = "aborting"
  /\ toUndo' = Undoable(returned')
  /\ UNCHANGED <<outcome, skipFunctions, sameError, undoFailed>>

\* The heap is empty: complete(success=True).
Finish ==
  /\ phase = "executing"
  /\ working = {}
  /\ phase' = "finished"
  /\ outcome' = "success"
  /\ UNCHANGED <<planVars, effect, abortVars>>

\* An abort function undoes the work of every entry it belongs to.
Undone(undo) ==
  [s \in Step |-> IF UndoOf[s] = undo THEN "none" ELSE effect[s]]

UndoReturns ==
  /\ phase = "aborting"
  /\ toUndo # {}
  /\ toUndo' = toUndo \ {Latest(toUndo)}
  /\ effect' = Undone(UndoOf[returned[Latest(toUndo)]])
  /\ sameError' = FALSE
  /\ UNCHANGED <<phase, outcome, planVars, undoFailed>>

\* An abort function raises: the first of a row is only noted, the second makes
\* abortPlans give up and return True.
UndoRaises ==
  /\ phase = "aborting"
  /\ toUndo # {}
  /\ toUndo' = toUndo \ {Latest(toUndo)}
  /\ undoFailed' = TRUE
  /\ IF sameError
       THEN phase' = "finished" /\ outcome' = "stuck" /\ UNCHANGED sameError
       ELSE sameError' = TRUE /\ UNCHANGED <<phase, outcome>>
  /\ UNCHANGED <<planVars, effect>>

\* abortPlans returns False: complete(success=False).
AbortEnds ==
  /\ phase = "aborting"
  /\ toUndo = {}
  /\ phase' = "finished"
  /\ outcome' = "failed"
  /\ UNCHANGED <<planVars, effect, abortVars>>

\* The loop of executePlans takes one entry.
CallNext ==
  \E s \in Step :
    Skip(s) \/ CallReturns(s) \/ CallYields(s) \/ CallRaises(s) \/ AddRaises(s)

Next ==
  \/ Generate \/ Reject
  \/ CallNext \/ Resume \/ Finish
  \/ UndoReturns \/ UndoRaises \/ AbortEnds

Spec == Init /\ [][Next]_vars

\* The update thread runs on, and a build that was started ends.
FairSpec == Spec /\ WF_vars(Next)
-----------------------------------------------------------------------------
HandedOut == {returned[i] : i \in 1 .. Len(returned)}

\* Functions are called in order of priority and each at most once, although
\* the generator adds entries while the plan runs and an Async entry leaves the
\* loop in the middle of it (plangraph.py: addPlans, getNextTodo).
PlanOrder ==
  \A i, j \in 1 .. Len(returned) :
    i < j => /\ Priority[returned[i]] <= Priority[returned[j]]
             /\ returned[i] # returned[j]

\* An update reported as a success has done the work of every function it
\* called, the builds of other threads included: no failed build is passed over
\* (check_image after prepare_image), unless its image was there before.
SuccessIsComplete ==
  outcome = "success" => \A s \in HandedOut \ Leftover : effect[s] = "done"

\* When abortPlans reaches its end and no abort function raised, nothing is left
\* of the entries handed out before the failing one, as far as they can be
\* undone; a shared abort function called once is enough (getNextAbort).
AbortUndoesEarlierSteps ==
  outcome = "failed" /\ ~undoFailed =>
    \A i \in 1 .. (Len(returned) - 1) :
      UndoOf[returned[i]] # NoUndo => effect[returned[i]] = "none"

\* A step is undone only when nothing that was done after it, and has an abort
\* function of its own, is still in place: abort functions may rely on the
\* system being as their step left it.  Steps that share their abort function
\* with a later one go with the later one.
UndoneInReverse ==
  [][\A i, j \in 1 .. (Len(returned) - 1) :
       LET a == returned[i]
           b == returned[j]
       IN (/\ phase = "aborting" /\ ~undoFailed /\ i < j
           /\ effect[a] # "none" /\ effect'[a] = "none"
           /\ UndoOf[b] # NoUndo /\ effect'[b] # "none")
          => \E k \in (j + 1) .. (Len(returned) - 1) : UndoOf[returned[k]] = UndoOf[a]]_vars

\* The entries the heap has or may still get.
Ahead == working \cup IF Generator \in working THEN Late ELSE {}

Stage ==
  CASE phase = "planning" -> 3
    [] phase \in {"executing", "waiting"} -> 2
    [] phase = "aborting" -> 1
    [] phase = "finished" -> 0

\* What is left to do in a stage.
Remaining ==
  CASE phase = "executing" -> 2 * Cardinality(Ahead)
    [] phase = "waiting" -> 2 * Cardinality(Ahead) + 1
    [] phase = "aborting" -> Cardinality(toUndo)
    [] OTHER -> 0

\* Every step leads to a later stage or leaves less to do in this one, though the
\* generator refills the heap and builds suspend the loop (executePlans, abortPlans):
\* no execution goes on for ever.
OnlyForward ==
  [][Stage' < Stage \/ (Stage' = Stage /\ Remaining' < Remaining)]_vars

\* The Async entries that were handed out and returned their Deferred: a last one
\* that raised instead is not among them.
Yielded ==
  LET raised == phase = "aborting" \/ outcome \in {"failed", "stuck"}
  IN Async \cap {returned[i] : i \in 1 .. (Len(returned) - IF raised THEN 1 ELSE 0)}

Contract ==
  INSTANCE Execution WITH
    Yields <- Cardinality(Async),
    stage <- CASE phase = "waiting" -> "away"
               [] phase = "finished" -> "over"
               [] OTHER -> "due",
    yields <- Cardinality(Yielded)

\* execute() does what the update manager expects of it: it hands back no more
\* Deferreds than the plan has Async entries, and ends when none is pending.
KeepsContract == Contract!Spec

\* Every update that is planned is completed, whatever its functions do.
Finishes == <>(phase = "finished")
=============================================================================
