------------------------------- MODULE PlanMap -------------------------------
(***************************************************************************)
(* The data structure of core/plan/plangraph.py: the entries that addPlans *)
(* puts in the plan of one update, the order in which getNextTodo hands    *)
(* them out and the list that getNextAbort builds to undo them.            *)
(*                                                                         *)
(* An entry ("step") has a priority, a function and at most one abort      *)
(* function: addPlans accepts a list of them, but every caller under       *)
(* core/plan passes one tuple or nothing.  Two entries with equal abort    *)
(* functions and arguments (Plan.__eq__) have the same UndoOf.             *)
(***************************************************************************)
EXTENDS Naturals, Sequences

CONSTANTS
  Step,      \* the entries (priority, todo, abort) that can be in the plan
  Priority,  \* the priority of each entry: small numbers first
  UndoOf,    \* the abort function of each entry, or NoUndo
  NoUndo

ASSUME PlanMapAssumption == Priority \in [Step -> Nat]

\* The entries the heap may hand out next: those of the least priority.  Which
\* of several goes first is decided by comparing Plan objects, that is, by
\* nothing the program controls.
Todo(working) ==
  {s \in working : \A t \in working : Priority[s] <= Priority[t]}

\* Faulty variant: no entry is refused.
OutOfOrderIgnored(s, maxPriorityReturned) == FALSE

\* addPlans raises when the entry belongs before one already handed out.
OutOfOrder(s, maxPriorityReturned) == Priority[s] < maxPriorityReturned

\* Faulty variant: duplicates are dropped before the failing entry is, so that an
\* abort function the failing entry shares is lost.
UndoableDedupedFirst(returned) ==
  {i \in 1 .. (Len(returned) - 1) :
     /\ UndoOf[returned[i]] # NoUndo
     /\ \A j \in (i + 1) .. Len(returned) : UndoOf[returned[j]] # UndoOf[returned[i]]}

\* The positions in "returned" whose abort function getNextAbort will call.
\* The last entry handed out, the one that failed, is left out; an abort
\* function shared by several entries is called once, where the latest of them
\* stands.
Undoable(returned) ==
  LET last == Len(returned) - 1
  IN {i \in 1 .. last :
        /\ UndoOf[returned[i]] # NoUndo
        /\ \A j \in (i + 1) .. last : UndoOf[returned[j]] # UndoOf[returned[i]]}

\* Faulty variant: abort functions are called in the order of the entries.
Earliest(positions) ==
  CHOOSE i \in positions : \A j \in positions : i <= j

\* Abort functions are called from the latest entry back to the first one.
Latest(positions) ==
  CHOOSE i \in positions : \A j \in positions : j <= i
=============================================================================
