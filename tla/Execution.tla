------------------------------ MODULE Execution ------------------------------
(***************************************************************************)
(* What the update manager and the execution of one update rely on of each *)
(* other (UpdateObject.execute): an execution that is due runs until it    *)
(* ends or hands back a Deferred; then it is away, is due again only when  *)
(* the Deferred has fired, and does this a bounded number of times.        *)
(***************************************************************************)
EXTENDS Naturals

CONSTANT Yields  \* how many Deferreds it may hand back

VARIABLES
  stage,  \* "due", "away" or "over"
  yields  \* Deferreds handed back so far

executionVars == <<stage, yields>>

Init == stage = "due" /\ yields = 0

Yield ==
  /\ stage = "due"
  /\ yields < Yields
  /\ stage' = "away"
  /\ yields' = yields + 1

Resume == stage = "away" /\ stage' = "due" /\ UNCHANGED yields

End == stage = "due" /\ stage' = "over" /\ UNCHANGED yields

Next == Yield \/ Resume \/ End

Spec == Init /\ [][Next]_executionVars
=============================================================================
