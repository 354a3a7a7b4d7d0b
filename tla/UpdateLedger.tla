---------------------------- MODULE UpdateLedger -----------------------------
(***************************************************************************)
(* The update manager keeps the change ledger.  An update counts as opened *)
(* when it is first entered in active_changes, not when it leaves the      *)
(* queue, and a resumed update in the queue is not a waiting one.          *)
(***************************************************************************)
EXTENDS UpdateManager

InHand == IF pc = "taken" THEN {cur} ELSE {}

Waiting == (InHand \cup Queued) \ started

\* u is somewhere before v in the queue q.
Precedes(q, u, v) ==
  \E i, j \in 1 .. Len(q) : i < j /\ q[i] = u /\ q[j] = v

WaitsBefore ==
  {p \in Waiting \X Waiting :
     Precedes(updateQueue, p[1], p[2]) \/ (p[1] \in InHand /\ p[2] \in Queued)}

Ledger == INSTANCE ChangeLedger
  WITH waiting <- Waiting, before <- WaitsBefore, open <- started \ Ended, ended <- Ended

\* Updates are first processed in the order they were queued in, whatever
\* builds, resumptions and the daemon's own updates come in between, and none is
\* processed again after it ended (update_manager.py, _perform_updates).
KeepsLedger == Ledger!Spec
=============================================================================
