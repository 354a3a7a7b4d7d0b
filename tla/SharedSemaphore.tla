--------------------------- MODULE SharedSemaphore ---------------------------
(***************************************************************************)
(* The semaphore of the requests to the controller between two threads     *)
(* (TwistedRequestDriver.sem, core/agent/http.py).  The reactor thread     *)
(* makes requests and gets all answers; the update thread makes requests   *)
(* of its own (UpdateObject.started and progress).  Twisted's              *)
(* DeferredSemaphore has no lock: a step here is one access to its number  *)
(* of tokens or to its list of those who wait.  A login or second try is   *)
(* one more request here.                                                  *)
(***************************************************************************)
EXTENDS Integers, Sequences, FiniteSets

CONSTANTS
  Request,
  Threaded,  \* requests of the update thread
  Limit      \* PDSERVER_MAX_CONCURRENT_REQUESTS

Thread == {"reactor", "update"}

VARIABLES
  tokens,
  waiting,
  at,     \* what each thread does next in acquire() or release()
  asks,   \* the request it acquires the semaphore for
  seen,   \* the number of tokens it has read
  where   \* where each request is: "lost" after an assertion failed

thread == <<at, asks, seen>>
vars == <<tokens, waiting, thread, where>>

Made == [t \in Thread |-> IF t = "update" THEN Threaded ELSE Request \ Threaded]

Init ==
  /\ tokens = Limit
  /\ waiting = <<>>
  /\ at = [t \in Thread |-> "away"]
  /\ asks \in [Thread -> Request]
  /\ seen = [t \in Thread |-> 0]
  /\ where = [r \in Request |-> "new"]

Goes(t, place) == at' = [at EXCEPT ![t] = place]
Moves(r, place) == where' = [where EXCEPT ![r] = place]
-----------------------------------------------------------------------------
(* acquire() *)

\* request() asks for a token; "tokens should never be negative" is asserted.
Asks(t, r) ==
  /\ at[t] = "away" /\ r \in Made[t] /\ where[r] = "new"
  /\ asks' = [asks EXCEPT ![t] = r]
  /\ IF tokens >= 0
       THEN Goes(t, "tests") /\ Moves(r, "asking")
       ELSE UNCHANGED at /\ Moves(r, "lost")
  /\ UNCHANGED <<tokens, waiting, seen>>

Tests(t) ==
  /\ at[t] = "tests"
  /\ Goes(t, IF tokens = 0 THEN "waits" ELSE "takes")
  /\ UNCHANGED <<tokens, waiting, asks, seen, where>>

Waits(t) ==
  /\ at[t] = "waits"
  /\ waiting' = Append(waiting, asks[t])
  /\ Goes(t, "away")
  /\ Moves(asks[t], "queued")
  /\ UNCHANGED <<tokens, asks, seen>>
-----------------------------------------------------------------------------
(* release(), in the reactor thread *)

\* The answer of r is there, and releaseSemaphore is called; "too many tokens" is
\* asserted not to be the case.
Ends(r) ==
  /\ at["reactor"] = "away" /\ where[r] = "sent"
  /\ IF tokens < Limit
       THEN Goes("reactor", "gives") /\ Moves(r, "answered")
       ELSE UNCHANGED at /\ Moves(r, "lost")
  /\ UNCHANGED <<tokens, waiting, asks, seen>>

Looks ==
  /\ at["reactor"] = "looks"
  /\ Goes("reactor", IF waiting = <<>> THEN "away" ELSE "passes")
  /\ UNCHANGED <<tokens, waiting, asks, seen, where>>

Pops ==
  /\ at["reactor"] = "pops"
  /\ waiting' = Tail(waiting)
  /\ Goes("reactor", "away")
  /\ Moves(Head(waiting), "sent")
  /\ UNCHANGED <<tokens, asks, seen>>
-----------------------------------------------------------------------------
(* tokens = tokens + 1, or - 1: the value is read and then written *)

Reads(t) ==
  /\ at[t] \in {"takes", "gives", "passes"}
  /\ seen' = [seen EXCEPT ![t] = tokens]
  /\ Goes(t, CASE at[t] = "takes" -> "took" [] at[t] = "gives" -> "gave" [] OTHER -> "passed")
  /\ UNCHANGED <<tokens, waiting, asks, where>>

\* A token taken: the request is sent at once.
Takes(t) ==
  /\ at[t] = "took"
  /\ tokens' = seen[t] - 1
  /\ Goes(t, "away")
  /\ Moves(asks[t], "sent")
  /\ UNCHANGED <<waiting, asks, seen>>

Gives ==
  /\ at["reactor"] = "gave"
  /\ tokens' = seen["reactor"] + 1
  /\ Goes("reactor", "looks")
  /\ UNCHANGED <<waiting, asks, seen, where>>

\* The token given back is taken again, for the first of those who wait.
Passes ==
  /\ at["reactor"] = "passed"
  /\ tokens' = seen["reactor"] - 1
  /\ Goes("reactor", "pops")
  /\ UNCHANGED <<waiting, asks, seen, where>>

Next ==
  \/ \E t \in Thread, r \in Request : Asks(t, r)
  \/ \E t \in Thread : Tests(t) \/ Waits(t) \/ Reads(t) \/ Takes(t)
  \/ \E r \in Request : Ends(r)
  \/ Looks \/ Pops \/ Gives \/ Passes

Spec == Init /\ [][Next]_vars
-----------------------------------------------------------------------------
\* "Used to control the number of concurrent requests": no more of them are at the
\* controller than the semaphore has tokens.
AtMostLimit == Cardinality({r \in Request : where[r] = "sent"}) <= Limit
=============================================================================
