---------------------------- MODULE UpdateFetcher ----------------------------
(***************************************************************************)
(* Fetching updates from the controller and reporting on them              *)
(* (core/update/update_fetcher.py): the polls of the node, each a          *)
(* coroutine that works through the list it received, the pieces of state  *)
(* the controller keeps of an update, the requests between them, and       *)
(* restarts of the daemon.  The update manager is seen through the         *)
(* Deferred of add_update only.                                            *)
(***************************************************************************)
EXTENDS Naturals, Sequences, FiniteSets

CONSTANTS
  Update,
  Pull,        \* slots for calls of pull_update that run at the same time
  Timer,       \* the slot of the LoopingCall, which never overlaps itself
  MaxFaults,   \* bound on lost or refused requests
  MayRaise,    \* whether an update may raise out of the update manager, or its thread stop
  Garbled,     \* updates that may raise before they are in the manager's queue
  MaxRestarts

ASSUME UpdateFetcherAssumption ==
  /\ IsFiniteSet(Update)
  /\ Timer \in Pull
  /\ MaxFaults \in Nat
  /\ MayRaise \in BOOLEAN
  /\ Garbled \subseteq Update
  /\ MaxRestarts \in Nat

VARIABLES
  posted,       \* controller: the updates created
  startedFlag,  \* controller: updates with started = True
  completed,    \* controller: completed and success of each update
  notices,      \* requests under way that set started
  phase,        \* where each pull is
  items,        \* what is left of the list it received, the current item first
  result,       \* how its current item ended
  updates_in_progress,
  runs,         \* history: executions of each update since the daemon started
  succeeded,    \* history: updates an execution of which succeeded
  failed,       \* history: updates an execution of which failed or raised
  interrupted,  \* history: updates in progress at a restart
  unreported,   \* history: updates whose outcome got lost since the daemon started
  abandoned,    \* history: updates that will have no outcome before the daemon restarts
  restarts,
  faults

server == <<posted, startedFlag, completed>>
outcomes == <<succeeded, failed, interrupted, restarts>>
history == <<outcomes, abandoned>>
network == <<unreported, faults>>
vars == <<server, notices, phase, items, result, updates_in_progress, runs, history, network>>

Phases == {"idle", "asked", "served", "waiting", "running", "reporting", "ignoring",
           "reported", "stuck"}

Item == [id : Update, started : BOOLEAN]

TypeOK ==
  /\ posted \subseteq Update
  /\ startedFlag \subseteq Update
  /\ completed \in [Update -> {"no", "success", "failure"}]
  /\ notices \subseteq Update
  /\ phase \in [Pull -> Phases]
  /\ items \in [Pull -> Seq(Item)]
  /\ result \in [Pull -> {"success", "failure"}]
  /\ updates_in_progress \subseteq Update
  /\ runs \in [Update -> Nat]
  /\ succeeded \subseteq Update
  /\ failed \subseteq Update
  /\ interrupted \subseteq Update
  /\ unreported \subseteq Update
  /\ abandoned \subseteq Update
  /\ restarts \in 0 .. MaxRestarts
  /\ faults \in 0 .. MaxFaults

Current(p) == Head(items[p]).id

Init ==
  /\ posted = {}
  /\ startedFlag = {}
  /\ completed = [u \in Update |-> "no"]
  /\ notices = {}
  /\ phase = [p \in Pull |-> "idle"]
  /\ items = [p \in Pull |-> <<>>]
  /\ result = [p \in Pull |-> "failure"]
  /\ updates_in_progress = {}
  /\ runs = [u \in Update |-> 0]
  /\ succeeded = {}
  /\ failed = {}
  /\ interrupted = {}
  /\ unreported = {}
  /\ abandoned = {}
  /\ restarts = 0
  /\ faults = 0
-----------------------------------------------------------------------------
(* The controller *)

Post(u) ==
  /\ u \notin posted
  /\ posted' = posted \cup {u}
  /\ UNCHANGED <<startedFlag, completed, notices, phase, items, result,
                 updates_in_progress, runs, history, network>>

\* The ways to list a set of updates.
Lists(us) ==
  {list \in [1 .. Cardinality(us) -> us] : \A i, j \in DOMAIN list : list[i] = list[j] => i = j}

\* It answers a GET with the updates that are not completed, in some order.
Serve(p) ==
  /\ phase[p] = "asked"
  /\ \E list \in Lists({u \in posted : completed[u] = "no"}) :
       items' = [items EXCEPT ![p] =
                   [i \in DOMAIN list |-> [id |-> list[i], started |-> list[i] \in startedFlag]]]
  /\ phase' = [phase EXCEPT ![p] = "served"]
  /\ UNCHANGED <<server, notices, result, updates_in_progress, runs, history, network>>

NoticeArrives(u) ==
  /\ u \in notices
  /\ notices' = notices \ {u}
  /\ startedFlag' = startedFlag \cup {u}
  /\ UNCHANGED <<posted, completed, phase, items, result, updates_in_progress, runs, history, network>>

\* A PATCH of completed and success reaches the controller.
PatchArrives(p) ==
  /\ phase[p] \in {"reporting", "ignoring"}
  /\ completed' = [completed EXCEPT ![Current(p)] =
                     IF phase[p] = "ignoring" THEN "failure" ELSE result[p]]
  /\ phase' = [phase EXCEPT ![p] = "reported"]
  /\ UNCHANGED <<posted, startedFlag, notices, items, result, updates_in_progress, runs, history, network>>

Fault ==
  /\ faults < MaxFaults
  /\ faults' = faults + 1

NoticeLost(u) ==
  /\ Fault
  /\ u \in notices
  /\ notices' = notices \ {u}
  /\ UNCHANGED <<server, phase, items, result, updates_in_progress, runs, history, unreported>>

\* The PATCH of an outcome does not reach the controller; it is not sent again.
Misses(p) ==
  unreported' = IF phase[p] = "reporting" THEN unreported \cup {Current(p)} ELSE unreported

\* The controller answers the PATCH with an error code, which nobody looks at.
PatchRefused(p) ==
  /\ Fault
  /\ phase[p] \in {"reporting", "ignoring"}
  /\ Misses(p)
  /\ phase' = [phase EXCEPT ![p] = "reported"]
  /\ UNCHANGED <<server, notices, items, result, updates_in_progress, runs, history>>
-----------------------------------------------------------------------------
(* The node *)

\* pull_update: by the LoopingCall, or after a long poll or a notification.
pull_update(p) ==
  /\ phase[p] = "idle"
  /\ phase' = [phase EXCEPT ![p] = "asked"]
  /\ UNCHANGED <<server, notices, items, result, updates_in_progress, runs, history, network>>

\* The GET, or the PATCH the coroutine waits for, fails: the coroutine ends.
RequestFails(p) ==
  /\ Fault
  /\ phase[p] \in {"asked", "served", "reporting", "ignoring", "reported"}
  /\ Misses(p)
  /\ phase' = [phase EXCEPT ![p] = "idle"]
  /\ items' = [items EXCEPT ![p] = <<>>]
  /\ UNCHANGED <<server, notices, result, updates_in_progress, runs, history>>

\* The Deferred that the coroutine waits for never fires.  The LoopingCall waits with
\* it; another slot stands for any number of calls.
WaitsForGood(p) ==
  /\ phase' = [phase EXCEPT ![p] = IF p = Timer THEN "stuck" ELSE "idle"]
  /\ items' = [items EXCEPT ![p] = <<>>]

\* A request is never answered: its connection is lost in the body of the answer
\* (JSONReceiver.connectionLost), or earlier ones that were have left no token of the
\* semaphore for it.
RequestHangs(p) ==
  /\ Fault
  /\ phase[p] \in {"asked", "served", "reporting", "ignoring", "reported"}
  /\ Misses(p)
  /\ WaitsForGood(p)
  /\ UNCHANGED <<server, notices, result, updates_in_progress, runs, history>>

\* Faulty variant: updates in progress are not skipped.
FirstItemAnyway(list, known) == {i \in 1 .. Len(list) : i = 1}

\* The first item of the list that is not in progress, if there is one.
FirstItem(list, known) ==
  {i \in 1 .. Len(list) :
     /\ list[i].id \notin known
     /\ \A j \in 1 .. (i - 1) : list[j].id \in known}

\* Faulty variant: an update is added to the set when it is done, too late.
ProceedUnrecorded(p, list, known) ==
  /\ updates_in_progress' = known
  /\ UNCHANGED abandoned
  /\ \/ /\ FirstItem(list, known) = {}
        /\ phase' = [phase EXCEPT ![p] = "idle"]
        /\ items' = [items EXCEPT ![p] = <<>>]
     \/ \E i \in FirstItem(list, known) :
          /\ items' = [items EXCEPT ![p] = SubSeq(list, i, Len(list))]
          /\ phase' = [phase EXCEPT ![p] = IF list[i].started THEN "ignoring" ELSE "waiting"]

\* Faulty variant: the set gets the item instead of its identifier.
ProceedWithItem(p, list, known) ==
  \/ /\ FirstItem(list, known) = {}
     /\ phase' = [phase EXCEPT ![p] = "idle"]
     /\ items' = [items EXCEPT ![p] = <<>>]
     /\ updates_in_progress' = known
     /\ UNCHANGED abandoned
  \/ \E i \in FirstItem(list, known) :
       /\ items' = [items EXCEPT ![p] = SubSeq(list, i, Len(list))]
       /\ phase' = [phase EXCEPT ![p] = IF list[i].started THEN "ignoring" ELSE "waiting"]
       /\ updates_in_progress' = known \cup {list[i]}
       /\ UNCHANGED abandoned

\* The loop of _updates_received up to its next yield, "known" being the set of
\* updates in progress: skip those, then wait for the PATCH that gives up an update
\* started earlier, or add a new one to the set and to the update manager.  Between
\* the two, what the controller sent may raise (a missing updateClass, parse,
\* build_chute): the coroutine ends, and the update stays in the set.
Proceed(p, list, known) ==
  \/ /\ FirstItem(list, known) = {}
     /\ phase' = [phase EXCEPT ![p] = "idle"]
     /\ items' = [items EXCEPT ![p] = <<>>]
     /\ updates_in_progress' = known
     /\ UNCHANGED abandoned
  \/ \E i \in FirstItem(list, known) :
       \/ /\ items' = [items EXCEPT ![p] = SubSeq(list, i, Len(list))]
          /\ IF list[i].started
               THEN /\ phase' = [phase EXCEPT ![p] = "ignoring"]
                    /\ updates_in_progress' = known
               ELSE /\ phase' = [phase EXCEPT ![p] = "waiting"]
                    /\ updates_in_progress' = known \cup {list[i].id}
          /\ UNCHANGED abandoned
       \/ /\ ~list[i].started /\ list[i].id \in Garbled
          /\ phase' = [phase EXCEPT ![p] = "idle"]
          /\ items' = [items EXCEPT ![p] = <<>>]
          /\ updates_in_progress' = known \cup {list[i].id}
          /\ abandoned' = abandoned \cup {list[i].id}

\* The list arrives: updates the controller no longer sends are forgotten.
Receive(p) ==
  /\ phase[p] = "served"
  /\ LET received == {items[p][i].id : i \in 1 .. Len(items[p])}
     IN Proceed(p, items[p], updates_in_progress \cap received)
  /\ UNCHANGED <<server, notices, result, runs, outcomes, network>>

\* The update manager begins with the update; started() tells the controller
\* without waiting for the answer.
Execute(p) ==
  /\ phase[p] = "waiting"
  /\ phase' = [phase EXCEPT ![p] = "running"]
  /\ runs' = [runs EXCEPT ![Current(p)] = @ + 1]
  /\ notices' = notices \cup {Current(p)}
  /\ UNCHANGED <<server, items, result, updates_in_progress, history, network>>

\* Faulty variant: every completed update is reported as a success.
UpdateCompleteOptimistic(p) ==
  /\ phase[p] = "running"
  /\ \/ succeeded' = succeeded \cup {Current(p)} /\ UNCHANGED failed
     \/ failed' = failed \cup {Current(p)} /\ UNCHANGED succeeded
  /\ result' = [result EXCEPT ![p] = "success"]
  /\ phase' = [phase EXCEPT ![p] = "reporting"]
  /\ UNCHANGED <<server, notices, items, updates_in_progress, runs, interrupted, abandoned, restarts, network>>

\* Faulty variant: every update is taken for a delegated one, reported by others.
UpdateCompleteSilent(p) ==
  /\ phase[p] = "running"
  /\ succeeded' = succeeded \cup {Current(p)}
  /\ phase' = [phase EXCEPT ![p] = "reported"]
  /\ UNCHANGED <<server, notices, items, result, updates_in_progress, runs,
                 failed, interrupted, abandoned, restarts, network>>

\* The Deferred of add_update fires: _update_complete sends the outcome.
UpdateComplete(p) ==
  /\ phase[p] = "running"
  /\ \/ /\ result' = [result EXCEPT ![p] = "success"]
        /\ succeeded' = succeeded \cup {Current(p)}
        /\ UNCHANGED failed
     \/ /\ result' = [result EXCEPT ![p] = "failure"]
        /\ failed' = failed \cup {Current(p)}
        /\ UNCHANGED succeeded
  /\ phase' = [phase EXCEPT ![p] = "reporting"]
  /\ UNCHANGED <<server, notices, items, updates_in_progress, runs, interrupted, abandoned, restarts, network>>

\* The outcome of the current update will not come: the coroutine waits for good.
Abandons(p) == WaitsForGood(p) /\ abandoned' = abandoned \cup {Current(p)}

\* The update raises in the update manager: its Deferred never fires.
UpdateRaises(p) ==
  /\ MayRaise
  /\ phase[p] = "running"
  /\ failed' = failed \cup {Current(p)}
  /\ Abandons(p)
  /\ UNCHANGED <<server, notices, result, updates_in_progress, runs,
                 succeeded, interrupted, restarts, network>>

\* The update thread has died or waits for good (UpdateManager): the update does not
\* get its turn, or not again after its build.
TurnNeverComes(p) ==
  /\ MayRaise
  /\ phase[p] \in {"waiting", "running"}
  /\ Abandons(p)
  /\ UNCHANGED <<server, notices, result, updates_in_progress, runs, outcomes, network>>

\* The PATCH is answered and the loop goes on.
PatchAnswered(p) ==
  /\ phase[p] = "reported"
  /\ Proceed(p, Tail(items[p]), updates_in_progress)
  /\ UNCHANGED <<server, notices, result, runs, outcomes, network>>

\* The daemon stops and starts again; requests already sent may still arrive.
Restart ==
  /\ restarts < MaxRestarts
  /\ restarts' = restarts + 1
  /\ phase' = [p \in Pull |-> "idle"]
  /\ items' = [p \in Pull |-> <<>>]
  /\ interrupted' = interrupted \cup updates_in_progress
  /\ updates_in_progress' = {}
  /\ unreported' = {}
  /\ abandoned' = {}
  /\ runs' = [u \in Update |-> 0]
  /\ UNCHANGED <<server, notices, result, succeeded, failed, faults>>

Step(p) ==
  \/ pull_update(p) \/ Serve(p) \/ Receive(p) \/ Execute(p) \/ UpdateComplete(p)
  \/ PatchArrives(p) \/ PatchAnswered(p)

Next ==
  \/ \E u \in Update : Post(u) \/ NoticeArrives(u) \/ NoticeLost(u)
  \/ \E p \in Pull :
       \/ Step(p) \/ RequestFails(p) \/ RequestHangs(p) \/ PatchRefused(p)
       \/ UpdateRaises(p) \/ TurnNeverComes(p)
  \/ Restart

Spec == Init /\ [][Next]_vars

\* Pulls are made and answered again and again, updates end.
FairSpec == Spec /\ \A p \in Pull : WF_vars(Step(p))
-----------------------------------------------------------------------------
\* "Store set of update IDs that are in progress in order to avoid repeats":
\* while the daemon runs it executes no update twice.
NeverRepeated == \A u \in Update : runs[u] <= 1

\* The controller believes an update succeeded only if an execution of it did,
\* this or an earlier life of the daemon, whatever was lost or repeated.
SuccessIsReal ==
  \A u \in Update : completed[u] = "success" => u \in succeeded

\* ... and that it failed only if an execution failed, or a restart came before
\* the outcome was known to the controller.
FailureIsReal ==
  \A u \in Update : completed[u] = "failure" => u \in failed \cup interrupted

\* What the controller believes of the outcome of an update is so.
OutcomesReal == SuccessIsReal /\ FailureIsReal

\* The update that a pull has taken on and not yet settled.
InHand(u) ==
  \E p \in Pull : phase[p] \in {"waiting", "running", "reporting"} /\ Current(p) = u

\* Something is being done about an update, or its outcome is at the controller or got
\* lost on the way there.
Pursued(u) == InHand(u) \/ completed[u] # "no" \/ u \in unreported

\* Every poll skips the updates in the progress set.  One that is there is pursued, or
\* is one the daemon abandoned: no other is left lying, with polls that overlap too.
NothingForgotten == \A u \in updates_in_progress : Pursued(u) \/ u \in abandoned

\* From every state on, every posted update gets its outcome at the controller,
\* lost polls, lost notices and restarts notwithstanding.  What keeps it from that
\* until the next restart: a lost report of the outcome itself, which nobody repeats; an
\* update that was abandoned; a coroutine of the timer that waits for good.
EveryUpdateCompletes ==
  \A u \in Update :
    u \in posted ~> completed[u] # "no" \/ u \in unreported \cup abandoned \/ phase[Timer] = "stuck"
=============================================================================
