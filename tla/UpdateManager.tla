---------------------------- MODULE UpdateManager ----------------------------
(***************************************************************************)
(* The queue of updates and the threads around it                          *)
(* (core/update/update_manager.py).  The reactor thread adds updates and   *)
(* puts back those whose build has ended; the update thread takes them one *)
(* by one, calls execute() and sends a state report when nothing is        *)
(* active.  execute() itself is ExecutionPlan: here it yields, completes   *)
(* or raises.                                                              *)
(***************************************************************************)
EXTENDS Naturals, Sequences, FiniteSets

CONSTANTS
  Update,      \* every update that can reach the queue
  Boot,        \* those _perform_updates adds: prehostconfig, inithostconfig, restarts
  Provision,   \* those of add_provision_update
  Builds,      \* how many builds each update waits for
  NoUpdate,
  NoId         \* change_id None, of updates that are not added with add_update

BootSet == {Boot[i] : i \in 1 .. Len(Boot)}
Client == Update \ (BootSet \cup Provision)

ASSUME UpdateManagerAssumption ==
  /\ NoUpdate \notin Update
  /\ NoId \notin Nat
  /\ Boot \in Seq(Update)
  /\ \A i, j \in 1 .. Len(Boot) : Boot[i] = Boot[j] => i = j
  /\ Provision \subseteq Update
  /\ Provision \cap BootSet = {}
  /\ Builds \in [Update -> Nat]
  /\ \A u \in Update : Builds[u] > 0 => u \in Client

VARIABLES
  pc,           \* where the update thread is
  cur,          \* the update in its hands
  updateQueue,
  active,       \* the updates recorded in active_changes
  building,     \* updates whose Deferred has not fired
  changeId,     \* the change_id of each update
  nextChangeId,
  added,        \* history: updates that were queued
  started,      \* history: updates processing has begun for
  built,        \* builds each update has waited for
  completions,  \* history: how often complete() answered each update
  raised,       \* history: updates whose processing raised
  provisioned,  \* nexus.core.provisioned()
  unreported    \* history: updates ended since the last state report

queueVars == <<updateQueue, added, changeId, nextChangeId>>
historyVars == <<started, built, completions, raised>>
reportVars == <<provisioned, unreported>>
vars == <<pc, cur, active, building, queueVars, historyVars, reportVars>>

Places == {"boot", "idle", "taken", "running", "completed", "check", "report", "dead", "stuck"}

\* Where it has an update in its hands.
Busy == {"taken", "running", "completed"}

TypeOK ==
  /\ pc \in Places
  /\ cur \in IF pc \in Busy THEN Update ELSE {NoUpdate}
  /\ updateQueue \in Seq(Update)
  /\ active \subseteq Update
  /\ building \subseteq Update
  /\ changeId \in [Update -> Nat \cup {NoId}]
  /\ nextChangeId \in Nat
  /\ added \subseteq Update
  /\ started \subseteq Update
  /\ built \in [Update -> Nat]
  /\ completions \in [Update -> Nat]
  /\ raised \subseteq Update
  /\ provisioned \in BOOLEAN
  /\ unreported \in BOOLEAN
-----------------------------------------------------------------------------
Init ==
  /\ pc = "boot"
  /\ cur = NoUpdate
  /\ updateQueue = <<>>
  /\ active = {}
  /\ building = {}
  /\ changeId = [u \in Update |-> NoId]
  /\ nextChangeId = 1
  /\ added = {}
  /\ started = {}
  /\ built = [u \in Update |-> 0]
  /\ completions = [u \in Update |-> 0]
  /\ raised = {}
  /\ provisioned \in BOOLEAN
  /\ unreported = FALSE

\* Faulty variant: the identifier is read and never advanced.
SameChangeId(u) ==
  /\ changeId' = [changeId EXCEPT ![u] = nextChangeId]
  /\ UNCHANGED nextChangeId

assign_change_id(u) ==
  /\ changeId' = [changeId EXCEPT ![u] = nextChangeId]
  /\ nextChangeId' = nextChangeId + 1

\* An API handler or the update fetcher: assign_change_id, then add_update.
AddUpdate(u) ==
  /\ u \in Client \ added
  /\ assign_change_id(u)
  /\ updateQueue' = Append(updateQueue, u)
  /\ added' = added \cup {u}
  /\ UNCHANGED <<pc, cur, active, building, historyVars, reportVars>>

\* provision_self, when the batch answers: the node becomes provisioned and
\* add_provision_update appends, without the lock.
ProvisionSelf(u) ==
  /\ u \in Provision \ added
  /\ updateQueue' = Append(updateQueue, u)
  /\ added' = added \cup {u}
  /\ provisioned' = TRUE
  /\ UNCHANGED <<pc, cur, active, building, changeId, nextChangeId, historyVars, unreported>>

\* The provision request of the API queues nothing; it sends a report itself.
ProvisionByApi ==
  /\ ~provisioned
  /\ provisioned' = TRUE
  /\ unreported' = FALSE
  /\ UNCHANGED <<pc, cur, active, building, queueVars, historyVars>>

\* _perform_updates before its loop.
BootUpdates ==
  /\ pc = "boot"
  /\ updateQueue' = updateQueue \o Boot
  /\ added' = added \cup BootSet
  /\ pc' = "idle"
  /\ UNCHANGED <<cur, active, building, changeId, nextChangeId, historyVars, reportVars>>

\* Faulty variant: the newest update is taken first (pop without an index).
TakeNewest ==
  /\ pc = "idle"
  /\ updateQueue # <<>>
  /\ cur' = updateQueue[Len(updateQueue)]
  /\ updateQueue' = SubSeq(updateQueue, 1, Len(updateQueue) - 1)
  /\ pc' = "taken"
  /\ UNCHANGED <<active, building, added, changeId, nextChangeId, historyVars, reportVars>>

\* _get_next_update; with an empty queue the thread sleeps and looks again.
Take ==
  /\ pc = "idle"
  /\ updateQueue # <<>>
  /\ cur' = Head(updateQueue)
  /\ updateQueue' = Tail(updateQueue)
  /\ pc' = "taken"
  /\ UNCHANGED <<active, building, added, changeId, nextChangeId, historyVars, reportVars>>

\* active_changes has one entry per change_id: every update without one shares
\* the entry of None.
SameEntry(u) == {v \in active : changeId[v] = changeId[u]}

\* Faulty variant: active_changes gets the identifier of the update.
MarkId ==
  /\ pc = "taken"
  /\ active' = (active \ SameEntry(cur)) \cup {changeId[cur]}
  /\ started' = started \cup {cur}
  /\ pc' = "running"
  /\ UNCHANGED <<cur, building, queueVars, built, completions, raised, reportVars>>

\* _perform_update records the update and calls started().
Mark ==
  /\ pc = "taken"
  /\ active' = (active \ SameEntry(cur)) \cup {cur}
  /\ started' = started \cup {cur}
  /\ pc' = "running"
  /\ UNCHANGED <<cur, building, queueVars, built, completions, raised, reportVars>>

\* execute() returns the Deferred of a build.
Yield ==
  /\ pc = "running"
  /\ built[cur] < Builds[cur]
  /\ built' = [built EXCEPT ![cur] = @ + 1]
  /\ building' = building \cup {cur}
  /\ cur' = NoUpdate
  /\ pc' = "check"
  /\ UNCHANGED <<active, queueVars, started, completions, raised, reportVars>>

\* Faulty variant: the callback leaves the update among those that build.
ResumeTwice(u) ==
  /\ u \in building
  /\ updateQueue' = Append(updateQueue, u)
  /\ UNCHANGED <<pc, cur, active, building, added, changeId, nextChangeId, historyVars, reportVars>>

\* Faulty variant: a failed build does not resume the update.
ResumeOrForget(u) ==
  /\ u \in building
  /\ building' = building \ {u}
  /\ updateQueue' \in {Append(updateQueue, u), updateQueue}
  /\ UNCHANGED <<pc, cur, active, added, changeId, nextChangeId, historyVars, reportVars>>

\* The Deferred fires, with a result or a failure: resume() appends the update,
\* without the lock.
Resume(u) ==
  /\ u \in building
  /\ building' = building \ {u}
  /\ updateQueue' = Append(updateQueue, u)
  /\ UNCHANGED <<pc, cur, active, added, changeId, nextChangeId, historyVars, reportVars>>

\* execute() ends with complete(): the caller's Deferred is fired, the update is
\* still active.
Complete ==
  /\ pc = "running"
  /\ completions' = [completions EXCEPT ![cur] = @ + 1]
  /\ unreported' = TRUE
  /\ pc' = "completed"
  /\ UNCHANGED <<cur, active, building, queueVars, started, built, raised, provisioned>>

\* Faulty variant: the entry stays in active_changes.
RetireNot ==
  /\ pc = "completed"
  /\ cur' = NoUpdate
  /\ pc' = "check"
  /\ UNCHANGED <<active, building, queueVars, historyVars, reportVars>>

\* _perform_update removes the entry of the update that is done.
Retire ==
  /\ pc = "completed"
  /\ active' = active \ SameEntry(cur)
  /\ cur' = NoUpdate
  /\ pc' = "check"
  /\ UNCHANGED <<building, queueVars, historyVars, reportVars>>

\* Something in started(), execute() or complete() raises out of them: it is
\* logged and nothing else, whatever was done to the system.
Raise ==
  /\ pc = "running"
  /\ raised' = raised \cup {cur}
  /\ unreported' = TRUE
  /\ cur' = NoUpdate
  /\ pc' = "check"
  /\ UNCHANGED <<active, building, queueVars, started, built, completions, provisioned>>

\* The thread sends a state report when nothing is active.
CheckReport ==
  /\ pc = "check"
  /\ pc' = IF active = {} /\ provisioned THEN "report" ELSE "idle"
  /\ UNCHANGED <<cur, active, building, queueVars, historyVars, reportVars>>

\* The report is built and the Deferred of the first attempt to send it fires; later
\* attempts are the sender's.
SendReport ==
  /\ pc = "report"
  /\ unreported' = FALSE
  /\ pc' = "idle"
  /\ UNCHANGED <<cur, active, building, queueVars, historyVars, provisioned>>

\* Building the report raises: blockingCallFromThread raises in turn, and
\* nothing in _perform_updates catches it.
ReportRaises ==
  /\ pc = "report"
  /\ pc' = "dead"
  /\ UNCHANGED <<cur, active, building, queueVars, historyVars, reportVars>>

\* That Deferred never fires: the answer is cut off, or no token of the semaphore is
\* left for the request (ServerRequests).  blockingCallFromThread waits for good.
ReportHangs ==
  /\ pc = "report"
  /\ unreported' \in {unreported, FALSE}
  /\ pc' = "stuck"
  /\ UNCHANGED <<cur, active, building, queueVars, historyVars, provisioned>>

\* Steps of the update thread.
Work ==
  \/ BootUpdates \/ Take \/ Mark \/ Yield \/ Complete \/ Retire \/ Raise
  \/ CheckReport \/ SendReport \/ ReportRaises \/ ReportHangs

Next ==
  \/ Work
  \/ \E u \in Update : AddUpdate(u) \/ ProvisionSelf(u) \/ Resume(u)
  \/ ProvisionByApi

Spec == Init /\ [][Next]_vars

\* The update thread runs on, and builds end.
FairSpec == Spec /\ WF_vars(Work) /\ \A u \in Update : WF_vars(Resume(u))
-----------------------------------------------------------------------------
Queued == {updateQueue[i] : i \in 1 .. Len(updateQueue)}

Ended == raised \cup {u \in Update : completions[u] > 0}

\* The update find_change returns for an identifier, or NoUpdate.
find_change(id) ==
  LET inActive == {u \in active : changeId[u] = id}
      inQueue == {i \in 1 .. Len(updateQueue) : changeId[updateQueue[i]] = id}
  IN CASE inActive # {} -> CHOOSE u \in inActive : TRUE
       [] inActive = {} /\ inQueue # {} ->
            updateQueue[CHOOSE i \in inQueue : \A j \in inQueue : i <= j]
       [] OTHER -> NoUpdate

\* From the answer that gives a client its change identifier until the change
\* has ended, find_change leads to that very change - while it waits, builds, is
\* resumed and runs - except between its removal from the queue and its entry in
\* active_changes.
TrackedUntilEnded ==
  \A u \in (Client \cap added) \ Ended :
    find_change(changeId[u]) = u \/ (cur = u /\ pc = "taken")

\* Queue, builds and update thread share out the updates that have not ended:
\* each is with exactly one of them, once, and none is executed by the update
\* thread while its build runs or after it was answered.
InOnePlace ==
  /\ \A i, j \in 1 .. Len(updateQueue) : updateQueue[i] = updateQueue[j] => i = j
  /\ Queued \cap building = {}
  /\ cur \notin Queued \cup building
  /\ Queued \cup building = added \ (Ended \cup {cur})
  /\ \A u \in Update : completions[u] <= 1

\* The execution of u as the manager handles it.
Contract(u) ==
  INSTANCE Execution WITH
    Yields <- Builds[u],
    stage <- IF u \in Ended THEN "over" ELSE IF u \in building THEN "away" ELSE "due",
    yields <- built[u]

\* Between any of its steps, with any others waiting, building or running, the manager
\* treats each update as its execution relies on: no update goes on while its
\* Deferred is pending or after it has ended.
KeepsContracts == \A u \in Update : Contract(u)!Spec

\* Once everything queued has ended well the controller has been told: no order
\* of builds, completions and provisioning leaves the last change unreported.
QuiescentReported ==
  pc = "idle" /\ provisioned /\ raised = {} /\ added \subseteq Ended => ~unreported

\* Every update is answered, unless its processing raises or a state report between
\* two updates has ended the update thread or holds it for good.
EveryUpdateEnds ==
  \A u \in Update : u \in added ~> u \in Ended \/ pc \in {"dead", "stuck"}
-----------------------------------------------------------------------------
\* "when the queue is empty, send a state report" (_perform_updates).
ReportWhenIdle ==
  pc = "idle" /\ provisioned /\ updateQueue = <<>> /\ building = {} => ~unreported
=============================================================================
