# Paradrop: a TLA+ model of the daemon

Paradrop turns a wireless router into a small hosting platform: *chutes* (containers
with network interfaces of their own) are installed on it by an HTTP API or by a
controller in the cloud. Nearly all logic is in the daemon, `src/paradrop/daemon/paradrop`
(about 20,000 lines of Python); paths below are relative to that directory. The daemon
has two threads that matter: the Twisted *reactor* thread, in which API handlers, polls
of the controller and callbacks run, and the *update* thread, which works through a
queue of updates; image builds run in further threads.

## Inventory

| Component | State it keeps | Operations | Interacts with |
|---|---|---|---|
| Execution plan (`core/plan/plangraph.py`, `executionplan.py`, `core/update/update_object.py`) | heap of plan entries, entries handed out, functions to skip, abort heap | generate, getNextTodo, call, addPlans while executing, getNextAbort, abort | functions of the other components; the update manager, which it yields to with a Deferred |
| Update manager (`core/update/update_manager.py`) | `updateQueue`, `active_changes`, change counter | add_update, assign_change_id, take, perform, resume, complete, state report | API, fetcher, execution plan, reporting |
| Update fetcher (`core/update/update_fetcher.py`) | `updates_in_progress`, the list each poll works through | pull_update, _updates_received, _update_complete | controller (GET, PATCH), update manager |
| Network reservations (`core/config/network.py`, `reservations.py`), chute storage (`core/chute/chute_storage.py`, `lib/utils/pd_storage.py`) and boot restart (`core/chute/restart.py`) | `chuteList`, chute objects, the storage file, sections in UCI files | getReservations, getNetworkConfig, setConfig, saveChute, saveToDisk, loadFromDisk, revertChute, reloadChutes | execution plan, configuration daemon |
| Configuration daemon, pdconfd (`confd/`) | configuration objects with parents and dependents, `forwardingCount`; kernel state | loadConfig (compare, revert, apply), unload | UCI files, `ip`, `iptables`, `sysctl` |
| Host configuration (`core/config/hostconfig.py`, `core/plan/hostconfig.py`, `devices.py`) | the host configuration file, the UCI sections made from it | read at step 10 of every chute update, written back at step 52, reverted; generated where there is none; applied by updates that change it | all chute updates, API, pdconfd |
| Containers and Docker (`core/container/`) | images, containers, borrowed interfaces | build, pull, check, start, stop, remove | Docker, execution plan |
| Server requests and reporting (`core/agent/`) | token, request semaphore, report in flight | request, log in and try again, send and retry a report, provision | controller, update thread |
| Change streams (`backend/change_ws.py`, `core/update/update_object.py`) | observers and messages of an update | join with a replay, remove, notify, complete | reactor and update thread |
| Procmon, governor, resource allocation (`lib/misc/`), passwords and tokens (`backend/`), Airshark, log streams, tools | small, local | | |

What is hard in it, and what makes each part correct:

* *Interleaving.* While one update builds its image, the update thread runs others;
  an update therefore works with state that it read before. Chutes must nevertheless not
  get the same subnet, interface, VLAN or device, and the change an update makes must not
  undo that of another.
* *Hand-over between threads.* The queue is appended to by API handlers, by boot, by
  resumed builds. No update may be lost, started twice or answered twice; clients must
  be able to find it by its identifier as long as it runs, and it has to end.
* *Ordering.* A plan is executed in order of priorities though entries are added while
  it runs; it is undone in reverse, each abort function once for entries that share it.
  pdconfd reverts and applies by priority and dependency.
* *Partial failure.* Any of some fifty steps of an update may raise. A success must
  have done all its work; an abort must undo what was done.
* *Unreliable delivery and restarts.* The controller is polled, told of starts and ends by
  requests that may be lost, and the daemon may restart in between. It must never be told
  of an outcome that did not happen, and be told one in the end. Requests share a few
  tokens of a semaphore, none of which may get lost.
* *Crashes.* Storage and host configuration are files written in place. What a restart
  finds has to be something it can go on from, and what was reserved must stay so.
* *Accumulated state.* pdconfd never starts anew: each load works on the objects the
  last ones left. Whatever the sequence, the kernel has to end up as the files say.

`PROJECT.json` lists all components with what is not modelled yet, and the places in the
code where the above bites (`hazards`).

## Modules

| Module | Models | Code |
|---|---|---|
| `PlanMap` | the heap of plan entries: what is next, what is out of order, what may be undone next | `plangraph.py` |
| `ExecutionPlan` | one update's `execute()`, from planning to the end of an abort | `executionplan.py`, `update_object.py`, `plan/state.py` |
| `Execution` | abstract: what the manager and an execution rely on of each other | `update_object.py` |
| `UpdateManager` | queue, update thread, builds, active changes, state reports | `update_manager.py` |
| `ChangeLedger` | abstract: changes wait, are opened in order of arrival, end once | |
| `UpdateLedger` | the refinement mapping from the manager to the ledger | |
| `UpdateFetcher` | polls, the controller, requests, restarts | `update_fetcher.py` |
| `NetworkReservations` | choice and storage of the network resources of chutes, crashes and what boot makes of them | `network.py`, `reservations.py`, `chute_storage.py`, `pd_storage.py`, `restart.py`, `state.py` |
| `HostRegister` | abstract: the host configuration as a register | |
| `HostConfig` | file, UCI sections and pdconfd under updates, API handlers, errors and crashes | `hostconfig.py`, `plan/hostconfig.py`, `config_api.py` |
| `ConfigManager` | pdconfd with interfaces, zones and forwardings, and the kernel | `confd/` |
| `ServerRequests` | requests to the controller: semaphore, token, login, reports | `agent/http.py`, `reporting.py`, `provisioning.py` |
| `SharedSemaphore` | the semaphore of the requests between two threads, access by access | `agent/http.py` |
| `ChangeStream` | the observers of one change, in two threads | `update_object.py`, `change_ws.py` |
| `...Proofs` | theorems about the module of that name | |
| `MC...` | instances for TLC | |

**ExecutionPlan.** An entry has a priority, a function and an abort function. `working`
is the heap, `returned` the entries handed out. `Generate` chooses any plan; then
`CallReturns`, `CallYields` or `CallRaises` call the next function, with
`generate_service_plans` (`Generator`) adding entries that may come too late (`AddRaises`),
and any function asking for reloads to be skipped. `effect` says what a function has left
in the system: nothing, part or all of its work. Where a function raises, `abortPlans`
goes through the handed out entries but the last in reverse (`UndoReturns`,
`UndoRaises`); two abort functions in a row that raise end the update. Entries of equal
priority come out in any order: the heap then compares the `Plan` objects, whose order
the program does not define.

**UpdateManager.** `pc` and `cur` are the update thread's place and update. `Take`, `Mark`,
`Yield`/`Complete`/`Raise`, `Retire` are the steps of one pass through the loop of
`_perform_updates`, and between any two of them the reactor thread may `AddUpdate`,
`Resume` or provision. Where nothing is active the thread builds a state report and waits for
it to be sent: it returns (`SendReport`), raises and ends the thread (`ReportRaises`), or its
Deferred never fires and the thread is stuck (`ReportHangs`). `TakeNewest`, `ResumeTwice` and all definitions commented
"Faulty variant" in this and the other modules are not part of the specifications: each is
a plausible mistake in the definition it stands before, and shows that the property it
is meant for would notice.

**UpdateFetcher.** Each slot of `Pull` is one call of `pull_update`, a coroutine; the timer
never overlaps itself, an event-driven poll may overlap it. The controller is external
(modelled from what the fetcher asks of it): it stores updates, the started flag and the
outcome, and lists updates in any order, each with an `_id`. Up to `MaxFaults` requests are
lost, refused or never answered (`RequestHangs`); the effect of a lost answer is
a request that arrived and counts as failed. `Proceed` is the loop from one `yield` to the
next. After it has put an update into the progress set, what the controller sent of it may
raise (`Garbled`): the coroutine ends and the update stays in the set. `UpdateRaises` and
`TurnNeverComes` are the manager's faults as the fetcher sees them: a Deferred that never
fires, because the update raised or because the update thread has ended or is stuck.
`abandoned` remembers the updates for which there will be no outcome for one of these
reasons, `unreported` those whose outcome got lost; only a restart helps either.

**NetworkReservations.** Interfaces are records of chute, mode, device, name and subnet;
subnets are sets of blocks, so that overlap is intersection. `Begin` computes the view of
the others' reservations, `Choose` takes one interface at a time as `getNetworkConfig`
does, `Yield`/`Resume`/`Continue` give up the update thread for a build, `SetConfig`
and `SaveChute` write, and `FailUnsaved`/`FailSaved` fail before and after the chute was
saved. A chute object is named after the update that made it and is shared: as in the
code, saving merges into the object in the storage, which `update.old` also is.
`asks` is what the chute of an update asks for: a build reads it from the chute's
files, other updates take over what the chute had when they were made. `disk` is the storage as last saved.
`Crash` may come at any step; where the file is just being saved it may be lost, which
`loadFromDisk` takes for an empty storage. Then `reloadChutes` queues a restart of any of
the chutes that were running (those for which pdconfd reports no failure), before the
update thread takes anything else. These restarts work on the stored object itself
(`SetCache`): while one is choosing, others see in the storage what it has so far.

**HostConfig.** A host configuration is an abstract value, and an update a function on it.
`file`, `uci` and `loaded` are the file, the configuration the UCI sections were made from
and the one pdconfd has loaded. Saving is two steps, for `open(path, 'w')` empties the file
(`Opens`, `CloseFile`), and what two writers leave may be no configuration at all
(`Garbled`). The places of `pc` are the steps of the plan that touch any of it, with the
aborts from each (`Abort`); API handlers generate a configuration or make pdconfd reload at
any time. What disturbs is chosen in `Init` (`environment`): builds, handlers, errors, the
disk, a crash. `HostRegister` is what it amounts to where only the update thread writes:
an update that succeeds changes the register once, one that fails does not.

**ServerRequests.** `Begin` asks the semaphore, `Ends` and `GoesOn` give the token back as
`releaseSemaphore` does, and with it to the first who waits. A request carries the
identity of its URL and the token of its header, which are read before it waits. `Unauthorized`
logs in and `LoggedIn` tries once more; a report that failed begins again. The controller is
external. An operation of the semaphore is one step: this is the program as long as no two of
them overlap, which the reactor thread alone sees to.

**SharedSemaphore.** They do overlap where `started()` and `progress()` make requests in the
update thread. Twisted's `DeferredSemaphore` is external, and modelled by the statements of
its `acquire` and `release`, one access to `tokens` or `waiting` a step: the assertion
(`Asks`, `Ends`), the test (`Tests`, `Looks`), `tokens = tokens + 1` or `- 1` as a read
(`Reads`) and a write (`Takes`, `Gives`, `Passes`), and the list of those who wait (`Waits`,
`Pops`). It has what `ServerRequests` leaves out and nothing else: no answers but that they
come, no tokens of the controller.

**ChangeStream.** Both loops over `message_observers` go by index, as a Python loop over a
list does, and either thread moves between any two steps of the other. `onOpen`, `Replay`,
`EndReplay`, `Join` and `CheckCompleted` are the statements of `add_message_observer`;
`onClose` removes. `crossed` and `unclosed` are history: the observers for which the code
guarantees less, because a message came up while they joined or the loop passed over them.

**ConfigManager.** A section becomes an object with the epoch it was read in; `parents`
holds the objects it has looked up. `loadConfig` is one action with all of its parts:
comparison, the sets of new, updated and deleted objects, reverting and applying in order of
priority, errors of single objects, and the counter of masquerading zones. Commands
are not kept but what they do: addresses, chains, jumps, rules and the forwarding switch.
For the instance in `ConfigManager.cfg` the addresses, chains, jumps, rules, forwarding
and `forwardingCount` of every behaviour were compared with those of the commands
which the Python code generates for the same loads; they are equal.

The modules meet at their edges and are not composed into one. The edge between the
manager and the plan is a module of its own, `Execution`: an execution is due, away with a
Deferred, or over. `ExecutionPlan` implements it (`KeepsContract`), with as many Deferreds
as the plan has asynchronous entries, and so does `UpdateManager` for each of its updates
(`KeepsContracts`), with `Builds[u]` of them: nothing that happens to one execution in the
manager is anything the plan does not do or expect. The
fetcher sees the manager as a Deferred that fires with success or failure, or never if
the update raises or the update thread stops, which is what `UpdateManager` shows of it; `NetworkReservations` sees the
plan as steps in order of which any may fail, which is `PlanOrder` and
`AbortUndoesEarlierSteps`. `HostConfig` and `NetworkReservations` see the same updates; they
share only the host's interfaces, which the latter takes as given.

## Runs

Passing:

* `execution_plan`. The instance has an entry for each shape that occurs in the real
  plans: files to undo, the generator, a build, a pull and their checks, an image that is
  there already, two entries that share `reloadAll`, the host configuration, a reload that
  can be skipped and an entry that is added too late. Eleven entries suffice for each pair
  of shapes to meet. Shows `PlanOrder` (in order, each at most once), `SuccessIsComplete`
  (a success has done the work of all it called, builds included),
  `AbortUndoesEarlierSteps`, `UndoneInReverse` and that `execute()` `Finishes`.
* `update_manager`. Five updates: two at boot, one by provisioning, two of clients with two
  and one builds, so that two builds overlap each other and everything else. Shows
  that each update is in exactly one place (`InOnePlace`), can be found until it has
  ended (`TrackedUntilEnded`), that a manager at rest has reported all that ended
  (`QuiescentReported`), that each update ends (`EveryUpdateEnds`) unless a state report
  between two updates ends the thread or holds it for good, and that the manager
  implements the ledger (`KeepsLedger`).
* `update_fetcher`. Two updates, one of which may raise before it is queued, one poll at a time,
  two requests lost or never answered, updates that raise, an update thread that stops, and
  two restarts at any step, so that the second restart meets what the first left behind.
  Shows `NeverRepeated` (not twice in one life of the daemon), `OutcomesReal`
  (the controller believes no outcome that did not happen), `NothingForgotten` (an update
  that polls skip is in the hands of one of them, has an outcome at the controller or lost on
  the way, or is `abandoned`) and `EveryUpdateCompletes`: each posted update gets an outcome,
  unless in this life of the daemon the report of it was lost, it was abandoned, or the
  timer's poll waits for good.
* `network_reservations`. Two chutes, one of which is created, stopped, updated, restarted and
  removed in any order that is possible, four devices, four subnets of which one overlaps
  what a chute asks for and one is the host's, a limit of two access points, and one
  crash at any step with the boot restarts after it. Checked
  for the default settings with impatient clients and for the careful ones with the crash
  (`Settings`). Under the careful ones `InterfacesApart` and
  `DevicesExclusive` hold through all failures and the crash; under any,
  `ChuteConsistent` holds: a chute does not clash with the host or with itself, and what is
  stored of it is what was written, unless its last update stopped half-way.
* `host_config`. The boot update, a client's change, two chutes that build and a factory
  reset, from a missing or an old file, in six pairs of disturbances. Two chutes
  let one build across the other's and the client's writes. Shows `AgreeUnlessDisturbed` (at rest, file, UCI
  sections and pdconfd are of one configuration, for the reasons named there or not at
  all otherwise), `KeepsRegister` (the refinement) and `BootHeals` (after a crash at any step
  the boot update makes them agree).
* `server_requests`. Three requests for two tokens, one of them a report, with identities and
  tokens that change, and answers that are cut off; in one thread. Shows
  `SlotsConserved`, `NeverRefusedInVain` (no request is given up because of what another
  did with the shared token), `EveryRequestEnds` and `ReportsDelivered`.
* `change_stream`. Three clients join and leave while two progress messages and the two of the end are
  sent; three, so that one is removed before another in the list while a third is told.
  Shows `StreamFaithful` (messages in order, none missed, no stream left open once the loop of
  `complete()` is over, each but for the observers it excepts) and `EveryStreamEnds`.
* `config_manager`. All sequences of up to four loads of ten configurations, and an unload:
  a router with or without forwarding, masquerading, a chute, a changed address, and a
  section whose interface is missing. Four loads let an object be superseded, and the
  object that superseded it too, before a third is loaded. Shows `CurrentAsWritten`, `ZonesInPlace`,
  `NoStaleRules` (while the daemon is up), `AddressesInPlace`, `ReloadIsIdle` and
  `UnloadClears`: stopping leaves no rule and no address of any configuration there was.

Each of the following checks what a comment in the code says and finds it violated:

* `manager_reports`: an update that raises stays in `active_changes`, after which no
  state report is sent any more (`ReportWhenIdle`).
* `fetcher_repeats`: with two polls that overlap, an update is executed twice.
* `server_slots`: two threads take the last token of the semaphore at the same time, and three
  requests are sent with two tokens (`AtMostLimit`); `tokens` is -1 then.
* `reservations_vlan`: with concurrent builds, the default, two chutes get the same VLAN.

Seen while modelling, without a run of their own:

* *Plans and updates.* `check_image` passes with an older image of the same name after a
  build has failed (`dockerapi.py:162`). `abortPlans` leaves the entry that raised alone,
  whatever it had done. Boot updates come after those a client managed to queue before the
  update thread ran. When the Deferred of a state report never fires (see *Requests*), the
  update thread waits for it for good, and what is queued is never begun
  (`update_manager.py:195`).
* *Fetching updates.* What the controller sent of an update may raise before the update is queued
  (`update_fetcher.py:127-151`: a field is missing, or it cannot be parsed): it stays in
  `updates_in_progress` without being worked on, and each poll skips it until the
  daemon restarts (`abandoned` in the model).
* *Chutes.* With clients that do not wait, an update fails late after its chute was removed,
  and `revertChute` stores the removed chute's interfaces again, which another may have.
  A stop or restart queued behind an update rebuilds the older specification and undoes
  what the update changed (`update_object.py:358-360`). A change of `services` or `net` by
  `PUT` of a chute's configuration has no effect: `rebuild_chute` does not look at them
  (`builder.py:290-295`). An update that fails after the UCI files were written leaves
  its sections in them, though `uciutils.py:16-18` says that a failed creation leaves none.
* *Boot.* A boot restart that fails part-way leaves the stored object with fewer interfaces than
  its UCI sections name. A client's `delete` that was queued before the boot restart of
  the same chute is undone by it, as the restart stores the object it holds. A crash while the storage file is written loses all
  chutes, and nothing ever removes their UCI sections. Every `ChuteStorage()`, those of API
  handlers included, loads the file again while no chute is stored
  (`chute_storage.py:33-35`), which races with the removal of the last one; the model
  leaves that race out.
* *Host configuration.* A chute that builds while the configuration is changed writes the former
  one back at step 52 (the comment at `hostconfig.py:294-296` knows of it). An abort does not undo
  `setSystemDevices`. `GET hostconfig` while the file is being written, and any `GET` of a new
  configuration, overwrite it with a generated one. A garbled file makes each boot update
  fail. A factory reset computes the default configuration and never writes it; without a
  default it writes a generated one that is neither applied nor undone. `UCIConfig.save`
  drops errors. A crash while the file is empty loses the configuration.
* *Requests.* An answer that is cut off raises in `connectionLost`, so its `finished` never
  fires and its token is lost, though the comment says "regardless of how the request goes";
  with as many of those as there are tokens (two) no request ends any more. In the race of
  `server_slots` other ends are possible, each found by TLC with an invariant made for it: the
  assertion of `acquire()` fails for a request nothing happened to, that of `release()` fails in
  the place of an answer, fewer tokens than there were or none are left when no request is
  under way, and a request waits though a token is free. An older report that is sent again may
  arrive after a newer one.
* *Streams.* The loop of `complete()` passes over an observer when one before it is removed, and the
  stream of that one is not closed. Joining across a message gives a gap or a duplicate.
* *pdconfd.* When the address of `lan` changes, its zone is flushed and applied again, but not
  the forwarding from it, which stays lost: `confd/manager.py:243` marks the
  dependents of changed sections, not those of the sections marked thereby. Jumps that were added twice survive an unload; a change between static and dhcp
  applies the old object (`confd/network.py:154`), which is why `AddressesInPlace` is
  limited to stable protocols; a forwarding that never found its zone makes `unload` raise
  before it executes anything (`confd/firewall.py:447`, from `manager.py:415`), and all
  rules and addresses stay; a zone whose interface was missing is not applied when it
  appears; superseded zone objects that are reverted again take `forwardingCount` away, so that
  forwarding may stay off (`confd/base.py:415`, against `manager.py:95-96`).

## Bounds

All bounds are constants: the sets of entries, updates, chutes, requests, observers and
configurations, `Builds`, `MaxRestarts`, `MaxFaults`, `MaxCrashes`, `MaxCalls`,
`MaxIdentity`, `MaxExpiries`, `MaxProgress`, `Wanted` (what each update may ask for),
`MaxLoads`, and `Environments` and `Settings`, the combinations looked at. The theorems below
do not depend on any of them. Deadlock is
not checked because every one of these systems may come to rest: updates, requests and
loads are finitely many. Liveness properties say that it does so in a good state.

## Fairness

* `ExecutionPlan`: the update thread goes on, and functions and builds return or raise
  (builds have a timeout of their own in Docker). `Finishes` needs both.
* `UpdateManager`: the update thread goes on (`WF_vars(Work)`), and each build ends
  (`WF_vars(Resume(u))`). Nothing is assumed of clients. That the state report returns is not
  assumed either: `ReportHangs` and `ReportRaises` are steps of `Work` as `SendReport` is, after
  which the thread takes no other.
* `UpdateFetcher`: each poll goes on, and its requests are answered in the end unless
  `RequestHangs` or an update's Deferred holds it for good. Restarts and faults, hanging
  requests among them, are not fair and bounded, as the code does not send an outcome again
  before the next restart.
* `HostConfig`: the update thread goes on. Nothing is assumed of builds, handlers, errors
  or crashes. So `BootHeals` speaks of a boot at which no state report before the
  boot update's turn stops the thread or holds it for good (`ReportHangs` of `UpdateManager`).
* `ServerRequests`: each request that is sent is answered in the end, unless it hangs: the `Agent` has no timeout for the answer, so a controller that is
  silent for good is in the model what a cut-off answer is (`CutOff`, "hung"). `callLater`
  repeats a failed report. Faults, expiries and
  identities are bounded and not fair.
* `ChangeStream`: both threads go on with what they have begun, and a connection that is being
  closed closes: `sendClose` leaves this to Autobahn, whose timeout of the closing
  handshake is an assumption about the library. Nobody need join or leave.
* `NetworkReservations` and `ConfigManager` have no liveness properties: a load or an update
  ends or fails.

## Proofs

TLAPS proves, for every value of the constants that satisfies the named assumptions of
each module:

* `ExecutionPlanProofs`: `TypeCorrect`, `PlanOrderHolds`, `SuccessIsCompleteHolds`,
  `AbortUndoesEarlierStepsHolds`, `UndoneInReverseHolds`, `OnlyForwardHolds`,
  `KeepsContractHolds`. `PlanOrder` alone is not
  inductive: `IOrder` adds that what is still in the heap was not handed out and that its
  priorities are not below the last one handed out. `IComplete` adds that an unfinished
  build has its check still before it, which is why success implies that the build is done.
  `IUndo` relates the positions left in the abort heap to the effects still there:
  whatever is not in it any more has been undone or cannot be. `LatestProperties` (a
  non-empty set of positions has a last one) comes from well-founded induction on the naturals.
  `OnlyForward` says that every step lowers the pair of `Stage` and `Remaining`, a
  well-founded order: what `Finishes` needs besides is that a step is taken while one is left,
  which is fairness and `ENABLED`.
  For the contract, `Yielded` is the set of asynchronous entries handed out that did not
  raise; `YieldedAll` and `RaiseYieldsNothing` say that it grows with a yield and with
  nothing else, so that its size is the number of Deferreds handed back.
* `UpdateManagerProofs`: `TypeCorrect`, `InOnePlaceHolds`, `TrackedUntilEndedHolds`,
  `QuiescentReportedHolds`, `KeepsLedgerHolds`, `KeepsContractsHolds`.
  `IPlace` strengthens `InOnePlace` with where the update in the thread's hands stands at
  each `pc`, `ITrack` adds that identifiers in use are distinct and below the counter.
  `IReport` carries `QuiescentReportedHolds`: what is active while nothing has raised has not
  ended yet, so a change that ends unreported leaves another that will report it.
  The lemmas `QueueAppend`, `QueueTake` and `QueueBoot` say what the three changes of the
  queue do to its set of elements and to its having no duplicates. For the refinement the
  ledger keeps those that wait as a set with an order, not as a sequence: the image of the
  queue would be a filtered sequence, and what a filter does takes induction. `Precedes`
  gives the order of a queue, `PrecedesAppend`, `PrecedesTail` and `PrecedesConcat` what
  the queue's changes do to it, and `PrecedesOrders` that it is linear when there
  are no duplicates, which `IPlace` has. Then additions and boot are arrivals, `Mark`
  opens the first of those that wait unless it is resumed, `Complete` and `Raise` end, and
  all else, `Take` and `Resume` among it, leaves the ledger as it is (`LedgerStep`).
  `KeepsContractsHolds` needs of `IPlace` that an update that is in the thread's hands is
  neither building nor ended.
* `UpdateFetcherProofs`: `TypeCorrect`, `SuccessIsRealHolds`, `NothingForgottenHolds` for any
  polls; `NeverRepeatedHolds` and `OutcomesRealHolds` for one poll at a time (`Pull = {Timer}`),
  because overlapping polls do repeat (`fetcher_repeats`). The invariant relates the list of
  the poll to `updates_in_progress` and the history: what the daemon has executed and the
  controller does not know to be completed is in progress. `NothingForgotten` is inductive
  as it stands: a step to the next item adds to the set only what it takes in hand or
  abandons (`ProceedCases` has the outcomes), and leaves an item only when that is settled
  (`ProceedForgetsNothing`).
* `ServerRequestsProofs`: `TypeCorrect`, `SlotsConservedHolds`, `NeverRefusedInVainHolds`.
  The invariant adds that the queue of the semaphore has exactly the waiting requests, each
  once; the lemmas say what `Acquired` and `Released` do to the number of tokens and
  holders. All of it is about operations of the semaphore that do not overlap; the number of
  tokens is then between 0 and `Limit`, so that neither assertion of the semaphore fails. For
  `NeverRefusedInVain` the queue alone has to be in order (`QueueInv`), and a
  request that nothing happened to logs in as the node that it names and makes its second try
  with a token that is valid (`Valid`).
* `ChangeStreamProofs`: `TypeCorrect`, `StreamFaithfulHolds`. The invariant says, for each
  observer that was not crossed, how many messages it has at each place of the loop and
  of its joining. `ICloses` carries that no stream is left open: an observer that the loop of
  `complete()` has not told yet is in the list at or behind the loop's index, was passed
  over, or is joining and will look at `completed` itself.
* `NetworkReservationsProofs`: `TypeCorrect`, `ChuteConsistentHolds` under every setting,
  and `InterfacesApartHolds`, `DevicesExclusiveHolds`, `VlanOfOneChuteOneByOne` for updates
  one by one (the last is what `reservations_vlan` finds violated where they overlap). A set of
  interfaces is `Fine` if it may be in use together. Two facts carry the proofs: part of a
  fine set is fine (`FineSubset`), and what `getNetworkConfig` chooses against a view `R` fits
  into any fine part of `R` (`FineChoice`). `Sane` says that each object in memory and on
  disk, and each choice, is fine with the host's; `Settled` that an update that has written
  is about to store the same, which gives `ChuteConsistent`. For updates one by one, `Alone`
  says that no chute has two under way, and `Exclusive` that the view of the update in
  the thread is exactly what the others have, that its choice is fine with that, that so is
  what it would put back if it failed late, and that the storage on disk is fine too,
  which is what a crash falls back on.
* `HostConfigProofs`: `TypeCorrect`, `AgreeUnlessDisturbedHolds`, `KeepsRegisterHolds`. `InStep`
  says for each place of the update thread which of file, UCI sections and pdconfd are up to
  date, `NoneBehind` that a chute that will write back what it read has read the current
  configuration, unless it was crossed. For the refinement `CopiesTrue` relates the file to the
  old and new copies of the running update and `BuildersUpToDate` to those of the chutes that
  build; then each action is one of the register's or a stutter.
* `ConfigManagerProofs`: `TypeCorrect`, `CurrentAsWrittenHolds`, `ReloadIsIdleHolds`,
  `ZonesInPlaceHolds`, `NoStaleRulesHolds`, `AddressesInPlaceHolds`, `UnloadClearsHolds`: all
  that `config_manager` checks, for any set of configurations and any number of loads, dangling
  names included. A load of unchanged files has nothing to revert (`NothingReverted`) and
  nothing to apply (`NothingApplied`), because the objects are those of the sections, each
  once. For the others it matters which objects a load touches: what is reverted and not
  deleted is applied again (`UndoneIsWork`), what is applied and was there has been reverted
  (`WorkUndone`), each object that was just read is applied (`FreshApplied`), and an object that
  is not applied was there before and nothing of its name is reverted (`Untouched`).
  `Aged` says that `parents` only has objects of earlier epochs, so that a zone that is not
  applied cannot count an object of this load among those it has found. `RulesOwned`
  strengthens `NoStaleRules`: each rule is there once and a current object will take it
  out. `Addressed` says the same of addresses as `AddressesInPlace` in terms of objects; its
  step distinguishes an interface that goes, stays, changes and comes. Both together give
  `UnloadClears`. The lemmas on finiteness are there because what a load deletes and adds
  is counted.

The assumptions are those named `...Assumption` in the modules (and `Pull = {Timer}` where
it says so); they hold of every program run, or name what the bounds are.

Only model-checked: liveness (`Finishes`, `EveryUpdateEnds`, `EveryUpdateCompletes`,
`BootHeals`, `EveryRequestEnds`, `ReportsDelivered`, `EveryStreamEnds`), which rests on
fairness and so on `ENABLED`. Every invariant, action property and refinement that a passing
run checks is a theorem as well. What the liveness properties rest on besides fairness is
proved where it can be said as safety: `OnlyForward` for `Finishes`, `NothingForgotten` for
`EveryUpdateCompletes`, `NeverRefusedInVain` for `EveryRequestEnds`, `StreamFaithful` for
`EveryStreamEnds`. `OnlyForward`, `KeepsContract` and `KeepsContracts` are theorems without
a run of their own.

## Not modelled

`NetworkReservations` has a fixed host configuration, and any chute update may fail before it
chooses, so that its boot restarts need no model of pdconfd's answer. `HostConfig` keeps
neither the detection of devices nor the translation to sections, and its instance has no
default configuration. `ConfigManager` leaves out wireless, dhcp, qos,
rules and redirects, bridges and VLAN devices, the status of commands, and loads that
overlap. `ServerRequests` leaves out the WAMP session and the curl driver, and with
`SharedSemaphore` whatever else Twisted's `Agent` does when it is called in the update thread. Generated
configuration, chute specifications, settings, streams of output and
the command line tools are translations without state to get wrong; the hosts behind
them (Docker, snapd, hostapd) are external. The web portal (`src/paradrop/localweb/www`) is
there only as two minified bundles built from another repository, a client of the HTTP API.

## Plan

What would come next, in order of importance:

1. Containers: borrowed interfaces across updates (`dockerapi.py:619-660`), images and volumes.
2. Overlapping loads of `ConfigManager` from the reactor and the update thread; wireless and dhcp.
3. The reload of an empty `ChuteStorage` from other threads.
4. Smaller ones: password file, procmon, resource allocation, Airshark's scanner.
5. Proofs: measures like that of `OnlyForward` for the update manager and the requests, as the
   part of `EveryUpdateEnds`, `EveryRequestEnds` and `BootHeals` that is safety.
