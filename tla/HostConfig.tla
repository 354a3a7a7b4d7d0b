----------------------------- MODULE HostConfig -----------------------------
(***************************************************************************)
(* The host configuration (core/config/hostconfig.py): the file, the UCI   *)
(* sections made from it and what pdconfd has loaded, as the update thread *)
(* changes them in the steps of a plan (plan/hostconfig.py, struct.py and  *)
(* router.py), while the API's handlers of backend/config_api.py run in    *)
(* the reactor thread and the daemon may stop at any step.                 *)
(*                                                                         *)
(* The file is opened for writing, which empties it, and gets its content  *)
(* when it is closed; an empty file is read as None, like a missing one.   *)
(***************************************************************************)
EXTENDS Naturals, FiniteSets

CONSTANTS
  Config,       \* host configurations
  Generated,    \* the one generateHostConfig makes from the devices
  Default,      \* what hostconfig.default.yaml has, or Nothing
  Nothing,      \* a missing or empty file
  Garbled,      \* file contents which are no configuration's
  Update,
  NoUpdate,
  Changing,     \* updates of CONFIG_CHANGING_TYPES
  Boot,         \* the inithostconfig update among them, made at every boot
  Chutes,       \* updates of chutes
  Builds,       \* those of them that build an image
  Resets,       \* factory resets
  Result,       \* what an update makes of the configuration it reads
  StartFiles,   \* what the file may have when the daemon is installed
  Environments, \* the sets of Disturbances to check
  MaxCalls,     \* calls of the API's handlers that may write
  MaxCrashes

Disturbances == {"builds", "api", "errors", "disk", "crash"}

ASSUME HostConfigAssumption ==
  /\ Generated \in Config
  /\ Default \in Config \cup {Nothing}
  /\ Nothing \notin Config /\ Garbled \notin Config /\ Nothing # Garbled
  /\ NoUpdate \notin Update
  /\ Changing \subseteq Update /\ Boot \subseteq Changing
  /\ Chutes \subseteq Update /\ Builds \subseteq Chutes
  /\ Resets \subseteq Update
  /\ Changing \cap Chutes = {} /\ Changing \cap Resets = {} /\ Chutes \cap Resets = {}
  /\ Result \in [Update -> [Config -> Config]]
  /\ \A u \in Update \ Changing, c \in Config : Result[u][c] = c
  /\ StartFiles \subseteq Config \cup {Nothing}
  /\ Environments \subseteq SUBSET Disturbances
  /\ MaxCalls \in Nat /\ MaxCrashes \in Nat

Content == Config \cup {Nothing, Garbled}

VARIABLES
  environment,  \* what may happen in this behaviour
  file,         \* HOST_CONFIG_FILE
  uci,          \* the configuration the host's UCI sections are of
  loaded,       \* the one whose sections pdconfd has loaded
  status,       \* where each update is: "waiting" if it is still to be requested, too
  cache,        \* its oldHostConfig and hostConfig, until it ends
  cur, pc,      \* the update thread
  api,          \* the API's handler
  calls, crashes,
  crossed,      \* history: chutes that built while another update changed it
  disturbed     \* history: what may have set file and UCI sections apart has happened

files == <<file, uci, loaded>>
bounds == <<calls, crashes>>
vars == <<environment, files, status, cache, cur, pc, api, bounds, crossed, disturbed>>

\* The places in which the thread has the file open, and those before and after.
Open == {"reserving", "generating", "resetting", "setting", "reverting"}
Places == Open \cup
  {"idle", "reserve", "read", "compute", "apply", "devices", "set", "reload", "finish",
   "revert", "unload"}

TypeOK ==
  /\ environment \in Environments
  /\ file \in Content /\ uci \in Content /\ loaded \in Content
  /\ status \in [Update -> {"waiting", "building", "built", "running",
                            "success", "failure", "lost"}]
  /\ cache \in [Update -> [old : Config, new : Config]]
  /\ cur \in Update \cup {NoUpdate}
  /\ pc \in Places
  /\ api \in {"idle", "generating", "writing"}
  /\ calls \in 0 .. MaxCalls
  /\ crashes \in 0 .. MaxCrashes
  /\ crossed \subseteq Chutes
  /\ disturbed \in BOOLEAN
  /\ cur \in Update <=> pc # "idle"

NoCache == [old |-> Generated, new |-> Generated]

Init ==
  /\ environment \in Environments
  /\ file \in StartFiles
  /\ uci = Garbled
  /\ loaded = Garbled
  /\ status = [u \in Update |-> "waiting"]
  /\ cache = [u \in Update |-> NoCache]
  /\ cur = NoUpdate
  /\ pc = "idle"
  /\ api = "idle"
  /\ calls = 0
  /\ crashes = 0
  /\ crossed = {}
  /\ disturbed = TRUE
-----------------------------------------------------------------------------
(* Writing the file *)

\* open(path, 'w') in save(), by the update thread.
Opens(place) ==
  /\ file' = Nothing
  /\ pc' = place

\* Faulty variant: the abort writes what the update had written.
WritingForward ==
  IF pc \in {"setting", "reverting"} THEN cache[cur].new ELSE Generated

\* What it writes there.
Writing ==
  IF pc = "setting" THEN cache[cur].new
  ELSE IF pc = "reverting" THEN cache[cur].old ELSE Generated

\* The file after a writer that had emptied it has closed it: if another has
\* written in between, the longer content sticks out behind the shorter.
Closed(config) == IF file = Nothing THEN {config} ELSE {config, Garbled}
-----------------------------------------------------------------------------
(* The update thread *)

\* getReservations reads the host configuration too, but for updates that have
\* the host's own name.
Take(u) ==
  /\ pc = "idle"
  /\ status[u] \in {"waiting", "built"}
  /\ cur' = u
  /\ pc' = IF status[u] = "built" THEN "set"
           ELSE IF u \in Changing THEN "read" ELSE "reserve"
  /\ status' = [status EXCEPT ![u] = "running"]
  /\ UNCHANGED <<environment, files, cache, api, bounds, crossed, disturbed>>

\* prepareHostConfig at step 9: generates a configuration if there is none.
getReservations ==
  /\ pc = "reserve"
  /\ \/ file \in Config /\ pc' = "read" /\ UNCHANGED file
     \/ file = Nothing /\ Opens("reserving")
  /\ UNCHANGED <<environment, uci, loaded, status, cache, cur, api, bounds, crossed, disturbed>>

\* Faulty variant: an empty file is not taken for a missing one.
ReadAnyHostConfig ==
  /\ pc = "read"
  /\ file \in Config \cup {Nothing}
  /\ cache' = [cache EXCEPT ![cur].old = file]
  /\ pc' = "compute"
  /\ UNCHANGED <<environment, files, status, cur, api, bounds, crossed, disturbed>>

\* prepareHostConfig at step 10.
ReadHostConfig ==
  /\ pc = "read"
  /\ \/ /\ file \in Config
        /\ cache' = [cache EXCEPT ![cur].old = file]
        /\ pc' = "compute"
        /\ UNCHANGED file
     \/ /\ file = Nothing
        /\ cache' = [cache EXCEPT ![cur].old = Generated]
        /\ Opens("generating")
  /\ UNCHANGED <<environment, uci, loaded, status, cur, api, bounds, crossed, disturbed>>

Building == {u \in Chutes : status[u] \in {"building", "built"}}

\* The rest of getHostConfig.  A factory reset computes the default
\* configuration, for which there is no further step; without a default it
\* writes a generated one.  A chute that builds gives up the thread.
ComputeHostConfig ==
  /\ pc = "compute"
  /\ cache' = [cache EXCEPT ![cur].new =
                 IF cur \notin Resets THEN Result[cur][cache[cur].old]
                 ELSE IF Default = Nothing THEN Generated ELSE Default]
  /\ \/ /\ cur \in Resets /\ Default = Nothing
        /\ Opens("resetting")
        /\ crossed' = crossed \cup Building
        /\ disturbed' = TRUE
        /\ UNCHANGED <<status, cur>>
     \/ /\ cur \in Builds /\ "builds" \in environment
        /\ status' = [status EXCEPT ![cur] = "building"]
        /\ cur' = NoUpdate
        /\ pc' = "idle"
        /\ UNCHANGED <<file, crossed, disturbed>>
     \/ /\ ~(cur \in Resets /\ Default = Nothing)
        /\ ~(cur \in Builds /\ "builds" \in environment)
        /\ pc' = IF cur \in Changing THEN "apply" ELSE IF cur \in Chutes THEN "set" ELSE "finish"
        /\ UNCHANGED <<file, status, cur, crossed, disturbed>>
  /\ UNCHANGED <<environment, uci, loaded, api, bounds>>

\* The build ends and resume() puts the update into the queue.
Resume(u) ==
  /\ status[u] = "building"
  /\ status' = [status EXCEPT ![u] = "built"]
  /\ UNCHANGED <<environment, files, cache, cur, pc, api, bounds, crossed, disturbed>>

\* setSystemDevices writes one UCI file after the other.
SetSystemDevices ==
  /\ pc = "apply"
  /\ uci' = Garbled
  /\ pc' = "devices"
  /\ crossed' = crossed \cup Building
  /\ disturbed' = FALSE
  /\ UNCHANGED <<environment, file, loaded, status, cache, cur, api, bounds>>

\* Faulty variant: the sections are made from the backup copy.
DevicesSetFromBackup ==
  /\ pc = "devices"
  /\ uci' = cache[cur].old
  /\ pc' = "set"
  /\ UNCHANGED <<environment, file, loaded, status, cache, cur, api, bounds,
                 crossed, disturbed>>

DevicesSet ==
  /\ pc = "devices"
  /\ uci' = cache[cur].new
  /\ pc' = "set"
  /\ UNCHANGED <<environment, file, loaded, status, cache, cur, api, bounds,
                 crossed, disturbed>>

\* UCIConfig.save logs an error and returns.
DevicesNotSaved ==
  /\ "disk" \in environment
  /\ pc = "devices"
  /\ pc' = "set"
  /\ disturbed' = TRUE
  /\ UNCHANGED <<environment, files, status, cache, cur, api, bounds, crossed>>

setHostConfig ==
  /\ pc = "set"
  /\ Opens("setting")
  /\ IF cur \in crossed
       THEN crossed' = crossed \cup Building /\ disturbed' = TRUE
       ELSE UNCHANGED <<crossed, disturbed>>
  /\ UNCHANGED <<environment, uci, loaded, status, cache, cur, api, bounds>>

reloadAll ==
  /\ pc = "reload"
  /\ loaded' = uci
  /\ pc' = "finish"
  /\ UNCHANGED <<environment, file, uci, status, cache, cur, api, bounds,
                 crossed, disturbed>>

\* Where the thread goes on after it has closed the file.
AfterClosing ==
  CASE pc = "reserving" -> "read"
    [] pc = "generating" -> "compute"
    [] pc = "resetting" -> "finish"
    [] pc = "setting" -> "reload"
    [] pc = "reverting" -> "unload"

CloseFile ==
  /\ pc \in Open
  /\ file' \in Closed(Writing)
  /\ pc' = AfterClosing
  /\ UNCHANGED <<environment, uci, loaded, status, cache, cur, api, bounds,
                 crossed, disturbed>>

End(outcome) ==
  /\ status' = [status EXCEPT ![cur] = outcome]
  /\ cache' = [cache EXCEPT ![cur] = NoCache]
  /\ cur' = NoUpdate
  /\ pc' = "idle"

Succeed ==
  /\ pc = "finish"
  /\ End("success")
  /\ UNCHANGED <<environment, files, api, bounds, crossed, disturbed>>

\* The abort of an update that fails at this place: revertHostConfig if step 52
\* was done, and reloadAll if the thread had come to the steps that write.
Abort ==
  \/ /\ pc \in {"reload", "finish"} /\ cur \in Changing \cup Chutes
     /\ pc' = "revert"
     /\ UNCHANGED <<status, cache, cur>>
  \/ /\ pc \in {"apply", "devices", "set", "setting"}
     /\ pc' = "unload"
     /\ UNCHANGED <<status, cache, cur>>
  \/ /\ \/ pc \in {"reserve", "reserving", "read", "generating", "compute", "resetting", "apply"}
        \/ pc = "set" /\ cur \in Chutes
        \/ pc = "finish" /\ cur \notin Changing \cup Chutes
     /\ End("failure")

\* A function raises, or the file is not a configuration.
Raise ==
  /\ \/ "errors" \in environment
     \/ pc \in {"reserve", "read"} /\ file = Garbled
  /\ pc \notin Open
  /\ Abort
  /\ disturbed' = (disturbed \/ (cur \in Changing /\ pc \notin {"read", "compute", "apply"}))
  /\ UNCHANGED <<environment, files, api, bounds, crossed>>

\* Writing what was opened fails: the file stays empty.
WriteRaises ==
  /\ "disk" \in environment
  /\ pc \in Open
  /\ \/ pc = "reverting" /\ pc' = "unload" /\ UNCHANGED <<status, cache, cur>>
     \/ pc # "reverting" /\ Abort
  /\ disturbed' = TRUE
  /\ UNCHANGED <<environment, files, api, bounds, crossed>>

\* Abort functions: the file, but not the UCI sections.
revertHostConfig ==
  /\ pc = "revert"
  /\ Opens("reverting")
  /\ UNCHANGED <<environment, uci, loaded, status, cache, cur, api, bounds, crossed, disturbed>>

AbortReloads ==
  /\ pc = "unload"
  /\ loaded' = uci
  /\ End("failure")
  /\ UNCHANGED <<environment, file, uci, api, bounds, crossed, disturbed>>
-----------------------------------------------------------------------------
(* The API's handlers *)

\* GET hostconfig finds no configuration, or GET new-config, which reads
\* /dev/null: both generate one.
Generate ==
  /\ "api" \in environment
  /\ api = "idle"
  /\ calls < MaxCalls
  /\ calls' = calls + 1
  /\ api' = "generating"
  /\ UNCHANGED <<environment, files, status, cache, cur, pc, crashes, crossed, disturbed>>

ApiOpens ==
  /\ api = "generating"
  /\ file' = Nothing
  /\ api' = "writing"
  /\ disturbed' = TRUE
  /\ UNCHANGED <<environment, uci, loaded, status, cache, cur, pc, bounds, crossed>>

ApiCloses ==
  /\ api = "writing"
  /\ file' \in Closed(Generated)
  /\ api' = "idle"
  /\ disturbed' = TRUE
  /\ UNCHANGED <<environment, uci, loaded, status, cache, cur, pc, bounds, crossed>>

\* PUT pdconf.
PdconfReloads ==
  /\ "api" \in environment
  /\ loaded' = uci
  /\ UNCHANGED <<environment, file, uci, status, cache, cur, pc, api, bounds,
                 crossed, disturbed>>
-----------------------------------------------------------------------------
\* Faulty variant: boot updates are made once, when the system is installed.
RestartedOnce(u) == IF status[u] \in {"building", "built", "running"} THEN "lost" ELSE status[u]

\* What becomes of an update when the daemon starts again.
Restarted(u) ==
  IF u \in Boot THEN "waiting"
  ELSE IF status[u] \in {"building", "built", "running"} THEN "lost" ELSE status[u]

\* The daemon stops, and starts: pdconfd loads the files.
Crash ==
  /\ "crash" \in environment
  /\ crashes < MaxCrashes
  /\ crashes' = crashes + 1
  /\ status' = [u \in Update |-> Restarted(u)]
  /\ cache' = [u \in Update |-> NoCache]
  /\ cur' = NoUpdate
  /\ pc' = "idle"
  /\ api' = "idle"
  /\ loaded' = uci
  /\ crossed' = {}
  /\ disturbed' = TRUE
  /\ UNCHANGED <<environment, file, uci, calls>>

Thread ==
  \/ \E u \in Update : Take(u)
  \/ getReservations \/ ReadHostConfig \/ ComputeHostConfig
  \/ SetSystemDevices \/ DevicesSet \/ setHostConfig \/ reloadAll \/ CloseFile \/ Succeed
  \/ Raise \/ revertHostConfig \/ AbortReloads

Next ==
  \/ Thread
  \/ \E u \in Update : Resume(u)
  \/ DevicesNotSaved \/ WriteRaises
  \/ Generate \/ ApiOpens \/ ApiCloses \/ PdconfReloads
  \/ Crash

\* The update thread goes on; nothing is assumed of anyone else.
Spec == Init /\ [][Next]_vars /\ WF_vars(Thread)
-----------------------------------------------------------------------------
Agree == file = uci /\ uci = loaded

\* When the update thread rests, the file, the UCI sections and what pdconfd has
\* loaded are of one configuration, whatever other updates did and whichever steps
\* failed, unless since the last change was applied ("Apply host configuration to
\* system configuration") the daemon or another change stopped half-way, the disk
\* failed, a handler or a factory reset wrote a generated configuration, or a
\* chute wrote back one that it had read before that change, when it began to build.
AgreeUnlessDisturbed == pc = "idle" /\ ~disturbed => Agree

\* The configuration as the clients may see it: that of before the running update,
\* from where it opens the file to where it has succeeded or has been reverted.
ConfigShown ==
  IF /\ cur \in Changing \cup Chutes
     /\ pc \in {"setting", "reload", "finish", "revert", "reverting", "unload"}
    THEN cache[cur].old
    ELSE IF file \in Config THEN file ELSE Generated

Succeeded == {u \in Update : status[u] = "success"}

Register == INSTANCE HostRegister
  WITH config <- ConfigShown, done <- Succeeded, restarts <- crashes,
       Regenerating <- {u \in Resets : Default = Nothing}

\* Without handlers that write and errors of the disk, and but for a chute that
\* built while another update changed it, the host configuration is a register:
\* an update that succeeds has its effect once and on the configuration before
\* it, one that fails at whichever step has none, and "ordinary chute operations"
\* have none either.
Calm == environment \subseteq {"builds", "errors", "crash"}

KeepsRegister ==
  /\ Calm => Register!Init
  /\ [][Calm /\ cur \notin crossed => [Register!Next]_(Register!register)]_vars

\* After a restart, at whichever step the daemon stopped, the boot updates bring
\* file, UCI sections and pdconfd together again if nothing fails.
BootHeals ==
  \A b \in Boot :
    environment \subseteq {"builds", "crash"} /\ status[b] = "waiting" ~> Agree
=============================================================================
