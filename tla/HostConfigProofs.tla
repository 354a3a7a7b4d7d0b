-------------------------- MODULE HostConfigProofs --------------------------
(***************************************************************************)
(* Proofs about HostConfig for every set of configurations and updates,    *)
(* whatever they ask for, and any number of calls and crashes.             *)
(***************************************************************************)
EXTENDS HostConfig, TLAPS

USE HostConfigAssumption DEF files, bounds

\* The actions, so that each proof below has one step for each of them.
Step ==
  \/ \E u \in Update : Take(u) \/ Resume(u)
  \/ getReservations \/ ReadHostConfig \/ ComputeHostConfig
  \/ SetSystemDevices \/ DevicesSet \/ DevicesNotSaved \/ setHostConfig \/ reloadAll
  \/ CloseFile \/ Succeed \/ Raise \/ WriteRaises \/ revertHostConfig \/ AbortReloads
  \/ Generate \/ ApiOpens \/ ApiCloses \/ PdconfReloads
  \/ Crash
  \/ UNCHANGED vars

LEMMA NextSteps == [Next]_vars => Step
BY DEF Next, Thread, Step

\* Every variable keeps its type.
THEOREM TypeCorrect == Spec => []TypeOK
<1>1. Init => TypeOK
  BY DEF Init, TypeOK, Content, NoCache, Places, Open
<1>2. TypeOK /\ [Next]_vars => TypeOK'
  <2> SUFFICES ASSUME TypeOK, Step PROVE TypeOK'
    BY NextSteps
  <2> USE DEF TypeOK, Places, Open
  <2>1. ASSUME NEW u \in Update, Take(u) PROVE TypeOK'
    BY <2>1 DEF Take
  <2>2. ASSUME NEW u \in Update, Resume(u) PROVE TypeOK'
    BY <2>2 DEF Resume
  <2>3. CASE getReservations
    BY <2>3 DEF getReservations, Opens, Content
  <2>4. CASE ReadHostConfig
    BY <2>4 DEF ReadHostConfig, Opens, Content
  <2>5. CASE ComputeHostConfig
    <3>1. cache' \in [Update -> [old : Config, new : Config]]
      <4>1. cur \in Update /\ Result[cur][cache[cur].old] \in Config
        BY <2>5 DEF ComputeHostConfig
      <4> QED BY <2>5, <4>1 DEF ComputeHostConfig
    <3>2. crossed' \subseteq Chutes
      BY <2>5 DEF ComputeHostConfig, Building
    <3> QED BY <2>5, <3>1, <3>2 DEF ComputeHostConfig, Opens, Content
  <2>6. CASE SetSystemDevices
    BY <2>6 DEF SetSystemDevices, Content, Building
  <2>7. CASE DevicesSet
    BY <2>7 DEF DevicesSet, Content
  <2>8. CASE DevicesNotSaved
    BY <2>8 DEF DevicesNotSaved
  <2>9. CASE setHostConfig
    BY <2>9 DEF setHostConfig, Opens, Content, Building
  <2>10. CASE reloadAll
    BY <2>10 DEF reloadAll
  <2>11. CASE CloseFile
    <3>1. Writing \in Config
      BY <2>11 DEF CloseFile, Writing
    <3>2. file' \in Content
      BY <2>11, <3>1 DEF CloseFile, Closed, Content
    <3>3. pc' \in Places /\ pc' # "idle" /\ pc # "idle"
      BY <2>11 DEF CloseFile, AfterClosing
    <3> QED BY <2>11, <3>2, <3>3 DEF CloseFile
  <2>12. CASE Succeed
    BY <2>12 DEF Succeed, End, NoCache
  <2>13. CASE Raise \/ WriteRaises
    <3>1. /\ cur \in Update
          /\ \/ pc' \in {"revert", "unload"} /\ UNCHANGED <<status, cache, cur>>
             \/ End("failure")
      BY <2>13 DEF Raise, WriteRaises, Abort
    <3>2. /\ status' \in [Update -> {"waiting", "building", "built", "running",
                                     "success", "failure", "lost"}]
          /\ cache' \in [Update -> [old : Config, new : Config]]
          /\ cur' \in Update \cup {NoUpdate} /\ pc' \in Places
          /\ (cur' \in Update <=> pc' # "idle")
      <4>1. CASE End("failure")
        BY <3>1, <4>1 DEF End, NoCache
      <4>2. CASE pc' \in {"revert", "unload"} /\ UNCHANGED <<status, cache, cur>>
        BY <3>1, <4>2
      <4> QED BY <3>1, <4>1, <4>2
    <3>3. disturbed' \in BOOLEAN
      BY <2>13 DEF Raise, WriteRaises
    <3> QED BY <2>13, <3>2, <3>3 DEF Raise, WriteRaises
  <2>14. CASE revertHostConfig
    BY <2>14 DEF revertHostConfig, Opens, Content
  <2>15. CASE AbortReloads
    BY <2>15 DEF AbortReloads, End, NoCache
  <2>16. CASE Generate \/ ApiOpens
    <3>1. calls' \in 0 .. MaxCalls
      BY <2>16 DEF Generate, ApiOpens
    <3> QED BY <2>16, <3>1 DEF Generate, ApiOpens, Content
  <2>17. CASE ApiCloses
    BY <2>17 DEF ApiCloses, Closed, Content
  <2>18. CASE PdconfReloads
    BY <2>18 DEF PdconfReloads
  <2>19. CASE Crash
    BY <2>19 DEF Crash, Restarted, NoCache
  <2>20. CASE UNCHANGED vars
    BY <2>20 DEF vars
  <2> QED BY <2>1, <2>2, <2>3, <2>4, <2>5, <2>6, <2>7, <2>8, <2>9, <2>10, <2>11, <2>12,
             <2>13, <2>14, <2>15, <2>16, <2>17, <2>18, <2>19, <2>20 DEF Step
<1> QED BY <1>1, <1>2, PTL DEF Spec
-----------------------------------------------------------------------------
\* What kind of update the thread may have at each place.
IPlace ==
  /\ \A u \in Update : status[u] \in {"building", "built"} => u \in Builds
  /\ cur \in Update => status[cur] = "running"
  /\ pc \in {"apply", "devices"} => cur \in Changing
  /\ pc = "resetting" => cur \in Resets
  /\ pc = "devices" => Building \subseteq crossed
  /\ pc \in {"set", "setting", "reload", "revert", "reverting", "unload"} =>
       cur \in Changing \cup Chutes

LEMMA PlaceStep == TypeOK /\ IPlace /\ [Next]_vars => IPlace'
<1> SUFFICES ASSUME TypeOK, IPlace, Step PROVE IPlace'
  BY NextSteps
<1> USE DEF TypeOK, IPlace, Building, Open
<1>1. ASSUME NEW u \in Update, Take(u) PROVE IPlace'
  BY <1>1 DEF Take
<1>2. ASSUME NEW u \in Update, Resume(u) PROVE IPlace'
  BY <1>2 DEF Resume
<1>3. CASE getReservations \/ ReadHostConfig
  BY <1>3 DEF getReservations, ReadHostConfig, Opens
<1>4. CASE ComputeHostConfig
  BY <1>4 DEF ComputeHostConfig, Opens
<1>5. CASE SetSystemDevices \/ DevicesSet \/ DevicesNotSaved
  BY <1>5 DEF SetSystemDevices, DevicesSet, DevicesNotSaved
<1>6. CASE setHostConfig \/ revertHostConfig
  BY <1>6 DEF setHostConfig, revertHostConfig, Opens
<1>7. CASE CloseFile
  BY <1>7 DEF CloseFile, AfterClosing
<1>8. CASE Succeed \/ AbortReloads
  BY <1>8 DEF Succeed, AbortReloads, End
<1>9. CASE Raise \/ WriteRaises
  <2>1. \/ pc' \in {"revert", "unload"} /\ UNCHANGED <<status, cur>> /\ cur \in Changing \cup Chutes
        \/ End("failure")
    BY <1>9 DEF Raise, WriteRaises, Abort
  <2>2. cur \in Update
    BY <1>9 DEF Raise, WriteRaises, Abort
  <2>3. CASE End("failure")
    BY <2>2, <2>3 DEF End
  <2>4. CASE pc' \in {"revert", "unload"} /\ UNCHANGED <<status, cur>> /\ cur \in Changing \cup Chutes
    BY <2>2, <2>4
  <2> QED BY <2>1, <2>3, <2>4
<1>10. CASE reloadAll \/ Generate \/ ApiOpens \/ ApiCloses \/ PdconfReloads \/ UNCHANGED vars
  BY <1>10 DEF reloadAll, Generate, ApiOpens, ApiCloses, PdconfReloads, vars
<1>11. CASE Crash
  BY <1>11 DEF Crash, Restarted
<1> QED BY <1>1, <1>2, <1>3, <1>4, <1>5, <1>6, <1>7, <1>8, <1>9, <1>10, <1>11 DEF Step
-----------------------------------------------------------------------------
\* The chutes that have read the configuration and may write it back.
Holding(u) ==
  \/ u \in Building
  \/ u = cur /\ pc \in {"set", "setting", "reload", "finish", "revert", "reverting"}

\* No chute that may write back has missed a change.
NoneBehind ==
  \A u \in Chutes \ crossed : Holding(u) => cache[u].old = uci /\ cache[u].new = uci

\* How far the thread has come with bringing file, UCI sections and pdconfd together.
InStep ==
  /\ pc # "devices" => uci \in Config
  /\ pc \notin {"reserving", "generating", "resetting"}
  /\ pc \in {"idle", "reserve", "read", "compute", "apply", "finish"} => Agree
  /\ pc = "compute" => cache[cur].old = uci
  /\ pc = "set" => IF cur \in Changing THEN uci = cache[cur].new ELSE Agree
  /\ pc = "setting" => file = Nothing /\ uci = cache[cur].new
  /\ pc \in {"reload", "revert", "unload"} => file = uci
  /\ pc = "reverting" => file = Nothing
  /\ pc \in {"revert", "reverting"} => cur \in Chutes
  /\ pc \in {"setting", "reload", "finish", "revert", "reverting"} => cur \notin crossed

IAgree == ~disturbed => NoneBehind /\ InStep

LEMMA AgreeStep == TypeOK /\ IPlace /\ IAgree /\ [Next]_vars => IAgree'
<1> SUFFICES ASSUME TypeOK, IPlace, IAgree, Step, ~disturbed' PROVE NoneBehind' /\ InStep'
  BY NextSteps DEF IAgree
<1> USE DEF TypeOK, IPlace, IAgree, Open
<1>1. ASSUME NEW u \in Update, Take(u) PROVE NoneBehind' /\ InStep'
  <2>1. NoneBehind'
    BY <1>1 DEF Take, NoneBehind, Holding, Building
  <2>2. InStep'
    BY <1>1 DEF Take, InStep, Agree
  <2> QED BY <2>1, <2>2
<1>2. ASSUME NEW u \in Update, Resume(u) PROVE NoneBehind' /\ InStep'
  <2>1. Building' = Building
    BY <1>2 DEF Resume, Building
  <2> QED BY <1>2, <2>1 DEF Resume, NoneBehind, Holding, InStep, Agree
<1>3. CASE getReservations \/ ReadHostConfig
  <2>1. InStep'
    BY <1>3 DEF getReservations, ReadHostConfig, Opens, InStep, Agree
  <2>2. NoneBehind'
    BY <1>3 DEF getReservations, ReadHostConfig, Opens, NoneBehind, InStep, Agree, Holding, Building
  <2> QED BY <2>1, <2>2
<1>4. CASE ComputeHostConfig
  <2>1. /\ cur \in Update /\ cache[cur].old = uci /\ uci \in Config /\ Agree /\ ~disturbed
        /\ crossed' = crossed /\ file' = file
        /\ cur \in Chutes => cache'[cur].old = uci /\ cache'[cur].new = uci
        /\ \A u \in Update : u # cur => cache'[u] = cache[u] /\ status'[u] = status[u]
    BY <1>4 DEF ComputeHostConfig, InStep
  <2>2. NoneBehind'
    BY <1>4, <2>1 DEF ComputeHostConfig, NoneBehind, Holding, Building
  <2>3. InStep'
    BY <1>4, <2>1 DEF ComputeHostConfig, InStep, Agree
  <2> QED BY <2>2, <2>3
<1>5. CASE SetSystemDevices
  BY <1>5 DEF SetSystemDevices, NoneBehind, Holding, Building, InStep
<1>6. CASE DevicesSet
  BY <1>6 DEF DevicesSet, NoneBehind, Holding, Building, InStep
<1>7. CASE setHostConfig
  BY <1>7 DEF setHostConfig, Opens, NoneBehind, Holding, Building, InStep, Agree
<1>8. CASE reloadAll
  BY <1>8 DEF reloadAll, NoneBehind, Holding, Building, InStep, Agree
<1>9. CASE CloseFile
  <2>1. pc \in {"setting", "reverting"} /\ file = Nothing /\ file' = Writing
    BY <1>9 DEF CloseFile, Closed, InStep
  <2>2. Writing = uci
    BY <2>1, <1>9 DEF Writing, InStep, NoneBehind, Holding, CloseFile
  <2> QED BY <1>9, <2>1, <2>2 DEF CloseFile, AfterClosing, NoneBehind, Holding, Building, InStep
<1>10. CASE Succeed \/ AbortReloads
  <2>1. End("success") \/ End("failure")
    BY <1>10 DEF Succeed, AbortReloads
  <2>2. cur \in Update /\ ~disturbed /\ UNCHANGED <<file, uci, crossed>>
    BY <1>10 DEF Succeed, AbortReloads
  <2>3. NoneBehind'
    BY <2>1, <2>2 DEF End, NoneBehind, Holding, Building
  <2>4. file = uci /\ uci \in Config /\ loaded' = uci
    BY <1>10, <2>2 DEF Succeed, AbortReloads, InStep, Agree
  <2>5. InStep'
    BY <2>1, <2>2, <2>4 DEF End, InStep, Agree
  <2> QED BY <2>3, <2>5
<1>11. CASE Raise
  <2>1. /\ ~disturbed /\ cur \in Update
        /\ cur \in Changing => pc \in {"read", "compute", "apply"}
        /\ UNCHANGED <<file, uci, loaded, crossed>>
    BY <1>11 DEF Raise, Abort
  <2>2. CASE End("failure")
    <3>1. Agree /\ uci \in Config
      BY <1>11, <2>1, <2>2 DEF Raise, Abort, End, InStep
    <3> QED BY <2>1, <2>2, <3>1 DEF End, NoneBehind, Holding, Building, InStep, Agree
  <2>3. CASE pc' \in {"revert", "unload"} /\ UNCHANGED <<status, cache, cur>>
    <3>1. /\ file = uci /\ uci \in Config
          /\ pc' = "revert" => cur \in Chutes \ crossed /\ pc \in {"reload", "finish"}
      BY <1>11, <2>1, <2>3 DEF Raise, Abort, End, InStep, Agree
    <3> QED BY <2>1, <2>3, <3>1 DEF NoneBehind, Holding, Building, InStep
  <2> QED BY <1>11, <2>2, <2>3 DEF Raise, Abort
<1>12. CASE revertHostConfig
  BY <1>12 DEF revertHostConfig, Opens, NoneBehind, Holding, Building, InStep
<1>13. CASE DevicesNotSaved \/ WriteRaises \/ ApiOpens \/ ApiCloses \/ Crash
  BY <1>13 DEF DevicesNotSaved, WriteRaises, ApiOpens, ApiCloses, Crash
<1>14. CASE Generate \/ PdconfReloads \/ UNCHANGED vars
  BY <1>14 DEF Generate, PdconfReloads, vars, NoneBehind, Holding, Building, InStep, Agree
<1> QED BY <1>1, <1>2, <1>3, <1>4, <1>5, <1>6, <1>7, <1>8, <1>9, <1>10, <1>11, <1>12,
           <1>13, <1>14 DEF Step

\* File, UCI sections and pdconfd agree when the thread rests, unless what may set
\* them apart has happened.
THEOREM AgreeUnlessDisturbedHolds == Spec => []AgreeUnlessDisturbed
<1>1. Init => IPlace /\ IAgree
  BY DEF Init, IPlace, IAgree
<1>2. IAgree => AgreeUnlessDisturbed
  BY DEF IAgree, InStep, AgreeUnlessDisturbed
<1> QED BY <1>1, <1>2, TypeCorrect, PlaceStep, AgreeStep, PTL DEF Spec
-----------------------------------------------------------------------------
\* Chutes that build and were not crossed have read what will be in the file.
BuildersUpToDate ==
  /\ \A u \in Building : cache[u].new = cache[u].old
  /\ \A u \in Building \ crossed :
       cache[u].old = IF pc \in Open THEN cache[cur].old ELSE file
  /\ pc \in {"reserving", "generating", "resetting"} => Building \subseteq crossed
  /\ pc \in {"set", "setting", "reload", "finish", "revert", "reverting"} /\ cur \in Changing =>
       Building \subseteq crossed
  /\ pc \in {"setting", "reload", "finish", "revert", "reverting"} /\ cur \in crossed =>
       Building \subseteq crossed

\* What the file and the copies of the running update have to do with each other.
CopiesTrue ==
  /\ file \in Config \cup {Nothing}
  /\ pc \in Open => file = Nothing
  /\ pc = "generating" => cache[cur].old = Generated
  /\ pc \in {"compute", "apply", "devices", "set", "unload"} /\ cur \notin crossed =>
       file = cache[cur].old
  /\ cur \in Changing \cup Chutes =>
       /\ pc \in {"apply", "devices", "set", "setting", "reload", "finish", "revert"} =>
            cache[cur].new = Result[cur][cache[cur].old]
       /\ pc \in {"reload", "finish", "revert"} => file = cache[cur].new

ICalm == Calm => api = "idle" /\ BuildersUpToDate /\ CopiesTrue

LEMMA CalmStep == TypeOK /\ IPlace /\ ICalm /\ [Next]_vars => ICalm'
<1> SUFFICES ASSUME TypeOK, IPlace, ICalm, Step, Calm
             PROVE  api' = "idle" /\ BuildersUpToDate' /\ CopiesTrue'
  <2>1. Step => environment' = environment
    BY DEF Step, Take, Resume, getReservations, ReadHostConfig, ComputeHostConfig,
       SetSystemDevices, DevicesSet, DevicesNotSaved, setHostConfig, reloadAll, CloseFile,
       Succeed, Raise, WriteRaises, revertHostConfig, AbortReloads, Generate, ApiOpens,
       ApiCloses, PdconfReloads, Crash, vars
  <2> QED BY <2>1, NextSteps DEF ICalm, Calm
<1> USE DEF TypeOK, IPlace, Open
<1>0. /\ api = "idle" /\ BuildersUpToDate /\ CopiesTrue
      /\ "api" \notin environment /\ "disk" \notin environment
  BY DEF ICalm, Calm
<1>1. ASSUME NEW u \in Update, Take(u)
      PROVE  api' = "idle" /\ BuildersUpToDate' /\ CopiesTrue'
  <2>1. BuildersUpToDate'
    BY <1>0, <1>1 DEF Take, BuildersUpToDate, Building
  <2>2. CopiesTrue'
    BY <1>0, <1>1 DEF Take, BuildersUpToDate, CopiesTrue, Building
  <2> QED BY <1>0, <1>1, <2>1, <2>2 DEF Take
<1>2. ASSUME NEW u \in Update, Resume(u)
      PROVE  api' = "idle" /\ BuildersUpToDate' /\ CopiesTrue'
  <2>1. Building' = Building
    BY <1>2 DEF Resume, Building
  <2> QED BY <1>0, <1>2, <2>1 DEF Resume, BuildersUpToDate, CopiesTrue
<1>3. CASE getReservations
  BY <1>0, <1>3 DEF getReservations, Opens, BuildersUpToDate, CopiesTrue, Building
<1>4. CASE ReadHostConfig
  <2>1. /\ cur \in Update /\ cur \notin Building
        /\ \A u \in Update : u # cur => cache'[u] = cache[u]
        /\ Building' = Building /\ Building \subseteq Update /\ crossed' = crossed
        /\ \A u \in Update : cache[u].old # Nothing
    BY <1>4 DEF ReadHostConfig, Building
  <2>2. BuildersUpToDate'
    <3>1. CASE pc' = "compute" /\ file' = file
      BY <1>0, <1>4, <2>1, <3>1 DEF ReadHostConfig, BuildersUpToDate
    <3>2. CASE pc' = "generating" /\ file = Nothing
      <4>1. Building \subseteq crossed
        BY <1>0, <1>4, <2>1, <3>2 DEF ReadHostConfig, BuildersUpToDate
      <4> QED BY <1>0, <2>1, <3>2, <4>1 DEF BuildersUpToDate
    <3> QED BY <1>4, <3>1, <3>2 DEF ReadHostConfig, Opens
  <2>3. CopiesTrue'
    BY <1>0, <1>4, <2>1 DEF ReadHostConfig, Opens, CopiesTrue
  <2> QED BY <1>0, <1>4, <2>2, <2>3 DEF ReadHostConfig
<1>5. CASE ComputeHostConfig
  <2>1. /\ cur \in Update /\ api' = "idle" /\ cache'[cur].old = cache[cur].old
        /\ cur \in Changing \cup Chutes => cache'[cur].new = Result[cur][cache[cur].old]
        /\ \A u \in Update : u # cur => cache'[u] = cache[u] /\ status'[u] = status[u]
    BY <1>0, <1>5 DEF ComputeHostConfig
  <2>2. BuildersUpToDate'
    BY <1>0, <1>5, <2>1 DEF ComputeHostConfig, Opens, BuildersUpToDate, CopiesTrue, Building
  <2>3. CopiesTrue'
    BY <1>0, <1>5, <2>1 DEF ComputeHostConfig, Opens, CopiesTrue
  <2> QED BY <2>1, <2>2, <2>3
<1>6. CASE SetSystemDevices \/ DevicesSet
  BY <1>0, <1>6 DEF SetSystemDevices, DevicesSet, BuildersUpToDate, CopiesTrue, Building
<1>7. CASE setHostConfig
  BY <1>0, <1>7 DEF setHostConfig, Opens, BuildersUpToDate, CopiesTrue, Building
<1>8. CASE reloadAll
  BY <1>0, <1>8 DEF reloadAll, BuildersUpToDate, CopiesTrue, Building
<1>9. CASE CloseFile
  <2>1. file = Nothing /\ file' = Writing /\ Writing \in Config /\ cur \in Update
    BY <1>0, <1>9 DEF CloseFile, Closed, CopiesTrue, Writing
  <2>2. BuildersUpToDate'
    BY <1>0, <1>9, <2>1 DEF CloseFile, AfterClosing, BuildersUpToDate, CopiesTrue, Building, Writing
  <2>3. CopiesTrue'
    BY <1>0, <1>9, <2>1 DEF CloseFile, AfterClosing, CopiesTrue, Writing
  <2> QED BY <1>0, <1>9, <2>2, <2>3 DEF CloseFile
<1>10. CASE Succeed \/ AbortReloads
  <2>1. /\ End("success") \/ End("failure")
        /\ cur \in Update /\ pc \notin Open /\ UNCHANGED <<file, crossed, api>>
    BY <1>10 DEF Succeed, AbortReloads
  <2> QED BY <1>0, <2>1 DEF End, BuildersUpToDate, CopiesTrue, Building
<1>11. CASE Raise
  <2>1. cur \in Update /\ pc \notin Open /\ UNCHANGED <<file, crossed, api>>
    BY <1>11 DEF Raise, Abort
  <2>2. CASE End("failure")
    BY <1>0, <2>1, <2>2 DEF End, BuildersUpToDate, CopiesTrue, Building
  <2>3. CASE /\ UNCHANGED <<status, cache, cur>> /\ pc \in {"reload", "finish"}
             /\ pc' = "revert"
    BY <1>0, <2>1, <2>3 DEF BuildersUpToDate, CopiesTrue, Building
  <2>4. CASE /\ UNCHANGED <<status, cache, cur>> /\ pc \in {"apply", "devices", "set"}
             /\ pc' = "unload"
    BY <1>0, <2>1, <2>4 DEF BuildersUpToDate, CopiesTrue, Building
  <2> QED BY <1>11, <2>2, <2>3, <2>4 DEF Raise, Abort
<1>12. CASE revertHostConfig
  BY <1>0, <1>12 DEF revertHostConfig, Opens, BuildersUpToDate, CopiesTrue, Building
<1>13. CASE DevicesNotSaved \/ WriteRaises \/ Generate \/ ApiOpens \/ ApiCloses \/ PdconfReloads
  BY <1>0, <1>13 DEF DevicesNotSaved, WriteRaises, Generate, ApiOpens, ApiCloses, PdconfReloads
<1>14. CASE Crash
  <2>1. Building' = {}
    BY <1>14 DEF Crash, Restarted, Building
  <2> QED BY <1>0, <1>14, <2>1 DEF Crash, BuildersUpToDate, CopiesTrue
<1>15. CASE UNCHANGED vars
  BY <1>0, <1>15 DEF vars, BuildersUpToDate, CopiesTrue, Building
<1> QED BY <1>1, <1>2, <1>3, <1>4, <1>5, <1>6, <1>7, <1>8, <1>9, <1>10, <1>11, <1>12,
           <1>13, <1>14, <1>15 DEF Step
-----------------------------------------------------------------------------
Stutter == UNCHANGED <<ConfigShown, Succeeded, crashes>>

LEMMA StutterAllowed == Stutter => [Register!Next]_(Register!register)
BY DEF Stutter, Register!register

LEMMA RegisterStep ==
  ASSUME TypeOK, IPlace, ICalm, Step, Calm, cur \notin crossed
  PROVE  [Register!Next]_(Register!register)
<1> USE StutterAllowed DEF TypeOK, IPlace
<1>0. /\ api = "idle" /\ BuildersUpToDate /\ CopiesTrue
      /\ "api" \notin environment /\ "disk" \notin environment
  BY DEF ICalm, Calm
<1>1. ConfigShown \in Config
  BY DEF ConfigShown
<1>2. ASSUME NEW u \in Update, Take(u) PROVE Stutter
  BY <1>2 DEF Take, Stutter, ConfigShown, Succeeded
<1>3. ASSUME NEW u \in Update, Resume(u) PROVE Stutter
  BY <1>3 DEF Resume, Stutter, ConfigShown, Succeeded
<1>4. CASE getReservations \/ ReadHostConfig
  BY <1>4 DEF getReservations, ReadHostConfig, Opens, Stutter, ConfigShown, Succeeded
<1>5. CASE ComputeHostConfig
  <2>1. Succeeded' = Succeeded /\ crashes' = crashes /\ cur \notin Succeeded /\ cur \in Update
    BY <1>5 DEF ComputeHostConfig, Succeeded
  <2>2. CASE ConfigShown' = ConfigShown
    BY <2>1, <2>2 DEF Stutter
  <2>3. CASE cur \in Resets /\ Default = Nothing /\ ConfigShown' = Generated
    BY <2>1, <2>3 DEF Register!Next, Register!Regenerate
  <2>4. \/ ConfigShown' = ConfigShown
        \/ cur \in Resets /\ Default = Nothing /\ ConfigShown' = Generated
    BY <1>5 DEF ComputeHostConfig, Opens, ConfigShown
  <2> QED BY <2>2, <2>3, <2>4
<1>6. CASE SetSystemDevices \/ DevicesSet \/ reloadAll
  BY <1>6 DEF SetSystemDevices, DevicesSet, reloadAll, Stutter, ConfigShown, Succeeded
<1>7. CASE setHostConfig
  BY <1>0, <1>7 DEF setHostConfig, Opens, CopiesTrue, Stutter, ConfigShown, Succeeded
<1>8. CASE CloseFile
  <2>1. file = Nothing /\ file' = Writing /\ cur \in Update
    BY <1>0, <1>8 DEF CloseFile, Closed, CopiesTrue, Open
  <2> QED BY <1>8, <2>1
       DEF CloseFile, AfterClosing, Open, Writing, Stutter, ConfigShown, Succeeded
<1>9. CASE Succeed
  <2>1. /\ cur \in Update \ Succeeded /\ Succeeded' = Succeeded \cup {cur}
        /\ ConfigShown' = (IF file \in Config THEN file ELSE Generated)
        /\ crashes' = crashes
    BY <1>9 DEF Succeed, End, Succeeded, ConfigShown
  <2>2. ConfigShown' = Result[cur][ConfigShown]
    <3>1. CASE cur \in Changing \cup Chutes
      BY <1>0, <1>9, <2>1, <3>1 DEF Succeed, CopiesTrue, ConfigShown
    <3>2. CASE cur \notin Changing \cup Chutes
      BY <1>1, <1>9, <2>1, <3>2 DEF Succeed, ConfigShown
    <3> QED BY <3>1, <3>2
  <2> QED BY <2>1, <2>2 DEF Register!Next, Register!Succeed
<1>10. CASE AbortReloads
  BY <1>0, <1>10 DEF AbortReloads, End, CopiesTrue, Stutter, ConfigShown, Succeeded
<1>11. CASE Raise
  <2>1. cur \in Update /\ UNCHANGED <<file, crashes>>
    BY <1>11 DEF Raise, Abort
  <2>2. CASE End("failure")
    BY <1>0, <1>11, <2>1, <2>2
       DEF Raise, Abort, End, CopiesTrue, Stutter, ConfigShown, Succeeded
  <2>3. CASE UNCHANGED <<status, cache, cur>> /\ pc' \in {"revert", "unload"}
    BY <1>0, <1>11, <2>1, <2>3
       DEF Raise, Abort, End, CopiesTrue, Stutter, ConfigShown, Succeeded
  <2> QED BY <1>11, <2>2, <2>3 DEF Raise, Abort
<1>12. CASE revertHostConfig
  BY <1>12 DEF revertHostConfig, Opens, Stutter, ConfigShown, Succeeded
<1>13. CASE DevicesNotSaved \/ WriteRaises \/ Generate \/ ApiOpens \/ ApiCloses \/ PdconfReloads
  BY <1>0, <1>13 DEF DevicesNotSaved, WriteRaises, Generate, ApiOpens, ApiCloses, PdconfReloads
<1>14. CASE Crash
  <2> DEFINE again == Succeeded \ Succeeded'
  <2>1. Succeeded' = Succeeded \ again /\ again \in SUBSET Update /\ crashes' = crashes + 1
    BY <1>14 DEF Crash, Restarted, Succeeded
  <2>2. ConfigShown' = (IF file \in Config THEN file ELSE Generated)
    BY <1>14 DEF Crash, ConfigShown
  <2>3. \/ file = ConfigShown \/ file \notin Config
        \/ /\ cur \in Update \ Succeeded
           /\ file = Result[cur][ConfigShown]
    BY <1>0 DEF CopiesTrue, ConfigShown, Succeeded, Open
  <2>4. ConfigShown' \in {ConfigShown, Generated}
                           \cup {Result[u][ConfigShown] : u \in Update \ Succeeded}
    BY <2>2, <2>3
  <2> QED BY <2>1, <2>4 DEF Register!Next, Register!Restart
<1>15. CASE UNCHANGED vars
  BY <1>15 DEF vars, Stutter, ConfigShown, Succeeded
<1> QED BY <1>2, <1>3, <1>4, <1>5, <1>6, <1>7, <1>8, <1>9, <1>10, <1>11, <1>12, <1>13,
           <1>14, <1>15 DEF Step

\* The host configuration implements the register: every step of every behaviour
\* without handlers that write and errors of the disk is one of the register's
\* or leaves it alone, but for those of a chute that another update has crossed.
THEOREM KeepsRegisterHolds == Spec => KeepsRegister
<1>1. Init => IPlace /\ ICalm
  BY DEF Init, IPlace, ICalm, Building, BuildersUpToDate, CopiesTrue, Open
<1>2. Init => (Calm => Register!Init)
  BY DEF Init, Register!Init, ConfigShown, Succeeded
<1>3. TypeOK /\ IPlace /\ ICalm /\ [Next]_vars
        => [Calm /\ cur \notin crossed => [Register!Next]_(Register!register)]_vars
  BY NextSteps, RegisterStep
<1> QED BY <1>1, <1>2, <1>3, TypeCorrect, PlaceStep, CalmStep, PTL DEF Spec, KeepsRegister
=============================================================================
