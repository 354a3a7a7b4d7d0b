------------------------- MODULE NetworkReservations -------------------------
(***************************************************************************)
(* The network resources of chutes: subnets, interface names and physical  *)
(* devices (core/config/network.py, core/config/reservations.py), and the  *)
(* chute storage they are read from (core/chute/chute_storage.py).         *)
(*                                                                         *)
(* No list of them is kept.  A chute update computes what the others use   *)
(* from the stored chutes, chooses its own interfaces against that view,   *)
(* may give up the update thread while its images are built, writes the    *)
(* interfaces to the configuration files of the host and saves the chute.  *)
(* The steps of the plan in between are those of ExecutionPlan; here one   *)
(* of them may fail at any point.  The configuration of the host does not  *)
(* change.                                                                 *)
(*                                                                         *)
(* The daemon may stop at any step.  What it then finds is the storage as  *)
(* last saved (lib/utils/pd_storage.py) and the configuration files, and   *)
(* it restarts the chutes that were running (core/chute/restart.py).       *)
(***************************************************************************)
EXTENDS Naturals, Sequences, FiniteSets

CONSTANTS
  Chute,
  Host,             \* RESERVED_CHUTE_NAME
  Update,           \* chute updates
  ChuteOf,          \* the chute of each
  KindOf,           \* create, update, start, stop, restart or delete
  BootRestart,      \* the restarts of reloadChutes among them
  Device,           \* wireless and LAN devices
  DeviceList,       \* in the order they are detected
  Wireless,         \* the wireless ones
  NoDevice,         \* of VLAN interfaces
  ApName,           \* names for virtual access point interfaces (vwlan0000 ...)
  Vlan,             \* names of VLAN interfaces (br-lan.1 ...)
  NoName,
  Block,            \* addresses: a subnet is a set of blocks
  Pool,             \* the subnets of the chute subnet pool, in order
  HostIfaces,       \* what the host configuration uses
  Request,          \* an interface that is asked for
  Wanted,           \* bound: the lists of interfaces each build may ask for
  MaxApInterfaces,  \* MAX_AP_INTERFACES
  Settings,         \* those to look at, of the values of setting below
  MaxCrashes,
  NoUpdate          \* no update, or no chute object

WifiModes == {"ap", "monitor", "sta", "airshark"}
Modes == WifiModes \cup {"lan", "vlan"}

Subnet == SUBSET Block

Iface ==
  [chute : Chute \cup {Host}, mode : Modes, device : Device \cup {NoDevice},
   name : ApName \cup Vlan \cup Device \cup {NoName}, subnet : Subnet]

ASSUME NetworkReservationsAssumption ==
  /\ IsFiniteSet(Chute)
  /\ Host \notin Chute
  /\ NoUpdate \notin Update
  /\ NoDevice \notin Device
  /\ NoName \notin ApName \cup Vlan \cup Device
  /\ ApName \cap Vlan = {}
  /\ Device \cap (ApName \cup Vlan) = {}
  /\ Wireless \subseteq Device
  /\ ChuteOf \in [Update -> Chute]
  /\ KindOf \in [Update -> {"create", "update", "start", "stop", "restart", "delete"}]
  /\ BootRestart \subseteq {u \in Update : KindOf[u] = "restart"}
  /\ IsFiniteSet(BootRestart)
  /\ \A u, v \in BootRestart : ChuteOf[u] = ChuteOf[v] => u = v
  /\ DeviceList \in Seq(Device)
  /\ Pool \in Seq(Subnet \ {{}})
  /\ HostIfaces \subseteq Iface
  /\ IsFiniteSet(HostIfaces)
  /\ \A i \in HostIfaces : i.chute = Host /\ (i.mode = "lan" => i.device \notin Wireless)
  \* network and fits: what ipv4_network and requests ask for, all of it if nothing.
  /\ Request \subseteq [mode : Modes, vlan : Vlan \cup {NoName}, network : Subnet,
                        fits : SUBSET Device]
  /\ \A r \in Request : r.mode = "vlan" => r.vlan \in Vlan
  /\ Wanted \in [Update -> SUBSET Seq(Request)]
  /\ MaxApInterfaces \in Nat
  /\ Settings \subseteq [concurrent : BOOLEAN, impatient : BOOLEAN, crashing : BOOLEAN]
  /\ MaxCrashes \in Nat

VARIABLES
  setting,     \* what never changes: concurrent, settings.CONCURRENT_BUILDS;
               \* impatient, clients send updates of a chute that has one pending;
               \* crashing, the daemon may stop
  chuteList,   \* ChuteStorage.chuteList: the object stored for a chute, named
               \* after the update that made it
  objects,     \* the chute objects
  disk,        \* both as last saved
  configured,  \* the interfaces in the UCI files that are marked with a chute
  queue,       \* updateQueue
  thread,      \* the update in the update thread
  stage,       \* how far each update is
  old,         \* update.old: the object stored when the update was made
  asks,        \* the interfaces its chute object, update.new, asks for
  view,        \* the reservations of others, as of its getReservations
  own,         \* the interfaces it has chosen
  booted,      \* the chutes to restart have been queued
  crashes,
  unsettled    \* history: chutes whose last update stopped half-way

storage == <<chuteList, objects, disk>>
choice == <<asks, view, own>>
life == <<booted, crashes>>
vars == <<setting, storage, configured, queue, thread, stage, old, choice, life, unsettled>>

ChuteObject == [running : BOOLEAN, asks : Seq(Request), networkInterfaces : SUBSET Iface]

Stages == {"new", "queued", "choosing", "building", "built", "written", "saved", "done"}

TypeOK ==
  /\ setting \in Settings
  /\ chuteList \in [Chute -> Update \cup {NoUpdate}]
  /\ objects \in [Update -> ChuteObject]
  /\ disk \in [chuteList : [Chute -> Update \cup {NoUpdate}], objects : [Update -> ChuteObject]]
  /\ configured \in [Chute -> SUBSET Iface]
  /\ queue \in Seq(Update)
  /\ thread \in Update \cup {NoUpdate}
  /\ stage \in [Update -> Stages]
  /\ old \in [Update -> Update \cup {NoUpdate}]
  /\ asks \in [Update -> Seq(Request)]
  /\ view \in [Update -> SUBSET Iface]
  /\ own \in [Update -> SUBSET Iface]
  /\ booted \in BOOLEAN
  /\ crashes \in 0 .. MaxCrashes
  /\ unsettled \subseteq Chute
-----------------------------------------------------------------------------
(* Choosing the resources of one interface, given the reserved ones. *)

\* Faulty variant: a subnet is in use only if the very same one is reserved.
SubnetReserved(subnet, reserved) == \E i \in reserved : i.subnet = subnet

\* SubnetReservationSet.__contains__: reserved subnets must not overlap it.
SubnetInUse(subnet, reserved) == \E i \in reserved : i.subnet \cap subnet # {}

\* The subnet asked for, if it is free, or the first free one of the pool.
chooseSubnet(r, reserved) ==
  IF r.network # {}
    THEN {n \in {r.network} : ~SubnetInUse(n, reserved)}
    ELSE {Pool[k] : k \in
            {k \in 1 .. Len(Pool) :
               /\ ~SubnetInUse(Pool[k], reserved)
               /\ \A j \in 1 .. (k - 1) : SubnetInUse(Pool[j], reserved)}}

Users(d, modes, reserved) == {i \in reserved : i.device = d /\ i.mode \in modes}

\* Faulty variant: an access point looks for access points only.
ApFitsAnywhere(d, reserved) == Cardinality(Users(d, {"ap"}, reserved)) < MaxApInterfaces

\* Access points share a device, though not with a monitor or a station.
ApFits(d, reserved) ==
  /\ Users(d, {"monitor", "sta"}, reserved) = {}
  /\ Cardinality(Users(d, {"ap"}, reserved)) < MaxApInterfaces

\* The devices fulfillDeviceRequest does not pass over.
Suitable(r, reserved) ==
  {d \in r.fits :
     /\ (d \in Wireless) <=> (r.mode \in WifiModes)
     /\ IF r.mode = "ap" THEN ApFits(d, reserved) ELSE Users(d, Modes, reserved) = {}}

\* It takes the first of them, for an access point the first of those with most
\* access points.
fulfillDeviceRequest(r, reserved) ==
  LET fit == {k \in 1 .. Len(DeviceList) : DeviceList[k] \in Suitable(r, reserved)}
      aps(k) == IF r.mode = "ap"
                  THEN Cardinality(Users(DeviceList[k], {"ap"}, reserved)) ELSE 0
  IN {DeviceList[k] : k \in
        {k \in fit : \A j \in fit : aps(j) < aps(k) \/ (aps(j) = aps(k) /\ k <= j)}}

\* Faulty variant: the VLAN is not looked up.
ExternalNamesUnchecked(r, d, reserved) ==
  CASE r.mode = "ap" -> {n \in ApName : \A i \in reserved : i.name # n}
    [] r.mode = "vlan" -> {r.vlan}
    [] OTHER -> {d}

\* The name of the interface in the host: for an access point a new one, which
\* one depends on a hash; otherwise that of the VLAN or of the device.
externalIntf(r, d, reserved) ==
  CASE r.mode = "ap" -> {n \in ApName : \A i \in reserved : i.name # n}
    [] r.mode = "vlan" -> {n \in {r.vlan} : \A i \in reserved : i.name # n}
    [] OTHER -> {d}

\* The interfaces getNetworkConfig may make of the request r of chute c.
Choices(c, r, reserved) ==
  {i \in [chute : {c}, mode : {r.mode}, device : Device \cup {NoDevice},
          name : ApName \cup Vlan \cup Device, subnet : chooseSubnet(r, reserved)] :
     /\ IF r.mode = "vlan" THEN i.device = NoDevice
                           ELSE i.device \in fulfillDeviceRequest(r, reserved)
     /\ i.name \in externalIntf(r, i.device, reserved)}
-----------------------------------------------------------------------------
NoObject == [running |-> FALSE, asks |-> <<>>, networkInterfaces |-> {}]

\* loadFromDisk: nothing has been saved, or what was is damaged and removed.
EmptyStorage == [chuteList |-> [c \in Chute |-> NoUpdate], objects |-> [u \in Update |-> NoObject]]

Init ==
  /\ setting \in Settings
  /\ chuteList = EmptyStorage.chuteList
  /\ objects = EmptyStorage.objects
  /\ disk = EmptyStorage
  /\ configured = [c \in Chute |-> {}]
  /\ queue = <<>>
  /\ thread = NoUpdate
  /\ stage = [u \in Update |-> "new"]
  /\ old = [u \in Update |-> NoUpdate]
  /\ asks = [u \in Update |-> <<>>]
  /\ view = [u \in Update |-> {}]
  /\ own = [u \in Update |-> {}]
  /\ booted = TRUE
  /\ crashes = 0
  /\ unsettled = {}

Stored(c) ==
  IF chuteList[c] = NoUpdate THEN {} ELSE objects[chuteList[c]].networkInterfaces

\* Faulty variant: the reservations of the host are left out.
ReservationsOfChutes(c) == UNION {Stored(d) : d \in Chute \ {c}}

\* getReservations: the host's and those of all stored chutes but c.
getReservations(c) == HostIfaces \cup UNION {Stored(d) : d \in Chute \ {c}}
-----------------------------------------------------------------------------
(* Making and queueing updates *)

Building(u) == KindOf[u] \in {"create", "update"}

\* What the new chute asks for.  A build reads it from the chute's files, at
\* load_chute_configuration; other updates rebuild the chute they find.
Asked(u) ==
  IF Building(u) THEN Wanted[u]
  ELSE IF chuteList[ChuteOf[u]] = NoUpdate THEN {<<>>}
  ELSE {objects[chuteList[ChuteOf[u]]].asks}

\* A client's update object is made and queued: it looks up the chute as it is now.
Enqueue(u) ==
  /\ u \notin BootRestart
  /\ stage[u] = "new"
  /\ \/ setting.impatient
     \/ booted /\ \A v \in Update : ChuteOf[v] = ChuteOf[u] => stage[v] \in {"new", "done"}
  /\ stage' = [stage EXCEPT ![u] = "queued"]
  /\ old' = [old EXCEPT ![u] = chuteList[ChuteOf[u]]]
  /\ \E list \in Asked(u) : asks' = [asks EXCEPT ![u] = list]
  /\ queue' = Append(queue, u)
  /\ UNCHANGED <<setting, storage, configured, thread, view, own, life, unsettled>>

\* The restarts reloadChutes may ask for: of the chutes that were running, but
\* not of those of which pdconfd failed to load a section.
Restarts ==
  SUBSET {u \in BootRestart :
            LET id == chuteList[ChuteOf[u]] IN id # NoUpdate /\ objects[id].running}

\* They are queued, in any order.
reloadChutes ==
  /\ ~booted
  /\ booted' = TRUE
  /\ \E restarts \in Restarts :
       /\ \E list \in [1 .. Cardinality(restarts) -> restarts] :
            /\ restarts = {list[k] : k \in DOMAIN list}
            /\ queue' = queue \o list
       /\ stage' = [u \in Update |-> IF u \in restarts THEN "queued" ELSE stage[u]]
       /\ old' = [u \in Update |-> IF u \in restarts THEN chuteList[ChuteOf[u]] ELSE old[u]]
  /\ UNCHANGED <<setting, storage, configured, thread, choice, crashes, unsettled>>

\* The update thread takes the next update.
Take(u) ==
  /\ booted
  /\ thread = NoUpdate
  /\ queue # <<>>
  /\ u = Head(queue)
  /\ queue' = Tail(queue)

\* The state a chute has after an update (NEW_CHUTE_STATE).
Running(u) == KindOf[u] \notin {"stop", "delete"}

\* validate_change, of the chute found when the update was made.
Valid(u) ==
  /\ KindOf[u] \in {"stop", "start", "delete", "restart"} => old[u] # NoUpdate
  /\ KindOf[u] = "create" => old[u] = NoUpdate
  /\ KindOf[u] = "start" => ~objects[old[u]].running
  /\ KindOf[u] = "stop" => objects[old[u]].running

\* The update ends; its object and cache are dropped.
End(u) ==
  /\ thread' = NoUpdate
  /\ stage' = [stage EXCEPT ![u] = "done"]
  /\ old' = [old EXCEPT ![u] = NoUpdate]
  /\ asks' = [asks EXCEPT ![u] = <<>>]
  /\ view' = [view EXCEPT ![u] = {}]
  /\ own' = [own EXCEPT ![u] = {}]

\* The update is not valid, for example as its version is too low, or a step before
\* getNetworkConfig raises.
Reject(u) ==
  /\ stage[u] = "queued"
  /\ Take(u)
  /\ End(u)
  /\ UNCHANGED <<setting, storage, configured, life, unsettled>>
-----------------------------------------------------------------------------
(* The steps of a plan *)

\* The restarts at boot work on the stored object itself: setCache is seen at once.
SetCache(u, ifaces) ==
  IF u \in BootRestart
    THEN objects' = [objects EXCEPT ![old[u]].networkInterfaces = ifaces]
    ELSE UNCHANGED objects

\* The first steps of the plan, up to getReservations and the start of getNetworkConfig.
Begin(u) ==
  /\ stage[u] = "queued"
  /\ Take(u)
  /\ Valid(u)
  /\ thread' = u
  /\ stage' = [stage EXCEPT ![u] = "choosing"]
  /\ view' = [view EXCEPT ![u] = getReservations(ChuteOf[u])]
  /\ SetCache(u, {})
  /\ unsettled' = IF u \in BootRestart THEN unsettled \cup {ChuteOf[u]} ELSE unsettled
  /\ UNCHANGED <<setting, chuteList, disk, configured, old, asks, own, life>>

\* The chute of the update, update.new.
Asks(u) == IF u \in BootRestart THEN objects[old[u]].asks ELSE asks[u]

\* Only a chute that will be running gets interfaces.
Missing(u) == Running(u) /\ Cardinality(own[u]) < Len(Asks(u))

\* getNetworkConfig chooses the next interface; what it takes is added to the
\* reservations the update looks at.
Choose(u) ==
  /\ thread = u
  /\ stage[u] = "choosing"
  /\ Missing(u)
  /\ \E i \in Choices(ChuteOf[u], Asks(u)[Cardinality(own[u]) + 1], view[u] \cup own[u]) :
       /\ own' = [own EXCEPT ![u] = @ \cup {i}]
       /\ SetCache(u, own[u] \cup {i})
  /\ UNCHANGED <<setting, chuteList, disk, configured, queue, thread, stage, old, asks, view,
                 life, unsettled>>

Yields(u) == setting.concurrent /\ Building(u)

\* prepare_image returns a Deferred: the update thread is free for others.
Yield(u) ==
  /\ thread = u
  /\ stage[u] = "choosing"
  /\ ~Missing(u)
  /\ Yields(u)
  /\ thread' = NoUpdate
  /\ stage' = [stage EXCEPT ![u] = "building"]
  /\ UNCHANGED <<setting, storage, configured, queue, old, choice, life, unsettled>>

\* The build has ended: resume() appends the update to the queue.
Resume(u) ==
  /\ stage[u] = "building"
  /\ stage' = [stage EXCEPT ![u] = "built"]
  /\ queue' = Append(queue, u)
  /\ UNCHANGED <<setting, storage, configured, thread, old, choice, life, unsettled>>

\* The update thread takes it up again.
Continue(u) ==
  /\ stage[u] = "built"
  /\ Take(u)
  /\ thread' = u
  /\ UNCHANGED <<setting, storage, configured, stage, old, choice, life, unsettled>>

\* Where the update has all it needs for the configuration files.
Ready(u) ==
  \/ stage[u] = "built"
  \/ stage[u] = "choosing" /\ ~Missing(u) /\ ~Yields(u)

\* Faulty variant: the sections are marked with the update, not with the chute.
SetConfigOfUpdate(u) ==
  /\ thread = u
  /\ Ready(u)
  /\ configured' = [c \in DOMAIN configured \cup {u} |-> IF c = u THEN own[u] ELSE configured[c]]
  /\ stage' = [stage EXCEPT ![u] = "written"]
  /\ UNCHANGED <<setting, storage, queue, thread, old, choice, life, unsettled>>

\* setConfig replaces the sections of the chute in the configuration files.
SetConfig(u) ==
  /\ thread = u
  /\ Ready(u)
  /\ configured' = [configured EXCEPT ![ChuteOf[u]] = own[u]]
  /\ stage' = [stage EXCEPT ![u] = "written"]
  /\ unsettled' = unsettled \cup {ChuteOf[u]}
  /\ UNCHANGED <<setting, storage, queue, thread, old, choice, life>>

\* Faulty variant: the storage is saved by a timer, not when it is changed.
SaveLater == UNCHANGED disk

\* saveToDisk.
SaveToDisk == disk' = [chuteList |-> chuteList', objects |-> objects']

\* ChuteStorage.saveChute: an object that is there already takes over what the
\* new one contains.
Store(c, id, obj) ==
  /\ IF chuteList[c] = NoUpdate
       THEN /\ chuteList' = [chuteList EXCEPT ![c] = id]
            /\ objects' = [objects EXCEPT ![id] = obj]
       ELSE /\ objects' = [objects EXCEPT ![chuteList[c]] = obj]
            /\ UNCHANGED chuteList
  /\ SaveToDisk

\* ChuteStorage.deleteChute raises for a chute that is not stored.
Unstore(c) ==
  /\ chuteList[c] # NoUpdate
  /\ chuteList' = [chuteList EXCEPT ![c] = NoUpdate]
  /\ UNCHANGED objects
  /\ SaveToDisk

\* update.new is stored, which at boot is the stored object itself.
StoreNew(u) ==
  IF u \in BootRestart
    THEN Store(ChuteOf[u], old[u], objects[old[u]])
    ELSE Store(ChuteOf[u], u,
               [running |-> Running(u), asks |-> asks[u], networkInterfaces |-> own[u]])

\* setup_net_interfaces knows no station and airshark interfaces and raises.
NetStarts(u) == \A i \in own[u] : i.mode \notin {"sta", "airshark"}

\* state.saveChute, after setup_net_interfaces.
SaveChute(u) ==
  /\ thread = u
  /\ stage[u] = "written"
  /\ NetStarts(u)
  /\ IF KindOf[u] = "delete" THEN Unstore(ChuteOf[u]) ELSE StoreNew(u)
  /\ stage' = [stage EXCEPT ![u] = "saved"]
  /\ unsettled' = unsettled \ {ChuteOf[u]}
  /\ UNCHANGED <<setting, configured, queue, thread, old, choice, life>>

Succeed(u) ==
  /\ thread = u
  /\ stage[u] = "saved"
  /\ End(u)
  /\ UNCHANGED <<setting, storage, configured, queue, life, unsettled>>

\* A step before or in saveChute raises, for example because no device is left
\* or the image was not built.  Reverting the configuration files writes them
\* once more from the same update: whatever was written stays.
FailUnsaved(u) ==
  /\ thread = u
  /\ stage[u] \in {"choosing", "built", "written"}
  /\ End(u)
  /\ UNCHANGED <<setting, storage, configured, queue, life, unsettled>>

\* A step after saveChute raises and revertChute is called.  Where update.old is
\* still the stored object, saving it changes nothing.
FailSaved(u) ==
  /\ thread = u
  /\ stage[u] = "saved"
  /\ IF old[u] = NoUpdate THEN Unstore(ChuteOf[u])
                          ELSE Store(ChuteOf[u], old[u], objects[old[u]])
  /\ unsettled' = IF old[u] \notin Update \/ chuteList[ChuteOf[u]] # old[u]
                    THEN unsettled \cup {ChuteOf[u]} ELSE unsettled
  /\ End(u)
  /\ UNCHANGED <<setting, configured, queue, life>>
-----------------------------------------------------------------------------
\* Where the storage is being saved: its file is emptied first.
Saving ==
  \E u \in Update :
    /\ thread = u
    /\ stage[u] = "saved" \/ (stage[u] = "written" /\ NetStarts(u))

\* The daemon stops and starts again with what was saved; updates that were
\* queued or under way are lost.
Crash ==
  /\ setting.crashing
  /\ crashes < MaxCrashes
  /\ crashes' = crashes + 1
  /\ booted' = FALSE
  /\ queue' = <<>>
  /\ thread' = NoUpdate
  /\ stage' = [u \in Update |-> IF stage[u] = "new" THEN "new" ELSE "done"]
  /\ old' = [u \in Update |-> NoUpdate]
  /\ asks' = [u \in Update |-> <<>>]
  /\ view' = [u \in Update |-> {}]
  /\ own' = [u \in Update |-> {}]
  /\ \/ /\ disk' = disk
        /\ UNCHANGED unsettled
     \/ /\ Saving
        /\ disk' = EmptyStorage
        /\ unsettled' = Chute
  /\ chuteList' = disk'.chuteList
  /\ objects' = disk'.objects
  /\ UNCHANGED <<setting, configured>>

Next ==
  \/ \E u \in Update :
       \/ Enqueue(u) \/ Reject(u) \/ Begin(u) \/ Choose(u)
       \/ Yield(u) \/ Resume(u) \/ Continue(u)
       \/ SetConfig(u) \/ SaveChute(u) \/ Succeed(u)
       \/ FailUnsaved(u) \/ FailSaved(u)
  \/ Crash \/ reloadChutes

Spec == Init /\ [][Next]_vars
-----------------------------------------------------------------------------
\* Every interface in use.
InUse == HostIfaces \cup UNION {Stored(c) : c \in Chute}

\* Two interfaces that are not both the host's.
Pairs == {p \in InUse \X InUse : p[1] # p[2] /\ p[1].chute # Host}

\* Updates of the chutes neither overlap nor are made ahead of one another.
OneByOne == ~setting.concurrent /\ ~setting.impatient

\* One by one, no two interfaces get overlapping subnets (chooseSubnet), and
\* virtual ones get names of their own (chooseExternalIntf, getNetworkConfigVlan),
\* in whatever order chutes are installed, changed, stopped and deleted and
\* wherever that fails.
InterfacesApart ==
  OneByOne =>
    \A p \in Pairs : /\ p[1].subnet \cap p[2].subnet = {}
                     /\ p[1].mode \in {"ap", "vlan"} => p[1].name # p[2].name

\* A device in monitor or station mode, or a LAN port, has one user.
OneUser ==
  \A p \in Pairs :
    p[1].device = p[2].device /\ p[1].device # NoDevice
      => {p[1].mode, p[2].mode} \cap {"monitor", "sta", "lan"} = {}

\* No device has more access points than it can carry.
ApLimit ==
  \A d \in Wireless :
    LET aps == Users(d, {"ap"}, InUse)
    IN Cardinality(aps) <= MaxApInterfaces \/ aps \subseteq HostIfaces

\* One by one, every device carries what it can, whatever was reserved and
\* released before (fulfillDeviceRequest).
DevicesExclusive == OneByOne => OneUser /\ ApLimit

\* A chute's interfaces do not clash with the host's or with each other: they all
\* come from one update.
Sound(c) ==
  \A i \in Stored(c), j \in Stored(c) \cup HostIfaces :
    i # j => /\ i.subnet \cap j.subnet = {}
             /\ i.mode \in {"ap", "vlan"} => i.name # j.name
             /\ i.device = j.device /\ i.device # NoDevice
                  => {i.mode, j.mode} \cap {"monitor", "sta", "lan"} = {}

\* With any setting, and whenever the daemon stopped, a chute is sound, and what is
\* stored of it is what the configuration files have of it, unless its last update
\* stopped between writing one and saving the other (or failed after both) or the
\* storage was lost.
ChuteConsistent ==
  \A c \in Chute : Sound(c) /\ (c \notin unsettled => configured[c] = Stored(c))
-----------------------------------------------------------------------------
\* "Prevent multiple chutes from using the same VLAN" (getNetworkConfigVlan).
VlanOfOneChute ==
  \A i, j \in InUse : i.mode = "vlan" /\ j.mode = "vlan" /\ i.name = j.name => i.chute = j.chute
=============================================================================
