---------------------- MODULE NetworkReservationsProofs ----------------------
(***************************************************************************)
(* Proofs about NetworkReservations for every set of chutes, updates,      *)
(* devices and subnets, any configuration of the host that does not put a  *)
(* wireless device on its LAN, and any number of crashes.                  *)
(***************************************************************************)
EXTENDS NetworkReservations, TLAPS, FiniteSetTheorems, SequenceTheorems

\* What two interfaces that are both in use must not share.
Apart(i, j) ==
  /\ i.subnet \cap j.subnet = {}
  /\ i.mode \in {"ap", "vlan"} => i.name # j.name
  /\ i.device = j.device /\ i.device # NoDevice
       => {i.mode, j.mode} \cap {"monitor", "sta", "lan"} = {}

\* The device and the name an interface has by its mode.
Shaped(i) ==
  /\ i.mode = "lan" => i.device \notin Wireless
  /\ i.chute # Host =>
       /\ i.mode = "ap" => i.name \in ApName
       /\ i.mode = "vlan" => i.name \in Vlan
       /\ i.mode \notin {"ap", "vlan"} => i.name \in Device

ApsFit(R) ==
  \A d \in Wireless :
    \/ Cardinality(Users(d, {"ap"}, R)) <= MaxApInterfaces
    \/ Users(d, {"ap"}, R) \subseteq HostIfaces

\* Interfaces that may be in use together.
Fine(R) ==
  /\ R \subseteq Iface
  /\ IsFiniteSet(R)
  /\ \A i \in R : Shaped(i)
  /\ \A i, j \in R : i # j /\ i.chute # Host => Apart(i, j)
  /\ ApsFit(R)

\* What the host uses is fine.
LEMMA FineHost == Fine(HostIfaces)
<1>1. \A d \in Wireless : Users(d, {"ap"}, HostIfaces) \subseteq HostIfaces
  BY DEF Users
<1> QED BY <1>1, NetworkReservationsAssumption DEF Fine, Shaped, ApsFit

\* Part of what is fine is fine: giving up interfaces does no harm.
LEMMA FineSubset ==
  ASSUME NEW R, Fine(R), NEW S \in SUBSET R
  PROVE  Fine(S)
<1>1. IsFiniteSet(S)
  BY FS_Subset DEF Fine
<1>2. ASSUME NEW d \in Wireless
      PROVE  \/ Cardinality(Users(d, {"ap"}, S)) <= MaxApInterfaces
             \/ Users(d, {"ap"}, S) \subseteq HostIfaces
  <2>1. Users(d, {"ap"}, S) \in SUBSET Users(d, {"ap"}, R) /\ Users(d, {"ap"}, R) \in SUBSET R
    BY DEF Users
  <2>2. IsFiniteSet(Users(d, {"ap"}, R))
    BY <2>1, FS_Subset DEF Fine
  <2>3. /\ Cardinality(Users(d, {"ap"}, S)) <= Cardinality(Users(d, {"ap"}, R))
        /\ IsFiniteSet(Users(d, {"ap"}, S))
    BY <2>1, <2>2, FS_Subset
  <2>4. Cardinality(Users(d, {"ap"}, S)) \in Nat /\ Cardinality(Users(d, {"ap"}, R)) \in Nat
    BY <2>2, <2>3, FS_CardinalityType
  <2>5. CASE Users(d, {"ap"}, R) \subseteq HostIfaces
    BY <2>1, <2>5
  <2>6. CASE Cardinality(Users(d, {"ap"}, R)) <= MaxApInterfaces
    BY <2>3, <2>4, <2>6, NetworkReservationsAssumption
  <2> QED BY <2>5, <2>6 DEF Fine, ApsFit
<1> QED BY <1>1, <1>2 DEF Fine, ApsFit

\* A device that is taken is one of those which fulfillDeviceRequest does not pass over.
LEMMA DeviceSuitable ==
  ASSUME NEW r, NEW reserved, NEW d \in fulfillDeviceRequest(r, reserved)
  PROVE  d \in Suitable(r, reserved)
BY DEF fulfillDeviceRequest

\* The subnet that is taken overlaps no reserved one.
LEMMA SubnetFree ==
  ASSUME NEW r \in Request, NEW reserved, NEW n \in chooseSubnet(r, reserved)
  PROVE  n \in Subnet /\ \A j \in reserved : j.subnet \cap n = {}
<1>1. ~SubnetInUse(n, reserved) /\ n \in Subnet
  <2>1. CASE r.network # {}
    BY <2>1, NetworkReservationsAssumption DEF chooseSubnet
  <2>2. CASE r.network = {}
    <3>1. PICK k \in 1 .. Len(Pool) : n = Pool[k] /\ ~SubnetInUse(Pool[k], reserved)
      BY <2>2 DEF chooseSubnet
    <3>2. Pool[k] \in Subnet
      BY ElementOfSeq, NetworkReservationsAssumption
    <3> QED BY <3>1, <3>2
  <2> QED BY <2>1, <2>2
<1> QED BY <1>1 DEF SubnetInUse

\* What getNetworkConfig makes of a request, given the reserved interfaces.
LEMMA ChoiceFacts ==
  ASSUME NEW c \in Chute, NEW r \in Request, NEW R, R \subseteq Iface,
         NEW i \in Choices(c, r, R)
  PROVE  /\ i \in Iface
         /\ i.chute = c /\ i.mode = r.mode
         /\ \A j \in R : j.subnet \cap i.subnet = {}
         /\ i.mode \in {"ap", "vlan"} => \A j \in R : j.name # i.name
         /\ i.mode = "vlan" => i.device = NoDevice
         /\ i.mode # "vlan" => i.device \in Suitable(r, R)
         /\ i.mode = "ap" => i.name \in ApName
         /\ i.mode = "vlan" => i.name \in Vlan
         /\ i.mode \notin {"ap", "vlan"} => i.name = i.device
<1>1. /\ i \in [chute : {c}, mode : {r.mode}, device : Device \cup {NoDevice},
                name : ApName \cup Vlan \cup Device, subnet : chooseSubnet(r, R)]
      /\ IF r.mode = "vlan" THEN i.device = NoDevice
                            ELSE i.device \in fulfillDeviceRequest(r, R)
      /\ i.name \in externalIntf(r, i.device, R)
  BY DEF Choices
<1>2. i.chute = c /\ i.mode = r.mode /\ i.subnet \in chooseSubnet(r, R)
  BY <1>1
<1>3. i.subnet \in Subnet /\ \A j \in R : j.subnet \cap i.subnet = {}
  BY <1>2, SubnetFree
<1>4. r.mode \in Modes
  BY NetworkReservationsAssumption
<1>5. i \in Iface
  BY <1>1, <1>3, <1>4 DEF Iface
<1>6. i.mode # "vlan" => i.device \in Suitable(r, R)
  BY <1>1, <1>2, DeviceSuitable
<1>7. CASE r.mode = "ap"
  <2>1. i.name \in {n \in ApName : \A j \in R : j.name # n}
    BY <1>1, <1>7 DEF externalIntf
  <2> QED BY <1>2, <1>3, <1>5, <1>6, <1>7, <2>1
<1>8. CASE r.mode = "vlan"
  <2>1. i.name \in {n \in {r.vlan} : \A j \in R : j.name # n}
    BY <1>1, <1>8 DEF externalIntf
  <2>2. r.vlan \in Vlan
    BY <1>8, NetworkReservationsAssumption
  <2> QED BY <1>1, <1>2, <1>3, <1>5, <1>6, <1>8, <2>1, <2>2
<1>9. CASE r.mode \notin {"ap", "vlan"}
  <2>1. i.name \in {i.device}
    BY <1>1, <1>9 DEF externalIntf
  <2> QED BY <1>2, <1>3, <1>5, <1>6, <1>9, <2>1
<1> QED BY <1>7, <1>8, <1>9

\* A new interface is apart from the reserved ones, seen from either side.
LEMMA ChoiceApart ==
  ASSUME NEW c \in Chute, NEW r \in Request, NEW R, R \subseteq Iface,
         NEW i \in Choices(c, r, R),
         NEW j \in R, Shaped(j)
  PROVE  Shaped(i) /\ Apart(i, j) /\ (j.chute # Host => Apart(j, i))
<1>1. /\ i \in Iface /\ j \in Iface
      /\ i.chute = c /\ i.mode = r.mode
      /\ j.subnet \cap i.subnet = {}
      /\ i.mode \in {"ap", "vlan"} => j.name # i.name
      /\ i.mode = "vlan" => i.device = NoDevice
      /\ i.mode # "vlan" => i.device \in Suitable(r, R)
      /\ i.mode = "ap" => i.name \in ApName
      /\ i.mode = "vlan" => i.name \in Vlan
      /\ i.mode \notin {"ap", "vlan"} => i.name = i.device
  BY ChoiceFacts
<1>2. i.mode # "vlan" => /\ i.device \in Device
                         /\ i.device \in Wireless <=> i.mode \in WifiModes
                         /\ IF i.mode = "ap" THEN ApFits(i.device, R)
                                             ELSE Users(i.device, Modes, R) = {}
  BY <1>1, NetworkReservationsAssumption DEF Suitable
<1>3. Shaped(i)
  BY <1>1, <1>2, NetworkReservationsAssumption DEF Shaped, WifiModes
<1>4. i.device = j.device /\ i.device # NoDevice
        => {i.mode, j.mode} \cap {"monitor", "sta", "lan"} = {}
  <2> SUFFICES ASSUME i.device = j.device, i.device # NoDevice
               PROVE  {i.mode, j.mode} \cap {"monitor", "sta", "lan"} = {}
    OBVIOUS
  <2>1. i.mode # "vlan" /\ j.mode \in Modes
    BY <1>1 DEF Iface
  <2>2. CASE i.mode = "ap"
    <3>1. Users(i.device, {"monitor", "sta"}, R) = {}
      BY <1>2, <2>1, <2>2 DEF ApFits
    <3>2. j.mode \notin {"monitor", "sta"}
      BY <3>1 DEF Users
    <3>3. j.mode # "lan"
      BY <1>2, <2>1, <2>2 DEF Shaped, WifiModes
    <3> QED BY <2>2, <3>2, <3>3
  <2>3. CASE i.mode # "ap"
    BY <1>2, <2>1, <2>3 DEF Users
  <2> QED BY <2>2, <2>3
<1>5. j.chute # Host /\ j.mode \in {"ap", "vlan"} => j.name # i.name
  BY <1>1, <1>2, NetworkReservationsAssumption DEF Shaped
<1> QED BY <1>1, <1>3, <1>4, <1>5 DEF Apart

\* What is chosen against all reservations fits in with a part of them.
LEMMA FineChoice ==
  ASSUME NEW c \in Chute, NEW r \in Request,
         NEW R, R \subseteq Iface, IsFiniteSet(R), \A j \in R : Shaped(j),
         NEW S \in SUBSET R, Fine(S),
         NEW i \in Choices(c, r, R), HostIfaces \subseteq S
  PROVE  Fine(S \cup {i})
<1>1. i \in Iface /\ i.chute = c /\ c # Host /\ i.mode = r.mode
  BY ChoiceFacts, NetworkReservationsAssumption
<1>2. Shaped(i)
  <2>1. i.mode = "ap" => i.name \in ApName
    BY ChoiceFacts
  <2>2. i.mode = "vlan" => i.name \in Vlan
    BY ChoiceFacts
  <2>3. i.mode \notin {"ap", "vlan"} => i.name = i.device /\ i.device \in Suitable(r, R)
    BY ChoiceFacts
  <2>4. i.mode \notin {"ap", "vlan"} => i.name \in Device
    BY <2>3, NetworkReservationsAssumption DEF Suitable
  <2>5. i.mode = "lan" => i.device \notin Wireless
    BY <1>1, <2>3, NetworkReservationsAssumption DEF Suitable, WifiModes
  <2> QED BY <2>1, <2>2, <2>4, <2>5 DEF Shaped
<1>3. \A j \in S : Apart(i, j) /\ (j.chute # Host => Apart(j, i))
  BY ChoiceApart
<1>4. IsFiniteSet(S) /\ IsFiniteSet(S \cup {i})
  BY FS_AddElement DEF Fine
<1>5. ASSUME NEW d \in Wireless
      PROVE  \/ Cardinality(Users(d, {"ap"}, S \cup {i})) <= MaxApInterfaces
             \/ Users(d, {"ap"}, S \cup {i}) \subseteq HostIfaces
  <2>1. CASE i.mode = "ap" /\ i.device = d
    <3>1. i.device \in Suitable(r, R)
      BY <2>1, ChoiceFacts
    <3>2. Cardinality(Users(d, {"ap"}, R)) < MaxApInterfaces
      BY <1>1, <2>1, <3>1 DEF Suitable, ApFits
    <3>3. Users(d, {"ap"}, S) \in SUBSET Users(d, {"ap"}, R) /\ Users(d, {"ap"}, R) \in SUBSET R
      BY DEF Users
    <3>4. IsFiniteSet(Users(d, {"ap"}, R))
      BY <3>3, FS_Subset
    <3>5. /\ IsFiniteSet(Users(d, {"ap"}, S))
          /\ Cardinality(Users(d, {"ap"}, S)) <= Cardinality(Users(d, {"ap"}, R))
      BY <3>3, <3>4, FS_Subset
    <3>6. Users(d, {"ap"}, S \cup {i}) = Users(d, {"ap"}, S) \cup {i}
      BY <2>1 DEF Users
    <3>7. Cardinality(Users(d, {"ap"}, S)) \in Nat /\ Cardinality(Users(d, {"ap"}, R)) \in Nat
      BY <3>4, <3>5, FS_CardinalityType
    <3>8. Cardinality(Users(d, {"ap"}, S) \cup {i})
            \in {Cardinality(Users(d, {"ap"}, S)), Cardinality(Users(d, {"ap"}, S)) + 1}
      BY <3>5, FS_AddElement
    <3>9. MaxApInterfaces \in Nat
      BY NetworkReservationsAssumption
    <3>10. Cardinality(Users(d, {"ap"}, S)) + 1 <= MaxApInterfaces
      BY <3>2, <3>5, <3>7, <3>9
    <3>11. Cardinality(Users(d, {"ap"}, S) \cup {i}) <= MaxApInterfaces
      BY <3>7, <3>8, <3>9, <3>10
    <3> QED BY <3>6, <3>11
  <2>2. CASE ~(i.mode = "ap" /\ i.device = d)
    <3>1. Users(d, {"ap"}, S \cup {i}) = Users(d, {"ap"}, S)
      BY <2>2 DEF Users
    <3> QED BY <3>1 DEF Fine, ApsFit
  <2> QED BY <2>1, <2>2
<1>6. ASSUME NEW j \in S \cup {i}, NEW k \in S \cup {i}, j # k, j.chute # Host
      PROVE  Apart(j, k)
  BY <1>3, <1>6 DEF Fine
<1> QED BY <1>1, <1>2, <1>4, <1>5, <1>6 DEF Fine, ApsFit
-----------------------------------------------------------------------------
(* Types *)

\* Only the update in the thread chooses, writes and saves.
ThreadStages ==
  \A u \in Update : stage[u] \in {"choosing", "written", "saved"} => thread = u

\* A restart at boot has the object it works on.
BootOld ==
  \A u \in BootRestart :
    stage[u] \in {"choosing", "building", "built", "written"} => old[u] \in Update

Sized == \A u \in Update : IsFiniteSet(own[u])

Typed == TypeOK /\ ThreadStages /\ BootOld /\ Sized

\* What saveChute makes of the storage, whether the chute was there or not.
LEMMA StoreForm ==
  ASSUME TypeOK, NEW c \in Chute, NEW id \in Update, NEW obj \in ChuteObject,
         Store(c, id, obj)
  PROVE  \E x \in Update :
           /\ x = IF chuteList[c] = NoUpdate THEN id ELSE chuteList[c]
           /\ chuteList' = [chuteList EXCEPT ![c] = x]
           /\ objects' = [objects EXCEPT ![x] = obj]
           /\ disk' = [chuteList |-> chuteList', objects |-> objects']
<1>1. CASE chuteList[c] = NoUpdate
  BY <1>1 DEF Store, SaveToDisk, TypeOK
<1>2. CASE chuteList[c] # NoUpdate
  <2>1. chuteList[c] \in Update /\ chuteList' = [chuteList EXCEPT ![c] = chuteList[c]]
    BY <1>2 DEF Store, TypeOK
  <2> QED BY <1>2, <2>1 DEF Store, SaveToDisk
<1> QED BY <1>1, <1>2

\* Saving keeps the types.
LEMMA StoreTypes ==
  ASSUME TypeOK, NEW c \in Chute, NEW id \in Update, NEW obj \in ChuteObject,
         Store(c, id, obj)
  PROVE  /\ chuteList' \in [Chute -> Update \cup {NoUpdate}]
         /\ objects' \in [Update -> ChuteObject]
         /\ disk' \in [chuteList : [Chute -> Update \cup {NoUpdate}],
                       objects : [Update -> ChuteObject]]
<1>1. PICK x \in Update :
        /\ chuteList' = [chuteList EXCEPT ![c] = x]
        /\ objects' = [objects EXCEPT ![x] = obj]
        /\ disk' = [chuteList |-> chuteList', objects |-> objects']
  BY StoreForm
<1>2. chuteList \in [Chute -> Update \cup {NoUpdate}] /\ objects \in [Update -> ChuteObject]
  BY DEF TypeOK
<1>3. chuteList' \in [Chute -> Update \cup {NoUpdate}] /\ objects' \in [Update -> ChuteObject]
  BY <1>1, <1>2
<1> QED BY <1>1, <1>3

\* So does removing a chute.
LEMMA UnstoreTypes ==
  ASSUME TypeOK, NEW c \in Chute, Unstore(c)
  PROVE  /\ chuteList' \in [Chute -> Update \cup {NoUpdate}]
         /\ objects' \in [Update -> ChuteObject]
         /\ disk' \in [chuteList : [Chute -> Update \cup {NoUpdate}],
                       objects : [Update -> ChuteObject]]
BY DEF Unstore, SaveToDisk, TypeOK

\* A new chute object is one.
LEMMA NewObjectType ==
  ASSUME TypeOK, BootOld, NEW u \in Update, stage[u] = "written", StoreNew(u)
  PROVE  \E id \in Update, obj \in ChuteObject :
           /\ Store(ChuteOf[u], id, obj)
           /\ u \in BootRestart => id = old[u] /\ obj = objects[old[u]]
           /\ u \notin BootRestart => id = u /\ obj.networkInterfaces = own[u]
<1>1. CASE u \in BootRestart
  BY <1>1 DEF StoreNew, BootOld, TypeOK
<1>2. CASE u \notin BootRestart
  <2>1. [running |-> Running(u), asks |-> asks[u], networkInterfaces |-> own[u]] \in ChuteObject
    BY DEF TypeOK, ChuteObject, Running
  <2> QED BY <1>2, <2>1 DEF StoreNew
<1> QED BY <1>1, <1>2

\* Taking an update from the queue.
LEMMA TakeTypes ==
  ASSUME TypeOK, NEW u \in Update, Take(u)
  PROVE  queue' \in Seq(Update) /\ thread = NoUpdate
BY HeadTailProperties DEF Take, TypeOK

\* Ending one.
LEMMA EndTypes ==
  ASSUME Typed, NEW u \in Update, End(u), thread \in {u, NoUpdate},
         UNCHANGED <<setting, configured, life>>,
         queue' \in Seq(Update), unsettled' \in SUBSET Chute,
         chuteList' \in [Chute -> Update \cup {NoUpdate}],
         objects' \in [Update -> ChuteObject],
         disk' \in [chuteList : [Chute -> Update \cup {NoUpdate}],
                    objects : [Update -> ChuteObject]]
  PROVE  Typed'
<1>1. TypeOK'
  <2>1. asks' \in [Update -> Seq(Request)]
    BY EmptySeq DEF Typed, TypeOK, End
  <2>2. stage' \in [Update -> Stages]
    BY DEF Typed, TypeOK, End, Stages
  <2> QED BY <2>1, <2>2 DEF Typed, TypeOK, End, life
<1>2. ThreadStages'
  BY NetworkReservationsAssumption DEF Typed, TypeOK, ThreadStages, End
<1>3. BootOld'
  BY NetworkReservationsAssumption DEF Typed, TypeOK, BootOld, End
<1>4. Sized'
  BY FS_EmptySet DEF Typed, TypeOK, Sized, End
<1> QED BY <1>1, <1>2, <1>3, <1>4 DEF Typed

\* Initially everything is typed.
LEMMA InitTyped == Init => Typed
<1> SUFFICES ASSUME Init PROVE Typed
  OBVIOUS
<1>1. <<>> \in Seq(Request) /\ <<>> \in Seq(Update)
  BY EmptySeq
<1>2. NoObject \in ChuteObject
  BY <1>1 DEF NoObject, ChuteObject
<1>3. /\ chuteList \in [Chute -> Update \cup {NoUpdate}] /\ objects \in [Update -> ChuteObject]
      /\ disk \in [chuteList : [Chute -> Update \cup {NoUpdate}], objects : [Update -> ChuteObject]]
  BY <1>2 DEF Init, EmptyStorage
<1>4. TypeOK
  BY <1>1, <1>3, NetworkReservationsAssumption DEF Init, TypeOK, Stages
<1>5. ThreadStages /\ BootOld
  BY NetworkReservationsAssumption DEF Init, ThreadStages, BootOld
<1>6. Sized
  BY FS_EmptySet DEF Init, Sized
<1> QED BY <1>4, <1>5, <1>6 DEF Typed

\* The cache of the stored object: its interfaces are set, the rest stays.
LEMMA SetCacheTypes ==
  ASSUME TypeOK, NEW u \in Update, NEW ifaces \in SUBSET Iface, SetCache(u, ifaces)
  PROVE  objects' \in [Update -> ChuteObject]
<1>1. CASE u \in BootRestart
  <2>1. objects' = [objects EXCEPT ![old[u]] = [@ EXCEPT !.networkInterfaces = ifaces]]
    BY <1>1 DEF SetCache
  <2>2. \A x \in Update :
          [objects[x] EXCEPT !.networkInterfaces = ifaces] \in ChuteObject
    BY DEF TypeOK, ChuteObject
  <2> QED BY <2>1, <2>2 DEF TypeOK
<1>2. CASE u \notin BootRestart
  BY <1>2 DEF TypeOK, SetCache
<1> QED BY <1>1, <1>2

\* The next request of the update in the thread.
LEMMA NextRequest ==
  ASSUME Typed, NEW u \in Update, stage[u] = "choosing", Missing(u)
  PROVE  Asks(u)[Cardinality(own[u]) + 1] \in Request
<1>1. Asks(u) \in Seq(Request)
  BY DEF Typed, TypeOK, BootOld, Asks, ChuteObject
<1>2. Cardinality(own[u]) \in Nat /\ Len(Asks(u)) \in Nat
  BY <1>1, FS_CardinalityType, LenProperties DEF Typed, Sized
<1>3. Cardinality(own[u]) + 1 \in 1 .. Len(Asks(u))
  BY <1>2 DEF Missing
<1> QED BY <1>1, <1>3, ElementOfSeq

\* The interface chosen is one.
LEMMA ChosenIface ==
  ASSUME Typed, NEW u \in Update, stage[u] = "choosing", Missing(u),
         NEW i \in Choices(ChuteOf[u], Asks(u)[Cardinality(own[u]) + 1], view[u] \cup own[u])
  PROVE  i \in Iface
<1>1. ChuteOf[u] \in Chute
  BY NetworkReservationsAssumption
<1>2. view[u] \cup own[u] \subseteq Iface
  BY DEF Typed, TypeOK
<1> QED BY <1>1, <1>2, NextRequest, ChoiceFacts

\* Every step keeps the types.
LEMMA StepTyped == Typed /\ [Next]_vars => Typed'
<1> SUFFICES ASSUME Typed, [Next]_vars PROVE Typed'
  OBVIOUS
<1> USE NetworkReservationsAssumption
<1>0. TypeOK /\ ThreadStages /\ BootOld /\ Sized
  BY DEF Typed
<1>1. ASSUME NEW u \in Update, Enqueue(u) PROVE Typed'
  <2>1. queue' \in Seq(Update)
    BY <1>0, <1>1, AppendProperties DEF Enqueue, TypeOK
  <2>2. Asked(u) \subseteq Seq(Request)
    <3>1. CASE Building(u)
      BY <3>1 DEF Asked
    <3>2. CASE ~Building(u)
      <4>1. chuteList[ChuteOf[u]] \in Update \cup {NoUpdate}
        BY <1>0 DEF TypeOK
      <4>2. \A x \in Update : objects[x].asks \in Seq(Request)
        BY <1>0 DEF TypeOK, ChuteObject
      <4>3. <<>> \in Seq(Request)
        BY EmptySeq
      <4> QED BY <3>2, <4>1, <4>2, <4>3 DEF Asked
    <3> QED BY <3>1, <3>2
  <2>3. TypeOK'
    BY <1>0, <1>1, <2>1, <2>2 DEF Enqueue, TypeOK, Stages, storage, life
  <2>4. ThreadStages' /\ BootOld' /\ Sized'
    BY <1>0, <1>1 DEF Enqueue, TypeOK, ThreadStages, BootOld, Sized
  <2> QED BY <2>3, <2>4 DEF Typed
<1>2. ASSUME NEW u \in Update, Reject(u) PROVE Typed'
  <2>1. queue' \in Seq(Update) /\ thread = NoUpdate
    BY <1>0, <1>2, TakeTypes DEF Reject
  <2> QED BY <1>0, <1>2, <2>1, EndTypes DEF Reject, TypeOK, storage, life
<1>3. ASSUME NEW u \in Update, Begin(u) PROVE Typed'
  <2>1. queue' \in Seq(Update) /\ thread = NoUpdate
    BY <1>0, <1>3, TakeTypes DEF Begin
  <2>2. objects' \in [Update -> ChuteObject]
    BY <1>0, <1>3, SetCacheTypes DEF Begin
  <2>3. getReservations(ChuteOf[u]) \subseteq Iface
    BY <1>0 DEF getReservations, Stored, TypeOK, ChuteObject
  <2>4. view' \in [Update -> SUBSET Iface] /\ stage' \in [Update -> Stages]
    BY <1>0, <1>3, <2>3 DEF Begin, TypeOK, Stages
  <2>5. TypeOK'
    BY <1>0, <1>3, <2>1, <2>2, <2>4 DEF Begin, TypeOK, life
  <2>6. ThreadStages' /\ Sized'
    BY <1>0, <1>3, <2>1 DEF Begin, TypeOK, ThreadStages, Sized
  <2>7. u \in BootRestart => old[u] \in Update
    BY <1>0, <1>3 DEF Begin, Valid, TypeOK
  <2>8. BootOld'
    BY <1>0, <1>3, <2>7 DEF Begin, TypeOK, BootOld
  <2> QED BY <2>5, <2>6, <2>8 DEF Typed
<1>4. ASSUME NEW u \in Update, Choose(u) PROVE Typed'
  <2>1. PICK i \in Choices(ChuteOf[u], Asks(u)[Cardinality(own[u]) + 1], view[u] \cup own[u]) :
          /\ own' = [own EXCEPT ![u] = @ \cup {i}]
          /\ SetCache(u, own[u] \cup {i})
    BY <1>4 DEF Choose
  <2>2. i \in Iface
    BY <1>4, ChosenIface DEF Choose
  <2>3. objects' \in [Update -> ChuteObject]
    BY <1>0, <2>1, <2>2, SetCacheTypes DEF TypeOK
  <2>4. TypeOK'
    BY <1>0, <1>4, <2>1, <2>2, <2>3 DEF Choose, TypeOK, life
  <2>5. IsFiniteSet(own[u] \cup {i})
    BY <1>0, FS_AddElement DEF Sized
  <2>6. Sized'
    BY <1>0, <2>1, <2>5 DEF TypeOK, Sized
  <2>7. ThreadStages' /\ BootOld'
    BY <1>0, <1>4 DEF Choose, ThreadStages, BootOld
  <2> QED BY <2>4, <2>6, <2>7 DEF Typed
<1>5. ASSUME NEW u \in Update, Yield(u) PROVE Typed'
  <2>1. TypeOK'
    BY <1>0, <1>5 DEF Yield, TypeOK, Stages, storage, choice, life
  <2>2. ThreadStages' /\ BootOld' /\ Sized'
    BY <1>0, <1>5 DEF Yield, TypeOK, ThreadStages, BootOld, Sized, choice
  <2> QED BY <2>1, <2>2 DEF Typed
<1>6. ASSUME NEW u \in Update, Resume(u) PROVE Typed'
  <2>1. queue' \in Seq(Update)
    BY <1>0, <1>6, AppendProperties DEF Resume, TypeOK
  <2>2. TypeOK'
    BY <1>0, <1>6, <2>1 DEF Resume, TypeOK, Stages, storage, choice, life
  <2>3. ThreadStages' /\ BootOld' /\ Sized'
    BY <1>0, <1>6 DEF Resume, TypeOK, ThreadStages, BootOld, Sized, choice
  <2> QED BY <2>2, <2>3 DEF Typed
<1>7. ASSUME NEW u \in Update, Continue(u) PROVE Typed'
  <2>1. queue' \in Seq(Update) /\ thread = NoUpdate
    BY <1>0, <1>7, TakeTypes DEF Continue
  <2>2. TypeOK'
    BY <1>0, <1>7, <2>1 DEF Continue, TypeOK, storage, choice, life
  <2>3. ThreadStages' /\ BootOld' /\ Sized'
    BY <1>0, <1>7, <2>1 DEF Continue, TypeOK, ThreadStages, BootOld, Sized, choice
  <2> QED BY <2>2, <2>3 DEF Typed
<1>8. ASSUME NEW u \in Update, SetConfig(u) PROVE Typed'
  <2>1. TypeOK'
    BY <1>0, <1>8 DEF SetConfig, TypeOK, Stages, storage, choice, life
  <2>2. ThreadStages' /\ BootOld' /\ Sized'
    BY <1>0, <1>8 DEF SetConfig, Ready, TypeOK, ThreadStages, BootOld, Sized, choice
  <2> QED BY <2>1, <2>2 DEF Typed
<1>9. ASSUME NEW u \in Update, SaveChute(u) PROVE Typed'
  <2>1. /\ chuteList' \in [Chute -> Update \cup {NoUpdate}]
        /\ objects' \in [Update -> ChuteObject]
        /\ disk' \in [chuteList : [Chute -> Update \cup {NoUpdate}],
                      objects : [Update -> ChuteObject]]
    <3>1. CASE KindOf[u] = "delete"
      BY <1>0, <1>9, <3>1, UnstoreTypes DEF SaveChute
    <3>2. CASE KindOf[u] # "delete"
      <4>1. PICK id \in Update, obj \in ChuteObject : Store(ChuteOf[u], id, obj)
        BY <1>0, <1>9, <3>2, NewObjectType DEF SaveChute
      <4> QED BY <1>0, <4>1, StoreTypes
    <3> QED BY <3>1, <3>2
  <2>2. TypeOK'
    BY <1>0, <1>9, <2>1 DEF SaveChute, TypeOK, Stages, choice, life
  <2>3. ThreadStages' /\ BootOld' /\ Sized'
    BY <1>0, <1>9 DEF SaveChute, TypeOK, ThreadStages, BootOld, Sized, choice
  <2> QED BY <2>2, <2>3 DEF Typed
<1>10. ASSUME NEW u \in Update, Succeed(u) PROVE Typed'
  BY <1>0, <1>10, EndTypes DEF Succeed, TypeOK, storage, life
<1>11. ASSUME NEW u \in Update, FailUnsaved(u) PROVE Typed'
  BY <1>0, <1>11, EndTypes DEF FailUnsaved, TypeOK, storage, life
<1>12. ASSUME NEW u \in Update, FailSaved(u) PROVE Typed'
  <2>1. /\ chuteList' \in [Chute -> Update \cup {NoUpdate}]
        /\ objects' \in [Update -> ChuteObject]
        /\ disk' \in [chuteList : [Chute -> Update \cup {NoUpdate}],
                      objects : [Update -> ChuteObject]]
    <3>1. CASE old[u] = NoUpdate
      BY <1>0, <1>12, <3>1, UnstoreTypes DEF FailSaved
    <3>2. CASE old[u] # NoUpdate
      <4>1. old[u] \in Update /\ objects[old[u]] \in ChuteObject
        BY <1>0, <3>2 DEF TypeOK
      <4> QED BY <1>0, <1>12, <3>2, <4>1, StoreTypes DEF FailSaved
    <3> QED BY <3>1, <3>2
  <2>2. unsettled' \in SUBSET Chute
    BY <1>0, <1>12 DEF FailSaved, TypeOK
  <2>3. queue' \in Seq(Update) /\ End(u) /\ thread = u /\ UNCHANGED <<setting, configured, life>>
    BY <1>0, <1>12 DEF FailSaved, TypeOK
  <2> QED BY <2>1, <2>2, <2>3, EndTypes
<1>13. CASE Crash
  <2>1. EmptyStorage \in [chuteList : [Chute -> Update \cup {NoUpdate}],
                          objects : [Update -> ChuteObject]]
    BY EmptySeq DEF EmptyStorage, NoObject, ChuteObject
  <2>2. disk' \in [chuteList : [Chute -> Update \cup {NoUpdate}],
                   objects : [Update -> ChuteObject]]
    BY <1>0, <1>13, <2>1 DEF Crash, TypeOK
  <2>3. /\ chuteList' \in [Chute -> Update \cup {NoUpdate}]
        /\ objects' \in [Update -> ChuteObject]
    BY <1>13, <2>2 DEF Crash
  <2>4. asks' \in [Update -> Seq(Request)] /\ queue' \in Seq(Update)
    BY <1>13, EmptySeq DEF Crash
  <2>5. stage' \in [Update -> Stages] /\ unsettled' \subseteq Chute
    BY <1>0, <1>13 DEF Crash, TypeOK, Stages
  <2>6. /\ setting' \in Settings /\ configured' \in [Chute -> SUBSET Iface]
        /\ thread' \in Update \cup {NoUpdate} /\ old' \in [Update -> Update \cup {NoUpdate}]
        /\ view' \in [Update -> SUBSET Iface] /\ own' \in [Update -> SUBSET Iface]
        /\ booted' \in BOOLEAN
    BY <1>0, <1>13 DEF Crash, TypeOK
  <2>7. crashes' \in 0 .. MaxCrashes
    BY <1>0, <1>13 DEF Crash, TypeOK
  <2>8. TypeOK'
    BY <2>2, <2>3, <2>4, <2>5, <2>6, <2>7 DEF TypeOK
  <2>9. ThreadStages' /\ BootOld'
    BY <1>13 DEF Crash, ThreadStages, BootOld
  <2>10. Sized'
    BY <1>13, FS_EmptySet DEF Crash, Sized
  <2> QED BY <2>8, <2>9, <2>10 DEF Typed
<1>14. CASE reloadChutes
  <2>1. PICK restarts \in Restarts :
          /\ \E list \in [1 .. Cardinality(restarts) -> restarts] :
               /\ restarts = {list[k] : k \in DOMAIN list}
               /\ queue' = queue \o list
          /\ stage' = [u \in Update |-> IF u \in restarts THEN "queued" ELSE stage[u]]
          /\ old' = [u \in Update |-> IF u \in restarts THEN chuteList[ChuteOf[u]] ELSE old[u]]
    BY <1>14 DEF reloadChutes
  <2>2. restarts \in SUBSET BootRestart /\ BootRestart \subseteq Update
    BY <2>1 DEF Restarts
  <2>3. Cardinality(restarts) \in Nat
    BY <2>2, FS_Subset, FS_CardinalityType
  <2>4. queue' \in Seq(Update)
    <3>1. PICK list \in [1 .. Cardinality(restarts) -> restarts] : queue' = queue \o list
      BY <2>1
    <3>2. list \in [1 .. Cardinality(restarts) -> Update]
      BY <2>2, <3>1
    <3>3. list \in Seq(Update)
      BY <2>3, <3>2
    <3> QED BY <1>0, <3>1, <3>3, ConcatProperties DEF TypeOK
  <2>5. stage' \in [Update -> Stages] /\ old' \in [Update -> Update \cup {NoUpdate}]
    BY <1>0, <2>1 DEF TypeOK, Stages
  <2>6. TypeOK'
    BY <1>0, <1>14, <2>4, <2>5 DEF reloadChutes, TypeOK, storage, choice
  <2>7. ThreadStages' /\ BootOld'
    BY <1>0, <1>14, <2>1 DEF reloadChutes, TypeOK, ThreadStages, BootOld
  <2>8. Sized'
    BY <1>0, <1>14 DEF reloadChutes, Sized, choice
  <2> QED BY <2>6, <2>7, <2>8 DEF Typed
<1>15. CASE UNCHANGED vars
  <2>1. TypeOK'
    BY <1>0, <1>15 DEF vars, storage, choice, life, TypeOK
  <2>2. ThreadStages' /\ BootOld' /\ Sized'
    BY <1>0, <1>15 DEF vars, choice, ThreadStages, BootOld, Sized
  <2> QED BY <2>1, <2>2 DEF Typed
<1> QED BY <1>1, <1>2, <1>3, <1>4, <1>5, <1>6, <1>7, <1>8, <1>9, <1>10, <1>11, <1>12, <1>13,
           <1>14, <1>15 DEF Next

\* Every variable keeps its type, whatever fails and whenever the daemon stops.
THEOREM TypeCorrect == Spec => []TypeOK
<1>1. Typed => TypeOK
  BY DEF Typed
<1> QED BY <1>1, InitTyped, StepTyped, PTL DEF Spec
-----------------------------------------------------------------------------
(* Whose the objects are *)

\* Interfaces that one chute may have.
OfChute(c, S) == Fine(HostIfaces \cup S) /\ \A i \in S : i.chute = c

IfacesOf(list, objs, c) ==
  IF list[c] = NoUpdate THEN {} ELSE objs[list[c]].networkInterfaces

DiskStored(c) == IfacesOf(disk.chuteList, disk.objects, c)

\* The storage, in memory and on disk, has each chute's own objects in its places,
\* and each object, in use or not, has interfaces its chute may have.
SaneStorage ==
  /\ \A c \in Chute : chuteList[c] \in Update => ChuteOf[chuteList[c]] = c
  /\ \A c \in Chute : disk.chuteList[c] \in Update => ChuteOf[disk.chuteList[c]] = c
  /\ \A u \in Update : OfChute(ChuteOf[u], objects[u].networkInterfaces)
  /\ \A u \in Update : OfChute(ChuteOf[u], disk.objects[u].networkInterfaces)

\* An update knows an object of its chute, looks at least at the host's
\* reservations, and has chosen nothing it must not have.
SaneUpdate(u) ==
  /\ old[u] \in Update => ChuteOf[old[u]] = ChuteOf[u]
  /\ OfChute(ChuteOf[u], own[u])
  /\ IsFiniteSet(view[u])
  /\ \A i \in view[u] : Shaped(i)
  /\ stage[u] \in {"choosing", "building", "built"} => HostIfaces \subseteq view[u]
  /\ stage[u] \in {"new", "queued", "done"} => own[u] = {}
  /\ ~Running(u) => own[u] = {}

Sane == SaneStorage /\ \A u \in Update : SaneUpdate(u)

\* No interfaces are those of any chute.
LEMMA NoneOfChute == \A c \in Chute : OfChute(c, {})
<1>1. HostIfaces \cup {} = HostIfaces
  OBVIOUS
<1> QED BY <1>1, FineHost DEF OfChute

\* The interfaces of a chute are finitely many, well shaped and its own.
LEMMA OfChuteFacts ==
  ASSUME NEW c \in Chute, NEW S, OfChute(c, S)
  PROVE  /\ S \subseteq Iface /\ IsFiniteSet(S)
         /\ \A i \in S : Shaped(i) /\ i.chute = c /\ i.chute # Host
<1>1. Fine(HostIfaces \cup S) /\ S \in SUBSET (HostIfaces \cup S)
  BY DEF OfChute
<1>2. Fine(S)
  BY <1>1, FineSubset
<1> QED BY <1>2, NetworkReservationsAssumption DEF OfChute, Fine

\* What is stored of a chute are interfaces of it.
LEMMA StoredOfChute ==
  ASSUME TypeOK, SaneStorage, NEW c \in Chute
  PROVE  OfChute(c, Stored(c)) /\ OfChute(c, DiskStored(c))
<1>1. chuteList[c] \in Update \cup {NoUpdate} /\ disk.chuteList[c] \in Update \cup {NoUpdate}
  BY DEF TypeOK
<1> QED BY <1>1, NoneOfChute DEF SaneStorage, Stored, DiskStored, IfacesOf

\* The reservations an update computes are finitely many and well shaped.
LEMMA ReservationFacts ==
  ASSUME TypeOK, SaneStorage, NEW c \in Chute
  PROVE  /\ HostIfaces \subseteq getReservations(c)
         /\ IsFiniteSet(getReservations(c))
         /\ \A i \in getReservations(c) : Shaped(i)
<1> DEFINE S == Chute \ {c}
           T == {Stored(d) : d \in S}
           f == [d \in S |-> Stored(d)]
<1>1. \A d \in S : IsFiniteSet(Stored(d)) /\ \A i \in Stored(d) : Shaped(i)
  BY StoredOfChute, OfChuteFacts
<1>2. IsFiniteSet(S)
  BY FS_Subset, NetworkReservationsAssumption
<1>3. f \in Surjection(S, T)
  BY DEF Surjection
<1>4. IsFiniteSet(T)
  BY <1>2, <1>3, FS_Surjection
<1>5. IsFiniteSet(UNION T)
  BY <1>1, <1>4, FS_UNION
<1>6. getReservations(c) = HostIfaces \cup UNION T
  BY DEF getReservations
<1>7. IsFiniteSet(HostIfaces) /\ \A i \in HostIfaces : Shaped(i)
  BY FineHost DEF Fine
<1>8. IsFiniteSet(HostIfaces \cup UNION T)
  BY <1>5, <1>7, FS_Union
<1> QED BY <1>1, <1>6, <1>7, <1>8

\* Saving an object of the chute keeps the storage sane.
LEMMA StoreSane ==
  ASSUME TypeOK, SaneStorage, NEW c \in Chute, NEW id \in Update, NEW obj \in ChuteObject,
         ChuteOf[id] = c, OfChute(c, obj.networkInterfaces), Store(c, id, obj)
  PROVE  SaneStorage'
<1>1. PICK x \in Update :
        /\ x = IF chuteList[c] = NoUpdate THEN id ELSE chuteList[c]
        /\ chuteList' = [chuteList EXCEPT ![c] = x]
        /\ objects' = [objects EXCEPT ![x] = obj]
        /\ disk' = [chuteList |-> chuteList', objects |-> objects']
  BY StoreForm
<1>2. ChuteOf[x] = c
  BY <1>1 DEF SaneStorage
<1>3. \A d \in Chute : chuteList'[d] \in Update => ChuteOf[chuteList'[d]] = d
  BY <1>1, <1>2 DEF SaneStorage, TypeOK
<1>4. \A u \in Update : OfChute(ChuteOf[u], objects'[u].networkInterfaces)
  BY <1>1, <1>2 DEF SaneStorage, TypeOK
<1>5. disk'.chuteList = chuteList' /\ disk'.objects = objects'
  BY <1>1
<1>6. \A d \in Chute : disk'.chuteList[d] \in Update => ChuteOf[disk'.chuteList[d]] = d
  BY <1>3, <1>5
<1>7. \A u \in Update : OfChute(ChuteOf[u], disk'.objects[u].networkInterfaces)
  BY <1>4, <1>5
<1> QED BY <1>3, <1>4, <1>6, <1>7 DEF SaneStorage

\* So does removing one.
LEMMA UnstoreSane ==
  ASSUME TypeOK, SaneStorage, NEW c \in Chute, Unstore(c)
  PROVE  SaneStorage'
<1>1. /\ chuteList' = [chuteList EXCEPT ![c] = NoUpdate] /\ objects' = objects
      /\ disk'.chuteList = chuteList' /\ disk'.objects = objects'
  BY DEF Unstore, SaveToDisk
<1>2. \A d \in Chute : chuteList'[d] \in Update => ChuteOf[chuteList'[d]] = d
  BY <1>1, NetworkReservationsAssumption DEF SaneStorage, TypeOK
<1>3. \A u \in Update : OfChute(ChuteOf[u], objects'[u].networkInterfaces)
  BY <1>1 DEF SaneStorage
<1>4. \A d \in Chute : disk'.chuteList[d] \in Update => ChuteOf[disk'.chuteList[d]] = d
  BY <1>1, <1>2
<1>5. \A u \in Update : OfChute(ChuteOf[u], disk'.objects[u].networkInterfaces)
  BY <1>1, <1>3
<1> QED BY <1>2, <1>3, <1>4, <1>5 DEF SaneStorage

\* So does changing the cache of an update.
LEMMA SetCacheSane ==
  ASSUME TypeOK, SaneStorage, NEW u \in Update, SaneUpdate(u),
         NEW ifaces \in SUBSET Iface, OfChute(ChuteOf[u], ifaces),
         SetCache(u, ifaces), UNCHANGED <<chuteList, disk>>
  PROVE  SaneStorage'
<1>1. CASE u \in BootRestart
  <2>1. objects' = [objects EXCEPT ![old[u]] = [@ EXCEPT !.networkInterfaces = ifaces]]
    BY <1>1 DEF SetCache
  <2>2. \A x \in Update :
          objects'[x] = IF x = old[u] THEN [objects[x] EXCEPT !.networkInterfaces = ifaces]
                                      ELSE objects[x]
    BY <2>1 DEF TypeOK
  <2>3. \A x \in Update :
          [objects[x] EXCEPT !.networkInterfaces = ifaces].networkInterfaces = ifaces
    BY DEF TypeOK, ChuteObject
  <2>4. \A x \in Update : OfChute(ChuteOf[x], objects'[x].networkInterfaces)
    BY <2>2, <2>3 DEF SaneStorage, SaneUpdate
  <2> QED BY <2>4 DEF SaneStorage
<1>2. CASE u \notin BootRestart
  <2>1. \A x \in Update : OfChute(ChuteOf[x], objects'[x].networkInterfaces)
    BY <1>2 DEF SetCache, SaneStorage
  <2> QED BY <2>1 DEF SaneStorage
<1> QED BY <1>1, <1>2

\* An update that has ended is as sane as a new one.
LEMMA EndSane ==
  ASSUME TypeOK, Sane, NEW u \in Update, End(u), SaneStorage'
  PROVE  Sane'
<1>1. ASSUME NEW v \in Update PROVE SaneUpdate(v)'
  <2>1. CASE v = u
    <3>1. old'[v] = NoUpdate /\ view'[v] = {} /\ own'[v] = {} /\ stage'[v] = "done"
      BY <2>1 DEF End, TypeOK
    <3>2. OfChute(ChuteOf[v], {}) /\ IsFiniteSet({}) /\ NoUpdate \notin Update
      BY NoneOfChute, FS_EmptySet, NetworkReservationsAssumption
    <3> QED BY <3>1, <3>2 DEF SaneUpdate
  <2>2. CASE v # u
    <3>1. /\ old'[v] = old[v] /\ view'[v] = view[v] /\ own'[v] = own[v]
          /\ stage'[v] = stage[v]
      BY <2>2 DEF End, TypeOK
    <3> QED BY <3>1 DEF Sane, SaneUpdate
  <2> QED BY <2>1, <2>2
<1> QED BY <1>1 DEF Sane

\* What an update chooses its chute may have.
LEMMA ChoiceOfChute ==
  ASSUME Typed, Sane, NEW u \in Update, stage[u] = "choosing", Missing(u),
         NEW i \in Choices(ChuteOf[u], Asks(u)[Cardinality(own[u]) + 1], view[u] \cup own[u])
  PROVE  OfChute(ChuteOf[u], own[u] \cup {i})
<1> DEFINE R == view[u] \cup own[u]
           S == HostIfaces \cup own[u]
<1>1. ChuteOf[u] \in Chute /\ Asks(u)[Cardinality(own[u]) + 1] \in Request
  BY NextRequest, NetworkReservationsAssumption
<1>2. OfChute(ChuteOf[u], own[u]) /\ Fine(S)
  BY DEF Sane, SaneUpdate, OfChute
<1>3. R \subseteq Iface /\ IsFiniteSet(R) /\ \A j \in R : Shaped(j)
  BY <1>1, <1>2, OfChuteFacts, FS_Union DEF Typed, TypeOK, Sane, SaneUpdate
<1>4. S \in SUBSET R /\ HostIfaces \subseteq S
  BY DEF Sane, SaneUpdate
<1>5. Fine(S \cup {i}) /\ i.chute = ChuteOf[u]
  BY <1>1, <1>2, <1>3, <1>4, FineChoice, ChoiceFacts
<1>6. S \cup {i} = HostIfaces \cup (own[u] \cup {i})
  OBVIOUS
<1> QED BY <1>2, <1>5, <1>6 DEF OfChute

\* Initially nothing is stored or chosen.
LEMMA InitSane == Init => Sane
<1> SUFFICES ASSUME Init PROVE Sane
  OBVIOUS
<1>1. NoObject.networkInterfaces = {} /\ NoUpdate \notin Update
  BY NetworkReservationsAssumption DEF NoObject
<1>2. /\ \A c \in Chute : chuteList[c] = NoUpdate /\ disk.chuteList[c] = NoUpdate
      /\ \A u \in Update : objects[u] = NoObject /\ disk.objects[u] = NoObject
  BY DEF Init, EmptyStorage
<1>3. \A u \in Update : OfChute(ChuteOf[u], {})
  BY NoneOfChute, NetworkReservationsAssumption
<1>4. SaneStorage
  BY <1>1, <1>2, <1>3 DEF SaneStorage
<1>5. \A u \in Update : SaneUpdate(u)
  BY <1>1, <1>3, FS_EmptySet DEF Init, SaneUpdate
<1> QED BY <1>4, <1>5 DEF Sane

\* Until boot has queued its restarts the update thread takes nothing.
AtRest == ~booted => \A u \in Update : stage[u] \in {"new", "queued", "done"}

\* Every step keeps it so.
LEMMA StepAtRest == Typed /\ AtRest /\ [Next]_vars => AtRest'
<1> SUFFICES ASSUME Typed, AtRest, [Next]_vars PROVE AtRest'
  OBVIOUS
<1>1. stage \in [Update -> Stages]
  BY DEF Typed, TypeOK
<1>2. ASSUME NEW u \in Update, Enqueue(u) \/ Reject(u) PROVE AtRest'
  BY <1>1, <1>2 DEF AtRest, Enqueue, Reject, Take, End, life
<1>3. ASSUME NEW u \in Update,
             \/ Begin(u) \/ Choose(u) \/ Yield(u) \/ Resume(u) \/ Continue(u) \/ SetConfig(u)
             \/ SaveChute(u) \/ Succeed(u) \/ FailUnsaved(u) \/ FailSaved(u)
      PROVE  AtRest'
  <2>1. booted' = booted
    BY <1>3 DEF Begin, Choose, Yield, Resume, Continue, SetConfig, SaveChute, Succeed,
                FailUnsaved, FailSaved, life
  <2>2. booted
    <3>1. \/ stage[u] \notin {"new", "queued", "done"}
          \/ booted
      BY <1>3 DEF Begin, Choose, Yield, Resume, Continue, SetConfig, SaveChute, Succeed,
                  FailUnsaved, FailSaved, Ready, Take
    <3> QED BY <3>1 DEF AtRest
  <2> QED BY <2>1, <2>2 DEF AtRest
<1>4. CASE Crash
  BY <1>1, <1>4 DEF AtRest, Crash
<1>5. CASE reloadChutes
  BY <1>5 DEF AtRest, reloadChutes
<1>6. CASE UNCHANGED vars
  BY <1>6 DEF AtRest, vars, life
<1> QED BY <1>2, <1>3, <1>4, <1>5, <1>6 DEF Next

\* Every step keeps storage and updates sane.
LEMMA StepSane == Typed /\ AtRest /\ Sane /\ [Next]_vars => Sane'
<1> SUFFICES ASSUME Typed, AtRest, Sane, [Next]_vars PROVE Sane'
  OBVIOUS
<1> USE NetworkReservationsAssumption
<1>0. TypeOK /\ SaneStorage /\ \A u \in Update : SaneUpdate(u)
  BY DEF Typed, Sane
<1>a. ASSUME UNCHANGED storage PROVE SaneStorage'
  BY <1>0, <1>a DEF storage, SaneStorage
<1>b. ASSUME NEW v \in Update,
             old'[v] = old[v], view'[v] = view[v], own'[v] = own[v],
             stage'[v] = stage[v]
      PROVE  SaneUpdate(v)'
  BY <1>0, <1>b DEF SaneUpdate
<1>c. ASSUME NEW u \in Update, stage' = [stage EXCEPT ![u] = stage'[u]],
             \/ stage'[u] \in {"written", "saved"}
             \/ /\ stage[u] \in {"choosing", "building", "built"}
                /\ stage'[u] \in {"choosing", "building", "built"},
             UNCHANGED <<old, view, own>>
      PROVE  \A v \in Update : SaneUpdate(v)'
  <2>1. SaneUpdate(u)'
    BY <1>0, <1>c DEF SaneUpdate
  <2>2. ASSUME NEW v \in Update, v # u PROVE SaneUpdate(v)'
    BY <1>0, <1>b, <1>c, <2>2 DEF TypeOK
  <2> QED BY <2>1, <2>2
<1>1. ASSUME NEW u \in Update, Enqueue(u) PROVE Sane'
  <2>1. UNCHANGED <<storage, view, own>>
    BY <1>1 DEF Enqueue
  <2>2. SaneUpdate(u)'
    <3>1. /\ old'[u] = chuteList[ChuteOf[u]] /\ stage'[u] = "queued" /\ stage[u] = "new"
          /\ view'[u] = view[u] /\ own'[u] = own[u]
      BY <1>0, <1>1 DEF Enqueue, TypeOK
    <3>2. SaneUpdate(u)
      BY <1>0
    <3> QED BY <1>0, <3>1, <3>2 DEF SaneUpdate, SaneStorage
  <2>3. ASSUME NEW v \in Update, v # u PROVE SaneUpdate(v)'
    BY <1>0, <1>1, <1>b, <2>3 DEF Enqueue, TypeOK
  <2> QED BY <1>a, <2>1, <2>2, <2>3 DEF Sane
<1>2. ASSUME NEW u \in Update, Reject(u) PROVE Sane'
  BY <1>0, <1>2, <1>a, EndSane DEF Reject
<1>3. ASSUME NEW u \in Update, Begin(u) PROVE Sane'
  <2>1. ChuteOf[u] \in Chute /\ OfChute(ChuteOf[u], {}) /\ {} \in SUBSET Iface
    BY NoneOfChute
  <2>2. SaneStorage'
    BY <1>0, <1>3, <2>1, SetCacheSane DEF Begin
  <2>3. SaneUpdate(u)'
    <3>1. /\ old'[u] = old[u] /\ own'[u] = own[u] /\ stage[u] = "queued"
          /\ stage'[u] = "choosing" /\ view'[u] = getReservations(ChuteOf[u])
      BY <1>0, <1>3 DEF Begin, TypeOK
    <3>2. /\ HostIfaces \subseteq view'[u]
          /\ IsFiniteSet(view'[u])
          /\ \A i \in view'[u] : Shaped(i)
      BY <1>0, <2>1, <3>1, ReservationFacts
    <3> QED BY <1>0, <3>1, <3>2 DEF SaneUpdate
  <2>4. ASSUME NEW v \in Update, v # u PROVE SaneUpdate(v)'
    BY <1>0, <1>3, <1>b, <2>4 DEF Begin, TypeOK
  <2> QED BY <2>2, <2>3, <2>4 DEF Sane
<1>4. ASSUME NEW u \in Update, Choose(u) PROVE Sane'
  <2>1. PICK i \in Choices(ChuteOf[u], Asks(u)[Cardinality(own[u]) + 1], view[u] \cup own[u]) :
          /\ own' = [own EXCEPT ![u] = @ \cup {i}]
          /\ SetCache(u, own[u] \cup {i})
    BY <1>4 DEF Choose
  <2>2. /\ stage[u] = "choosing" /\ Missing(u)
        /\ UNCHANGED <<chuteList, disk, stage, old, view>>
    BY <1>4 DEF Choose
  <2>3. OfChute(ChuteOf[u], own[u] \cup {i})
    BY <2>2, ChoiceOfChute
  <2>4. own[u] \cup {i} \in SUBSET Iface
    BY <2>3, OfChuteFacts
  <2>5. SaneStorage'
    BY <1>0, <2>1, <2>2, <2>3, <2>4, SetCacheSane
  <2>6. SaneUpdate(u)'
    <3>1. own'[u] = own[u] \cup {i} /\ Running(u)
      BY <1>0, <2>1, <2>2 DEF TypeOK, Missing
    <3> QED BY <1>0, <2>2, <2>3, <3>1 DEF SaneUpdate
  <2>7. ASSUME NEW v \in Update, v # u PROVE SaneUpdate(v)'
    BY <1>0, <1>b, <2>1, <2>2, <2>7 DEF TypeOK
  <2> QED BY <2>5, <2>6, <2>7 DEF Sane
<1>5. ASSUME NEW u \in Update, Yield(u) PROVE Sane'
  BY <1>0, <1>5, <1>a, <1>c DEF Yield, TypeOK, choice, Sane
<1>6. ASSUME NEW u \in Update, Resume(u) PROVE Sane'
  BY <1>0, <1>6, <1>a, <1>c DEF Resume, TypeOK, choice, Sane
<1>7. ASSUME NEW u \in Update, Continue(u) PROVE Sane'
  BY <1>0, <1>7, <1>a, <1>b DEF Continue, choice, Sane
<1>8. ASSUME NEW u \in Update, SetConfig(u) PROVE Sane'
  BY <1>0, <1>8, <1>a, <1>c DEF SetConfig, TypeOK, choice, Sane
<1>9. ASSUME NEW u \in Update, SaveChute(u) PROVE Sane'
  <2>1. SaneStorage'
    <3>1. CASE KindOf[u] = "delete"
      BY <1>0, <1>9, <3>1, UnstoreSane DEF SaveChute
    <3>2. CASE KindOf[u] # "delete"
      <4>1. PICK id \in Update, obj \in ChuteObject :
              /\ Store(ChuteOf[u], id, obj)
              /\ u \in BootRestart => id = old[u] /\ obj = objects[old[u]]
              /\ u \notin BootRestart => id = u /\ obj.networkInterfaces = own[u]
        BY <1>0, <1>9, <3>2, NewObjectType DEF SaveChute, Typed
      <4>2. ChuteOf[id] = ChuteOf[u] /\ OfChute(ChuteOf[u], obj.networkInterfaces)
        BY <1>0, <4>1 DEF SaneUpdate, SaneStorage
      <4> QED BY <1>0, <4>1, <4>2, StoreSane
    <3> QED BY <3>1, <3>2
  <2> QED BY <1>0, <1>9, <1>c, <2>1 DEF SaveChute, TypeOK, choice, Sane
<1>10. ASSUME NEW u \in Update, Succeed(u) PROVE Sane'
  BY <1>0, <1>10, <1>a, EndSane DEF Succeed
<1>11. ASSUME NEW u \in Update, FailUnsaved(u) PROVE Sane'
  BY <1>0, <1>11, <1>a, EndSane DEF FailUnsaved
<1>12. ASSUME NEW u \in Update, FailSaved(u) PROVE Sane'
  <2>1. SaneStorage'
    <3>1. CASE old[u] = NoUpdate
      BY <1>0, <1>12, <3>1, UnstoreSane DEF FailSaved
    <3>2. CASE old[u] # NoUpdate
      <4>1. /\ old[u] \in Update /\ objects[old[u]] \in ChuteObject
            /\ ChuteOf[old[u]] = ChuteOf[u]
            /\ OfChute(ChuteOf[u], objects[old[u]].networkInterfaces)
        BY <1>0, <3>2 DEF TypeOK, SaneUpdate, SaneStorage
      <4> QED BY <1>0, <1>12, <3>2, <4>1, StoreSane DEF FailSaved
    <3> QED BY <3>1, <3>2
  <2> QED BY <1>0, <1>12, <2>1, EndSane DEF FailSaved
<1>13. CASE Crash
  <2>1. \A u \in Update : OfChute(ChuteOf[u], {})
    BY NoneOfChute
  <2>2. /\ \A c \in Chute : disk'.chuteList[c] \in Update => ChuteOf[disk'.chuteList[c]] = c
        /\ \A u \in Update : OfChute(ChuteOf[u], disk'.objects[u].networkInterfaces)
    <3>1. CASE disk' = disk
      <4>1. \A c \in Chute : disk'.chuteList[c] \in Update => ChuteOf[disk'.chuteList[c]] = c
        BY <1>0, <3>1 DEF SaneStorage
      <4>2. \A u \in Update : OfChute(ChuteOf[u], disk'.objects[u].networkInterfaces)
        BY <1>0, <3>1 DEF SaneStorage
      <4> QED BY <4>1, <4>2
    <3>2. CASE disk' = EmptyStorage
      <4>1. \A c \in Chute : disk'.chuteList[c] = NoUpdate
        BY <3>2 DEF EmptyStorage
      <4>2. \A u \in Update : disk'.objects[u].networkInterfaces = {}
        BY <3>2 DEF EmptyStorage, NoObject
      <4>3. \A c \in Chute : disk'.chuteList[c] \notin Update
        BY <4>1
      <4>4. \A u \in Update : OfChute(ChuteOf[u], disk'.objects[u].networkInterfaces)
        BY <2>1, <4>2, Zenon
      <4> QED BY <4>3, <4>4
    <3>3. disk' = disk \/ disk' = EmptyStorage
      BY <1>13 DEF Crash
    <3> QED BY <3>1, <3>2, <3>3
  <2>3. chuteList' = disk'.chuteList /\ objects' = disk'.objects
    BY <1>13 DEF Crash
  <2>4. /\ \A c \in Chute : chuteList'[c] \in Update => ChuteOf[chuteList'[c]] = c
        /\ \A u \in Update : OfChute(ChuteOf[u], objects'[u].networkInterfaces)
    BY <2>2, <2>3
  <2>5. SaneStorage'
    BY <2>2, <2>4 DEF SaneStorage
  <2>6. ASSUME NEW u \in Update PROVE SaneUpdate(u)'
    <3>1. /\ old'[u] = NoUpdate /\ view'[u] = {} /\ own'[u] = {}
          /\ stage'[u] \in {"new", "done"}
      BY <1>13 DEF Crash
    <3> QED BY <2>1, <3>1, FS_EmptySet DEF SaneUpdate
  <2> QED BY <2>5, <2>6 DEF Sane
<1>14. CASE reloadChutes
  <2>1. UNCHANGED <<storage, view, own>>
    BY <1>14 DEF reloadChutes, choice
  <2>2. PICK restarts \in Restarts :
          /\ stage' = [u \in Update |-> IF u \in restarts THEN "queued" ELSE stage[u]]
          /\ old' = [u \in Update |-> IF u \in restarts THEN chuteList[ChuteOf[u]] ELSE old[u]]
    BY <1>14 DEF reloadChutes
  <2>3. ASSUME NEW v \in restarts, v \in Update PROVE SaneUpdate(v)'
    <3>1. /\ old'[v] = chuteList[ChuteOf[v]] /\ stage'[v] = "queued"
          /\ view'[v] = view[v] /\ own'[v] = own[v]
      BY <2>1, <2>2, <2>3
    <3>2. SaneUpdate(v) /\ stage[v] \in {"new", "queued", "done"}
      BY <1>0, <1>14, <2>3 DEF reloadChutes, AtRest
    <3>3. old'[v] \in Update => ChuteOf[old'[v]] = ChuteOf[v]
      BY <1>0, <2>3, <3>1 DEF SaneStorage
    <3> QED BY <3>1, <3>2, <3>3 DEF SaneUpdate
  <2>4. ASSUME NEW v \in Update, v \notin restarts PROVE SaneUpdate(v)'
    BY <1>b, <2>1, <2>2, <2>4
  <2>5. SaneStorage'
    BY <1>a, <2>1
  <2> QED BY <2>3, <2>4, <2>5 DEF Sane
<1>15. CASE UNCHANGED vars
  BY <1>0, <1>15, <1>a, <1>b DEF vars, choice, Sane
<1> QED BY <1>1, <1>2, <1>3, <1>4, <1>5, <1>6, <1>7, <1>8, <1>9, <1>10, <1>11, <1>12, <1>13,
           <1>14, <1>15 DEF Next
-----------------------------------------------------------------------------
(* What is stored is what was written *)

\* What saving an object changes of what is stored.
LEMMA StoreEffect ==
  ASSUME TypeOK, SaneStorage, NEW c \in Chute, NEW id \in Update, NEW obj \in ChuteObject,
         ChuteOf[id] = c, Store(c, id, obj), NEW d \in Chute
  PROVE  /\ Stored(d)' = IF d = c THEN obj.networkInterfaces ELSE Stored(d)
         /\ DiskStored(d)' = Stored(d)'
<1>1. PICK x \in Update :
        /\ x = IF chuteList[c] = NoUpdate THEN id ELSE chuteList[c]
        /\ chuteList' = [chuteList EXCEPT ![c] = x]
        /\ objects' = [objects EXCEPT ![x] = obj]
        /\ disk' = [chuteList |-> chuteList', objects |-> objects']
  BY StoreForm
<1>2. NoUpdate \notin Update /\ x # NoUpdate
  BY NetworkReservationsAssumption
<1>3. ChuteOf[x] = c
  BY <1>1 DEF SaneStorage
<1>4. d # c /\ chuteList[d] \in Update => chuteList[d] # x
  BY <1>3 DEF SaneStorage
<1>5. Stored(d)' = IF d = c THEN obj.networkInterfaces ELSE Stored(d)
  <2>1. CASE d = c
    <3>1. chuteList'[d] = x /\ objects'[x] = obj
      BY <1>1, <2>1 DEF TypeOK
    <3> QED BY <1>2, <2>1, <3>1 DEF Stored
  <2>2. CASE d # c
    <3>1. chuteList'[d] = chuteList[d] /\ chuteList[d] \in Update \cup {NoUpdate}
      BY <1>1, <2>2 DEF TypeOK
    <3>2. chuteList[d] # NoUpdate => objects'[chuteList[d]] = objects[chuteList[d]]
      BY <1>1, <1>4, <2>2, <3>1 DEF TypeOK
    <3> QED BY <2>2, <3>1, <3>2 DEF Stored
  <2> QED BY <2>1, <2>2
<1>6. disk'.chuteList = chuteList' /\ disk'.objects = objects'
  BY <1>1
<1>7. DiskStored(d)' = Stored(d)'
  BY <1>6 DEF DiskStored, IfacesOf, Stored
<1> QED BY <1>5, <1>7

\* What removing a chute changes.
LEMMA UnstoreEffect ==
  ASSUME TypeOK, NEW c \in Chute, Unstore(c), NEW d \in Chute
  PROVE  /\ Stored(d)' = IF d = c THEN {} ELSE Stored(d)
         /\ DiskStored(d)' = Stored(d)'
<1>1. /\ chuteList' = [chuteList EXCEPT ![c] = NoUpdate] /\ objects' = objects
      /\ disk'.chuteList = chuteList' /\ disk'.objects = objects'
  BY DEF Unstore, SaveToDisk
<1>2. chuteList'[d] = IF d = c THEN NoUpdate ELSE chuteList[d]
  BY <1>1 DEF TypeOK
<1>3. Stored(d)' = IF d = c THEN {} ELSE Stored(d)
  BY <1>1, <1>2 DEF Stored
<1>4. DiskStored(d)' = Stored(d)'
  BY <1>1 DEF DiskStored, IfacesOf, Stored
<1> QED BY <1>3, <1>4

\* What the cache of an update changes: at boot, and of its own chute only.
LEMMA SetCacheEffect ==
  ASSUME TypeOK, SaneStorage, NEW u \in Update, SaneUpdate(u), NEW ifaces,
         SetCache(u, ifaces), UNCHANGED <<chuteList, disk>>
  PROVE  /\ \A d \in Chute : d # ChuteOf[u] => Stored(d)' = Stored(d)
         /\ \A d \in Chute : DiskStored(d)' = DiskStored(d)
         /\ u \notin BootRestart => objects' = objects
         /\ u \in BootRestart /\ old[u] \in Update => objects'[old[u]].networkInterfaces = ifaces
<1>1. \A d \in Chute : DiskStored(d)' = DiskStored(d)
  BY DEF DiskStored, IfacesOf
<1>2. CASE u \in BootRestart
  <2>1. objects' = [objects EXCEPT ![old[u]] = [@ EXCEPT !.networkInterfaces = ifaces]]
    BY <1>2 DEF SetCache
  <2>2. \A x \in Update : x # old[u] => objects'[x] = objects[x]
    BY <2>1 DEF TypeOK
  <2>3. ASSUME NEW d \in Chute, d # ChuteOf[u] PROVE Stored(d)' = Stored(d)
    <3>1. chuteList[d] \in Update \cup {NoUpdate} /\ chuteList'[d] = chuteList[d]
      BY DEF TypeOK
    <3>2. chuteList[d] \in Update => chuteList[d] # old[u]
      BY <2>3 DEF SaneStorage, SaneUpdate
    <3>3. chuteList[d] # NoUpdate => objects'[chuteList[d]] = objects[chuteList[d]]
      BY <2>2, <3>1, <3>2
    <3> QED BY <3>1, <3>3 DEF Stored
  <2>4. ASSUME old[u] \in Update PROVE objects'[old[u]].networkInterfaces = ifaces
    <3>1. objects'[old[u]] = [objects[old[u]] EXCEPT !.networkInterfaces = ifaces]
      BY <2>1, <2>4 DEF TypeOK
    <3>2. objects[old[u]] \in ChuteObject
      BY <2>4 DEF TypeOK
    <3> QED BY <3>1, <3>2 DEF ChuteObject
  <2> QED BY <1>1, <1>2, <2>3, <2>4
<1>3. CASE u \notin BootRestart
  BY <1>1, <1>3 DEF SetCache, Stored
<1> QED BY <1>2, <1>3

\* Where a chute is settled, memory, disk and configuration files agree; an update that
\* has written its files is about to save the same, and a restart at boot shows its
\* choice in the stored object.
SettledChute(c) == c \notin unsettled => configured[c] = Stored(c) /\ Stored(c) = DiskStored(c)

SettledUpdate(u) ==
  /\ stage[u] = "written" => configured[ChuteOf[u]] = own[u] /\ ChuteOf[u] \in unsettled
  /\ u \in BootRestart =>
       /\ stage[u] \notin {"building", "built"}
       /\ stage[u] \in {"choosing", "written"} =>
            ChuteOf[u] \in unsettled /\ objects[old[u]].networkInterfaces = own[u]

Settled ==
  /\ \A c \in Chute : SettledChute(c)
  /\ \A u \in Update : SettledUpdate(u)

\* Initially nothing is stored or written.
LEMMA InitSettled == Init => Settled
<1> SUFFICES ASSUME Init PROVE Settled
  OBVIOUS
<1>1. ASSUME NEW c \in Chute PROVE SettledChute(c)
  BY DEF Init, EmptyStorage, SettledChute, Stored, DiskStored, IfacesOf
<1>2. ASSUME NEW u \in Update PROVE SettledUpdate(u)
  BY DEF Init, SettledUpdate
<1> QED BY <1>1, <1>2 DEF Settled

\* Every step keeps it so.
LEMMA StepSettled == Typed /\ Sane /\ Settled /\ [Next]_vars => Settled'
<1> SUFFICES ASSUME Typed, Sane, Settled, [Next]_vars PROVE Settled'
  OBVIOUS
<1> USE NetworkReservationsAssumption
<1>0. /\ TypeOK /\ ThreadStages /\ BootOld
      /\ SaneStorage /\ \A u \in Update : SaneUpdate(u)
      /\ \A c \in Chute : SettledChute(c)
      /\ \A u \in Update : SettledUpdate(u)
  BY DEF Typed, Sane, Settled
<1>a. ASSUME UNCHANGED <<storage, configured, unsettled>>
      PROVE  \A c \in Chute : SettledChute(c)'
  <2>1. \A c \in Chute : Stored(c)' = Stored(c) /\ DiskStored(c)' = DiskStored(c)
    BY <1>a DEF storage, Stored, DiskStored, IfacesOf
  <2> QED BY <1>0, <1>a, <2>1 DEF SettledChute
<1>b. ASSUME NEW v \in Update, stage'[v] \notin {"choosing", "building", "built", "written"}
      PROVE  SettledUpdate(v)'
  BY <1>b DEF SettledUpdate
<1>c. ASSUME UNCHANGED <<storage, configured, unsettled>>,
             NEW v \in Update, stage'[v] = stage[v], old'[v] = old[v], own'[v] = own[v]
      PROVE  SettledUpdate(v)'
  BY <1>0, <1>c DEF storage, SettledUpdate
<1>d. ASSUME NEW u \in Update, thread = u, NEW v \in Update, v # u, stage'[v] = stage[v]
      PROVE  SettledUpdate(v)'
  <2>1. stage'[v] \notin {"choosing", "written"}
    BY <1>0, <1>d DEF ThreadStages
  <2>2. v \in BootRestart => stage'[v] \notin {"building", "built"}
    BY <1>0, <1>d DEF SettledUpdate
  <2> QED BY <2>1, <2>2 DEF SettledUpdate
<1>e. ASSUME NEW u \in Update, End(u), UNCHANGED <<storage, configured, unsettled>>
      PROVE  Settled'
  <2>1. SettledUpdate(u)'
    BY <1>0, <1>b, <1>e DEF End, TypeOK
  <2>2. ASSUME NEW v \in Update, v # u PROVE SettledUpdate(v)'
    BY <1>0, <1>c, <1>e, <2>2 DEF End, TypeOK
  <2> QED BY <1>a, <1>e, <2>1, <2>2 DEF Settled
<1>1. ASSUME NEW u \in Update, Enqueue(u) PROVE Settled'
  <2>1. UNCHANGED <<storage, configured, unsettled, own>>
    BY <1>1 DEF Enqueue
  <2>2. SettledUpdate(u)'
    BY <1>0, <1>1, <1>b DEF Enqueue, TypeOK
  <2>3. ASSUME NEW v \in Update, v # u PROVE SettledUpdate(v)'
    BY <1>0, <1>1, <1>c, <2>1, <2>3 DEF Enqueue, TypeOK
  <2> QED BY <1>a, <2>1, <2>2, <2>3 DEF Settled
<1>2. ASSUME NEW u \in Update, Reject(u) PROVE Settled'
  BY <1>2, <1>e DEF Reject
<1>3. ASSUME NEW u \in Update, Begin(u) PROVE Settled'
  <2>1. /\ \A d \in Chute : d # ChuteOf[u] => Stored(d)' = Stored(d)
        /\ \A d \in Chute : DiskStored(d)' = DiskStored(d)
        /\ u \notin BootRestart => objects' = objects
        /\ u \in BootRestart /\ old[u] \in Update => objects'[old[u]].networkInterfaces = {}
    BY <1>0, <1>3, SetCacheEffect DEF Begin
  <2>2. /\ thread = NoUpdate /\ stage[u] = "queued" /\ stage' = [stage EXCEPT ![u] = "choosing"]
        /\ UNCHANGED <<chuteList, configured, old, own>>
        /\ unsettled' = IF u \in BootRestart THEN unsettled \cup {ChuteOf[u]} ELSE unsettled
        /\ u \in BootRestart => old[u] # NoUpdate
    BY <1>3 DEF Begin, Take, Valid
  <2>3. ASSUME NEW d \in Chute PROVE SettledChute(d)'
    <3>1. CASE d \notin unsettled'
      <4>1. Stored(d)' = Stored(d) /\ d \notin unsettled
        BY <2>1, <2>2, <3>1 DEF Stored
      <4> QED BY <1>0, <2>1, <2>2, <4>1 DEF SettledChute
    <3>2. CASE d \in unsettled'
      BY <3>2 DEF SettledChute
    <3> QED BY <3>1, <3>2
  <2>4. SettledUpdate(u)'
    <3>1. stage'[u] = "choosing" /\ own'[u] = {} /\ old'[u] = old[u]
      BY <1>0, <2>2 DEF TypeOK, SaneUpdate
    <3>2. u \in BootRestart => old[u] \in Update /\ ChuteOf[u] \in unsettled'
      BY <1>0, <2>2 DEF TypeOK
    <3> QED BY <2>1, <3>1, <3>2 DEF SettledUpdate
  <2>5. ASSUME NEW v \in Update, v # u PROVE SettledUpdate(v)'
    <3>1. stage'[v] = stage[v] /\ stage[v] \notin {"choosing", "written"}
      BY <1>0, <2>2, <2>5 DEF TypeOK, ThreadStages
    <3>2. v \in BootRestart => stage[v] \notin {"building", "built"}
      BY <1>0 DEF SettledUpdate
    <3> QED BY <3>1, <3>2 DEF SettledUpdate
  <2> QED BY <2>3, <2>4, <2>5 DEF Settled
<1>4. ASSUME NEW u \in Update, Choose(u) PROVE Settled'
  <2>1. PICK i : own' = [own EXCEPT ![u] = @ \cup {i}] /\ SetCache(u, own[u] \cup {i})
    BY <1>4 DEF Choose
  <2>2. /\ thread = u /\ stage[u] = "choosing"
        /\ UNCHANGED <<chuteList, disk, configured, stage, old, unsettled>>
    BY <1>4 DEF Choose
  <2>3. /\ \A d \in Chute : d # ChuteOf[u] => Stored(d)' = Stored(d)
        /\ \A d \in Chute : DiskStored(d)' = DiskStored(d)
        /\ u \notin BootRestart => objects' = objects
        /\ u \in BootRestart /\ old[u] \in Update
             => objects'[old[u]].networkInterfaces = own[u] \cup {i}
    BY <1>0, <2>1, <2>2, SetCacheEffect
  <2>4. u \in BootRestart => old[u] \in Update /\ ChuteOf[u] \in unsettled
    BY <1>0, <2>2 DEF BootOld, SettledUpdate
  <2>5. ASSUME NEW d \in Chute PROVE SettledChute(d)'
    <3>1. CASE d \notin unsettled
      <4>1. Stored(d)' = Stored(d)
        BY <2>2, <2>3, <2>4, <3>1 DEF Stored
      <4> QED BY <1>0, <2>2, <2>3, <4>1 DEF SettledChute
    <3>2. CASE d \in unsettled
      BY <2>2, <3>2 DEF SettledChute
    <3> QED BY <3>1, <3>2
  <2>6. SettledUpdate(u)'
    <3>1. own'[u] = own[u] \cup {i}
      BY <1>0, <2>1 DEF TypeOK
    <3> QED BY <2>2, <2>3, <2>4, <3>1 DEF SettledUpdate
  <2>7. ASSUME NEW v \in Update, v # u PROVE SettledUpdate(v)'
    BY <1>d, <2>2, <2>7
  <2> QED BY <2>5, <2>6, <2>7 DEF Settled
<1>5. ASSUME NEW u \in Update, Yield(u) PROVE Settled'
  <2>1. u \notin BootRestart
    BY <1>5 DEF Yield, Yields, Building
  <2>2. SettledUpdate(u)'
    BY <1>0, <1>5, <2>1 DEF Yield, TypeOK, SettledUpdate
  <2>3. ASSUME NEW v \in Update, v # u PROVE SettledUpdate(v)'
    BY <1>0, <1>5, <1>c, <2>3 DEF Yield, TypeOK, choice
  <2> QED BY <1>5, <1>a, <2>2, <2>3 DEF Yield, Settled
<1>6. ASSUME NEW u \in Update, Resume(u) PROVE Settled'
  <2>1. u \notin BootRestart
    BY <1>0, <1>6 DEF Resume, SettledUpdate
  <2>2. SettledUpdate(u)'
    BY <1>0, <1>6, <2>1 DEF Resume, TypeOK, SettledUpdate
  <2>3. ASSUME NEW v \in Update, v # u PROVE SettledUpdate(v)'
    BY <1>0, <1>6, <1>c, <2>3 DEF Resume, TypeOK, choice
  <2> QED BY <1>6, <1>a, <2>2, <2>3 DEF Resume, Settled
<1>7. ASSUME NEW u \in Update, Continue(u) PROVE Settled'
  BY <1>7, <1>a, <1>c DEF Continue, choice, Settled
<1>8. ASSUME NEW u \in Update, SetConfig(u) PROVE Settled'
  <2>1. /\ thread = u /\ Ready(u)
        /\ configured' = [configured EXCEPT ![ChuteOf[u]] = own[u]]
        /\ stage' = [stage EXCEPT ![u] = "written"]
        /\ unsettled' = unsettled \cup {ChuteOf[u]}
        /\ UNCHANGED <<storage, old, own>>
    BY <1>8 DEF SetConfig, choice
  <2>2. ASSUME NEW d \in Chute PROVE SettledChute(d)'
    <3>1. CASE d \in unsettled'
      BY <3>1 DEF SettledChute
    <3>2. CASE d \notin unsettled'
      <4>1. configured'[d] = configured[d] /\ d \notin unsettled
        BY <1>0, <2>1, <3>2 DEF TypeOK
      <4>2. Stored(d)' = Stored(d) /\ DiskStored(d)' = DiskStored(d)
        BY <2>1 DEF storage, Stored, DiskStored, IfacesOf
      <4> QED BY <1>0, <4>1, <4>2 DEF SettledChute
    <3> QED BY <3>1, <3>2
  <2>3. SettledUpdate(u)'
    <3>1. /\ configured'[ChuteOf[u]] = own'[u] /\ ChuteOf[u] \in unsettled'
          /\ stage'[u] = "written" /\ old'[u] = old[u] /\ objects' = objects
          /\ own'[u] = own[u]
      BY <1>0, <2>1 DEF TypeOK, storage
    <3>2. u \in BootRestart => stage[u] = "choosing"
      BY <1>0, <2>1 DEF Ready, SettledUpdate
    <3> QED BY <1>0, <3>1, <3>2 DEF SettledUpdate
  <2>4. ASSUME NEW v \in Update, v # u PROVE SettledUpdate(v)'
    BY <1>0, <1>d, <2>1, <2>4 DEF TypeOK
  <2> QED BY <2>2, <2>3, <2>4 DEF Settled
<1>9. ASSUME NEW u \in Update, SaveChute(u) PROVE Settled'
  <2>1. /\ thread = u /\ stage[u] = "written"
        /\ stage' = [stage EXCEPT ![u] = "saved"]
        /\ unsettled' = unsettled \ {ChuteOf[u]}
        /\ UNCHANGED <<configured, old, own>>
    BY <1>9 DEF SaveChute, choice
  <2>2. ASSUME NEW d \in Chute
        PROVE  /\ Stored(d)' = IF d = ChuteOf[u] THEN own[u] ELSE Stored(d)
               /\ DiskStored(d)' = Stored(d)'
    <3>1. CASE KindOf[u] = "delete"
      <4>1. own[u] = {}
        BY <1>0, <3>1 DEF SaneUpdate, Running
      <4> QED BY <1>0, <1>9, <3>1, <4>1, UnstoreEffect DEF SaveChute
    <3>2. CASE KindOf[u] # "delete"
      <4>1. PICK id \in Update, obj \in ChuteObject :
              /\ Store(ChuteOf[u], id, obj)
              /\ u \in BootRestart => id = old[u] /\ obj = objects[old[u]]
              /\ u \notin BootRestart => id = u /\ obj.networkInterfaces = own[u]
        BY <1>0, <1>9, <3>2, NewObjectType DEF SaveChute
      <4>2. ChuteOf[id] = ChuteOf[u] /\ obj.networkInterfaces = own[u]
        BY <1>0, <2>1, <4>1 DEF SaneUpdate, SettledUpdate
      <4> QED BY <1>0, <4>1, <4>2, StoreEffect
    <3> QED BY <3>1, <3>2
  <2>3. ASSUME NEW d \in Chute PROVE SettledChute(d)'
    <3>1. CASE d = ChuteOf[u]
      BY <1>0, <2>1, <2>2, <3>1 DEF SettledChute, SettledUpdate
    <3>2. CASE d # ChuteOf[u]
      BY <1>0, <2>1, <2>2, <3>2 DEF SettledChute
    <3> QED BY <3>1, <3>2
  <2>4. SettledUpdate(u)'
    BY <1>0, <1>b, <2>1 DEF TypeOK
  <2>5. ASSUME NEW v \in Update, v # u PROVE SettledUpdate(v)'
    BY <1>0, <1>d, <2>1, <2>5 DEF TypeOK
  <2> QED BY <2>3, <2>4, <2>5 DEF Settled
<1>10. ASSUME NEW u \in Update, Succeed(u) PROVE Settled'
  BY <1>10, <1>e DEF Succeed
<1>11. ASSUME NEW u \in Update, FailUnsaved(u) PROVE Settled'
  BY <1>11, <1>e DEF FailUnsaved
<1>12. ASSUME NEW u \in Update, FailSaved(u) PROVE Settled'
  <2>1. /\ thread = u /\ End(u) /\ UNCHANGED configured
        /\ unsettled' = IF old[u] \notin Update \/ chuteList[ChuteOf[u]] # old[u]
                          THEN unsettled \cup {ChuteOf[u]} ELSE unsettled
    BY <1>12 DEF FailSaved
  <2>2. ASSUME NEW d \in Chute, d \notin unsettled'
        PROVE  Stored(d)' = Stored(d) /\ DiskStored(d)' = Stored(d)'
    <3>1. CASE old[u] = NoUpdate
      <4>1. d # ChuteOf[u]
        BY <2>1, <2>2, <3>1
      <4> QED BY <1>0, <1>12, <3>1, <4>1, UnstoreEffect DEF FailSaved
    <3>2. CASE old[u] # NoUpdate
      <4>1. /\ old[u] \in Update /\ objects[old[u]] \in ChuteObject
            /\ ChuteOf[old[u]] = ChuteOf[u]
        BY <1>0, <3>2 DEF TypeOK, SaneUpdate
      <4>2. Store(ChuteOf[u], old[u], objects[old[u]])
        BY <1>12, <3>2 DEF FailSaved
      <4>3. /\ Stored(d)' = IF d = ChuteOf[u] THEN objects[old[u]].networkInterfaces
                                              ELSE Stored(d)
            /\ DiskStored(d)' = Stored(d)'
        BY <1>0, <4>1, <4>2, StoreEffect
      <4>4. d = ChuteOf[u] => Stored(d) = objects[old[u]].networkInterfaces
        BY <2>1, <2>2, <3>2 DEF Stored
      <4> QED BY <4>3, <4>4
    <3> QED BY <3>1, <3>2
  <2>3. ASSUME NEW d \in Chute PROVE SettledChute(d)'
    <3>1. CASE d \notin unsettled'
      BY <1>0, <2>1, <2>2, <3>1 DEF SettledChute
    <3>2. CASE d \in unsettled'
      BY <3>2 DEF SettledChute
    <3> QED BY <3>1, <3>2
  <2>4. SettledUpdate(u)'
    BY <1>0, <1>b, <2>1 DEF End, TypeOK
  <2>5. ASSUME NEW v \in Update, v # u PROVE SettledUpdate(v)'
    BY <1>0, <1>d, <2>1, <2>5 DEF End, TypeOK
  <2> QED BY <2>3, <2>4, <2>5 DEF Settled
<1>13. CASE Crash
  <2>1. ASSUME NEW d \in Chute PROVE SettledChute(d)'
    <3>1. /\ chuteList' = disk'.chuteList /\ objects' = disk'.objects
          /\ configured' = configured
          /\ unsettled' = Chute \/ (unsettled' = unsettled /\ disk' = disk)
      BY <1>13 DEF Crash
    <3>2. Stored(d)' = DiskStored(d)'
      BY <3>1 DEF Stored, DiskStored, IfacesOf
    <3>3. disk' = disk => DiskStored(d)' = DiskStored(d)
      BY DEF DiskStored, IfacesOf
    <3> QED BY <1>0, <3>1, <3>2, <3>3 DEF SettledChute
  <2>2. ASSUME NEW v \in Update PROVE SettledUpdate(v)'
    BY <1>13, <1>b DEF Crash
  <2> QED BY <2>1, <2>2 DEF Settled
<1>14. CASE reloadChutes
  <2>1. UNCHANGED <<storage, configured, unsettled, own>>
    BY <1>14 DEF reloadChutes, choice
  <2>2. PICK restarts \in Restarts :
          /\ stage' = [u \in Update |-> IF u \in restarts THEN "queued" ELSE stage[u]]
          /\ old' = [u \in Update |-> IF u \in restarts THEN chuteList[ChuteOf[u]] ELSE old[u]]
    BY <1>14 DEF reloadChutes
  <2>3. ASSUME NEW v \in Update PROVE SettledUpdate(v)'
    <3>1. CASE v \in restarts
      BY <1>b, <2>2, <3>1
    <3>2. CASE v \notin restarts
      BY <1>c, <2>1, <2>2, <3>2
    <3> QED BY <3>1, <3>2
  <2> QED BY <1>a, <2>1, <2>3 DEF Settled
<1>15. CASE UNCHANGED vars
  BY <1>15, <1>a, <1>c DEF vars, choice, Settled
<1> QED BY <1>1, <1>2, <1>3, <1>4, <1>5, <1>6, <1>7, <1>8, <1>9, <1>10, <1>11, <1>12, <1>13,
           <1>14, <1>15 DEF Next

\* What a chute may have is sound.
LEMMA SoundStored ==
  ASSUME TypeOK, SaneStorage, NEW c \in Chute
  PROVE  Sound(c)
<1>1. OfChute(c, Stored(c))
  BY StoredOfChute
<1>2. \A i \in Stored(c) : i.chute # Host
  BY <1>1, OfChuteFacts
<1> QED BY <1>1, <1>2 DEF OfChute, Fine, Apart, Sound

\* With any setting, and whenever the daemon stops, a chute's interfaces do not clash
\* with the host's or each other, and a chute that did not stop half-way has in
\* storage what the configuration files have of it.
THEOREM ChuteConsistentHolds == Spec => []ChuteConsistent
<1>1. Init => Typed /\ AtRest /\ Sane /\ Settled
  BY InitTyped, InitSane, InitSettled DEF Init, AtRest
<1>2. Typed /\ AtRest /\ Sane /\ Settled /\ [Next]_vars => (Typed /\ AtRest /\ Sane /\ Settled)'
  BY StepTyped, StepAtRest, StepSane, StepSettled
<1>3. Typed /\ Sane /\ Settled => ChuteConsistent
  BY SoundStored DEF Typed, Sane, Settled, SettledChute, ChuteConsistent
<1> QED BY <1>1, <1>2, <1>3, PTL DEF Spec
-----------------------------------------------------------------------------
(* One by one, everything in use is fine together *)

\* The settings never change.
LEMMA SettingKept == [Next]_vars => setting' = setting
BY DEF Next, vars, life, Enqueue, Reject, Begin, Choose, Yield, Resume, Continue, SetConfig,
       SaveChute, Succeed, FailUnsaved, FailSaved, Crash, reloadChutes

Pending(u) == stage[u] \notin {"new", "done"}

\* No chute has two updates under way, none before boot has queued its restarts, and no
\* update gives up the thread.
OneEach ==
  /\ \A u, v \in Update : Pending(u) /\ Pending(v) /\ ChuteOf[u] = ChuteOf[v] => u = v
  /\ ~booted => \A u \in Update : ~Pending(u)
  /\ \A u \in Update : stage[u] \notin {"building", "built"}

Alone == OneByOne => OneEach

\* Every step keeps it so.
LEMMA StepAlone == Typed /\ Alone /\ [Next]_vars => Alone'
<1> SUFFICES ASSUME Typed, Alone, [Next]_vars, OneByOne' PROVE OneEach'
  BY DEF Alone
<1>0. OneByOne /\ OneEach /\ stage \in [Update -> Stages]
  BY SettingKept DEF OneByOne, Alone, Typed, TypeOK
<1>a. ASSUME booted' = booted,
             \A u \in Update : Pending(u)' => Pending(u),
             \A u \in Update : stage'[u] \notin {"building", "built"}
      PROVE  OneEach'
  BY <1>0, <1>a DEF OneEach
<1>1. ASSUME NEW u \in Update, Enqueue(u) PROVE OneEach'
  <2>1. /\ booted /\ booted' = booted
        /\ \A v \in Update : ChuteOf[v] = ChuteOf[u] => ~Pending(v)
        /\ stage' = [stage EXCEPT ![u] = "queued"]
    BY <1>0, <1>1 DEF Enqueue, OneByOne, Pending, life
  <2>2. \A v \in Update : v # u => (Pending(v)' <=> Pending(v))
    BY <1>0, <2>1 DEF Pending
  <2>3. \A v, w \in Update : Pending(v)' /\ Pending(w)' /\ ChuteOf[v] = ChuteOf[w] => v = w
    BY <1>0, <2>1, <2>2 DEF OneEach
  <2>4. \A v \in Update : stage'[v] \notin {"building", "built"}
    BY <1>0, <2>1 DEF OneEach
  <2> QED BY <2>1, <2>3, <2>4 DEF OneEach
<1>2. ASSUME NEW u \in Update, Reject(u) \/ Succeed(u) \/ FailUnsaved(u) \/ FailSaved(u)
      PROVE  OneEach'
  <2>1. booted' = booted /\ stage' = [stage EXCEPT ![u] = "done"]
    BY <1>2 DEF Reject, Succeed, FailUnsaved, FailSaved, End, life
  <2> QED BY <1>0, <1>a, <2>1 DEF Pending, OneEach
<1>3. ASSUME NEW u \in Update, Begin(u) \/ SetConfig(u) \/ SaveChute(u) PROVE OneEach'
  <2>1. /\ booted' = booted /\ Pending(u)
        /\ \E s \in {"choosing", "written", "saved"} : stage' = [stage EXCEPT ![u] = s]
    BY <1>3 DEF Begin, SetConfig, SaveChute, Ready, Pending, life
  <2> QED BY <1>0, <1>a, <2>1 DEF Pending, OneEach
<1>4. ASSUME NEW u \in Update, Choose(u) \/ Continue(u) PROVE OneEach'
  <2>1. booted' = booted /\ stage' = stage
    BY <1>4 DEF Choose, Continue, life
  <2> QED BY <1>0, <1>a, <2>1 DEF Pending, OneEach
<1>5. ASSUME NEW u \in Update, Yield(u) \/ Resume(u) PROVE OneEach'
  BY <1>0, <1>5 DEF Yield, Yields, OneByOne, Resume, OneEach
<1>6. CASE Crash
  BY <1>0, <1>6 DEF Crash, Pending, OneEach
<1>7. CASE reloadChutes
  <2>1. PICK restarts \in Restarts :
          stage' = [u \in Update |-> IF u \in restarts THEN "queued" ELSE stage[u]]
    BY <1>7 DEF reloadChutes
  <2>2. booted' /\ \A u \in Update : ~Pending(u)
    BY <1>0, <1>7 DEF reloadChutes, OneEach
  <2>3. \A u \in Update : Pending(u)' => u \in BootRestart
    BY <2>1, <2>2 DEF Pending, Restarts
  <2> QED BY <1>0, <2>1, <2>2, <2>3, NetworkReservationsAssumption DEF OneEach
<1>8. CASE UNCHANGED vars
  BY <1>0, <1>8, <1>a DEF vars, life, Pending, OneEach
<1> QED BY <1>1, <1>2, <1>3, <1>4, <1>5, <1>6, <1>7, <1>8 DEF Next

DiskInUse == HostIfaces \cup UNION {DiskStored(c) : c \in Chute}

\* An update knows what is stored of its chute and, while it chooses and writes, exactly
\* what the others have; what it chose fits in with that, and so does what it puts back
\* if it fails late.
Exact(u) ==
  /\ stage[u] \in {"queued", "choosing", "written"} => old[u] = chuteList[ChuteOf[u]]
  /\ stage[u] \in {"choosing", "written"} =>
       view[u] = getReservations(ChuteOf[u]) /\ Fine(view[u] \cup own[u])
  /\ stage[u] = "saved" /\ old[u] \in Update =>
       Fine(getReservations(ChuteOf[u]) \cup objects[old[u]].networkInterfaces)

Exclusive ==
  OneByOne =>
    /\ \A u \in Update : Exact(u)
    /\ Fine(InUse)
    /\ Fine(DiskInUse)

\* All in use is what a chute has and what the others have.
LEMMA InUseForm == \A c \in Chute : InUse = getReservations(c) \cup Stored(c)
BY DEF InUse, getReservations

\* And so it is after a step.
LEMMA InUseFormNext == \A c \in Chute : InUse' = getReservations(c)' \cup Stored(c)'
BY DEF InUse, getReservations

\* What changes one chute only keeps what it sees of the others.
LEMMA ReservationsKept ==
  ASSUME NEW c \in Chute, \A d \in Chute : d # c => Stored(d)' = Stored(d)
  PROVE  getReservations(c)' = getReservations(c)
BY DEF getReservations

\* Initially only the host uses anything.
LEMMA InitExclusive == Init => Exclusive
<1> SUFFICES ASSUME Init PROVE Exclusive
  OBVIOUS
<1>1. \A c \in Chute : Stored(c) = {} /\ DiskStored(c) = {}
  BY DEF Init, EmptyStorage, Stored, DiskStored, IfacesOf
<1>2. InUse = HostIfaces /\ DiskInUse = HostIfaces
  BY <1>1 DEF InUse, DiskInUse
<1>3. \A u \in Update : Exact(u)
  BY DEF Init, Exact
<1> QED BY <1>2, <1>3, FineHost DEF Exclusive

\* Every step keeps everything in use fine together.
LEMMA StepExclusive == Typed /\ Sane /\ Settled /\ Alone /\ Exclusive /\ [Next]_vars => Exclusive'
<1> SUFFICES ASSUME Typed, Sane, Settled, Alone, Exclusive, [Next]_vars, OneByOne'
             PROVE  (\A u \in Update : Exact(u)') /\ Fine(InUse') /\ Fine(DiskInUse')
  BY DEF Exclusive
<1> USE NetworkReservationsAssumption
<1> DEFINE Exacts == \A v \in Update : Exact(v)'
           Fines == Fine(InUse') /\ Fine(DiskInUse')
<1>0. /\ TypeOK /\ ThreadStages /\ BootOld
      /\ SaneStorage /\ \A u \in Update : SaneUpdate(u)
      /\ \A u \in Update : SettledUpdate(u)
      /\ OneByOne /\ OneEach
      /\ \A u \in Update : Exact(u)
      /\ Fine(InUse) /\ Fine(DiskInUse)
  BY SettingKept DEF OneByOne, Typed, Sane, Settled, Alone, Exclusive
<1>a. ASSUME UNCHANGED storage
      PROVE  /\ Fines
             /\ \A c \in Chute : getReservations(c)' = getReservations(c)
             /\ UNCHANGED <<chuteList, objects>>
  <2>1. \A c \in Chute : Stored(c)' = Stored(c) /\ DiskStored(c)' = DiskStored(c)
    BY <1>a DEF storage, Stored, DiskStored, IfacesOf
  <2>2. InUse' = InUse /\ DiskInUse' = DiskInUse
    BY <2>1 DEF InUse, DiskInUse
  <2> QED BY <1>0, <1>a, <2>1, <2>2 DEF storage, getReservations
<1>b. ASSUME UNCHANGED storage, NEW v \in Update,
             stage'[v] = stage[v], old'[v] = old[v], view'[v] = view[v], own'[v] = own[v]
      PROVE  Exact(v)'
  <2>1. Exact(v) /\ getReservations(ChuteOf[v])' = getReservations(ChuteOf[v])
    BY <1>0, <1>a, <1>b
  <2> QED BY <1>a, <1>b, <2>1 DEF Exact
<1>c. ASSUME NEW v \in Update, stage'[v] \in {"new", "done"} PROVE Exact(v)'
  BY <1>c DEF Exact
<1>d. ASSUME NEW u \in Update, thread \in {u, NoUpdate}, Pending(u),
             \A d \in Chute : d # ChuteOf[u] => chuteList'[d] = chuteList[d],
             NEW v \in Update, v # u, stage'[v] = stage[v], old'[v] = old[v]
      PROVE  Exact(v)'
  <2>1. stage'[v] \notin {"choosing", "written", "saved"}
    BY <1>0, <1>d DEF ThreadStages
  <2>2. CASE stage[v] = "queued"
    <3>1. ChuteOf[v] # ChuteOf[u]
      BY <1>0, <1>d, <2>2 DEF OneEach, Pending
    <3> QED BY <1>0, <1>d, <2>1, <2>2, <3>1 DEF Exact
  <2>3. CASE stage[v] # "queued"
    BY <1>d, <2>1, <2>3 DEF Exact
  <2> QED BY <2>2, <2>3
<1>e. ASSUME NEW u \in Update, End(u), UNCHANGED storage PROVE Exacts /\ Fines
  <2>1. Exact(u)'
    BY <1>0, <1>c, <1>e DEF End, TypeOK
  <2>2. ASSUME NEW v \in Update, v # u PROVE Exact(v)'
    BY <1>0, <1>b, <1>e, <2>2 DEF End, TypeOK
  <2> QED BY <1>a, <1>e, <2>1, <2>2
<1>1. ASSUME NEW u \in Update, Enqueue(u) PROVE Exacts /\ Fines
  <2>1. UNCHANGED <<storage, view, own>>
    BY <1>1 DEF Enqueue
  <2>2. stage'[u] = "queued" /\ old'[u] = chuteList[ChuteOf[u]]
    BY <1>0, <1>1 DEF Enqueue, TypeOK
  <2>3. Exact(u)'
    BY <2>1, <2>2 DEF storage, Exact
  <2>4. ASSUME NEW v \in Update, v # u PROVE Exact(v)'
    BY <1>0, <1>1, <1>b, <2>1, <2>4 DEF Enqueue, TypeOK
  <2> QED BY <1>a, <2>1, <2>3, <2>4
<1>2. ASSUME NEW u \in Update, Reject(u) \/ Succeed(u) \/ FailUnsaved(u) PROVE Exacts /\ Fines
  <2>1. End(u) /\ UNCHANGED storage
    BY <1>2 DEF Reject, Succeed, FailUnsaved
  <2> QED BY <1>e, <2>1
<1>3. ASSUME NEW u \in Update, Begin(u) PROVE Exacts /\ Fines
  <2> DEFINE c == ChuteOf[u]
  <2>1. /\ thread = NoUpdate /\ stage[u] = "queued" /\ stage' = [stage EXCEPT ![u] = "choosing"]
        /\ view' = [view EXCEPT ![u] = getReservations(c)]
        /\ UNCHANGED <<chuteList, disk, old, own>>
        /\ u \in BootRestart => old[u] # NoUpdate
    BY <1>3 DEF Begin, Take, Valid
  <2>2. /\ \A d \in Chute : d # c => Stored(d)' = Stored(d)
        /\ \A d \in Chute : DiskStored(d)' = DiskStored(d)
        /\ u \notin BootRestart => objects' = objects
        /\ u \in BootRestart /\ old[u] \in Update => objects'[old[u]].networkInterfaces = {}
    BY <1>0, <1>3, SetCacheEffect DEF Begin
  <2>3. c \in Chute /\ InUse = getReservations(c) \cup Stored(c)
    BY InUseForm
  <2>4. getReservations(c)' = getReservations(c)
    BY <2>2, <2>3, ReservationsKept
  <2>5. InUse' = getReservations(c) \cup Stored(c)'
    BY <2>3, <2>4, InUseFormNext
  <2>6. Stored(c)' \subseteq Stored(c)
    <3>1. CASE u \in BootRestart
      <4>1. old[u] \in Update /\ old[u] = chuteList[c]
        <5>1. Exact(u) /\ old[u] \in Update \cup {NoUpdate}
          BY <1>0 DEF TypeOK
        <5> QED BY <2>1, <3>1, <5>1 DEF Exact
      <4> QED BY <2>1, <2>2, <3>1, <4>1 DEF Stored
    <3>2. CASE u \notin BootRestart
      BY <2>1, <2>2, <3>2 DEF Stored
    <3> QED BY <3>1, <3>2
  <2>7. Fine(InUse') /\ Fine(getReservations(c))
    BY <1>0, <2>3, <2>5, <2>6, FineSubset
  <2>8. DiskInUse' = DiskInUse
    BY <2>2 DEF DiskInUse
  <2>9. Exact(u)'
    <3>1. /\ stage'[u] = "choosing" /\ view'[u] = getReservations(c)
          /\ old'[u] = chuteList'[c] /\ own'[u] = {}
      BY <1>0, <2>1 DEF TypeOK, Exact, SaneUpdate
    <3>2. view'[u] \cup own'[u] = getReservations(c)
      BY <3>1
    <3> QED BY <2>4, <2>7, <3>1, <3>2 DEF Exact
  <2>10. ASSUME NEW v \in Update, v # u PROVE Exact(v)'
    BY <1>0, <1>d, <2>1, <2>10 DEF TypeOK, Pending
  <2> QED BY <1>0, <2>7, <2>8, <2>9, <2>10
<1>4. ASSUME NEW u \in Update, Choose(u) PROVE Exacts /\ Fines
  <2> DEFINE c == ChuteOf[u]
             r == Asks(u)[Cardinality(own[u]) + 1]
             R == view[u] \cup own[u]
  <2>1. PICK i \in Choices(c, r, R) :
          own' = [own EXCEPT ![u] = @ \cup {i}] /\ SetCache(u, own[u] \cup {i})
    BY <1>4 DEF Choose
  <2>2. /\ thread = u /\ stage[u] = "choosing" /\ Missing(u)
        /\ UNCHANGED <<chuteList, disk, stage, old, view>>
    BY <1>4 DEF Choose
  <2>3. /\ \A d \in Chute : d # c => Stored(d)' = Stored(d)
        /\ \A d \in Chute : DiskStored(d)' = DiskStored(d)
        /\ u \notin BootRestart => objects' = objects
        /\ u \in BootRestart /\ old[u] \in Update
             => objects'[old[u]].networkInterfaces = own[u] \cup {i}
    BY <1>0, <2>1, <2>2, SetCacheEffect
  <2>4. Fine(R) /\ view[u] = getReservations(c) /\ old[u] = chuteList[c]
    BY <1>0, <2>2 DEF Exact
  <2>5. c \in Chute /\ r \in Request
    BY <2>2, NextRequest
  <2>6. R \in SUBSET R /\ R \subseteq Iface /\ IsFiniteSet(R) /\ (\A j \in R : Shaped(j))
        /\ HostIfaces \subseteq R
    BY <1>0, <2>2, <2>4 DEF Fine, SaneUpdate
  <2>7. Fine(R \cup {i})
    BY <2>4, <2>5, <2>6, FineChoice
  <2>8. getReservations(c)' = getReservations(c)
    BY <2>3, <2>5, ReservationsKept
  <2>9. own'[u] = own[u] \cup {i} /\ R \cup {i} = getReservations(c) \cup own'[u]
    BY <1>0, <2>1, <2>4 DEF TypeOK
  <2>10. Fine(InUse')
    <3>1. CASE u \in BootRestart
      <4>1. old[u] \in Update
        BY <1>0, <2>2, <3>1 DEF BootOld
      <4>2. Stored(c)' = own'[u]
        BY <2>2, <2>3, <2>4, <2>9, <3>1, <4>1 DEF Stored
      <4> QED BY <2>5, <2>7, <2>8, <2>9, <4>2, InUseFormNext
    <3>2. CASE u \notin BootRestart
      <4>1. Stored(c)' = Stored(c)
        BY <2>2, <2>3, <3>2 DEF Stored
      <4>2. InUse' = InUse
        BY <2>5, <2>8, <4>1, InUseForm, InUseFormNext
      <4> QED BY <1>0, <4>2
    <3> QED BY <3>1, <3>2
  <2>11. DiskInUse' = DiskInUse
    BY <2>3 DEF DiskInUse
  <2>12. Exact(u)'
    <3>1. view'[u] \cup own'[u] = R \cup {i}
      BY <2>2, <2>9
    <3> QED BY <2>2, <2>4, <2>7, <2>8, <3>1 DEF Exact
  <2>13. ASSUME NEW v \in Update, v # u PROVE Exact(v)'
    BY <1>0, <1>d, <2>2, <2>13 DEF TypeOK, Pending
  <2> QED BY <1>0, <2>10, <2>11, <2>12, <2>13
<1>5. ASSUME NEW u \in Update, Yield(u) \/ Resume(u) PROVE Exacts /\ Fines
  BY <1>0, <1>5 DEF Yield, Yields, OneByOne, Resume, OneEach
<1>6. ASSUME NEW u \in Update, Continue(u) PROVE Exacts /\ Fines
  BY <1>6, <1>a, <1>b DEF Continue, choice
<1>7. ASSUME NEW u \in Update, SetConfig(u) PROVE Exacts /\ Fines
  <2>1. /\ stage[u] = "choosing" /\ stage' = [stage EXCEPT ![u] = "written"]
        /\ UNCHANGED <<storage, old, view, own>>
    BY <1>0, <1>7 DEF SetConfig, Ready, OneEach, choice
  <2>2. Exact(u)'
    <3>1. stage'[u] = "written" /\ old'[u] = old[u] /\ view'[u] = view[u] /\ own'[u] = own[u]
      BY <1>0, <2>1 DEF TypeOK
    <3>2. Exact(u) /\ getReservations(ChuteOf[u])' = getReservations(ChuteOf[u])
      BY <1>0, <1>a, <2>1
    <3> QED BY <1>a, <2>1, <3>1, <3>2 DEF Exact
  <2>3. ASSUME NEW v \in Update, v # u PROVE Exact(v)'
    BY <1>0, <1>b, <2>1, <2>3 DEF TypeOK
  <2> QED BY <1>a, <2>1, <2>2, <2>3
<1>8. ASSUME NEW u \in Update, SaveChute(u) PROVE Exacts /\ Fines
  <2> DEFINE c == ChuteOf[u]
  <2>1. /\ thread = u /\ stage[u] = "written" /\ stage' = [stage EXCEPT ![u] = "saved"]
        /\ UNCHANGED <<old, view, own>>
    BY <1>8 DEF SaveChute, choice
  <2>2. /\ view[u] = getReservations(c) /\ Fine(getReservations(c) \cup own[u])
        /\ old[u] = chuteList[c] /\ c \in Chute
    BY <1>0, <2>1 DEF Exact
  <2>3. /\ \A d \in Chute :
             /\ Stored(d)' = IF d = c THEN own[u] ELSE Stored(d)
             /\ DiskStored(d)' = Stored(d)'
             /\ d # c => chuteList'[d] = chuteList[d]
        /\ old[u] \in Update =>
             Fine(getReservations(c) \cup objects'[old[u]].networkInterfaces)
    <3>1. CASE KindOf[u] = "delete"
      <4>1. Unstore(c) /\ own[u] = {}
        BY <1>0, <1>8, <3>1 DEF SaveChute, SaneUpdate, Running
      <4>2. old[u] # NoUpdate => Stored(c) = objects[old[u]].networkInterfaces
        BY <2>2 DEF Stored
      <4>3. old[u] \in Update =>
              Fine(getReservations(c) \cup objects'[old[u]].networkInterfaces)
        BY <1>0, <2>2, <4>1, <4>2, InUseForm DEF Unstore
      <4>4. \A d \in Chute : d # c => chuteList'[d] = chuteList[d]
        BY <1>0, <4>1 DEF Unstore, TypeOK
      <4>5. \A d \in Chute :
              /\ Stored(d)' = IF d = c THEN own[u] ELSE Stored(d)
              /\ DiskStored(d)' = Stored(d)'
        BY <1>0, <2>2, <4>1, UnstoreEffect
      <4> QED BY <4>3, <4>4, <4>5
    <3>2. CASE KindOf[u] # "delete"
      <4>1. PICK id \in Update, obj \in ChuteObject :
              /\ Store(c, id, obj)
              /\ u \in BootRestart => id = old[u] /\ obj = objects[old[u]]
              /\ u \notin BootRestart => id = u /\ obj.networkInterfaces = own[u]
        BY <1>0, <1>8, <2>1, <3>2, NewObjectType DEF SaveChute
      <4>2. ChuteOf[id] = c /\ obj.networkInterfaces = own[u]
        BY <1>0, <2>1, <4>1 DEF SaneUpdate, SettledUpdate
      <4>3. PICK x \in Update :
              /\ x = IF chuteList[c] = NoUpdate THEN id ELSE chuteList[c]
              /\ chuteList' = [chuteList EXCEPT ![c] = x]
              /\ objects' = [objects EXCEPT ![x] = obj]
        BY <1>0, <2>2, <4>1, StoreForm
      <4>4. \A d \in Chute : d # c => chuteList'[d] = chuteList[d]
        BY <1>0, <4>3 DEF TypeOK
      <4>5. old[u] \in Update => objects'[old[u]].networkInterfaces = own[u]
        BY <1>0, <2>2, <4>2, <4>3 DEF TypeOK
      <4>6. \A d \in Chute :
              /\ Stored(d)' = IF d = c THEN own[u] ELSE Stored(d)
              /\ DiskStored(d)' = Stored(d)'
        BY <1>0, <2>2, <4>1, <4>2, StoreEffect
      <4> QED BY <2>2, <4>4, <4>5, <4>6
    <3> QED BY <3>1, <3>2
  <2>4. getReservations(c)' = getReservations(c)
    BY <2>2, <2>3, ReservationsKept
  <2>5. InUse' = getReservations(c) \cup own[u]
    BY <2>2, <2>3, <2>4, InUseFormNext
  <2>6. DiskInUse' = InUse'
    BY <2>3 DEF InUse, DiskInUse
  <2>7. Exact(u)'
    <3>1. stage'[u] = "saved" /\ old'[u] = old[u]
      BY <1>0, <2>1 DEF TypeOK
    <3> QED BY <2>3, <2>4, <3>1 DEF Exact
  <2>8. ASSUME NEW v \in Update, v # u PROVE Exact(v)'
    BY <1>0, <1>d, <2>1, <2>3, <2>8 DEF TypeOK, Pending
  <2> QED BY <2>2, <2>5, <2>6, <2>7, <2>8
<1>9. ASSUME NEW u \in Update, FailSaved(u) PROVE Exacts /\ Fines
  <2> DEFINE c == ChuteOf[u]
  <2>1. thread = u /\ stage[u] = "saved" /\ End(u) /\ c \in Chute
    BY <1>9 DEF FailSaved
  <2>2. PICK S :
          /\ Fine(getReservations(c) \cup S)
          /\ \A d \in Chute :
               /\ Stored(d)' = IF d = c THEN S ELSE Stored(d)
               /\ DiskStored(d)' = Stored(d)'
               /\ d # c => chuteList'[d] = chuteList[d]
    <3>1. CASE old[u] = NoUpdate
      <4>1. Unstore(c)
        BY <1>9, <3>1 DEF FailSaved
      <4>2. getReservations(c) \cup {} \in SUBSET InUse
        BY <2>1, InUseForm
      <4>3. Fine(getReservations(c) \cup {})
        BY <1>0, <4>2, FineSubset
      <4>4. \A d \in Chute : d # c => chuteList'[d] = chuteList[d]
        BY <1>0, <4>1 DEF Unstore, TypeOK
      <4> QED BY <1>0, <2>1, <4>1, <4>3, <4>4, UnstoreEffect
    <3>2. CASE old[u] # NoUpdate
      <4>1. /\ old[u] \in Update /\ objects[old[u]] \in ChuteObject /\ ChuteOf[old[u]] = c
            /\ Fine(getReservations(c) \cup objects[old[u]].networkInterfaces)
        <5>1. Exact(u) /\ SaneUpdate(u) /\ old[u] \in Update
          BY <1>0, <3>2 DEF TypeOK
        <5>2. objects[old[u]] \in ChuteObject
          BY <1>0, <5>1 DEF TypeOK
        <5> QED BY <2>1, <5>1, <5>2 DEF SaneUpdate, Exact
      <4>2. Store(c, old[u], objects[old[u]])
        BY <1>9, <3>2 DEF FailSaved
      <4>3. \A d \in Chute : d # c => chuteList'[d] = chuteList[d]
        BY <1>0, <2>1, <4>1, <4>2, StoreForm DEF TypeOK
      <4>4. \A d \in Chute :
              /\ Stored(d)' = IF d = c THEN objects[old[u]].networkInterfaces ELSE Stored(d)
              /\ DiskStored(d)' = Stored(d)'
        BY <1>0, <2>1, <4>1, <4>2, StoreEffect
      <4> QED BY <4>1, <4>3, <4>4
    <3> QED BY <3>1, <3>2
  <2>3. InUse' = getReservations(c) \cup S
    <3>1. getReservations(c)' = getReservations(c)
      BY <2>1, <2>2, ReservationsKept
    <3>2. Stored(c)' = S
      BY <2>1, <2>2
    <3> QED BY <2>1, <3>1, <3>2, InUseFormNext
  <2>4. DiskInUse' = InUse'
    BY <2>2 DEF InUse, DiskInUse
  <2>5. Exact(u)'
    BY <1>0, <1>c, <2>1 DEF End, TypeOK
  <2>6. ASSUME NEW v \in Update, v # u PROVE Exact(v)'
    BY <1>0, <1>d, <2>1, <2>2, <2>6 DEF End, TypeOK, Pending
  <2> QED BY <2>2, <2>3, <2>4, <2>5, <2>6
<1>10. CASE Crash
  <2>1. /\ chuteList' = disk'.chuteList /\ objects' = disk'.objects
        /\ disk' = disk \/ disk' = EmptyStorage
    BY <1>10 DEF Crash
  <2>2. \A d \in Chute : Stored(d)' = DiskStored(d)'
    BY <2>1 DEF Stored, DiskStored, IfacesOf
  <2>3. InUse' = DiskInUse'
    BY <2>2 DEF InUse, DiskInUse
  <2>4. Fine(DiskInUse')
    <3>1. CASE disk' = disk
      <4>1. DiskInUse' = DiskInUse
        BY <3>1 DEF DiskInUse, DiskStored
      <4> QED BY <1>0, <4>1
    <3>2. CASE disk' = EmptyStorage
      <4>1. \A d \in Chute : DiskStored(d)' = {}
        BY <3>2 DEF EmptyStorage, DiskStored, IfacesOf
      <4>2. DiskInUse' = HostIfaces
        BY <4>1 DEF DiskInUse
      <4> QED BY <4>2, FineHost
    <3> QED BY <2>1, <3>1, <3>2
  <2>5. \A v \in Update : stage'[v] \in {"new", "done"}
    BY <1>10 DEF Crash
  <2> QED BY <1>c, <2>3, <2>4, <2>5
<1>11. CASE reloadChutes
  <2>1. UNCHANGED <<storage, view, own>>
    BY <1>11 DEF reloadChutes, choice
  <2>2. PICK restarts \in Restarts :
          /\ stage' = [u \in Update |-> IF u \in restarts THEN "queued" ELSE stage[u]]
          /\ old' = [u \in Update |-> IF u \in restarts THEN chuteList[ChuteOf[u]] ELSE old[u]]
    BY <1>11 DEF reloadChutes
  <2>3. ASSUME NEW v \in Update, v \in restarts PROVE Exact(v)'
    BY <2>1, <2>2, <2>3 DEF storage, Exact
  <2>4. ASSUME NEW v \in Update, v \notin restarts PROVE Exact(v)'
    BY <1>b, <2>1, <2>2, <2>4
  <2> QED BY <1>a, <2>1, <2>3, <2>4
<1>12. CASE UNCHANGED vars
  BY <1>12, <1>a, <1>b DEF vars, choice
<1> QED BY <1>1, <1>2, <1>3, <1>4, <1>5, <1>6, <1>7, <1>8, <1>9, <1>10, <1>11, <1>12 DEF Next

Reserved == Typed /\ AtRest /\ Sane /\ Settled /\ Alone /\ Exclusive

\* All of it holds all along.
LEMMA AlwaysReserved == Spec => []Reserved
<1>1. Init => Reserved
  <2>1. Init => AtRest /\ Alone
    BY DEF Init, AtRest, Alone, OneEach, Pending
  <2> QED BY <2>1, InitTyped, InitSane, InitSettled, InitExclusive DEF Reserved
<1>2. Reserved /\ [Next]_vars => Reserved'
  BY StepTyped, StepAtRest, StepSane, StepSettled, StepAlone, StepExclusive DEF Reserved
<1> QED BY <1>1, <1>2, PTL DEF Spec

\* Two interfaces in use that are not both the host's are apart, where updates of the
\* chutes neither overlap nor are made ahead of one another.
LEMMA PairsApart ==
  ASSUME Reserved, OneByOne, NEW p \in Pairs
  PROVE  Apart(p[1], p[2])
BY DEF Reserved, Exclusive, Fine, Pairs

\* One by one, no two interfaces in use get overlapping subnets (chooseSubnet), and
\* virtual ones get names of their own (chooseExternalIntf, getNetworkConfigVlan).
THEOREM InterfacesApartHolds == Spec => []InterfacesApart
<1>1. Reserved => InterfacesApart
  BY PairsApart DEF InterfacesApart, Apart
<1> QED BY <1>1, AlwaysReserved, PTL

\* What getNetworkConfigVlan says of itself, that it keeps chutes from using the same
\* VLAN, is true one by one: only an update that runs while another builds breaks it.
THEOREM VlanOfOneChuteOneByOne == Spec => [](OneByOne => VlanOfOneChute)
<1>1. ASSUME Reserved, OneByOne, NEW i \in InUse, NEW j \in InUse,
             i.mode = "vlan", j.mode = "vlan", i.name = j.name
      PROVE  i.chute = j.chute
  <2>1. CASE i = j
    BY <2>1
  <2>2. CASE i # j /\ i.chute # Host
    <3>1. <<i, j>> \in Pairs
      BY <2>2 DEF Pairs
    <3> QED BY <1>1, <3>1, PairsApart DEF Apart
  <2>3. CASE i # j /\ j.chute # Host
    <3>1. <<j, i>> \in Pairs
      BY <2>3 DEF Pairs
    <3> QED BY <1>1, <3>1, PairsApart DEF Apart
  <2> QED BY <2>1, <2>2, <2>3
<1>2. Reserved => (OneByOne => VlanOfOneChute)
  BY <1>1 DEF VlanOfOneChute
<1> QED BY <1>2, AlwaysReserved, PTL

\* One by one, every device carries what it can (fulfillDeviceRequest).
THEOREM DevicesExclusiveHolds == Spec => []DevicesExclusive
<1>1. Reserved /\ OneByOne => OneUser
  BY PairsApart DEF OneUser, Apart
<1>2. Reserved /\ OneByOne => ApLimit
  BY DEF Reserved, Exclusive, Fine, ApsFit, ApLimit
<1>3. Reserved => DevicesExclusive
  BY <1>1, <1>2 DEF DevicesExclusive
<1> QED BY <1>3, AlwaysReserved, PTL
=============================================================================
