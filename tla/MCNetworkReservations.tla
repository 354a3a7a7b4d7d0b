------------------------ MODULE MCNetworkReservations ------------------------
(***************************************************************************)
(* Two chutes, one of which goes through all its states; a wireless device *)
(* that the host has an access point on and a free one, the LAN port of    *)
(* the host and a free one; a pool of four subnets, the first of which     *)
(* lies in the one a VLAN asks for and the third of which is the host's.   *)
(***************************************************************************)
EXTENDS NetworkReservations

MCChuteOf ==
  [create1 |-> "one", stop1 |-> "one", update1 |-> "one", delete1 |-> "one", create2 |-> "two",
   restart1 |-> "one", restart2 |-> "two"]
MCKindOf ==
  [create1 |-> "create", stop1 |-> "stop", update1 |-> "update", delete1 |-> "delete",
   create2 |-> "create", restart1 |-> "restart", restart2 |-> "restart"]
MCUpdate == DOMAIN MCChuteOf

\* The default settings, with clients that do not wait, and the careful ones, with a
\* daemon that stops.
MCSettings == {[concurrent |-> b, impatient |-> b, crashing |-> ~b] : b \in BOOLEAN}

\* Concurrent builds with clients that wait.
BuildSettings == {[concurrent |-> TRUE, impatient |-> FALSE, crashing |-> FALSE]}

MCDeviceList == <<"eth0", "radio0", "eth1", "radio1">>
MCPool == <<{1}, {2}, {3}, {5}>>

MCHostIfaces ==
  {[chute |-> "host", mode |-> "ap", device |-> "radio0", name |-> NoName, subnet |-> {}],
   [chute |-> "host", mode |-> "lan", device |-> "eth0", name |-> NoName, subnet |-> {3}]}

Ask(mode, vlan, network) ==
  [mode |-> mode, vlan |-> vlan, network |-> network, fits |-> Device]

Ap == Ask("ap", NoName, {})
Monitor == Ask("monitor", NoName, {})
Lan == Ask("lan", NoName, {})
VlanOne == Ask("vlan", "br-lan.1", {})
WideVlan == Ask("vlan", "br-lan.1", {1, 4})
Airshark == Ask("airshark", NoName, {})

MCRequest == {Ap, Monitor, Lan, VlanOne, WideVlan, Airshark}
MCWanted ==
  [u \in MCUpdate |->
     CASE u = "create1" -> {<<WideVlan, Ap>>, <<Lan, Ap>>}
       [] u = "update1" -> {<<Ap, Ap>>, <<Airshark>>}
       [] u = "create2" -> {<<Monitor, VlanOne>>, <<Ap, Lan>>}
       [] OTHER -> {<<>>}]
=============================================================================
