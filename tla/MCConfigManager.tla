---------------------------- MODULE MCConfigManager ----------------------------
(***************************************************************************)
(* A router whose host part has a lan and a wan, with a forwarding between *)
(* them that may be missing, and one chute whose zone is forwarded to wan. *)
(* In one configuration the interface the chute's zone names is missing.   *)
(***************************************************************************)
EXTENDS ConfigManager

Iface(name, addr) == [type |-> "interface", name |-> name, addr |-> addr]
ZoneOf(name, masq) == [type |-> "zone", name |-> name, network |-> <<name>>, masq |-> masq]
Forward(src, dest) == [type |-> "forwarding", name |-> NoName, src |-> src, dest |-> dest]

\* A router, and whether wan masquerades; a chute with an interface of its own.
Router(lan, masq) ==
  {Iface("lan", lan), Iface("wan", Dhcp), ZoneOf("lan", FALSE), ZoneOf("wan", masq),
   Forward("lan", "wan")}
Chute(addr, masq) == {Iface("guest", addr), ZoneOf("guest", masq), Forward("guest", "wan")}

MCConfiguration ==
  {Router(lan, masq) \cup chute :
     lan \in {"a1", "a2"}, masq \in BOOLEAN, chute \in {{}, Chute("a3", FALSE)}}
    \cup {Router("a1", TRUE) \ {Forward("lan", "wan")}}
    \cup {Router("a1", TRUE) \cup (Chute("a3", FALSE) \ {Iface("guest", "a3")})}
================================================================================
