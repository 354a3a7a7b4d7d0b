---------------------------- MODULE ConfigManager ----------------------------
(***************************************************************************)
(* pdconfd (confd/manager.py, base.py, network.py, firewall.py): sections  *)
(* of the UCI files are turned into objects, and a reload compares them    *)
(* with the objects it has, reverts and applies what changed, and so       *)
(* brings the host from one configuration to the next.                     *)
(*                                                                         *)
(* Sections are interfaces, zones and forwardings.  An interface stands    *)
(* for its device: bridges, VLAN devices and routes are left out, as are   *)
(* the rules of a zone that only depend on its options.  Commands are not  *)
(* kept; what they do, in the order of their priorities, is.               *)
(***************************************************************************)
EXTENDS Integers, Sequences, FiniteSets

CONSTANTS
  Name,           \* of interfaces and of zones
  NoName,         \* of anonymous sections
  Address,        \* of interfaces with proto static
  Dhcp,           \* instead of one, for proto dhcp
  Configuration,  \* what the files may contain, each a set of sections
  MaxLoads        \* bound: loads

Interface == [type : {"interface"}, name : Name, addr : Address \cup {Dhcp}]
Zone == [type : {"zone"}, name : Name, network : Seq(Name), masq : BOOLEAN]
Forwarding == [type : {"forwarding"}, name : {NoName}, src : Name, dest : Name]

ASSUME ConfigManagerAssumption ==
  /\ NoName \notin Name
  /\ Dhcp \notin Address
  /\ MaxLoads \in Nat
  /\ \A f \in Configuration :
       /\ IsFiniteSet(f) /\ f \subseteq Interface \cup Zone \cup Forwarding
       /\ \A s, t \in f : s.name # NoName /\ s.type = t.type /\ s.name = t.name => s = t

VARIABLES
  up,               \* the daemon has not unloaded yet
  files,            \* the sections in the files, as of the last load
  epoch,
  currentConfig,    \* objects: sections with the epoch they were read in
  parents,          \* of an object: those it has looked up.  Its dependents are
                    \* the objects it is a parent of
  interfaces,       \* those a zone has put jumps on, a forwarding rules for
  forwardingCount,
  addrs,            \* kernel: addresses of each interface
  chains,           \* kernel: zones whose chains there are
  jumps,            \* kernel: how often traffic of an interface is sent to a zone
  rules,            \* kernel: how often zone_SRC_forward accepts what goes from
                    \* zone SRC by an interface of zone DEST
  forwarding        \* kernel: net.ipv4.conf.all.forwarding

memory == <<epoch, currentConfig, parents, interfaces, forwardingCount>>
kernel == <<addrs, chains, jumps, rules, forwarding>>
vars == <<up, files, memory, kernel>>

Object == [section : Interface \cup Zone \cup Forwarding, epoch : 1 .. MaxLoads]

TypeOK ==
  /\ up \in BOOLEAN
  /\ files \in Configuration \cup {{}}
  /\ epoch \in 0 .. MaxLoads
  /\ currentConfig \subseteq Object
  /\ parents \in [currentConfig -> SUBSET Object]
  /\ interfaces \in [currentConfig -> SUBSET Name]
  /\ forwardingCount \in Int
  /\ addrs \in [Name -> SUBSET Address]
  /\ chains \subseteq Name
  /\ jumps \in [Name \X Name -> Nat]
  /\ rules \in [Name \X Name \X Name -> Nat]
  /\ forwarding \in BOOLEAN

Init ==
  /\ up = TRUE
  /\ files = {}
  /\ epoch = 0
  /\ currentConfig = {}
  /\ parents = <<>>
  /\ interfaces = <<>>
  /\ forwardingCount = 0
  /\ addrs = [i \in Name |-> {}]
  /\ chains = {}
  /\ jumps = [z \in Name \X Name |-> 0]
  /\ rules = [r \in Name \X Name \X Name |-> 0]
  /\ forwarding = FALSE
-----------------------------------------------------------------------------
(* Comparing the sections f of the files with the current objects *)

SameName(o, n) ==
  /\ o.section.name # NoName
  /\ o.section.type = n.section.type
  /\ o.section.name = n.section.name

\* Sections with an identical current one, for which nothing is done.
Unchanged(f) == {o \in currentConfig : o.section \in f}

\* Faulty variant: sections are not compared by content.
FreshAlways(f) == {[section |-> s, epoch |-> epoch + 1] : s \in f}

\* The objects of the other sections.
Fresh(f) ==
  {[section |-> s, epoch |-> epoch + 1] :
     s \in f \ {o.section : o \in currentConfig}}

\* Faulty variant: what is not in the files any more stays.
AllConfigsKept(f) == currentConfig \cup Fresh(f)

allConfigs(f) == Unchanged(f) \cup Fresh(f)

newConfigs(f) == {n \in Fresh(f) : \A o \in currentConfig : ~SameName(o, n)}

Replaced(f) == {o \in currentConfig : \E n \in Fresh(f) : SameName(o, n)}

deletionSet(f) == {o \in currentConfig : o.section \notin f} \ Replaced(f)

\* What replaced objects have as dependents has to be reloaded with them.
updatedConfigs(f) ==
  LET replaced == Replaced(f)
  IN {o \in currentConfig : o \in replaced \/ parents[o] \cap replaced # {}}
       \ deletionSet(f)

\* What an object is updated to: itself if it has not changed, nothing (a
\* KeyError) if its section is gone.
New(o, all) == {n \in all : n = o \/ SameName(o, n)}

\* The parents of objects; those that are gone have been removed from theirs.
ParentsOf(objects, all) == UNION {parents[o] : o \in objects \cap all \cap currentConfig}

\* prioritizeConfigs returns all the ancestors it gives a priority to as well:
\* those of a forwarding are zones and interfaces, those of a zone interfaces.
prioritizeConfigs(objects, all) ==
  LET zones == ParentsOf(objects, all)
  IN objects \cup zones \cup ParentsOf(zones, all)
-----------------------------------------------------------------------------
(* Looking up other sections *)

lookup(type, name, all) ==
  {o \in all : o.section.type = type /\ o.section.name = name}

Networks(zone) ==
  [k \in DOMAIN zone.network |-> <<"interface", zone.network[k]>>]

\* What apply of the object looks up, one after the other.
Lookups(o, all) ==
  LET s == o.section
  IN CASE s.type = "interface" -> <<>>
       [] s.type = "zone" -> Networks(s)
       [] s.type = "forwarding" ->
            <<<<"zone", s.src>>, <<"zone", s.dest>>>>
              \o (IF lookup("zone", s.dest, all) = {} THEN <<>>
                    ELSE LET z == CHOOSE z \in lookup("zone", s.dest, all) : TRUE
                         IN Networks(z.section))

\* The objects it finds before it raises, if it does.
FoundBy(o, all) ==
  LET l == Lookups(o, all)
      found == [k \in DOMAIN l |-> lookup(l[k][1], l[k][2], all)]
  IN UNION {found[k] : k \in {k \in DOMAIN l : \A j \in 1 .. k : found[j] # {}}}

Succeeds(o, all) ==
  \A k \in DOMAIN Lookups(o, all) :
    lookup(Lookups(o, all)[k][1], Lookups(o, all)[k][2], all) # {}

Of(type, objects) == {o \in objects : o.section.type = type}
Named(name, objects) == {o \in objects : o.section.name = name}

InterfacesFoundBy(o, all) == {p.section.name : p \in Of("interface", FoundBy(o, all))}
-----------------------------------------------------------------------------
(* What it does to revert the objects of a set *)

\* Zones that are not current any more have been reverted and have none.
InterfacesOf(o) == IF o \in currentConfig THEN interfaces[o] ELSE {}

\* A jump is deleted once for each object that names it.
JumpsWithout(objects) ==
  [j \in DOMAIN jumps |->
     LET n == Cardinality(
                {z \in Named(j[1], Of("zone", objects)) : j[2] \in InterfacesOf(z)})
     IN IF n <= jumps[j] THEN jumps[j] - n ELSE 0]

\* A chain can be deleted once no rule jumps to it.
ChainsWithout(objects) ==
  LET left == JumpsWithout(objects)
  IN {z \in chains : Named(z, Of("zone", objects)) = {} \/ \E i \in Name : left[z, i] > 0}

\* Faulty variant: a forwarding leaves its rules to the zone.
RulesFlushedOnly(objects) ==
  [r \in DOMAIN rules |-> IF Named(r[1], Of("zone", objects)) # {} THEN 0 ELSE rules[r]]

\* Forwardings delete their rules, zones flush their chains.
RulesWithout(objects) ==
  [r \in DOMAIN rules |->
     IF Named(r[1], Of("zone", objects)) # {}
       THEN 0
       ELSE IF rules[r] > 0 /\ \E o \in Of("forwarding", objects) :
                  o.section.src = r[1] /\ o.section.dest = r[2] /\ r[3] \in InterfacesOf(o)
         THEN rules[r] - 1
         ELSE rules[r]]

Masquerading(objects) == {z \in Of("zone", objects) : z.section.masq}

CountWithout(objects) == forwardingCount - Cardinality(Masquerading(objects))

\* Forwarding is turned off when the count comes down to 0.
ForwardingWithout(objects) ==
  forwarding /\ ~(forwardingCount > 0 /\ CountWithout(objects) <= 0)
-----------------------------------------------------------------------------
(* A load: what it does after it has reverted the objects in undo, because of *)
(* those in work, each of which applies the object it is updated to.          *)

Applied(n, all, work) == {o \in work : n \in New(o, all)}

\* Faulty variant: objects that have not changed are not applied again.
AppliersOfChanged(zones, all, work) ==
  UNION {Applied(z, all, work) \ currentConfig :
           z \in {z \in Of("zone", zones) : Succeeds(z, all)}}

\* Zones whose apply succeeds, once for each time.
Appliers(zones, all, work) ==
  UNION {Applied(z, all, work) : z \in {z \in Of("zone", zones) : Succeeds(z, all)}}

JumpsAfter(all, undo, work) ==
  LET left == JumpsWithout(undo)
  IN [j \in DOMAIN jumps |->
        LET zones == {z \in lookup("zone", j[1], all) : j[2] \in InterfacesFoundBy(z, all)}
        IN left[j] + Cardinality(Appliers(zones, all, work))]

ChainsAfter(all, undo, work) ==
  ChainsWithout(undo) \cup {z.section.name : z \in Appliers(all, all, work)}

RulesAfter(all, undo, work) ==
  LET left == RulesWithout(undo)
      applied == {o \in Of("forwarding", all \cap work) :
                    Succeeds(o, all) /\ o.section.src \in ChainsAfter(all, undo, work)}
  IN [r \in DOMAIN rules |->
        left[r] + Cardinality({o \in applied :
          /\ o.section.src = r[1] /\ o.section.dest = r[2]
          /\ r[3] \in InterfacesFoundBy(o, all)})]

CountAfter(all, undo, work) ==
  CountWithout(undo) + Cardinality(Appliers(Masquerading(all), all, work))

\* Forwarding is turned on when the count comes up to 1.
ForwardingAfter(all, undo, work) ==
  \/ ForwardingWithout(undo)
  \/ CountWithout(undo) <= 0 /\ CountAfter(all, undo, work) > 0

\* An interface is updated to n, which has another address, or protocol.
Changes(o, n) ==
  o.section.type = "interface" /\ SameName(o, n) /\ o.section.addr # n.section.addr
ChangesProto(o, n) == Changes(o, n) /\ Dhcp \in {o.section.addr, n.section.addr}

\* Faulty variant: the address it had is not deleted.
AddressesKept(i, f, all, undo, work) ==
  {addrs[i] \cup ({o.section.addr : o \in Named(i, Of("interface", all))} \cap Address)}

\* The addresses interface i may have: those of reverted and updated objects are
\* deleted and new ones added.  apply flushes first; for another protocol it is
\* that of the old object, and if there are several one comes last.
AddrsAfter(i, f, all, undo, work) ==
  LET Static(objects) ==
        {o.section.addr : o \in Named(i, Of("interface", objects))} \cap Address
      removed == {o \in undo : o \in deletionSet(f) \/ \E n \in all : Changes(o, n)}
      applied == {o \in work : o \in newConfigs(f) \/ \E n \in all : ChangesProto(o, n)}
      added == {n \in all : \E o \in work \ applied : Changes(o, n)}
  IN IF Static(applied) # {}
       THEN {{a} : a \in Static(applied)}
       ELSE {(addrs[i] \ Static(removed)) \cup Static(added)}

\* Faulty variant: objects that are not applied lose theirs.
ParentsOfApplied(all, work) == [o \in all \cap work |-> FoundBy(o, all)]

ParentsAfter(all, work) ==
  [o \in all |->
     (IF o \in currentConfig THEN parents[o] ELSE {})
       \cup (IF Applied(o, all, work) # {} THEN FoundBy(o, all) ELSE {})]

\* A forwarding that does not find both its zones keeps those it had.
InterfacesAfter(all, work) ==
  [o \in all |->
     IF /\ Applied(o, all, work) # {}
        /\ o.section.type = "forwarding" =>
             \A z \in {o.section.src, o.section.dest} : lookup("zone", z, all) # {}
       THEN InterfacesFoundBy(o, all)
       ELSE InterfacesOf(o)]

\* loadConfig, of all files, which contain f by now.
loadConfig(f) ==
  LET all == allConfigs(f)
      updated == updatedConfigs(f)
      undo == {o \in prioritizeConfigs(updated \cup deletionSet(f), all) :
                 o \in deletionSet(f) \/ New(o, all) # {}}
      work == prioritizeConfigs(updated \cup newConfigs(f), all)
  IN /\ up
     /\ epoch < MaxLoads
     /\ epoch' = epoch + 1
     /\ files' = f
     /\ currentConfig' = all
     /\ parents' = ParentsAfter(all, work)
     /\ interfaces' = InterfacesAfter(all, work)
     /\ forwardingCount' = CountAfter(all, undo, work)
     /\ \E a \in [Name -> UNION {AddrsAfter(i, f, all, undo, work) : i \in Name}] :
          /\ \A i \in Name : a[i] \in AddrsAfter(i, f, all, undo, work)
          /\ addrs' = a
     /\ chains' = ChainsAfter(all, undo, work)
     /\ jumps' = JumpsAfter(all, undo, work)
     /\ rules' = RulesAfter(all, undo, work)
     /\ forwarding' = ForwardingAfter(all, undo, work)
     /\ UNCHANGED up

\* dest_interfaces of a forwarding is set once it has found both its zones.
HasDestInterfaces(o) ==
  \E z \in parents[o] : z.section.type = "zone" /\ z.section.name = o.section.dest

\* unload, when the daemon stops.  If one object raises nothing is executed.
unload ==
  /\ up
  /\ up' = FALSE
  /\ LET undo == prioritizeConfigs(currentConfig, currentConfig)
     IN IF \A o \in Of("forwarding", currentConfig) : HasDestInterfaces(o)
          THEN /\ addrs' = [i \in Name |->
                     addrs[i] \ {o.section.addr : o \in Named(i, Of("interface", undo))}]
               /\ chains' = ChainsWithout(undo)
               /\ jumps' = JumpsWithout(undo)
               /\ rules' = RulesWithout(undo)
               /\ forwarding' = ForwardingWithout(undo)
          ELSE UNCHANGED kernel
  /\ files' = {}
  /\ currentConfig' = {}
  /\ parents' = <<>>
  /\ interfaces' = <<>>
  /\ UNCHANGED <<epoch, forwardingCount>>

Next == unload \/ \E f \in Configuration : loadConfig(f)

Spec == Init /\ [][Next]_vars
-----------------------------------------------------------------------------
\* The objects are those of the sections in the files, each once, whatever was
\* added, changed and removed since the first load.
CurrentAsWritten ==
  /\ {o.section : o \in currentConfig} = files
  /\ \A o, p \in currentConfig : o.section = p.section => o = p

NetworksOf(zone) == {zone.network[k] : k \in DOMAIN zone.network}

\* A zone that has found the interfaces there are gets their traffic, however
\* often it or they are reverted and applied later on.
ZonesInPlace ==
  \A z \in Of("zone", currentConfig) :
    LET found == Of("interface", parents[z] \cap currentConfig)
    IN NetworksOf(z.section) \subseteq {p.section.name : p \in found} =>
      /\ z.section.name \in chains
      /\ \A i \in NetworksOf(z.section) : jumps[z.section.name, i] > 0

\* While the daemon is up no traffic is accepted that no forwarding section asks for
\* any more, and none for a second time: reverting takes out all that was applied.
NoStaleRules ==
  up => \A r \in DOMAIN rules :
    /\ rules[r] > 0 =>
         \E s \in files : s.type = "forwarding" /\ s.src = r[1] /\ s.dest = r[2]
    /\ rules[r] <= 1

\* No interface changes its protocol.
StableProtocols ==
  \A f, g \in Configuration : \A s \in f, t \in g :
    s.type = "interface" /\ t.type = "interface" /\ s.name = t.name =>
      (s.addr = Dhcp <=> t.addr = Dhcp)

\* As long as no interface changes its protocol, each has the address its section
\* says and none of those it had before, even when superseded objects of it are
\* updated once more.
AddressesInPlace ==
  StableProtocols =>
    \A s \in files : s.type = "interface" => addrs[s.name] = {s.addr} \cap Address

\* Loading files that have not changed does nothing to the host, whatever objects
\* previous loads have left behind.
ReloadIsIdle == [][up' /\ files' = files => UNCHANGED kernel]_vars

\* Once the daemon has stopped no traffic is accepted and no address left, of no
\* configuration it ever loaded, unless a forwarding that never found its zone
\* makes unload raise before it executes anything.
UnloadClears ==
  [][up /\ ~up' /\ (\A o \in Of("forwarding", currentConfig) : HasDestInterfaces(o)) =>
       /\ \A r \in DOMAIN rules : rules'[r] = 0
       /\ StableProtocols => \A i \in Name : addrs'[i] = {}]_vars
=============================================================================
