------------------------- MODULE ConfigManagerProofs -------------------------
(***************************************************************************)
(* Proofs about ConfigManager for all configurations, finite sets of       *)
(* interfaces, zones and forwardings, and any number of loads.             *)
(***************************************************************************)
EXTENDS ConfigManager, TLAPS, SequenceTheorems, FiniteSetTheorems, FunctionTheorems

USE ConfigManagerAssumption DEF memory, kernel

Section == Interface \cup Zone \cup Forwarding

\* What a function makes of a finite set is finite.
LEMMA ImageFinite ==
  ASSUME NEW S, IsFiniteSet(S), NEW F
  PROVE  IsFiniteSet({F[x] : x \in S})
<1> DEFINE T == {F[x] : x \in S}
           g == [x \in S |-> F[x]]
<1>1. g \in Surjection(S, T)
  BY DEF Surjection
<1> QED BY <1>1, FS_Surjection DEF ExistsSurjection

\* The objects and what they have looked up are finitely many.
Finite ==
  /\ IsFiniteSet(currentConfig)
  /\ \A o \in currentConfig : IsFiniteSet(parents[o])

Elders == UNION {parents[o] : o \in currentConfig}

LEMMA EldersFinite ==
  ASSUME Finite
  PROVE  IsFiniteSet(Elders)
<1> DEFINE looked == {parents[o] : o \in currentConfig}
<1>1. IsFiniteSet(looked) /\ \A T \in looked : IsFiniteSet(T)
  BY ImageFinite DEF Finite
<1> HIDE DEF looked
<1>2. IsFiniteSet(UNION looked)
  BY <1>1, FS_UNION
<1> QED BY <1>2 DEF Elders, looked

LEMMA FreshFinite ==
  ASSUME NEW f \in Configuration
  PROVE  IsFiniteSet(Fresh(f))
<1> DEFINE S == f \ {o.section : o \in currentConfig}
           F == [s \in S |-> [section |-> s, epoch |-> epoch + 1]]
<1>1. IsFiniteSet(S)
  BY FS_Subset
<1>2. Fresh(f) = {F[s] : s \in S}
  BY DEF Fresh
<1> HIDE DEF F
<1> QED BY <1>1, <1>2, ImageFinite

\* Nothing but current objects, new ones and the parents of current ones is
\* reverted or applied.
LEMMA Prioritized ==
  ASSUME NEW objects, NEW all
  PROVE  prioritizeConfigs(objects, all) \subseteq objects \cup Elders
BY DEF prioritizeConfigs, ParentsOf, Elders

\* What a load works on.
LEMMA LoadSets ==
  ASSUME TypeOK, Finite, NEW f \in Configuration, epoch < MaxLoads
  PROVE  LET all == allConfigs(f)
             updated == updatedConfigs(f)
             undo == {o \in prioritizeConfigs(updated \cup deletionSet(f), all) :
                        o \in deletionSet(f) \/ New(o, all) # {}}
             work == prioritizeConfigs(updated \cup newConfigs(f), all)
         IN /\ all \subseteq [section : Section, epoch : 1 .. MaxLoads] /\ IsFiniteSet(all)
            /\ IsFiniteSet(undo)
            /\ IsFiniteSet(work)
<1>1. epoch + 1 \in 1 .. MaxLoads
  BY DEF TypeOK
<1>2. Fresh(f) \subseteq Object
  BY <1>1 DEF Fresh, Object, Section
<1>3. /\ Unchanged(f) \subseteq currentConfig /\ newConfigs(f) \subseteq Fresh(f)
      /\ updatedConfigs(f) \subseteq currentConfig /\ deletionSet(f) \subseteq currentConfig
  BY DEF Unchanged, newConfigs, updatedConfigs, deletionSet
<1>4. IsFiniteSet(currentConfig \cup Fresh(f))
  BY FreshFinite, FS_Union DEF Finite
<1>5. IsFiniteSet((currentConfig \cup Fresh(f)) \cup Elders)
  BY <1>4, EldersFinite, FS_Union
<1>6. allConfigs(f) \subseteq currentConfig \cup Fresh(f)
  BY <1>3 DEF allConfigs
<1>7. IsFiniteSet(allConfigs(f))
  BY <1>4, <1>6, FS_Subset
<1> DEFINE updated == updatedConfigs(f)
           reverted == prioritizeConfigs(updated \cup deletionSet(f), allConfigs(f))
           undo == {o \in reverted : o \in deletionSet(f) \/ New(o, allConfigs(f)) # {}}
           work == prioritizeConfigs(updated \cup newConfigs(f), allConfigs(f))
<1>8. reverted \subseteq currentConfig \cup Elders /\ work \subseteq currentConfig \cup Fresh(f) \cup Elders
  BY <1>3, Prioritized
<1> HIDE DEF reverted, work
<1>9. IsFiniteSet(undo) /\ IsFiniteSet(work)
  BY <1>5, <1>8, FS_Subset
<1> QED BY <1>2, <1>6, <1>7, <1>9 DEF reverted, work, TypeOK, Object, Section

\* What is left of jumps, rules and addresses after reverting, and what is there after
\* applying.
LEMMA KernelTypes ==
  ASSUME TypeOK, NEW f, NEW all, NEW undo, IsFiniteSet(undo), NEW work, IsFiniteSet(work),
         IsFiniteSet(all)
  PROVE  /\ JumpsWithout(undo) \in [Name \X Name -> Nat]
         /\ RulesWithout(undo) \in [Name \X Name \X Name -> Nat]
         /\ CountWithout(undo) \in Int
         /\ JumpsAfter(all, undo, work) \in [Name \X Name -> Nat]
         /\ RulesAfter(all, undo, work) \in [Name \X Name \X Name -> Nat]
         /\ CountAfter(all, undo, work) \in Int
         /\ \A i \in Name : AddrsAfter(i, f, all, undo, work) \subseteq SUBSET Address
<1>1. /\ jumps \in [Name \X Name -> Nat] /\ rules \in [Name \X Name \X Name -> Nat]
      /\ forwardingCount \in Int /\ addrs \in [Name -> SUBSET Address]
  BY DEF TypeOK
<1>2. ASSUME NEW T \in SUBSET undo PROVE Cardinality(T) \in Nat
  BY FS_Subset, FS_CardinalityType
<1>3. ASSUME NEW T \in SUBSET work PROVE Cardinality(T) \in Nat
  BY FS_Subset, FS_CardinalityType
<1>4. JumpsWithout(undo) \in [Name \X Name -> Nat]
  <2> SUFFICES ASSUME NEW j \in Name \X Name PROVE JumpsWithout(undo)[j] \in Nat
    BY <1>1 DEF JumpsWithout
  <2> DEFINE T == {z \in Named(j[1], Of("zone", undo)) : j[2] \in InterfacesOf(z)}
  <2>1. T \in SUBSET undo
    BY DEF Named, Of
  <2> HIDE DEF T
  <2>2. Cardinality(T) \in Nat /\ jumps[j] \in Nat
    BY <1>1, <1>2, <2>1
  <2>3. JumpsWithout(undo)[j] = IF Cardinality(T) <= jumps[j] THEN jumps[j] - Cardinality(T) ELSE 0
    BY <1>1 DEF JumpsWithout, T
  <2> QED BY <2>2, <2>3
<1>5. RulesWithout(undo) \in [Name \X Name \X Name -> Nat]
  BY <1>1 DEF RulesWithout
<1>6. CountWithout(undo) \in Int
  <2>1. Masquerading(undo) \in SUBSET undo
    BY DEF Masquerading, Of
  <2> QED BY <1>1, <1>2, <2>1 DEF CountWithout
<1>7. ASSUME NEW zones PROVE Cardinality(Appliers(zones, all, work)) \in Nat
  <2>1. Appliers(zones, all, work) \in SUBSET work
    BY DEF Appliers, Applied
  <2> QED BY <1>3, <2>1
<1>8. JumpsAfter(all, undo, work) \in [Name \X Name -> Nat]
  BY <1>1, <1>4, <1>7 DEF JumpsAfter
<1>9. RulesAfter(all, undo, work) \in [Name \X Name \X Name -> Nat]
  <2> DEFINE applied == {o \in Of("forwarding", all \cap work) :
                           Succeeds(o, all) /\ o.section.src \in ChainsAfter(all, undo, work)}
             chosen(r) == {o \in applied : /\ o.section.src = r[1] /\ o.section.dest = r[2]
                                           /\ r[3] \in InterfacesFoundBy(o, all)}
  <2>1. ASSUME NEW r PROVE Cardinality(chosen(r)) \in Nat
    <3>1. chosen(r) \in SUBSET work
      BY DEF Of
    <3> QED BY <1>3, <3>1
  <2> HIDE DEF applied
  <2>2. RulesAfter(all, undo, work) = [r \in DOMAIN rules |->
                                         RulesWithout(undo)[r] + Cardinality(chosen(r))]
    BY DEF RulesAfter, applied
  <2> HIDE DEF chosen
  <2> QED BY <1>1, <1>5, <2>1, <2>2
<1>10. CountAfter(all, undo, work) \in Int
  BY <1>6, <1>7 DEF CountAfter
<1>11. ASSUME NEW i \in Name PROVE AddrsAfter(i, f, all, undo, work) \subseteq SUBSET Address
  <2> DEFINE Static(objects) ==
               {o.section.addr : o \in Named(i, Of("interface", objects))} \cap Address
             removed == {o \in undo : o \in deletionSet(f) \/ \E n \in all : Changes(o, n)}
             applied == {o \in work : o \in newConfigs(f) \/ \E n \in all : ChangesProto(o, n)}
             added == {n \in all : \E o \in work \ applied : Changes(o, n)}
  <2>1. \A objects : Static(objects) \subseteq Address
    OBVIOUS
  <2>2. AddrsAfter(i, f, all, undo, work) =
          IF Static(applied) # {} THEN {{a} : a \in Static(applied)}
          ELSE {(addrs[i] \ Static(removed)) \cup Static(added)}
    BY DEF AddrsAfter
  <2>3. addrs[i] \subseteq Address
    BY <1>1
  <2> HIDE DEF Static, removed, applied, added
  <2> QED BY <2>1, <2>2, <2>3
<1> QED BY <1>4, <1>5, <1>6, <1>8, <1>9, <1>10, <1>11

\* What an object finds are current objects, and interfaces have names.
LEMMA FoundTypes ==
  ASSUME NEW all, all \subseteq Object, NEW o
  PROVE  FoundBy(o, all) \subseteq all /\ InterfacesFoundBy(o, all) \subseteq Name
<1>1. FoundBy(o, all) \subseteq all
  BY DEF FoundBy, lookup
<1>2. ASSUME NEW p \in Of("interface", FoundBy(o, all)) PROVE p.section.name \in Name
  <2>1. p \in Object /\ p.section.type = "interface"
    BY <1>1, <1>2 DEF Of
  <2> QED BY <2>1 DEF Object, Interface, Zone, Forwarding
<1> QED BY <1>1, <1>2 DEF InterfacesFoundBy

LEMMA TypeInvariant == Spec => [](TypeOK /\ Finite)
<1>1. Init => TypeOK /\ Finite
  <2> SUFFICES ASSUME Init PROVE TypeOK /\ Finite
    OBVIOUS
  <2>1. parents \in [currentConfig -> SUBSET Object] /\ interfaces \in [currentConfig -> SUBSET Name]
    BY DEF Init
  <2>2. Finite
    BY FS_EmptySet DEF Init, Finite
  <2>3. /\ addrs \in [Name -> SUBSET Address] /\ jumps \in [Name \X Name -> Nat]
        /\ rules \in [Name \X Name \X Name -> Nat] /\ chains \subseteq Name
    BY DEF Init
  <2>4. files \in Configuration \cup {{}} /\ epoch \in 0 .. MaxLoads
        /\ currentConfig \subseteq Object /\ forwardingCount \in Int
    BY DEF Init
  <2>5. up \in BOOLEAN /\ forwarding \in BOOLEAN
    BY DEF Init
  <2> QED BY <2>1, <2>2, <2>3, <2>4, <2>5 DEF TypeOK
<1>2. TypeOK /\ Finite /\ [Next]_vars => TypeOK' /\ Finite'
  <2> SUFFICES ASSUME TypeOK, Finite, [Next]_vars PROVE TypeOK' /\ Finite'
    OBVIOUS
  <2>1. ASSUME NEW f \in Configuration, loadConfig(f) PROVE TypeOK' /\ Finite'
    <3> DEFINE all == allConfigs(f)
               updated == updatedConfigs(f)
               undo == {o \in prioritizeConfigs(updated \cup deletionSet(f), all) :
                          o \in deletionSet(f) \/ New(o, all) # {}}
               work == prioritizeConfigs(updated \cup newConfigs(f), all)
    <3>1. /\ up /\ epoch < MaxLoads /\ epoch' = epoch + 1 /\ files' = f
          /\ currentConfig' = all
          /\ parents' = ParentsAfter(all, work)
          /\ interfaces' = InterfacesAfter(all, work)
          /\ forwardingCount' = CountAfter(all, undo, work)
          /\ \E a \in [Name -> UNION {AddrsAfter(i, f, all, undo, work) : i \in Name}] :
               /\ \A i \in Name : a[i] \in AddrsAfter(i, f, all, undo, work)
               /\ addrs' = a
          /\ chains' = ChainsAfter(all, undo, work)
          /\ jumps' = JumpsAfter(all, undo, work)
          /\ rules' = RulesAfter(all, undo, work)
          /\ forwarding' = ForwardingAfter(all, undo, work)
          /\ UNCHANGED up
      BY <2>1 DEF loadConfig
    <3>2. all \subseteq Object /\ IsFiniteSet(all) /\ IsFiniteSet(undo) /\ IsFiniteSet(work)
      BY <3>1, LoadSets DEF Object, Section
    <3> HIDE DEF all, updated, undo, work
    <3>3. /\ jumps' \in [Name \X Name -> Nat] /\ rules' \in [Name \X Name \X Name -> Nat]
          /\ forwardingCount' \in Int
      BY <3>1, <3>2, KernelTypes
    <3>4. addrs' \in [Name -> SUBSET Address]
      BY <3>1, <3>2, KernelTypes
    <3>5. chains' \subseteq Name
      <4>1. ASSUME NEW z \in Appliers(all, all, work) PROVE z.section.name \in Name
        <5>1. ASSUME NEW n \in Of("zone", all), NEW o \in Applied(n, all, work)
              PROVE  o.section.name \in Name
          <6>1. n \in Object /\ n.section.type = "zone"
            BY <3>2, <5>1 DEF Of
          <6>2. n.section.name \in Name
            BY <6>1 DEF Object, Interface, Zone, Forwarding
          <6> QED BY <5>1, <6>2 DEF Applied, New, SameName
        <5> QED BY <4>1, <5>1 DEF Appliers
      <4>2. {z.section.name : z \in Appliers(all, all, work)} \subseteq Name
        BY <4>1
      <4>3. ChainsWithout(undo) \subseteq Name
        BY DEF ChainsWithout, TypeOK
      <4> QED BY <3>1, <4>2, <4>3 DEF ChainsAfter
    <3>6. parents' \in [currentConfig' -> SUBSET Object]
      BY <3>1, <3>2, FoundTypes DEF ParentsAfter, TypeOK
    <3>7. interfaces' \in [currentConfig' -> SUBSET Name]
      BY <3>1, <3>2, FoundTypes DEF InterfacesAfter, InterfacesOf, TypeOK
    <3>8. ASSUME NEW o \in currentConfig' PROVE IsFiniteSet(parents'[o])
      <4>1. IsFiniteSet(IF o \in currentConfig THEN parents[o] ELSE {})
        BY FS_EmptySet DEF Finite
      <4>2. IsFiniteSet(IF Applied(o, all, work) # {} THEN FoundBy(o, all) ELSE {})
        BY <3>2, FoundTypes, FS_Subset, FS_EmptySet
      <4>3. parents'[o] = (IF o \in currentConfig THEN parents[o] ELSE {})
                            \cup (IF Applied(o, all, work) # {} THEN FoundBy(o, all) ELSE {})
        BY <3>1, <3>8 DEF ParentsAfter
      <4> DEFINE before == IF o \in currentConfig THEN parents[o] ELSE {}
                 now == IF Applied(o, all, work) # {} THEN FoundBy(o, all) ELSE {}
      <4>4. IsFiniteSet(before) /\ IsFiniteSet(now) /\ parents'[o] = before \cup now
        BY <4>1, <4>2, <4>3
      <4> HIDE DEF before, now
      <4>5. IsFiniteSet(before \cup now)
        BY <4>4, FS_Union
      <4> QED BY <4>4, <4>5
    <3>9. forwarding' \in BOOLEAN /\ up' \in BOOLEAN /\ epoch' \in 0 .. MaxLoads
      BY <3>1 DEF ForwardingAfter, ForwardingWithout, TypeOK
    <3> QED BY <3>1, <3>2, <3>3, <3>4, <3>5, <3>6, <3>7, <3>8, <3>9 DEF TypeOK, Finite
  <2>2. CASE unload
    <3> DEFINE undo == prioritizeConfigs(currentConfig, currentConfig)
    <3>1. IsFiniteSet(undo)
      <4>1. IsFiniteSet(currentConfig \cup Elders)
        BY EldersFinite, FS_Union DEF Finite
      <4>2. undo \subseteq currentConfig \cup Elders
        BY Prioritized
      <4> QED BY <4>1, <4>2, FS_Subset
    <3>2. /\ UNCHANGED kernel
             \/ /\ addrs' = [i \in Name |->
                      addrs[i] \ {o.section.addr : o \in Named(i, Of("interface", undo))}]
                /\ chains' = ChainsWithout(undo)
                /\ jumps' = JumpsWithout(undo)
                /\ rules' = RulesWithout(undo)
                /\ forwarding' = ForwardingWithout(undo)
          /\ up' = FALSE /\ files' = {} /\ currentConfig' = {}
          /\ parents' = <<>> /\ interfaces' = <<>>
          /\ UNCHANGED <<epoch, forwardingCount>>
      BY <2>2 DEF unload
    <3> HIDE DEF undo
    <3>3. /\ jumps' \in [Name \X Name -> Nat] /\ rules' \in [Name \X Name \X Name -> Nat]
          /\ addrs' \in [Name -> SUBSET Address]
          /\ chains' \subseteq Name /\ forwarding' \in BOOLEAN
      <4>1. /\ JumpsWithout(undo) \in [Name \X Name -> Nat]
            /\ RulesWithout(undo) \in [Name \X Name \X Name -> Nat]
        BY <3>1, KernelTypes, FS_EmptySet
      <4>2. ChainsWithout(undo) \subseteq Name /\ ForwardingWithout(undo) \in BOOLEAN
        BY DEF ChainsWithout, ForwardingWithout, TypeOK
      <4> QED BY <3>2, <4>1, <4>2 DEF TypeOK
    <3>4. parents' \in [currentConfig' -> SUBSET Object] /\ interfaces' \in [currentConfig' -> SUBSET Name]
      BY <3>2
    <3> QED BY <3>2, <3>3, <3>4, FS_EmptySet DEF TypeOK, Finite
  <2>3. CASE UNCHANGED vars
    BY <2>3 DEF vars, TypeOK, Finite
  <2> QED BY <2>1, <2>2, <2>3 DEF Next
<1> QED BY <1>1, <1>2, PTL DEF Spec

\* Every variable keeps its type, whatever is loaded (loadConfig, unload).
THEOREM TypeCorrect == Spec => []TypeOK
BY TypeInvariant, PTL
-----------------------------------------------------------------------------
\* What a load makes the current objects are those of the sections, each once.
LEMMA AllAsWritten ==
  ASSUME CurrentAsWritten, NEW f
  PROVE  /\ {o.section : o \in allConfigs(f)} = f
         /\ \A o, p \in allConfigs(f) : o.section = p.section => o = p
<1>1. \A o \in Unchanged(f) : o \in currentConfig /\ o.section \in f
  BY DEF Unchanged
<1>2. \A o \in Fresh(f) :
        /\ o.section \in f /\ o = [section |-> o.section, epoch |-> epoch + 1]
        /\ \A p \in currentConfig : o.section # p.section
  BY DEF Fresh
<1>3. ASSUME NEW s \in f
      PROVE  \E o \in Unchanged(f) \cup Fresh(f) : o.section = s
  <2>1. CASE \E o \in currentConfig : o.section = s
    BY <2>1 DEF Unchanged
  <2>2. CASE ~ \E o \in currentConfig : o.section = s
    <3>1. [section |-> s, epoch |-> epoch + 1] \in Fresh(f)
      BY <2>2 DEF Fresh
    <3> QED BY <3>1
  <2> QED BY <2>1, <2>2
<1>4. {o.section : o \in Unchanged(f) \cup Fresh(f)} = f
  BY <1>1, <1>2, <1>3
<1>5. ASSUME NEW o \in Unchanged(f) \cup Fresh(f), NEW p \in Unchanged(f) \cup Fresh(f),
             o.section = p.section
      PROVE  o = p
  BY <1>1, <1>2, <1>5 DEF CurrentAsWritten
<1> QED BY <1>4, <1>5 DEF allConfigs

\* The objects are those of the sections in the files, each once.
THEOREM CurrentAsWrittenHolds == Spec => []CurrentAsWritten
<1>1. Init => CurrentAsWritten
  BY DEF Init, CurrentAsWritten
<1>2. CurrentAsWritten /\ [Next]_vars => CurrentAsWritten'
  <2> SUFFICES ASSUME CurrentAsWritten, [Next]_vars PROVE CurrentAsWritten'
    OBVIOUS
  <2>1. ASSUME NEW f \in Configuration, loadConfig(f) PROVE CurrentAsWritten'
    <3>1. files' = f /\ currentConfig' = allConfigs(f)
      BY <2>1 DEF loadConfig
    <3> QED BY <3>1, AllAsWritten DEF CurrentAsWritten
  <2>2. CASE unload
    BY <2>2 DEF unload, CurrentAsWritten
  <2>3. CASE UNCHANGED vars
    BY <2>3 DEF vars, CurrentAsWritten
  <2> QED BY <2>1, <2>2, <2>3 DEF Next
<1> QED BY <1>1, <1>2, PTL DEF Spec

\* Without anything to revert the host keeps what it has.
LEMMA NothingReverted ==
  ASSUME TypeOK
  PROVE  /\ JumpsWithout({}) = jumps
         /\ ChainsWithout({}) = chains
         /\ RulesWithout({}) = rules
         /\ CountWithout({}) = forwardingCount
         /\ ForwardingWithout({}) = forwarding
<1>1. /\ jumps \in [Name \X Name -> Nat] /\ rules \in [Name \X Name \X Name -> Nat]
      /\ forwardingCount \in Int
  BY DEF TypeOK
<1>2. Cardinality({}) = 0
  BY FS_EmptySet
<1>3. \A n, t : Named(n, Of(t, {})) = {}
  BY DEF Named, Of
<1>4. JumpsWithout({}) = jumps
  <2>1. ASSUME NEW j \in Name \X Name
        PROVE  Cardinality({z \in Named(j[1], Of("zone", {})) : j[2] \in InterfacesOf(z)}) = 0
    <3>1. {z \in Named(j[1], Of("zone", {})) : j[2] \in InterfacesOf(z)} = {}
      BY <1>3
    <3> QED BY <1>2, <3>1
  <2>2. \A j \in Name \X Name : jumps[j] \in Nat
    BY <1>1
  <2>3. \A j \in Name \X Name : JumpsWithout({})[j] = jumps[j]
    BY <1>1, <2>1, <2>2 DEF JumpsWithout
  <2>4. JumpsWithout({}) = [j \in Name \X Name |-> JumpsWithout({})[j]]
    BY <1>1 DEF JumpsWithout
  <2> QED BY <1>1, <2>3, <2>4
<1>5. RulesWithout({}) = rules
  BY <1>1, <1>3 DEF RulesWithout, Of
<1>6. ChainsWithout({}) = chains
  BY <1>3 DEF ChainsWithout
<1>7. CountWithout({}) = forwardingCount
  <2>1. Masquerading({}) = {}
    BY DEF Masquerading, Of
  <2>2. CountWithout({}) = forwardingCount - 0
    BY <1>2, <2>1 DEF CountWithout
  <2> QED BY <1>1, <2>2
<1>8. ForwardingWithout({}) = forwarding
  BY <1>1, <1>7 DEF ForwardingWithout, TypeOK
<1> QED BY <1>4, <1>5, <1>6, <1>7, <1>8

\* Without anything to apply it keeps what reverting leaves.
LEMMA NothingApplied ==
  ASSUME TypeOK, NEW f, NEW all
  PROVE  /\ JumpsAfter(all, {}, {}) = jumps
         /\ ChainsAfter(all, {}, {}) = chains
         /\ RulesAfter(all, {}, {}) = rules
         /\ ForwardingAfter(all, {}, {}) = forwarding
         /\ \A i \in Name : AddrsAfter(i, f, all, {}, {}) = {addrs[i]}
<1>1. /\ jumps \in [Name \X Name -> Nat] /\ rules \in [Name \X Name \X Name -> Nat]
      /\ forwardingCount \in Int
  BY DEF TypeOK
<1>2. Cardinality({}) = 0
  BY FS_EmptySet
<1>3. \A zones : Appliers(zones, all, {}) = {}
  BY DEF Appliers, Applied
<1>4. JumpsAfter(all, {}, {}) = jumps
  <2>1. JumpsAfter(all, {}, {}) = [j \in DOMAIN jumps |-> jumps[j] + 0]
    BY <1>2, <1>3, NothingReverted DEF JumpsAfter
  <2> QED BY <1>1, <2>1
<1>5. ChainsAfter(all, {}, {}) = chains
  BY <1>3, NothingReverted DEF ChainsAfter
<1>6. RulesAfter(all, {}, {}) = rules
  <2> DEFINE applied == {o \in Of("forwarding", all \cap {}) :
                           Succeeds(o, all) /\ o.section.src \in ChainsAfter(all, {}, {})}
             chosen(r) == {o \in applied : /\ o.section.src = r[1] /\ o.section.dest = r[2]
                                           /\ r[3] \in InterfacesFoundBy(o, all)}
  <2>1. RulesAfter(all, {}, {}) =
          [r \in DOMAIN rules |-> RulesWithout({})[r] + Cardinality(chosen(r))]
    BY DEF RulesAfter
  <2>2. applied = {}
    BY DEF Of
  <2> HIDE DEF applied
  <2>3. \A r : chosen(r) = {}
    BY <2>2
  <2> HIDE DEF chosen
  <2>4. RulesAfter(all, {}, {}) = [r \in DOMAIN rules |-> rules[r] + 0]
    BY <1>2, <2>1, <2>3, NothingReverted
  <2> QED BY <1>1, <2>4
<1>7. ForwardingAfter(all, {}, {}) = forwarding
  <2>1. CountAfter(all, {}, {}) = CountWithout({})
    <3>1. CountAfter(all, {}, {}) = CountWithout({}) + 0
      BY <1>2, <1>3 DEF CountAfter
    <3> QED BY <1>1, <3>1, NothingReverted
  <2>2. ~(CountWithout({}) <= 0 /\ CountAfter(all, {}, {}) > 0)
    BY <1>1, <2>1, NothingReverted
  <2> QED BY <2>2, NothingReverted DEF ForwardingAfter, TypeOK
<1>8. ASSUME NEW i \in Name PROVE AddrsAfter(i, f, all, {}, {}) = {addrs[i]}
  <2>2. {o.section.addr : o \in Named(i, Of("interface", {}))} \cap Address = {}
    BY DEF Named, Of
  <2>3. AddrsAfter(i, f, all, {}, {}) = {(addrs[i] \ {}) \cup {}}
    <3> DEFINE Static(objects) ==
                 {o.section.addr : o \in Named(i, Of("interface", objects))} \cap Address
               removed == {o \in {} : o \in deletionSet(f) \/ \E n \in all : Changes(o, n)}
               applied == {o \in {} : o \in newConfigs(f) \/ \E n \in all : ChangesProto(o, n)}
               added == {n \in all : \E o \in {} \ applied : Changes(o, n)}
    <3>1. AddrsAfter(i, f, all, {}, {}) =
            IF Static(applied) # {} THEN {{a} : a \in Static(applied)}
            ELSE {(addrs[i] \ Static(removed)) \cup Static(added)}
      BY DEF AddrsAfter
    <3>2. removed = {} /\ applied = {} /\ added = {}
      OBVIOUS
    <3>3. Static({}) = {}
      BY <2>2
    <3> HIDE DEF Static, removed, applied, added
    <3> QED BY <3>1, <3>2, <3>3
  <2> QED BY <2>3
<1> QED BY <1>4, <1>5, <1>6, <1>7, <1>8

\* Loading files that have not changed does nothing to the host.
THEOREM ReloadIsIdleHolds == Spec => ReloadIsIdle
<1>1. TypeOK /\ CurrentAsWritten /\ [Next]_vars
        => [up' /\ files' = files => UNCHANGED kernel]_vars
  <2> SUFFICES ASSUME TypeOK, CurrentAsWritten, Next, up', files' = files
               PROVE  UNCHANGED kernel
    OBVIOUS
  <2>1. PICK f \in Configuration : loadConfig(f)
    BY DEF Next, unload
  <2>2. f = files /\ {o.section : o \in currentConfig} = f
    BY <2>1 DEF loadConfig, CurrentAsWritten
  <2>3. Fresh(f) = {} /\ Replaced(f) = {} /\ deletionSet(f) = {} /\ newConfigs(f) = {}
    BY <2>2 DEF Fresh, Replaced, deletionSet, newConfigs
  <2>4. updatedConfigs(f) = {}
    BY <2>3 DEF updatedConfigs
  <2> DEFINE all == allConfigs(f)
  <2>5. prioritizeConfigs({}, all) = {}
    BY DEF prioritizeConfigs, ParentsOf
  <2> DEFINE undo == {o \in prioritizeConfigs(updatedConfigs(f) \cup deletionSet(f), all) :
                        o \in deletionSet(f) \/ New(o, all) # {}}
             work == prioritizeConfigs(updatedConfigs(f) \cup newConfigs(f), all)
  <2>6. undo = {} /\ work = {}
    BY <2>3, <2>4, <2>5
  <2>7. /\ chains' = ChainsAfter(all, undo, work)
        /\ jumps' = JumpsAfter(all, undo, work)
        /\ rules' = RulesAfter(all, undo, work)
        /\ forwarding' = ForwardingAfter(all, undo, work)
        /\ \E a \in [Name -> UNION {AddrsAfter(i, f, all, undo, work) : i \in Name}] :
             /\ \A i \in Name : a[i] \in AddrsAfter(i, f, all, undo, work)
             /\ addrs' = a
    BY <2>1 DEF loadConfig
  <2> HIDE DEF all, undo, work
  <2>8. /\ chains' = ChainsAfter(all, {}, {})
        /\ jumps' = JumpsAfter(all, {}, {})
        /\ rules' = RulesAfter(all, {}, {})
        /\ forwarding' = ForwardingAfter(all, {}, {})
    BY <2>6, <2>7
  <2>9. \E a \in [Name -> UNION {AddrsAfter(i, f, all, {}, {}) : i \in Name}] :
          /\ \A i \in Name : a[i] \in AddrsAfter(i, f, all, {}, {})
          /\ addrs' = a
    BY <2>6, <2>7
  <2>10. addrs' = addrs
    BY <2>9, NothingApplied DEF TypeOK
  <2> QED BY <2>8, <2>10, NothingApplied
<1> QED BY <1>1, TypeCorrect, CurrentAsWrittenHolds, PTL DEF Spec, ReloadIsIdle
-----------------------------------------------------------------------------
(* What a load reverts and applies *)

\* The objects loadConfig reverts, and those it applies or updates.
Undo(f) ==
  {o \in prioritizeConfigs(updatedConfigs(f) \cup deletionSet(f), allConfigs(f)) :
     o \in deletionSet(f) \/ New(o, allConfigs(f)) # {}}

Work(f) == prioritizeConfigs(updatedConfigs(f) \cup newConfigs(f), allConfigs(f))

LEMMA LoadEffect ==
  ASSUME NEW f, loadConfig(f)
  PROVE  /\ up /\ up' = up /\ epoch < MaxLoads /\ epoch' = epoch + 1 /\ files' = f
         /\ currentConfig' = allConfigs(f)
         /\ parents' = ParentsAfter(allConfigs(f), Work(f))
         /\ interfaces' = InterfacesAfter(allConfigs(f), Work(f))
         /\ \A i \in Name : addrs'[i] \in AddrsAfter(i, f, allConfigs(f), Undo(f), Work(f))
         /\ chains' = ChainsAfter(allConfigs(f), Undo(f), Work(f))
         /\ jumps' = JumpsAfter(allConfigs(f), Undo(f), Work(f))
         /\ rules' = RulesAfter(allConfigs(f), Undo(f), Work(f))
BY DEF loadConfig, Undo, Work

\* What the objects of each type of section have.
LEMMA SectionKinds ==
  ASSUME NEW o \in Object
  PROVE  /\ o.section.type = "interface" => o.section \in Interface
         /\ o.section.type = "zone" => o.section \in Zone
         /\ o.section.type = "forwarding" => o.section \in Forwarding
         /\ o.section.type \in {"interface", "zone", "forwarding"}
         /\ o.epoch \in Nat
BY DEF Object, Interface, Zone, Forwarding

\* The objects a load leaves, in what they are when it begins.
Loading(f) ==
  /\ TypeOK /\ Finite /\ CurrentAsWritten
  /\ f \in Configuration
  /\ epoch < MaxLoads

LEMMA LoadTypes ==
  ASSUME NEW f, Loading(f)
  PROVE  /\ allConfigs(f) \subseteq Object
         /\ IsFiniteSet(allConfigs(f)) /\ IsFiniteSet(Undo(f)) /\ IsFiniteSet(Work(f))
BY LoadSets DEF Undo, Work, Loading, Object, Section

\* There is one current object of a name, before the load and after.
LEMMA NamedOnce ==
  ASSUME NEW f, Loading(f)
  PROVE  /\ \A o, p \in currentConfig : SameName(o, p) => o = p
         /\ \A o, p \in allConfigs(f) : SameName(o, p) => o = p
<1>1. \A o \in currentConfig : o.section \in files
  BY DEF Loading, CurrentAsWritten
<1>2. \A o \in allConfigs(f) : o.section \in f
  BY AllAsWritten DEF Loading
<1>3. files \in Configuration \cup {{}} /\ f \in Configuration
  BY DEF Loading, TypeOK
<1>4. \A o, p \in currentConfig : SameName(o, p) => o.section = p.section
  BY <1>1, <1>3 DEF SameName
<1>5. \A o, p \in allConfigs(f) : SameName(o, p) => o.section = p.section
  BY <1>2, <1>3 DEF SameName
<1> QED BY <1>4, <1>5, AllAsWritten DEF Loading, CurrentAsWritten

\* Each object that was read in this load is applied.
LEMMA FreshApplied ==
  ASSUME NEW f, Loading(f), NEW n \in allConfigs(f), n \notin currentConfig
  PROVE  n \in Fresh(f) /\ Applied(n, allConfigs(f), Work(f)) # {}
<1>1. n \in Fresh(f)
  BY DEF allConfigs, Unchanged
<1>2. CASE \A o \in currentConfig : ~SameName(o, n)
  <2>1. n \in Work(f) /\ n \in New(n, allConfigs(f))
    BY <1>1, <1>2 DEF newConfigs, Work, prioritizeConfigs, New
  <2> QED BY <1>1, <2>1 DEF Applied
<1>3. ASSUME NEW o \in currentConfig, SameName(o, n)
      PROVE  Applied(n, allConfigs(f), Work(f)) # {}
  <2>1. o \in Replaced(f)
    BY <1>1, <1>3 DEF Replaced
  <2>2. o \in updatedConfigs(f)
    BY <2>1 DEF updatedConfigs, deletionSet
  <2>3. o \in Work(f) /\ n \in New(o, allConfigs(f))
    BY <1>3, <2>2 DEF Work, prioritizeConfigs, New
  <2> QED BY <2>3 DEF Applied
<1> QED BY <1>1, <1>2, <1>3

\* Objects that are deleted are gone, with their names.
LEMMA Deleted ==
  ASSUME NEW f, Loading(f), NEW o \in deletionSet(f)
  PROVE  /\ o \in currentConfig /\ o \in Undo(f) /\ o \notin allConfigs(f)
         /\ \A n \in allConfigs(f) : ~SameName(o, n)
<1>1. o \in currentConfig /\ o.section \notin f /\ o \notin Replaced(f)
  BY DEF deletionSet
<1>2. o \in Undo(f)
  BY DEF Undo, prioritizeConfigs
<1>3. o \notin allConfigs(f)
  BY <1>1, AllAsWritten DEF Loading
<1>4. ASSUME NEW n \in allConfigs(f), SameName(o, n) PROVE FALSE
  <2>1. n \notin Fresh(f)
    BY <1>1, <1>4 DEF Replaced
  <2>2. n \in currentConfig
    BY <2>1 DEF allConfigs, Unchanged
  <2>3. o = n
    BY <1>1, <1>4, <2>2, NamedOnce
  <2> QED BY <1>3, <2>3
<1> QED BY <1>1, <1>2, <1>3, <1>4

\* What is reverted and not deleted is applied again.
LEMMA UndoneIsWork ==
  ASSUME NEW f, Loading(f), NEW o \in Undo(f), o \notin deletionSet(f)
  PROVE  o \in Work(f) /\ New(o, allConfigs(f)) # {}
<1> DEFINE all == allConfigs(f)
           undone == updatedConfigs(f) \cup deletionSet(f)
           applied == updatedConfigs(f) \cup newConfigs(f)
<1>1. undone \cap all \subseteq applied
  BY Deleted
<1>2. ParentsOf(undone, all) \subseteq ParentsOf(applied, all)
  BY <1>1 DEF ParentsOf
<1>3. ParentsOf(ParentsOf(undone, all), all) \subseteq ParentsOf(ParentsOf(applied, all), all)
  BY <1>2 DEF ParentsOf
<1>4. o \in undone \cup ParentsOf(undone, all) \cup ParentsOf(ParentsOf(undone, all), all)
  BY DEF Undo, prioritizeConfigs
<1>5. New(o, all) # {}
  BY DEF Undo
<1>6. o \in applied \cup ParentsOf(applied, all) \cup ParentsOf(ParentsOf(applied, all), all)
  BY <1>2, <1>3, <1>4
<1> QED BY <1>5, <1>6 DEF Work, prioritizeConfigs

\* An object that is not applied was there before, is not reverted, and nothing of
\* its name is.
LEMMA Untouched ==
  ASSUME NEW f, Loading(f), NEW o \in allConfigs(f), Applied(o, allConfigs(f), Work(f)) = {}
  PROVE  /\ o \in currentConfig /\ o \notin Work(f)
         /\ \A w \in Undo(f) : w # o /\ ~SameName(w, o)
<1>1. o \in currentConfig
  BY FreshApplied
<1>2. \A w \in Work(f) : w # o /\ ~SameName(w, o)
  BY DEF Applied, New
<1>3. ASSUME NEW w \in Undo(f) PROVE w # o /\ ~SameName(w, o)
  <2>1. CASE w \in deletionSet(f)
    BY <2>1, Deleted
  <2>2. CASE w \notin deletionSet(f)
    BY <1>2, <2>2, UndoneIsWork
  <2> QED BY <2>1, <2>2
<1> QED BY <1>1, <1>2, <1>3
-----------------------------------------------------------------------------
\* Objects and what they have looked up were read in an earlier load, from a
\* configuration.
Aged ==
  \A o \in currentConfig : \A p \in parents[o] \cup {o} :
    p.epoch <= epoch /\ p.section \in UNION Configuration

IConfig == TypeOK /\ Finite /\ CurrentAsWritten /\ Aged

LEMMA LoadingNow ==
  ASSUME IConfig, NEW f \in Configuration, loadConfig(f)
  PROVE  Loading(f)
BY DEF IConfig, Loading, loadConfig

LEMMA IConfigInvariant == Spec => []IConfig
<1>1. Init => Aged
  BY DEF Init, Aged
<1>2. TypeOK /\ Finite /\ CurrentAsWritten /\ Aged /\ [Next]_vars => Aged'
  <2> SUFFICES ASSUME TypeOK, Finite, CurrentAsWritten, Aged, [Next]_vars PROVE Aged'
    OBVIOUS
  <2>1. ASSUME NEW f \in Configuration, loadConfig(f) PROVE Aged'
    <3>1. Loading(f)
      BY <2>1, LoadingNow DEF IConfig
    <3>2. /\ currentConfig' = allConfigs(f) /\ epoch' = epoch + 1 /\ epoch \in Nat
          /\ parents' = ParentsAfter(allConfigs(f), Work(f))
      BY <2>1, LoadEffect DEF TypeOK
    <3>3. ASSUME NEW o \in allConfigs(f)
          PROVE  o.epoch <= epoch + 1 /\ o.section \in UNION Configuration
      <4>1. o.section \in f
        BY AllAsWritten DEF IConfig
      <4>2. CASE o \in currentConfig
        <5>1. o.epoch <= epoch /\ o.epoch \in Nat
          BY <4>2, SectionKinds DEF Aged, TypeOK
        <5> QED BY <3>2, <4>1, <5>1
      <4>3. CASE o \notin currentConfig
        BY <3>1, <3>2, <4>1, <4>3, FreshApplied DEF Fresh
      <4> QED BY <4>2, <4>3
    <3>4. ASSUME NEW o \in allConfigs(f), NEW p \in parents'[o]
          PROVE  p.epoch <= epoch + 1 /\ p.section \in UNION Configuration
      <4>1. CASE o \in currentConfig /\ p \in parents[o]
        <5>1. p.epoch <= epoch /\ p.section \in UNION Configuration
          BY <4>1 DEF Aged
        <5>2. p.epoch \in Nat
          BY <4>1, SectionKinds DEF TypeOK
        <5> QED BY <3>2, <5>1, <5>2
      <4>2. CASE ~(o \in currentConfig /\ p \in parents[o])
        <5>1. p \in FoundBy(o, allConfigs(f))
          BY <3>2, <4>2 DEF ParentsAfter
        <5>2. p \in allConfigs(f)
          BY <3>1, <5>1, LoadTypes, FoundTypes
        <5> QED BY <3>3, <5>2
      <4> QED BY <4>1, <4>2
    <3> QED BY <3>2, <3>3, <3>4 DEF Aged
  <2>2. CASE unload
    BY <2>2 DEF unload, Aged
  <2>3. CASE UNCHANGED vars
    BY <2>3 DEF vars, Aged
  <2> QED BY <2>1, <2>2, <2>3 DEF Next
<1> QED BY <1>1, <1>2, TypeInvariant, CurrentAsWrittenHolds, PTL DEF Spec, IConfig
-----------------------------------------------------------------------------
(* Zones *)

\* What a zone has looked up and is still there was there when it was applied.
Found(z) == Of("interface", parents[z] \cap currentConfig)

\* What ZonesInPlace says of one zone.
InPlace(z) ==
  NetworksOf(z.section) \subseteq {p.section.name : p \in Found(z)} =>
    /\ z.section.name \in chains
    /\ \A i \in NetworksOf(z.section) : jumps[z.section.name, i] > 0

\* A zone none of whose interfaces is missing is applied without an error.
LEMMA ZoneSucceeds ==
  ASSUME NEW all \in SUBSET Object, NEW z \in all, z.section.type = "zone",
         NetworksOf(z.section) \subseteq {p.section.name : p \in Of("interface", all)}
  PROVE  /\ Succeeds(z, all)
         /\ NetworksOf(z.section) \subseteq InterfacesFoundBy(z, all)
<1> DEFINE n == z.section.network
<1>1. z.section \in Zone /\ n \in Seq(Name)
  BY SectionKinds DEF Zone
<1>2. Lookups(z, all) = Networks(z.section)
  BY DEF Lookups
<1>3. Networks(z.section) = [k \in DOMAIN n |-> <<"interface", n[k]>>]
  BY DEF Networks
<1> DEFINE l == Lookups(z, all)
<1>4. DOMAIN l = DOMAIN n /\ \A k \in DOMAIN n : l[k][1] = "interface" /\ l[k][2] = n[k]
  BY <1>2, <1>3
<1>5. ASSUME NEW k \in DOMAIN n
      PROVE  /\ lookup(l[k][1], l[k][2], all) # {}
             /\ \A p \in lookup(l[k][1], l[k][2], all) :
                  p.section.type = "interface" /\ p.section.name = n[k]
  <2>1. n[k] \in NetworksOf(z.section)
    BY DEF NetworksOf
  <2>2. PICK p \in Of("interface", all) : n[k] = p.section.name
    BY <2>1
  <2> QED BY <1>4, <2>2 DEF lookup, Of
<1>6. Succeeds(z, all)
  BY <1>4, <1>5 DEF Succeeds
<1>7. DOMAIN n = 1 .. Len(n) /\ Len(n) \in Nat
  BY <1>1, LenProperties
<1>8. ASSUME NEW k \in DOMAIN n PROVE n[k] \in InterfacesFoundBy(z, all)
  <2> DEFINE found == [j \in DOMAIN l |-> lookup(l[j][1], l[j][2], all)]
  <2>1. \A j \in 1 .. k : found[j] # {}
    BY <1>4, <1>5, <1>7
  <2>2. found[k] \subseteq FoundBy(z, all)
    <3> DEFINE first == {m \in DOMAIN l : \A j \in 1 .. m : found[j] # {}}
    <3>1. FoundBy(z, all) = UNION {found[m] : m \in first}
      BY DEF FoundBy
    <3>2. k \in first
      BY <1>4, <2>1
    <3> HIDE DEF found, first
    <3> QED BY <3>1, <3>2
  <2>3. PICK p \in found[k] : p.section.type = "interface" /\ p.section.name = n[k]
    BY <1>4, <1>5
  <2> HIDE DEF found
  <2> QED BY <2>2, <2>3 DEF InterfacesFoundBy, Of
<1> QED BY <1>6, <1>8 DEF NetworksOf

\* Jumps of a zone that is not reverted stay.
LEMMA JumpsStay ==
  ASSUME TypeOK, NEW undo, NEW name \in Name, NEW i \in Name,
         Named(name, Of("zone", undo)) = {}
  PROVE  JumpsWithout(undo)[name, i] = jumps[name, i]
<1> DEFINE j == <<name, i>>
           named == {z \in Named(j[1], Of("zone", undo)) : j[2] \in InterfacesOf(z)}
<1>1. j \in DOMAIN jumps /\ jumps[j] \in Nat /\ j[1] = name
  BY DEF TypeOK
<1>2. named = {}
  BY <1>1
<1>3. JumpsWithout(undo)[j] =
        IF Cardinality(named) <= jumps[j] THEN jumps[j] - Cardinality(named) ELSE 0
  BY <1>1 DEF JumpsWithout
<1> HIDE DEF j, named
<1>4. JumpsWithout(undo)[j] = jumps[j]
  BY <1>1, <1>2, <1>3, FS_EmptySet
<1> QED BY <1>4 DEF j

LEMMA ZoneStep ==
  ASSUME IConfig, ZonesInPlace, NEW f \in Configuration, loadConfig(f),
         NEW z \in Of("zone", currentConfig')
  PROVE  InPlace(z)'
<1> DEFINE all == allConfigs(f)
           undo == Undo(f)
           work == Work(f)
<1>1. Loading(f) /\ TypeOK /\ Finite /\ CurrentAsWritten /\ Aged
  BY LoadingNow DEF IConfig
<1>2. /\ currentConfig' = all /\ chains' = ChainsAfter(all, undo, work)
      /\ jumps' = JumpsAfter(all, undo, work) /\ parents' = ParentsAfter(all, work)
  BY LoadEffect
<1>3. all \subseteq Object /\ IsFiniteSet(all) /\ IsFiniteSet(undo) /\ IsFiniteSet(work)
  BY <1>1, LoadTypes
<1> DEFINE name == z.section.name
<1>4. z \in all /\ z.section.type = "zone" /\ z.section \in Zone /\ z.section.name = name
  BY <1>2, <1>3, SectionKinds DEF Of
<1>5. name \in Name /\ name # NoName /\ z.section.network \in Seq(Name)
  BY <1>4 DEF Zone
<1>6. NetworksOf(z.section) \subseteq Name
  BY <1>5 DEF NetworksOf
<1> HIDE DEF all, undo, work, name
<1>7. SUFFICES ASSUME NetworksOf(z.section) \subseteq {p.section.name : p \in Found(z)'}
               PROVE  /\ name \in ChainsAfter(all, undo, work)
                      /\ \A i \in NetworksOf(z.section) :
                           JumpsAfter(all, undo, work)[name, i] > 0
  BY <1>2, <1>4 DEF InPlace
<1> DEFINE Applying(i) == Appliers({y \in lookup("zone", name, all) :
                                      i \in InterfacesFoundBy(y, all)}, all, work)
<1>8. ASSUME NEW i \in Name
      PROVE  /\ JumpsAfter(all, undo, work)[name, i]
                   = JumpsWithout(undo)[name, i] + Cardinality(Applying(i))
             /\ JumpsWithout(undo)[name, i] \in Nat
             /\ IsFiniteSet(Applying(i)) /\ Cardinality(Applying(i)) \in Nat
  <2>1. <<name, i>> \in DOMAIN jumps /\ <<name, i>>[1] = name /\ <<name, i>>[2] = i
    BY <1>1, <1>5 DEF TypeOK
  <2>2. JumpsAfter(all, undo, work)[<<name, i>>]
          = JumpsWithout(undo)[<<name, i>>] + Cardinality(Applying(i))
    BY <2>1 DEF JumpsAfter
  <2>3. JumpsWithout(undo) \in [Name \X Name -> Nat]
    BY <1>1, <1>3, KernelTypes
  <2>4. Applying(i) \subseteq work
    BY DEF Appliers, Applied
  <2>5. IsFiniteSet(Applying(i)) /\ Cardinality(Applying(i)) \in Nat
    BY <1>3, <2>4, FS_Subset, FS_CardinalityType
  <2> QED BY <1>5, <2>2, <2>3, <2>5
<1> HIDE DEF Applying
<1>9. CASE Applied(z, all, work) = {}
  <2>1. z \in currentConfig /\ \A w \in undo : w # z /\ ~SameName(w, z)
    BY <1>1, <1>4, <1>9, Untouched DEF all, undo, work
  <2>2. parents'[z] = parents[z]
    BY <1>2, <1>4, <1>9, <2>1 DEF ParentsAfter
  <2>3. parents[z] \cap all \subseteq currentConfig
    <3> SUFFICES ASSUME NEW p \in parents[z], p \in all, p \notin currentConfig PROVE FALSE
      OBVIOUS
    <3>1. p.epoch = epoch + 1
      BY <1>1, FreshApplied DEF Fresh, all
    <3>2. p.epoch <= epoch /\ epoch \in Nat
      BY <1>1, <2>1 DEF Aged, TypeOK
    <3> QED BY <3>1, <3>2
  <2>4. Found(z)' \subseteq Found(z)
    BY <1>2, <2>2, <2>3 DEF Found, Of
  <2>5. /\ name \in chains
        /\ \A i \in NetworksOf(z.section) : jumps[name, i] > 0
    <3>1. NetworksOf(z.section) \subseteq {p.section.name : p \in Found(z)}
      BY <1>7, <2>4
    <3>2. InPlace(z)
      BY <1>4, <2>1 DEF ZonesInPlace, InPlace, Found, Of
    <3> QED BY <1>4, <3>1, <3>2 DEF InPlace
  <2>6. Named(name, Of("zone", undo)) = {}
    BY <1>4, <1>5, <2>1 DEF Named, Of, SameName
  <2>7. name \in ChainsAfter(all, undo, work)
    BY <2>5, <2>6 DEF ChainsAfter, ChainsWithout
  <2>8. ASSUME NEW i \in NetworksOf(z.section)
        PROVE  JumpsAfter(all, undo, work)[name, i] > 0
    <3>1. i \in Name
      BY <1>6
    <3>2. JumpsWithout(undo)[name, i] = jumps[name, i]
      BY <1>1, <1>5, <2>6, <3>1, JumpsStay
    <3>3. jumps[name, i] > 0
      BY <2>5
    <3>4. /\ JumpsAfter(all, undo, work)[name, i]
               = JumpsWithout(undo)[name, i] + Cardinality(Applying(i))
          /\ JumpsWithout(undo)[name, i] \in Nat /\ Cardinality(Applying(i)) \in Nat
      BY <1>8, <3>1, Zenon
    <3> DEFINE after == JumpsAfter(all, undo, work)[name, i]
               left == JumpsWithout(undo)[name, i]
               added == Cardinality(Applying(i))
    <3>5. after = left + added /\ left \in Nat /\ added \in Nat
      BY <3>4
    <3>6. left > 0
      BY <3>2, <3>3
    <3> HIDE DEF after, left, added
    <3>7. after > 0
      BY <3>5, <3>6
    <3> QED BY <3>7 DEF after
  <2> QED BY <2>7, <2>8
<1>10. CASE Applied(z, all, work) # {}
  <2>1. Succeeds(z, all) /\ NetworksOf(z.section) \subseteq InterfacesFoundBy(z, all)
    <3>1. Found(z)' \subseteq Of("interface", all)
      BY <1>2 DEF Found, Of
    <3>2. NetworksOf(z.section) \subseteq {p.section.name : p \in Of("interface", all)}
      BY <1>7, <3>1
    <3> QED BY <1>3, <1>4, <3>2, ZoneSucceeds
  <2>2. PICK w : w \in Applied(z, all, work)
    BY <1>10
  <2>3. w.section.name = name
    BY <1>4, <2>2 DEF Applied, New, SameName
  <2>4. name \in ChainsAfter(all, undo, work)
    BY <1>4, <2>1, <2>2, <2>3 DEF ChainsAfter, Appliers, Of
  <2>5. ASSUME NEW i \in NetworksOf(z.section)
        PROVE  JumpsAfter(all, undo, work)[name, i] > 0
    <3>1. w \in Applying(i)
      BY <1>4, <2>1, <2>2 DEF Applying, Appliers, Of, lookup
    <3>2. i \in Name
      BY <1>6
    <3>3. IsFiniteSet(Applying(i)) /\ Cardinality(Applying(i)) # 0
      BY <1>8, <3>1, <3>2, FS_EmptySet
    <3>4. /\ JumpsAfter(all, undo, work)[name, i]
               = JumpsWithout(undo)[name, i] + Cardinality(Applying(i))
          /\ JumpsWithout(undo)[name, i] \in Nat /\ Cardinality(Applying(i)) \in Nat
      BY <1>8, <3>2, Zenon
    <3> DEFINE after == JumpsAfter(all, undo, work)[name, i]
               left == JumpsWithout(undo)[name, i]
               added == Cardinality(Applying(i))
    <3>5. after = left + added /\ left \in Nat /\ added \in Nat
      BY <3>4
    <3>6. added # 0
      BY <3>3
    <3> HIDE DEF after, left, added
    <3>7. after > 0
      BY <3>5, <3>6
    <3> QED BY <3>7 DEF after
  <2> QED BY <2>4, <2>5
<1> QED BY <1>9, <1>10

\* A zone that has found the interfaces there are gets their traffic.
THEOREM ZonesInPlaceHolds == Spec => []ZonesInPlace
<1>1. Init => ZonesInPlace
  BY DEF Init, ZonesInPlace, Of
<1>2. IConfig /\ ZonesInPlace /\ [Next]_vars => ZonesInPlace'
  <2> SUFFICES ASSUME IConfig, ZonesInPlace, [Next]_vars PROVE ZonesInPlace'
    OBVIOUS
  <2>1. ASSUME NEW f \in Configuration, loadConfig(f) PROVE ZonesInPlace'
    BY <2>1, ZoneStep DEF ZonesInPlace, InPlace, Found
  <2>2. CASE unload
    BY <2>2 DEF unload, ZonesInPlace, Of
  <2>3. CASE UNCHANGED vars
    BY <2>3 DEF vars, ZonesInPlace, Of, InPlace
  <2> QED BY <2>1, <2>2, <2>3 DEF Next
<1> QED BY <1>1, <1>2, IConfigInvariant, PTL DEF Spec
-----------------------------------------------------------------------------
(* Forwardings *)

\* The rule r is one of those of o.
Owns(o, r) ==
  /\ o.section.src = r[1] /\ o.section.dest = r[2]
  /\ r[3] \in interfaces[o]

\* Each rule is there once, and has been applied for a current object.
RulesOwned ==
  up => \A r \in DOMAIN rules : rules[r] > 0 =>
          /\ rules[r] = 1
          /\ \E o \in Of("forwarding", currentConfig) : Owns(o, r)

\* There is one forwarding from a zone to another.
LEMMA ForwardingOnce ==
  ASSUME NEW f, Loading(f),
         NEW o, o.section.type = "forwarding", NEW p, p.section.type = "forwarding",
         o.section.src = p.section.src, o.section.dest = p.section.dest
  PROVE  /\ o \in currentConfig /\ p \in currentConfig => o = p
         /\ o \in allConfigs(f) /\ p \in allConfigs(f) => o = p
         /\ o \in Fresh(f) => p \notin currentConfig
<1>1. o \in Object /\ p \in Object => o.section = p.section
  BY SectionKinds DEF Forwarding
<1>2. currentConfig \subseteq Object /\ allConfigs(f) \subseteq Object
  BY LoadTypes DEF Loading, TypeOK
<1>3. Fresh(f) \subseteq allConfigs(f)
  BY DEF allConfigs
<1>4. o \in currentConfig /\ p \in currentConfig => o = p
  BY <1>1, <1>2 DEF Loading, CurrentAsWritten
<1>5. o \in allConfigs(f) /\ p \in allConfigs(f) => o = p
  BY <1>1, <1>2, AllAsWritten DEF Loading
<1>6. ASSUME o \in Fresh(f), p \in currentConfig PROVE FALSE
  BY <1>1, <1>2, <1>3, <1>6 DEF Fresh
<1> QED BY <1>4, <1>5, <1>6

\* What is applied again has been reverted before.
LEMMA WorkUndone ==
  ASSUME NEW f, Loading(f), NEW o \in Work(f), o \in allConfigs(f), o \in currentConfig
  PROVE  o \in Undo(f)
<1> DEFINE all == allConfigs(f)
           undone == updatedConfigs(f) \cup deletionSet(f)
           applied == updatedConfigs(f) \cup newConfigs(f)
<1>1. applied \cap currentConfig \subseteq undone
  BY DEF newConfigs, Fresh
<1>2. ParentsOf(applied, all) \subseteq ParentsOf(undone, all)
  BY <1>1 DEF ParentsOf
<1>3. ParentsOf(ParentsOf(applied, all), all) \subseteq ParentsOf(ParentsOf(undone, all), all)
  BY <1>2 DEF ParentsOf
<1>4. o \in applied \cup ParentsOf(applied, all) \cup ParentsOf(ParentsOf(applied, all), all)
  BY DEF Work, prioritizeConfigs
<1>5. o \in undone \cup ParentsOf(undone, all) \cup ParentsOf(ParentsOf(undone, all), all)
  BY <1>1, <1>2, <1>3, <1>4
<1>6. New(o, all) # {}
  BY DEF New
<1> QED BY <1>5, <1>6 DEF Undo, prioritizeConfigs

\* A forwarding whose apply succeeds finds both its zones.
LEMMA ForwardingSucceeds ==
  ASSUME NEW all \in SUBSET Object, NEW o \in all, o.section.type = "forwarding",
         Succeeds(o, all)
  PROVE  \A z \in {o.section.src, o.section.dest} : lookup("zone", z, all) # {}
<1> DEFINE T == {"zone", "interface"} \X Name
           zones == <<<<"zone", o.section.src>>, <<"zone", o.section.dest>>>>
           rest == IF lookup("zone", o.section.dest, all) = {} THEN <<>>
                     ELSE LET z == CHOOSE z \in lookup("zone", o.section.dest, all) : TRUE
                          IN Networks(z.section)
           l == Lookups(o, all)
<1>1. o.section.src \in Name /\ o.section.dest \in Name
  BY SectionKinds DEF Forwarding
<1>2. l = zones \o rest
  BY DEF Lookups
<1>3. zones \in Seq(T) /\ Len(zones) = 2
  BY <1>1
<1>4. rest \in Seq(T)
  <2>1. ASSUME NEW z \in lookup("zone", o.section.dest, all) PROVE Networks(z.section) \in Seq(T)
    <3>1. z.section.network \in Seq(Name)
      BY SectionKinds DEF Zone, lookup
    <3>2. Networks(z.section)
            = [k \in 1 .. Len(z.section.network) |-> <<"interface", z.section.network[k]>>]
      BY <3>1 DEF Networks
    <3>3. \A k \in 1 .. Len(z.section.network) : <<"interface", z.section.network[k]>> \in T
      BY <3>1
    <3>4. Len(z.section.network) \in Nat
      BY <3>1
    <3> HIDE DEF T
    <3> QED BY <3>2, <3>3, <3>4, IsASeq
  <2>2. CASE lookup("zone", o.section.dest, all) = {}
    BY <2>2
  <2>3. CASE lookup("zone", o.section.dest, all) # {}
    BY <2>1, <2>3
  <2> QED BY <2>2, <2>3
<1> HIDE DEF rest, T
<1>5. /\ zones \o rest \in Seq(T) /\ Len(zones \o rest) = 2 + Len(rest) /\ Len(rest) \in Nat
      /\ (zones \o rest)[1] = zones[1] /\ (zones \o rest)[2] = zones[2]
  BY <1>3, <1>4, ConcatProperties
<1> HIDE DEF zones, l
<1>6. 1 \in DOMAIN l /\ 2 \in DOMAIN l /\ l[1] = zones[1] /\ l[2] = zones[2]
  BY <1>2, <1>5
<1>7. /\ lookup(l[1][1], l[1][2], all) # {}
      /\ lookup(l[2][1], l[2][2], all) # {}
  BY <1>6 DEF Succeeds, l
<1> QED BY <1>6, <1>7 DEF zones

\* Reverting takes out a rule that is there once, if it reverts its owner.
LEMMA RulesLeft ==
  ASSUME TypeOK, NEW undo, NEW r \in DOMAIN rules, rules[r] \in {0, 1}
  PROVE  /\ RulesWithout(undo)[r] \in {0, rules[r]}
         /\ \A o \in undo :
              o \in currentConfig /\ o.section.type = "forwarding" /\ Owns(o, r) =>
                RulesWithout(undo)[r] = 0
<1>1. RulesWithout(undo)[r] =
        IF Named(r[1], Of("zone", undo)) # {}
          THEN 0
          ELSE IF rules[r] > 0 /\ \E o \in Of("forwarding", undo) :
                     o.section.src = r[1] /\ o.section.dest = r[2] /\ r[3] \in InterfacesOf(o)
            THEN rules[r] - 1
            ELSE rules[r]
  BY DEF RulesWithout
<1>2. RulesWithout(undo)[r] \in {0, rules[r]}
  BY <1>1
<1>3. ASSUME NEW o \in undo, o \in currentConfig, o.section.type = "forwarding", Owns(o, r)
      PROVE  RulesWithout(undo)[r] = 0
  <2>1. o \in Of("forwarding", undo) /\ r[3] \in InterfacesOf(o)
    BY <1>3 DEF Of, Owns, InterfacesOf
  <2>2. rules[r] = 0 \/ (rules[r] > 0 /\ rules[r] - 1 = 0)
    OBVIOUS
  <2> QED BY <1>1, <1>3, <2>1, <2>2 DEF Owns
<1> QED BY <1>2, <1>3

LEMMA RulesStep ==
  ASSUME IConfig, RulesOwned, NEW f \in Configuration, loadConfig(f)
  PROVE  RulesOwned'
<1> DEFINE all == allConfigs(f)
           undo == Undo(f)
           work == Work(f)
<1>1. Loading(f) /\ TypeOK /\ up
  BY LoadingNow DEF IConfig, loadConfig
<1>2. /\ currentConfig' = all /\ rules' = RulesAfter(all, undo, work)
      /\ interfaces' = InterfacesAfter(all, work)
  BY LoadEffect
<1>3. all \subseteq Object /\ currentConfig \subseteq Object
  BY <1>1, LoadTypes DEF TypeOK
<1> HIDE DEF all, undo, work
<1>4. SUFFICES ASSUME NEW r \in DOMAIN rules', rules'[r] > 0
               PROVE  /\ rules'[r] = 1
                      /\ \E o \in Of("forwarding", all) :
                           /\ o.section.src = r[1] /\ o.section.dest = r[2]
                           /\ r[3] \in interfaces'[o]
  BY <1>2 DEF RulesOwned, Owns
<1> DEFINE applied == {o \in Of("forwarding", all \cap work) :
                         Succeeds(o, all) /\ o.section.src \in ChainsAfter(all, undo, work)}
           chosen == {o \in applied : /\ o.section.src = r[1] /\ o.section.dest = r[2]
                                      /\ r[3] \in InterfacesFoundBy(o, all)}
           left == RulesWithout(undo)[r]
<1>5. r \in DOMAIN rules /\ rules'[r] = left + Cardinality(chosen)
  BY <1>2, <1>4 DEF RulesAfter
<1>6. \A o \in chosen :
        /\ o \in all /\ o \in work /\ o.section.type = "forwarding" /\ Succeeds(o, all)
        /\ o.section.src = r[1] /\ o.section.dest = r[2]
        /\ r[3] \in InterfacesFoundBy(o, all)
  BY DEF Of
<1>7. rules[r] \in {0, 1}
  <2>1. rules[r] \in Nat
    BY <1>1, <1>5 DEF TypeOK
  <2> QED BY <1>1, <1>5, <2>1 DEF RulesOwned
<1>8. left \in {0, rules[r]}
  BY <1>1, <1>5, <1>7, RulesLeft
<1> HIDE DEF chosen, left
<1>9. CASE chosen = {}
  <2>1. left = 1 /\ rules'[r] = 1 /\ rules[r] > 0
    <3>1. Cardinality(chosen) = 0
      BY <1>9, FS_EmptySet
    <3> QED BY <1>4, <1>5, <1>7, <1>8, <3>1
  <2>2. PICK o \in Of("forwarding", currentConfig) : Owns(o, r)
    BY <1>1, <1>5, <2>1 DEF RulesOwned
  <2>3. o \in currentConfig /\ o.section.type = "forwarding" /\ o \in Object
    BY <1>3, <2>2 DEF Of
  <2>4. o \notin undo
    BY <1>1, <1>5, <1>7, <2>1, <2>2, <2>3, RulesLeft DEF left
  <2>5. o.section.name = NoName
    BY <2>3, SectionKinds DEF Forwarding
  <2>6. o \in all
    <3>1. o \notin Replaced(f)
      BY <2>5 DEF Replaced, SameName
    <3>2. o \notin deletionSet(f)
      BY <1>1, <2>4, Deleted DEF undo
    <3>3. o.section \in f
      BY <2>3, <3>1, <3>2 DEF deletionSet
    <3> QED BY <2>3, <3>3 DEF all, allConfigs, Unchanged
  <2>7. o \notin work
    BY <1>1, <2>3, <2>4, <2>6, WorkUndone DEF all, undo, work
  <2>8. Applied(o, all, work) = {}
    BY <2>5, <2>7 DEF Applied, New, SameName
  <2>9. interfaces'[o] = interfaces[o]
    BY <1>2, <2>3, <2>6, <2>8 DEF InterfacesAfter, InterfacesOf
  <2> QED BY <2>1, <2>2, <2>3, <2>6, <2>9 DEF Of, Owns
<1>10. CASE chosen # {}
  <2>1. PICK o : o \in chosen
    BY <1>10
  <2>2. Cardinality(chosen) = 1
    <3>1. \A p \in chosen : p = o
      BY <1>1, <1>6, <2>1, ForwardingOnce DEF all
    <3>2. chosen = {o}
      BY <2>1, <3>1
    <3> QED BY <3>2, FS_Singleton
  <2>3. left = 0
    <3>1. CASE rules[r] = 0
      BY <1>8, <3>1
    <3>2. CASE rules[r] = 1
      <4>1. PICK p \in Of("forwarding", currentConfig) : Owns(p, r)
        BY <1>1, <1>5, <3>2 DEF RulesOwned
      <4>2. /\ p \in currentConfig /\ p.section.type = "forwarding"
            /\ p.section.src = o.section.src /\ p.section.dest = o.section.dest
        BY <1>6, <2>1, <4>1 DEF Of, Owns
      <4>3. o \in currentConfig
        <5>1. o \notin Fresh(f)
          BY <1>1, <1>6, <2>1, <4>2, ForwardingOnce
        <5> QED BY <1>6, <2>1, <5>1 DEF all, allConfigs, Unchanged
      <4>4. o = p
        BY <1>1, <1>6, <2>1, <4>2, <4>3, ForwardingOnce
      <4>5. o \in undo
        BY <1>1, <1>6, <2>1, <4>3, WorkUndone DEF all, work, undo
      <4> QED BY <1>1, <1>5, <1>7, <4>1, <4>2, <4>4, <4>5, RulesLeft DEF left
    <3> QED BY <1>7, <3>1, <3>2
  <2>4. interfaces'[o] = InterfacesFoundBy(o, all)
    <3>1. Applied(o, all, work) # {}
      BY <1>6, <2>1 DEF Applied, New
    <3>2. \A z \in {o.section.src, o.section.dest} : lookup("zone", z, all) # {}
      BY <1>3, <1>6, <2>1, ForwardingSucceeds
    <3> QED BY <1>2, <1>6, <2>1, <3>1, <3>2 DEF InterfacesAfter
  <2>5. rules'[r] = 1
    BY <1>5, <2>2, <2>3
  <2> QED BY <1>6, <2>1, <2>4, <2>5 DEF Of
<1> QED BY <1>9, <1>10

LEMMA RulesInvariant == Spec => []RulesOwned
<1>1. Init => RulesOwned
  BY DEF Init, RulesOwned
<1>2. IConfig /\ RulesOwned /\ [Next]_vars => RulesOwned'
  <2> SUFFICES ASSUME IConfig, RulesOwned, [Next]_vars PROVE RulesOwned'
    OBVIOUS
  <2>1. CASE unload
    BY <2>1 DEF unload, RulesOwned
  <2>2. CASE UNCHANGED vars
    BY <2>2 DEF vars, RulesOwned, Owns
  <2> QED BY <2>1, <2>2, RulesStep DEF Next
<1> QED BY <1>1, <1>2, IConfigInvariant, PTL DEF Spec

\* No traffic is accepted that no forwarding section asks for any more, and none for a
\* second time.
THEOREM NoStaleRulesHolds == Spec => []NoStaleRules
<1>1. IConfig /\ RulesOwned => NoStaleRules
  <2> SUFFICES ASSUME IConfig, RulesOwned, up, NEW r \in DOMAIN rules
               PROVE  /\ rules[r] > 0 => \E s \in files :
                           s.type = "forwarding" /\ s.src = r[1] /\ s.dest = r[2]
                      /\ rules[r] <= 1
    BY DEF NoStaleRules
  <2>1. rules[r] \in Nat
    BY DEF IConfig, TypeOK
  <2>2. ASSUME rules[r] > 0
        PROVE  \E s \in files : s.type = "forwarding" /\ s.src = r[1] /\ s.dest = r[2]
    <3>1. PICK o \in Of("forwarding", currentConfig) : Owns(o, r)
      BY <2>2 DEF RulesOwned
    <3>2. o.section \in files
      BY <3>1 DEF IConfig, CurrentAsWritten, Of
    <3> QED BY <3>1, <3>2 DEF Of, Owns
  <2>3. rules[r] <= 1
    BY <2>1 DEF RulesOwned
  <2> QED BY <2>2, <2>3
<1> QED BY <1>1, IConfigInvariant, RulesInvariant, PTL
-----------------------------------------------------------------------------
(* Addresses *)

\* The addresses that objects of interface i say.
StaticOf(i, objects) ==
  {o.section.addr : o \in Named(i, Of("interface", objects))} \cap Address

\* Each interface has the address its object says.
Addressed ==
  up /\ StableProtocols => \A i \in Name : addrs[i] = StaticOf(i, currentConfig)

\* What objects are applied or updated were read from a configuration.
LEMMA WorkSections ==
  ASSUME IConfig, NEW f \in Configuration, NEW o \in Work(f)
  PROVE  o.section \in UNION Configuration
<1>1. Work(f) \subseteq updatedConfigs(f) \cup newConfigs(f) \cup Elders
  BY Prioritized DEF Work
<1>2. updatedConfigs(f) \subseteq currentConfig
  BY DEF updatedConfigs
<1>3. \A n \in newConfigs(f) : n.section \in f
  BY DEF newConfigs, Fresh
<1> QED BY <1>1, <1>2, <1>3 DEF IConfig, Aged, Elders

\* When protocols do not change, objects of a name have the protocol of its section.
LEMMA NoProtoChange ==
  ASSUME IConfig, StableProtocols, NEW f \in Configuration, loadConfig(f),
         NEW o \in Work(f), NEW n \in allConfigs(f)
  PROVE  ~ChangesProto(o, n)
<1>1. n.section \in f
  BY AllAsWritten DEF IConfig
<1>2. PICK g \in Configuration : o.section \in g
  BY WorkSections
<1>3. SUFFICES ASSUME ChangesProto(o, n) PROVE FALSE
  OBVIOUS
<1>4. /\ o.section.type = "interface" /\ n.section.type = "interface"
      /\ o.section.name = n.section.name
  BY <1>3 DEF ChangesProto, Changes, SameName
<1>5. o.section.addr = Dhcp <=> n.section.addr = Dhcp
  BY <1>1, <1>2, <1>4 DEF StableProtocols
<1> QED BY <1>3, <1>5 DEF ChangesProto, Changes

LEMMA AddressStep ==
  ASSUME IConfig, Addressed, StableProtocols, NEW f \in Configuration, loadConfig(f),
         NEW i \in Name
  PROVE  addrs'[i] = StaticOf(i, allConfigs(f))
<1> DEFINE all == allConfigs(f)
           undo == Undo(f)
           work == Work(f)
           removed == {o \in undo : o \in deletionSet(f) \/ \E n \in all : Changes(o, n)}
           applied == {o \in work : o \in newConfigs(f) \/ \E n \in all : ChangesProto(o, n)}
           added == {n \in all : \E o \in work \ applied : Changes(o, n)}
           IsI(o) == o.section.type = "interface" /\ o.section.name = i
<1>1. Loading(f) /\ up /\ all \subseteq Object /\ currentConfig \subseteq Object
  BY LoadingNow, LoadTypes DEF IConfig, loadConfig, TypeOK
<1>2. addrs'[i] \in
        IF StaticOf(i, applied) # {} THEN {{a} : a \in StaticOf(i, applied)}
        ELSE {(addrs[i] \ StaticOf(i, removed)) \cup StaticOf(i, added)}
  <2>1. addrs'[i] \in AddrsAfter(i, f, all, undo, work)
    BY LoadEffect
  <2> QED BY <2>1 DEF AddrsAfter, StaticOf
<1>3. addrs[i] = StaticOf(i, currentConfig)
  BY <1>1 DEF Addressed
<1>4. \A objects, a : a \in StaticOf(i, objects) <=>
                        a \in Address /\ \E o \in objects : IsI(o) /\ o.section.addr = a
  BY DEF StaticOf, Named, Of
<1>5. \A o, p : IsI(o) /\ IsI(p) => SameName(o, p)
  BY DEF SameName
<1>6. \A o, p : SameName(o, p) /\ IsI(p) => IsI(o)
  BY DEF SameName
<1>7. \A o, n : IsI(n) /\ Changes(o, n) => IsI(o) /\ o.section.addr # n.section.addr
  BY <1>6 DEF Changes
<1>8. \A o \in applied : o \in newConfigs(f)
  BY NoProtoChange
<1>9. \A o, p \in all : IsI(o) /\ IsI(p) => o = p
  BY <1>1, <1>5, NamedOnce
<1>10. \A o, p \in currentConfig : IsI(o) /\ IsI(p) => o = p
  BY <1>1, <1>5, NamedOnce
<1>11. \A n \in newConfigs(f) : n \in Fresh(f) /\ \A o \in currentConfig : ~SameName(o, n)
  BY DEF newConfigs
<1>12. Fresh(f) \subseteq all /\ \A n \in all : n \in Fresh(f) <=> n \notin currentConfig
  BY <1>1, FreshApplied DEF allConfigs, Fresh
<1>13. added \subseteq all
  OBVIOUS
<1> HIDE DEF StaticOf, IsI, removed, applied, added
<1>14. CASE \A n \in all : ~IsI(n)
  <2>1. StaticOf(i, all) = {} /\ StaticOf(i, applied) = {} /\ StaticOf(i, added) = {}
    BY <1>4, <1>8, <1>11, <1>12, <1>13, <1>14
  <2>2. ASSUME NEW o \in currentConfig, IsI(o) PROVE o \in removed
    <3>1. o \notin all
      BY <1>14, <2>2
    <3>2. o.section \notin f
      BY <3>1 DEF allConfigs, Unchanged
    <3>3. o \notin Replaced(f)
      <4>1. \A n \in Fresh(f) : SameName(o, n) => IsI(n)
        BY <2>2 DEF SameName, IsI
      <4> QED BY <1>12, <1>14, <4>1 DEF Replaced
    <3>4. o \in deletionSet(f)
      BY <3>2, <3>3 DEF deletionSet
    <3>5. o \in undo
      BY <1>1, <3>4, Deleted
    <3> QED BY <3>4, <3>5 DEF removed
  <2>3. addrs[i] \subseteq StaticOf(i, removed)
    BY <1>3, <1>4, <2>2
  <2> QED BY <1>2, <2>1, <2>3
<1>15. ASSUME NEW n \in all, IsI(n), n \in currentConfig
       PROVE  addrs'[i] = StaticOf(i, all)
  <2>1. StaticOf(i, applied) = {}
    <3>1. \A o \in applied : ~IsI(o)
      BY <1>5, <1>8, <1>11, <1>15
    <3> QED BY <1>4, <3>1
  <2>2. StaticOf(i, added) \subseteq StaticOf(i, all)
    BY <1>4, <1>13
  <2>3. addrs[i] = StaticOf(i, all)
    <3>1. \A o \in currentConfig \cup all : IsI(o) => o = n
      BY <1>9, <1>10, <1>15
    <3>2. /\ StaticOf(i, all) \subseteq StaticOf(i, currentConfig)
          /\ StaticOf(i, currentConfig) \subseteq StaticOf(i, all)
      BY <1>4, <1>15, <3>1
    <3> DEFINE here == StaticOf(i, all)
               before == StaticOf(i, currentConfig)
    <3>3. addrs[i] = before /\ here \subseteq before /\ before \subseteq here
      BY <1>3, <3>2
    <3> HIDE DEF here, before
    <3>4. addrs[i] = here
      BY <3>3
    <3> QED BY <3>4 DEF here
  <2>4. n.section.addr \notin StaticOf(i, removed)
    <3>1. ASSUME NEW o \in removed, IsI(o) PROVE o.section.addr # n.section.addr
      <4>1. SameName(o, n)
        BY <1>5, <1>15, <3>1
      <4>2. o \notin deletionSet(f)
        BY <1>1, <1>15, <4>1, Deleted
      <4>3. PICK m \in all : Changes(o, m)
        BY <3>1, <4>2 DEF removed
      <4>4. IsI(m)
        BY <3>1, <4>3 DEF Changes, SameName, IsI
      <4> QED BY <1>7, <1>9, <1>15, <4>3, <4>4
    <3> QED BY <1>4, <3>1
  <2>5. StaticOf(i, all) \cap StaticOf(i, removed) = {}
    BY <1>4, <1>9, <1>15, <2>4
  <2>6. addrs'[i] = (addrs[i] \ StaticOf(i, removed)) \cup StaticOf(i, added)
    BY <1>2, <2>1
  <2> HIDE DEF all
  <2> QED BY <2>2, <2>3, <2>5, <2>6
<1>16. ASSUME NEW n \in all, IsI(n), n \notin currentConfig,
              NEW o \in currentConfig, IsI(o)
       PROVE  addrs'[i] = StaticOf(i, all)
  <2>1. StaticOf(i, applied) = {}
    <3>1. \A p \in applied : ~IsI(p)
      BY <1>5, <1>8, <1>11, <1>16
    <3> QED BY <1>4, <3>1
  <2>2. n \in Fresh(f) /\ SameName(o, n)
    BY <1>5, <1>12, <1>16
  <2>3. o \in updatedConfigs(f)
    BY <2>2 DEF updatedConfigs, Replaced, deletionSet
  <2>4. o \in work /\ o \in undo
    BY <1>16, <2>2, <2>3 DEF Work, Undo, prioritizeConfigs, New
  <2>5. Changes(o, n)
    <3>1. o.section \in Interface /\ n.section \in Interface
      BY <1>1, <1>16, SectionKinds DEF IsI
    <3>2. o.section # n.section
      BY <2>2 DEF Fresh
    <3>3. o.section.name = n.section.name
      BY <1>16 DEF IsI
    <3> QED BY <2>2, <3>1, <3>2, <3>3 DEF Changes, Interface
  <2>6. o \in removed
    BY <1>16, <2>4, <2>5 DEF removed
  <2>7. n \in added
    <3>1. o \notin applied
      BY <1>8, <1>11, <1>16, <2>1, <1>12
    <3> QED BY <1>16, <2>4, <2>5, <3>1 DEF added
  <2>8. addrs[i] \subseteq StaticOf(i, removed)
    BY <1>3, <1>4, <1>10, <1>16, <2>6
  <2>9. StaticOf(i, added) = StaticOf(i, all)
    <3>1. StaticOf(i, added) \subseteq StaticOf(i, all)
      BY <1>4, <1>13
    <3>2. StaticOf(i, all) \subseteq StaticOf(i, added)
      BY <1>4, <1>9, <1>16, <2>7
    <3> QED BY <3>1, <3>2
  <2> QED BY <1>2, <2>1, <2>8, <2>9
<1>17. ASSUME NEW n \in all, IsI(n), n \notin currentConfig,
              \A o \in currentConfig : ~IsI(o)
       PROVE  addrs'[i] = StaticOf(i, all)
  <2>1. n \in newConfigs(f)
    BY <1>6, <1>12, <1>17 DEF newConfigs
  <2>2. n \in applied
    BY <2>1 DEF applied, Work, prioritizeConfigs
  <2>3. StaticOf(i, applied) = StaticOf(i, all)
    <3>1. StaticOf(i, applied) \subseteq StaticOf(i, all)
      BY <1>4, <1>8, <1>11, <1>12
    <3>2. StaticOf(i, all) \subseteq StaticOf(i, applied)
      BY <1>4, <1>9, <1>17, <2>2
    <3> QED BY <3>1, <3>2
  <2>4. \A a, b \in StaticOf(i, all) : a = b
    BY <1>4, <1>9
  <2>5. addrs[i] = {}
    BY <1>3, <1>4, <1>17
  <2>6. StaticOf(i, added) \subseteq StaticOf(i, all)
    BY <1>4, <1>13
  <2> HIDE DEF all
  <2>7. CASE StaticOf(i, all) = {}
    BY <1>2, <2>3, <2>5, <2>6, <2>7
  <2>8. ASSUME NEW a \in StaticOf(i, all) PROVE addrs'[i] = StaticOf(i, all)
    <3>1. StaticOf(i, all) = {a}
      BY <2>4, <2>8
    <3> QED BY <1>2, <2>3, <3>1
  <2> QED BY <2>7, <2>8
<1> QED BY <1>14, <1>15, <1>16, <1>17

LEMMA AddressInvariant == Spec => []Addressed
<1>1. Init => Addressed
  BY DEF Init, Addressed, StaticOf, Named, Of
<1>2. IConfig /\ Addressed /\ [Next]_vars => Addressed'
  <2> SUFFICES ASSUME IConfig, Addressed, [Next]_vars PROVE Addressed'
    OBVIOUS
  <2>1. ASSUME NEW f \in Configuration, loadConfig(f) PROVE Addressed'
    BY <2>1, AddressStep, LoadEffect DEF Addressed, StaticOf
  <2>2. CASE unload
    BY <2>2 DEF unload, Addressed
  <2>3. CASE UNCHANGED vars
    BY <2>3 DEF vars, Addressed, StaticOf
  <2> QED BY <2>1, <2>2, <2>3 DEF Next
<1> QED BY <1>1, <1>2, IConfigInvariant, PTL DEF Spec

\* After the daemon has unloaded there are no files.
LEMMA FilesWhileUp == Spec => [](up \/ files = {})
<1>1. Init => up \/ files = {}
  BY DEF Init
<1>2. (up \/ files = {}) /\ [Next]_vars => (up \/ files = {})'
  <2> SUFFICES ASSUME up \/ files = {}, [Next]_vars PROVE up' \/ files' = {}
    OBVIOUS
  <2>1. ASSUME NEW f \in Configuration, loadConfig(f) PROVE up'
    BY <2>1, LoadEffect
  <2>2. CASE unload
    BY <2>2 DEF unload
  <2>3. CASE UNCHANGED vars
    BY <2>3 DEF vars
  <2> QED BY <2>1, <2>2, <2>3 DEF Next
<1> QED BY <1>1, <1>2, PTL DEF Spec

\* As long as no interface changes its protocol, each has the address its section says
\* and none of those it had before.
THEOREM AddressesInPlaceHolds == Spec => []AddressesInPlace
<1>1. IConfig /\ Addressed /\ (up \/ files = {}) => AddressesInPlace
  <2> SUFFICES ASSUME IConfig, Addressed, up, StableProtocols,
                      NEW s \in files, s.type = "interface"
               PROVE  addrs[s.name] = {s.addr} \cap Address
    BY DEF AddressesInPlace
  <2>1. PICK o \in currentConfig : o.section = s
    BY DEF IConfig, CurrentAsWritten
  <2>2. s \in Interface
    BY <2>1, SectionKinds DEF IConfig, TypeOK
  <2>3. s.name \in Name
    BY <2>2 DEF Interface
  <2>4. files \in Configuration
    BY DEF IConfig, TypeOK
  <2>5. \A p \in currentConfig : p.section.type = "interface" /\ p.section.name = s.name => p.section = s
    BY <2>3, <2>4 DEF IConfig, CurrentAsWritten
  <2>6. addrs[s.name] = StaticOf(s.name, currentConfig)
    BY <2>3 DEF Addressed
  <2>7. StaticOf(s.name, currentConfig) = {s.addr} \cap Address
    BY <2>1, <2>5 DEF StaticOf, Named, Of
  <2> QED BY <2>6, <2>7
<1> QED BY <1>1, IConfigInvariant, AddressInvariant, FilesWhileUp, PTL
-----------------------------------------------------------------------------
(* Unloading *)

\* Once the daemon has stopped no traffic is accepted and no address left, of no
\* configuration it ever loaded.
THEOREM UnloadClearsHolds == Spec => UnloadClears
<1>1. IConfig /\ RulesOwned /\ Addressed /\ [Next]_vars =>
        [up /\ ~up' /\ (\A o \in Of("forwarding", currentConfig) : HasDestInterfaces(o)) =>
           /\ \A r \in DOMAIN rules : rules'[r] = 0
           /\ StableProtocols => \A i \in Name : addrs'[i] = {}]_vars
  <2> SUFFICES ASSUME IConfig, RulesOwned, Addressed, Next, up, ~up',
                      \A o \in Of("forwarding", currentConfig) : HasDestInterfaces(o)
               PROVE  /\ \A r \in DOMAIN rules : rules'[r] = 0
                      /\ StableProtocols => \A i \in Name : addrs'[i] = {}
    OBVIOUS
  <2> DEFINE undo == prioritizeConfigs(currentConfig, currentConfig)
  <2>1. unload
    BY DEF Next, loadConfig
  <2>2. /\ rules' = RulesWithout(undo)
        /\ addrs' = [i \in Name |->
             addrs[i] \ {o.section.addr : o \in Named(i, Of("interface", undo))}]
    BY <2>1 DEF unload
  <2>3. currentConfig \subseteq undo
    BY DEF prioritizeConfigs
  <2> HIDE DEF undo
  <2>4. ASSUME NEW r \in DOMAIN rules PROVE rules'[r] = 0
    <3>1. rules[r] \in Nat /\ (rules[r] > 0 => rules[r] = 1)
      BY DEF IConfig, TypeOK, RulesOwned
    <3>2. rules[r] \in {0, 1}
      BY <3>1
    <3>3. CASE rules[r] = 0
      BY <2>2, <3>2, <3>3, RulesLeft DEF IConfig
    <3>4. CASE rules[r] = 1
      <4>1. PICK o \in Of("forwarding", currentConfig) : Owns(o, r)
        BY <3>4 DEF RulesOwned
      <4> QED BY <2>2, <2>3, <3>2, <4>1, RulesLeft DEF IConfig, Of
    <3> QED BY <3>2, <3>3, <3>4
  <2>5. ASSUME StableProtocols, NEW i \in Name PROVE addrs'[i] = {}
    BY <2>2, <2>3, <2>5 DEF Addressed, StaticOf, Named, Of
  <2> QED BY <2>4, <2>5
<1> QED BY <1>1, IConfigInvariant, RulesInvariant, AddressInvariant, PTL DEF Spec, UnloadClears
=============================================================================
