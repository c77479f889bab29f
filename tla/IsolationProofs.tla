-------------------------- MODULE IsolationProofs ---------------------------
(***************************************************************************)
(* Proofs about what the kernel is told of an app, for every number of     *)
(* apps and of addresses: its network (HostNetwork) and its limits         *)
(* (HostCgroups).                                                          *)
(*                                                                         *)
(* An app that serves is attached to the bridge under an address of its    *)
(* own, and what a stopped app had is given back. NetworkInv adds to       *)
(* these what the registry of addresses, the bridge, and the objects of    *)
(* the kernel have to do with the phase each app is in.                    *)
(*                                                                         *)
(* An app that runs is held to the limits of its config and to the         *)
(* daemon's defaults. CgroupsInv adds that the controllers handed to the   *)
(* parent cgroup are never taken back.                                     *)
(***************************************************************************)
EXTENDS HostNetwork, HostCgroups, TLAPS

-----------------------------------------------------------------------------
(* HostNetwork *)

\* The phases in which an App still has its address, its cgroup, its
\* namespace, its veth.
HasAddress == {"netns", "veth", "dead"} \cup Serves \cup Teardown
HasCgroup == Spawning \cup Serves \cup {"exited"}
HasNetns == {"netns", "veth"} \cup Serves \cup Teardown
HasVeth == {"veth"} \cup Serves \cup {"exited", "uncgrouped"}

\* An App that answers for the kernel object named n.
Answers(n, phases) ==
  \E a \in NetApps : /\ netApp[a].name = n
                     /\ netApp[a].phase \in phases \cup {"dead", "lost"} \/ a \in clash

\* A spawn holds the lock; an App that was spawned has a name; what is in the
\* registry serves, under one name.
RegistryInv ==
  /\ \A a \in NetApps : netApp[a].phase \in Spawning => netLock = a
  /\ \A a \in NetApps : /\ netApp[a].phase # "unused" => netApp[a].name \in Names
                        /\ netApp[a].phase = "unused" => a \notin clash
  /\ \A n \in Names : netReg[n] # NoHolder => netApp[netReg[n]].phase = "up"
  /\ \A n, m \in Names : netReg[n] = netReg[m] /\ netReg[n] # NoHolder => n = m

\* Each address in use is the address of one App.
AddressInv ==
  /\ \A a \in NetApps : /\ netApp[a].phase \in HasAddress <=> netApp[a].ip # 0
                        /\ netApp[a].ip # Gateway /\ netApp[a].ip < Broadcast
  /\ \A a, b \in NetApps : netApp[a].ip = netApp[b].ip /\ netApp[a].ip # 0 => a = b
  /\ inuse = {Gateway} \cup ({netApp[a].ip : a \in NetApps} \ {0})

\* The bridge is complete once it is ready, and no App is wired before.
BridgeInv ==
  /\ bridge = "ready" => uplink = {"link", "addr", "up", "rule"}
  /\ \A a \in NetApps : netApp[a].phase \in {"netns", "veth", "up"} => bridge = "ready"

\* Two Apps that hold the same names are known to clash.
ClashInv ==
  \A a, b \in NetApps : a # b /\ Holds(a) /\ Holds(b) /\ netApp[a].name = netApp[b].name
                          => a \in clash

\* An App without a clash has its objects, and every object has an App.
ObjectsInv ==
  /\ \A a \in NetApps \ clash : netApp[a].phase \in HasCgroup => netApp[a].name \in cgroups
  /\ \A a \in NetApps \ clash : netApp[a].phase \in HasNetns => netApp[a].name \in netns
  /\ \A a \in NetApps \ clash : netApp[a].phase \in HasVeth => netApp[a].name \in veths
  /\ \A n \in cgroups : Answers(n, HasCgroup)
  /\ \A n \in netns : Answers(n, HasNetns)
  /\ \A n \in veths : Answers(n, HasVeth)

\* The inductive invariant of HostNetwork.
NetworkInv ==
  NetworkTypeOK /\ RegistryInv /\ AddressInv /\ BridgeInv /\ ClashInv /\ ObjectsInv

\* IPPool.Allocate returns an address of the subnet that is not in use; this is
\* AllocateIsFree below.
AllocatesFree ==
  FreeIPs # {} => Allocate \in Gateway + 1 .. Broadcast - 1 /\ Allocate \notin inuse

\* App a goes to phase p, keeps its name and has address ip.
Becomes(a, p, ip) ==
  /\ netApp' \in [NetApps -> [phase : {"unused", "gone", "dead", "lost"} \cup Spawning
                                      \cup Serves \cup Teardown,
                              name : Names \cup {NoHolder}, ip : 0 .. Broadcast]]
  /\ netApp'[a].phase = p /\ netApp'[a].name = netApp[a].name /\ netApp'[a].ip = ip
  /\ \A b \in NetApps \ {a} : netApp'[b] = netApp[b]

\* A step that moves one App to another phase leaves the phases of the others.
LEMMA PhaseBecomes ==
  ASSUME NetworkTypeOK, NEW a \in NetApps,
         NEW p \in {"unused", "gone", "dead", "lost"} \cup Spawning \cup Serves \cup Teardown
  PROVE  /\ Phase(a, p) => Becomes(a, p, netApp[a].ip)
         /\ \A ip \in 0 .. Broadcast :
              netApp' = [netApp EXCEPT ![a].phase = p, ![a].ip = ip] => Becomes(a, p, ip)
BY DEF NetworkTypeOK, Phase, Becomes

\* Only one App changes, none is registered anew: the registry stays right.
LEMMA RegistryKept ==
  ASSUME NetworkInv, NEW a \in NetApps, NEW p, NEW ip, Becomes(a, p, ip),
         netApp[a].phase # "up" \/ \A n \in Names : netReg'[n] # a,
         netApp[a].phase # "unused", p # "unused", clash' = clash,
         netLock' = netLock \/ (netLock = a /\ p \notin Spawning),
         p \in Spawning => netLock' = a,
         netReg' \in [Names -> NetApps \cup {NoHolder}],
         \A n \in Names : netReg'[n] \in {netReg[n], NoHolder}
  PROVE  RegistryInv'
<1> USE DEF NetworkInv
<1>1. \A b \in NetApps : netApp'[b].phase \in Spawning => netLock' = b
  BY DEF RegistryInv, Becomes
<1>2. \A b \in NetApps : /\ netApp'[b].phase # "unused" => netApp'[b].name \in Names
                         /\ netApp'[b].phase = "unused" => b \notin clash'
  BY DEF RegistryInv, Becomes
<1>3. \A n \in Names : netReg'[n] # NoHolder => netApp'[netReg'[n]].phase = "up"
  BY DEF RegistryInv, Becomes, NetworkTypeOK
<1>4. \A n, m \in Names : netReg'[n] = netReg'[m] /\ netReg'[n] # NoHolder => n = m
  BY DEF RegistryInv
<1> QED
  BY <1>1, <1>2, <1>3, <1>4 DEF RegistryInv

\* The addresses stay right when no address changes hands.
LEMMA AddressesKept ==
  ASSUME NetworkInv, NEW a \in NetApps, NEW p, Becomes(a, p, netApp[a].ip), inuse' = inuse,
         p \in HasAddress <=> netApp[a].phase \in HasAddress
  PROVE  AddressInv'
<1>1. \A b \in NetApps : netApp'[b].ip = netApp[b].ip
  BY DEF Becomes
<1>2. \A b \in NetApps : netApp'[b].phase \in HasAddress <=> netApp[b].phase \in HasAddress
  BY DEF Becomes
<1>3. {netApp'[b].ip : b \in NetApps} = {netApp[b].ip : b \in NetApps}
  BY <1>1
<1> QED
  BY <1>1, <1>2, <1>3 DEF NetworkInv, AddressInv

\* They stay right when an App gives its address back.
LEMMA AddressesReleased ==
  ASSUME NetworkInv, NEW a \in NetApps, NEW p, Becomes(a, p, 0), p \notin HasAddress,
         inuse' = Release(netApp[a].ip) \/ (inuse' = inuse /\ netApp[a].ip = 0)
  PROVE  AddressInv' /\ inuse' \subseteq 1 .. Broadcast - 1
<1> USE DEF NetworkInv
<1>1. /\ netApp'[a].ip = 0 /\ netApp'[a].phase = p
      /\ \A b \in NetApps \ {a} : netApp'[b] = netApp[b]
  BY DEF Becomes
<1>2. \A b \in NetApps : /\ netApp'[b].phase \in HasAddress <=> netApp'[b].ip # 0
                         /\ netApp'[b].ip # Gateway /\ netApp'[b].ip < Broadcast
  BY <1>1, NetAssumption DEF AddressInv, Gateway
<1>3. \A b, c \in NetApps : netApp'[b].ip = netApp'[c].ip /\ netApp'[b].ip # 0 => b = c
  BY <1>1 DEF AddressInv
<1>4. inuse' = inuse \ ({netApp[a].ip} \ {0})
  BY DEF Release, AddressInv, NetworkTypeOK
<1>5. inuse' = {Gateway} \cup ({netApp'[b].ip : b \in NetApps} \ {0})
  <2>1. ASSUME NEW k PROVE k \in inuse' <=> k = Gateway \/ (k # 0 /\ \E b \in NetApps : netApp'[b].ip = k)
    <3>1. k \in inuse <=> k = Gateway \/ (k # 0 /\ \E b \in NetApps : netApp[b].ip = k)
      BY DEF AddressInv
    <3>2. k \in inuse' <=> k \in inuse /\ (k # netApp[a].ip \/ k = 0)
      BY <1>4
    <3>3. netApp[a].ip # Gateway
      BY DEF AddressInv
    <3>4. \A b \in NetApps : netApp[b].ip = netApp[a].ip /\ netApp[a].ip # 0 => b = a
      BY DEF AddressInv
    <3> QED BY <1>1, <3>1, <3>2, <3>3, <3>4
  <2> QED BY <2>1
<1>6. inuse' \subseteq 1 .. Broadcast - 1
  BY <1>4, Zenon DEF NetworkTypeOK
<1> QED
  BY <1>2, <1>3, <1>5, <1>6 DEF AddressInv

\* An App that moves on within its life clashes with nobody new.
LEMMA ClashKept ==
  ASSUME NetworkInv, NEW a \in NetApps, NEW p, NEW ip, Becomes(a, p, ip), Holds(a), clash' = clash
  PROVE  ClashInv'
<1>1. \A b \in NetApps : Holds(b)' => Holds(b)
  BY DEF Holds, Becomes
<1>2. \A b \in NetApps : netApp'[b].name = netApp[b].name
  BY DEF Becomes
<1> QED
  BY <1>1, <1>2 DEF NetworkInv, ClashInv

\* A kind of object is in order: every App without a clash has its own, and
\* somebody answers for each.
InOrder(phases, objects) ==
  /\ \A b \in NetApps \ clash : netApp[b].phase \in phases => netApp[b].name \in objects
  /\ \A n \in objects : Answers(n, phases)

\* When App a goes to phase p, the objects of one kind go from old to new: only
\* the one under a's name changes, a has it if it should, and if it stays then
\* a or another App still answers for it.
GivesBack(a, p, phases, old, new) ==
  /\ \A n : n # netApp[a].name => (n \in new <=> n \in old)
  /\ p \in phases => netApp[a].name \in new \/ a \in clash
  /\ netApp[a].name \in new =>
       \/ p \in phases \cup {"dead", "lost"}
       \/ netApp[a].name \in old /\ netApp[a].phase \notin phases
       \/ \E b \in NetApps \ {a} : netApp[b].name = netApp[a].name /\ netApp[b].phase \in phases

\* One kind of object stays in order when an App moves on.
LEMMA KindKept ==
  ASSUME NetworkInv, NEW a \in NetApps, NEW p, NEW ip, Becomes(a, p, ip), Holds(a), clash' = clash,
         NEW phases \in SUBSET (Spawning \cup Serves \cup Teardown), NEW old, NEW new,
         InOrder(phases, old), GivesBack(a, p, phases, old, new)
  PROVE  /\ \A b \in NetApps \ clash' : netApp'[b].phase \in phases => netApp'[b].name \in new
         /\ \A n \in new : Answers(n, phases)'
<1> DEFINE x == netApp[a].name
<1> USE DEF InOrder, GivesBack
<1>0. /\ netApp'[a].phase = p /\ netApp'[a].name = x
      /\ \A b \in NetApps \ {a} : netApp'[b] = netApp[b]
  BY DEF Becomes
<1>1. ASSUME NEW b \in NetApps \ clash', netApp'[b].phase \in phases
      PROVE  netApp'[b].name \in new
  <2>1. CASE b = a
    BY <2>1, <1>0, <1>1
  <2>2. CASE b # a
    <3>1. netApp'[b] = netApp[b]
      BY <2>2, <1>0
    <3>2. Holds(b)
      BY <1>1, <3>1 DEF Holds
    <3>3. netApp[b].name # x
      BY <2>2, <3>2, <1>1 DEF NetworkInv, ClashInv
    <3> QED BY <1>1, <3>1, <3>3
  <2> QED BY <2>1, <2>2
<1>2. netApp[a].phase \notin {"dead", "lost"}
  BY DEF Holds, Spawning, Serves, Teardown
<1>3. ASSUME NEW n \in new PROVE Answers(n, phases)'
  <2>1. CASE n # x
    <3>1. Answers(n, phases)
      BY <2>1, <1>3
    <3> QED BY <3>1, <2>1, <1>0 DEF Answers
  <2>2. CASE n = x /\ p \in phases \cup {"dead", "lost"}
    BY <2>2, <1>0, Zenon DEF Answers
  <2>3. CASE n = x /\ x \in old /\ netApp[a].phase \notin phases
    <3>1. Answers(x, phases)
      BY <2>3
    <3> QED BY <2>3, <3>1, <1>0, <1>2 DEF Answers
  <2>4. CASE n = x /\ \E b \in NetApps \ {a} : netApp[b].name = x /\ netApp[b].phase \in phases
    BY <2>4, <1>0 DEF Answers
  <2> QED BY <1>3, <2>1, <2>2, <2>3, <2>4, Zenon
<1> QED
  BY <1>1, <1>3

\* What a step of App a that holds the host's objects leaves in place.  Each
\* action below says what it does to the objects under a's name.
LEMMA ObjectsKept ==
  ASSUME NetworkInv, NEW a \in NetApps, NEW p, NEW ip, Becomes(a, p, ip), Holds(a), clash' = clash,
         \A n : n # netApp[a].name => /\ n \in cgroups' <=> n \in cgroups
                                      /\ n \in netns' <=> n \in netns
                                      /\ n \in veths' <=> n \in veths,
         p \in HasCgroup => netApp[a].name \in cgroups' \/ a \in clash,
         p \in HasNetns => netApp[a].name \in netns' \/ a \in clash,
         p \in HasVeth => netApp[a].name \in veths' \/ a \in clash,
         netApp[a].name \in cgroups' =>
           \/ p \in HasCgroup \cup {"dead", "lost"}
           \/ netApp[a].name \in cgroups /\ netApp[a].phase \notin HasCgroup
           \/ Busy(netApp[a].name, a),
         netApp[a].name \in netns' =>
           \/ p \in HasNetns \cup {"dead", "lost"}
           \/ netApp[a].name \in netns /\ netApp[a].phase \notin HasNetns,
         netApp[a].name \in veths' =>
           \/ p \in HasVeth \cup {"dead", "lost"}
           \/ netApp[a].name \in veths /\ netApp[a].phase \notin HasVeth
  PROVE  ObjectsInv'
<1>1. /\ HasCgroup \in SUBSET (Spawning \cup Serves \cup Teardown)
      /\ HasNetns \in SUBSET (Spawning \cup Serves \cup Teardown)
      /\ HasVeth \in SUBSET (Spawning \cup Serves \cup Teardown)
  BY SMTT(60) DEF HasCgroup, HasNetns, HasVeth, Spawning, Teardown
<1>2. Busy(netApp[a].name, a) =>
        \E b \in NetApps \ {a} : netApp[b].name = netApp[a].name /\ netApp[b].phase \in HasCgroup
  BY DEF Busy, HasCgroup
<1>3. /\ \A b \in NetApps \ clash' : netApp'[b].phase \in HasCgroup => netApp'[b].name \in cgroups'
      /\ \A n \in cgroups' : Answers(n, HasCgroup)'
  <2>1. InOrder(HasCgroup, cgroups)
    BY Zenon DEF NetworkInv, ObjectsInv, InOrder
  <2>2. GivesBack(a, p, HasCgroup, cgroups, cgroups')
    BY <1>2 DEF GivesBack
  <2> QED BY <1>1, <2>1, <2>2, KindKept, Zenon
<1>4. /\ \A b \in NetApps \ clash' : netApp'[b].phase \in HasNetns => netApp'[b].name \in netns'
      /\ \A n \in netns' : Answers(n, HasNetns)'
  <2>1. InOrder(HasNetns, netns)
    BY Zenon DEF NetworkInv, ObjectsInv, InOrder
  <2>2. GivesBack(a, p, HasNetns, netns, netns')
    BY DEF GivesBack
  <2> QED BY <1>1, <2>1, <2>2, KindKept, Zenon
<1>5. /\ \A b \in NetApps \ clash' : netApp'[b].phase \in HasVeth => netApp'[b].name \in veths'
      /\ \A n \in veths' : Answers(n, HasVeth)'
  <2>1. InOrder(HasVeth, veths)
    BY Zenon DEF NetworkInv, ObjectsInv, InOrder
  <2>2. GivesBack(a, p, HasVeth, veths, veths')
    BY DEF GivesBack
  <2> QED BY <1>1, <2>1, <2>2, KindKept, Zenon
<1> QED
  BY <1>3, <1>4, <1>5, Zenon DEF ObjectsInv

\* An App that ends, or moves on without being wired anew, needs no bridge.
LEMMA BridgeKept ==
  ASSUME NetworkInv, NEW a \in NetApps, NEW p, NEW ip, Becomes(a, p, ip), UNCHANGED wiring,
         p \in {"netns", "veth", "up"} => bridge = "ready"
  PROVE  BridgeInv'
BY DEF NetworkInv, BridgeInv, Becomes, wiring

\* A phase in which an App holds something, and the lemmas' side conditions.
LEMMA HoldsPhases ==
  ASSUME NEW a \in NetApps, netApp[a].phase \in Spawning \cup Serves \cup Teardown
  PROVE  Holds(a) /\ netApp[a].phase \notin {"unused", "gone", "dead", "lost"}
BY DEF Holds, Spawning, Serves, Teardown

\* SpawnGivesUp ends an App that was being spawned.
LEMMA GivesUpKeeps ==
  ASSUME NetworkInv, NEW a \in NetApps, SpawnGivesUp(a), netApp[a].phase \in Spawning,
         \/ netApp[a].phase = "cgroup" /\ UNCHANGED <<netns, veths, inuse>>
         \/ netApp[a].phase \in {"netns", "veth"} /\ teardownAppNetwork(netApp[a].name, netApp[a].ip)
  PROVE  /\ RegistryInv' /\ AddressInv' /\ ClashInv' /\ ObjectsInv'
         /\ netLock' = NoHolder /\ Becomes(a, "gone", 0) /\ netReg' = netReg /\ clash' = clash
         /\ cgroups' \subseteq cgroups /\ netns' \subseteq netns /\ veths' \subseteq veths
         /\ inuse' \subseteq 1 .. Broadcast - 1
<1> USE DEF NetworkInv
<1>1. Becomes(a, "gone", 0)
  <2>1. 0 \in 0 .. Broadcast
    BY NetAssumption
  <2> QED BY <2>1, PhaseBecomes, Zenon DEF SpawnGivesUp
<1>2. netLock = a /\ netLock' = NoHolder /\ netReg' = netReg /\ clash' = clash
      /\ cgroups' = RemoveCgroup(netApp[a].name, a)
  BY DEF SpawnGivesUp, RegistryInv
<1>3. Holds(a) /\ netApp[a].phase \notin {"unused", "gone", "dead", "lost", "up"}
  BY HoldsPhases, Zenon DEF Spawning
<1>4. RegistryInv'
  <2>1. "gone" \notin Spawning /\ netReg' \in [Names -> NetApps \cup {NoHolder}]
    BY <1>2 DEF Spawning, NetworkTypeOK
  <2> QED BY <1>1, <1>2, <1>3, <2>1, RegistryKept, Zenon DEF RegistryInv, Becomes, NetworkTypeOK
<1>5. AddressInv' /\ inuse' \subseteq 1 .. Broadcast - 1
  <2>1. "gone" \notin HasAddress /\ "cgroup" \notin HasAddress
    BY Zenon DEF HasAddress, Serves, Teardown
  <2>2. inuse' = Release(netApp[a].ip) \/ (inuse' = inuse /\ netApp[a].ip = 0)
    BY <2>1, Zenon DEF teardownAppNetwork, AddressInv
  <2> QED BY <1>1, <2>1, <2>2, AddressesReleased
<1>6. ClashInv'
  BY <1>1, <1>2, <1>3, ClashKept, Zenon
<1>7. cgroups' \subseteq cgroups /\ netns' \subseteq netns /\ veths' \subseteq veths
  BY <1>2, Zenon DEF RemoveCgroup, teardownAppNetwork
<1>8. ObjectsInv'
  <2>1. "gone" \notin HasCgroup /\ "gone" \notin HasNetns /\ "gone" \notin HasVeth
        /\ "cgroup" \notin HasNetns /\ "cgroup" \notin HasVeth
    BY Zenon DEF HasCgroup, HasNetns, HasVeth, Spawning, Serves, Teardown
  <2>2. netApp[a].name \in cgroups' => Busy(netApp[a].name, a)
    BY <1>2 DEF RemoveCgroup
  <2>3. netApp[a].phase = "cgroup" \/ netApp[a].name \notin netns' \cup veths'
    BY ZenonT(60) DEF teardownAppNetwork
  <2>4. \A n : n # netApp[a].name => /\ n \in cgroups' <=> n \in cgroups
                                     /\ n \in netns' <=> n \in netns
                                     /\ n \in veths' <=> n \in veths
    BY <1>2 DEF RemoveCgroup, teardownAppNetwork
  <2> QED BY <1>1, <1>2, <1>3, <1>7, <2>1, <2>2, <2>3, <2>4, ObjectsKept, Zenon
<1> QED
  BY <1>1, <1>2, <1>4, <1>5, <1>6, <1>7, <1>8

\* The invariant holds on a host without any of the objects.
LEMMA NetworkInit_Inv == NetworkInit => NetworkInv
<1> SUFFICES ASSUME NetworkInit PROVE NetworkInv
  OBVIOUS
<1> USE NetAssumption DEF NetworkInit, Unused
<1>1. NetworkTypeOK
  BY DEF NetworkTypeOK, Gateway
<1>2. RegistryInv
  BY DEF RegistryInv, Spawning
<1>3. AddressInv
  <2>1. "unused" \notin HasAddress
    BY DEF HasAddress, Serves, Teardown
  <2>2. {netApp[a].ip : a \in NetApps} \ {0} = {}
    OBVIOUS
  <2> QED BY <2>1, <2>2 DEF AddressInv, Gateway
<1>4. BridgeInv /\ ClashInv
  BY DEF BridgeInv, ClashInv, Holds, Spawning, Serves, Teardown
<1>5. ObjectsInv
  BY DEF ObjectsInv, HasCgroup, HasNetns, HasVeth, Spawning, Serves, Teardown
<1> QED
  BY <1>1, <1>2, <1>3, <1>4, <1>5 DEF NetworkInv

\* An App that is spawned under a name others hold clashes with them.
LEMMA SpawnCgroup_Inv ==
  ASSUME NetworkInv, NEW a \in NetApps, NEW n \in Names, SpawnCgroup(a, n)
  PROVE  NetworkInv'
<1> USE DEF NetworkInv
<1> DEFINE others == {b \in NetApps : Holds(b) /\ netApp[b].name = n}
<1>1. /\ netLock = NoHolder /\ netApp[a].phase = "unused"
      /\ clash' = clash \cup (IF others = {} THEN {} ELSE others \cup {a})
      /\ UNCHANGED <<netReg, netns, veths, inuse, bridge, uplink, netCrashes>>
  BY Zenon DEF SpawnCgroup, wiring
<1>2. PICK p \in {"cgroup", "gone"} :
        /\ netApp' = [netApp EXCEPT ![a] = [phase |-> p, name |-> n, ip |-> 0]]
        /\ p = "cgroup" => netLock' = a /\ cgroups' = cgroups \cup {n}
        /\ p = "gone" => netLock' = netLock /\ cgroups' = RemoveCgroup(n, a)
  BY DEF SpawnCgroup
<1>3. /\ netApp'[a].phase = p /\ netApp'[a].name = n /\ netApp'[a].ip = 0
      /\ \A b \in NetApps \ {a} : netApp'[b] = netApp[b]
  BY <1>2, Zenon DEF NetworkTypeOK
<1>4. a \notin clash /\ ~Holds(a) /\ clash \subseteq clash' /\ clash' \subseteq NetApps
  BY <1>1, Zenon DEF RegistryInv, Holds, Spawning, Serves, Teardown, NetworkTypeOK
<1>5. \A b \in NetApps \ {a} : Holds(b) /\ netApp[b].name = n => b \in clash' /\ a \in clash'
  BY <1>1, Zenon
<1>6. NetworkTypeOK'
  <2>1. netApp' \in [NetApps -> [phase : {"unused", "gone", "dead", "lost"} \cup Spawning
                                         \cup Serves \cup Teardown,
                                 name : Names \cup {NoHolder}, ip : 0 .. Broadcast]]
    BY <1>2, NetAssumption DEF NetworkTypeOK, Spawning
  <2> QED BY <1>1, <1>2, <1>4, <2>1, Zenon DEF NetworkTypeOK, RemoveCgroup
<1>7. RegistryInv'
  <2>1. \A b \in NetApps : netApp[b].phase \notin Spawning
    BY <1>1, NetAssumption DEF RegistryInv
  <2>2. \A b \in NetApps : netApp'[b].phase \in Spawning => netLock' = b
    BY <1>2, <1>3, <2>1, Zenon DEF Spawning
  <2>3. \A b \in NetApps : /\ netApp'[b].phase # "unused" => netApp'[b].name \in Names
                           /\ netApp'[b].phase = "unused" => b \notin clash'
    BY <1>1, <1>3, ZenonT(60) DEF RegistryInv, Holds, Spawning, Serves, Teardown
  <2>4. \A m \in Names : netReg'[m] # NoHolder => netApp'[netReg'[m]].phase = "up"
    BY <1>1, <1>3, SMTT(60) DEF RegistryInv, NetworkTypeOK
  <2> QED BY <1>1, <2>2, <2>3, <2>4, ZenonT(60) DEF RegistryInv
<1>8. AddressInv'
  <2>1. p \notin HasAddress /\ "unused" \notin HasAddress
    BY Zenon DEF HasAddress, Serves, Teardown
  <2>2. \A b \in NetApps : netApp'[b].ip = netApp[b].ip
    BY <1>1, <1>3, <2>1, Zenon DEF AddressInv
  <2>3. \A b \in NetApps : netApp'[b].phase \in HasAddress <=> netApp[b].phase \in HasAddress
    BY <1>1, <1>3, <2>1, Zenon
  <2>4. {netApp'[b].ip : b \in NetApps} = {netApp[b].ip : b \in NetApps}
    BY <2>2, Zenon
  <2> QED BY <1>1, <2>2, <2>3, <2>4 DEF AddressInv
<1>9. BridgeInv'
  BY <1>1, <1>3, Zenon DEF BridgeInv
<1>10. ClashInv'
  <2>1. \A b \in NetApps \ {a} : Holds(b)' <=> Holds(b)
    BY <1>3 DEF Holds
  <2> QED BY <1>3, <1>4, <1>5, <2>1, ZenonT(60) DEF ClashInv
<1>11. ObjectsInv'
  <2>1. /\ "cgroup" \in HasCgroup /\ "gone" \notin HasCgroup
        /\ p \notin HasNetns \cup HasVeth
    BY ZenonT(60) DEF HasCgroup, HasNetns, HasVeth, Spawning, Serves, Teardown
  <2>2. ASSUME NEW m, NEW phases, Answers(m, phases), "unused" \notin phases PROVE Answers(m, phases)'
    BY <2>2, <1>1, <1>3, <1>4, ZenonT(60) DEF Answers
  <2>3. "unused" \notin HasCgroup /\ "unused" \notin HasNetns /\ "unused" \notin HasVeth
    BY Zenon DEF HasCgroup, HasNetns, HasVeth, Spawning, Serves, Teardown
  <2>4. \A m \in netns' : Answers(m, HasNetns)'
    BY <1>1, <2>2, <2>3, Zenon DEF ObjectsInv
  <2>5. \A m \in veths' : Answers(m, HasVeth)'
    BY <1>1, <2>2, <2>3 DEF ObjectsInv
  <2>6. ASSUME NEW m \in cgroups' PROVE Answers(m, HasCgroup)'
    <3>1. CASE m \in cgroups
      BY <3>1, <2>2, <2>3, Zenon DEF ObjectsInv
    <3>2. CASE m \notin cgroups
      <4>1. p = "cgroup" /\ m = n
        BY <3>2, <1>2, <2>6, Zenon DEF RemoveCgroup
      <4> QED BY <4>1, <1>3, <2>1, Zenon DEF Answers
    <3> QED BY <3>1, <3>2, Zenon
  <2>7. ASSUME NEW b \in NetApps \ clash'
        PROVE  /\ netApp'[b].phase \in HasCgroup => netApp'[b].name \in cgroups'
               /\ netApp'[b].phase \in HasNetns => netApp'[b].name \in netns'
               /\ netApp'[b].phase \in HasVeth => netApp'[b].name \in veths'
    <3>1. CASE b = a
      BY <3>1, <1>2, <1>3, <2>1, Zenon
    <3>2. CASE b # a
      <4>1. netApp'[b] = netApp[b] /\ b \in NetApps \ clash
        BY <3>2, <1>3, <1>4, Zenon
      <4>2. netApp[b].phase \in HasCgroup \cup HasNetns \cup HasVeth => Holds(b)
        BY DEF Holds, HasCgroup, HasNetns, HasVeth, Spawning, Serves, Teardown
      <4>3. Holds(b) => netApp[b].name # n
        BY <1>5, <3>2, Zenon
      <4>4. \A m : m # n => (m \in cgroups => m \in cgroups')
        BY <1>2 DEF RemoveCgroup
      <4> QED BY <1>1, <4>1, <4>2, <4>3, <4>4, Zenon DEF ObjectsInv
    <3> QED BY <3>1, <3>2, Zenon
  <2> QED BY <2>4, <2>5, <2>6, <2>7, Zenon DEF ObjectsInv
<1> QED
  BY <1>6, <1>7, <1>8, <1>9, <1>10, <1>11, Zenon

\* setupAppNetwork: the address, the namespace and the veth pair, or nothing.
LEMMA SetupAppNetwork_Inv ==
  ASSUME NetworkInv, AllocatesFree, NEW a \in NetApps, setupAppNetwork(a)
  PROVE  NetworkInv'
<1> USE DEF NetworkInv
<1>0. {"cgroup", "netns", "veth"} = Spawning
  BY DEF Spawning
<1>1. CASE SpawnNetns(a)
  <2>1. netApp[a].phase = "cgroup" /\ netReady /\ netLock = a /\ Holds(a)
    BY <1>0, <1>1, HoldsPhases, Zenon DEF SpawnNetns, RegistryInv
  <2>2. /\ bridge' \in {"ready", "error"} /\ uplink' \subseteq {"link", "addr", "up", "rule"}
        /\ bridge' = "ready" => uplink' = {"link", "addr", "up", "rule"}
        /\ bridge = "ready" => bridge' = "ready"
    <3>1. CASE bridge # "unset" /\ UNCHANGED wiring
      BY <3>1 DEF wiring, BridgeInv, NetworkTypeOK
    <3>2. CASE bridge = "unset" /\ bridge' = "ready" /\ uplink' = EnsureMasquerade
      <4>1. uplink \subseteq {"link", "addr", "up", "rule"}
        BY DEF NetworkTypeOK
      <4>2. EnsureMasquerade = uplink \cup {"link", "addr", "up", "rule"}
        BY DEF EnsureMasquerade, Ensure
      <4>3. EnsureMasquerade = {"link", "addr", "up", "rule"}
        BY <4>1, <4>2, Zenon
      <4> QED BY <3>2, <4>3
    <3>3. CASE bridge = "unset" /\ bridge' = "error" /\ \E k \in 0 .. 3 : uplink' = Ensure(k)
      BY <3>3 DEF Ensure, NetworkTypeOK
    <3> QED BY <2>1, <3>1, <3>2, <3>3, Zenon DEF netReady
  <2>3. CASE SpawnGivesUp(a) /\ UNCHANGED <<netns, veths, inuse>>
    <3>1. /\ RegistryInv' /\ AddressInv' /\ ClashInv' /\ ObjectsInv'
          /\ netLock' = NoHolder /\ Becomes(a, "gone", 0) /\ netReg' = netReg /\ clash' = clash
          /\ cgroups' \subseteq cgroups /\ netns' \subseteq netns /\ veths' \subseteq veths
          /\ inuse' \subseteq 1 .. Broadcast - 1
      BY <1>0, <2>1, <2>3, GivesUpKeeps, Zenon
    <3>2. BridgeInv'
      BY <2>2, <3>1, Zenon DEF BridgeInv, Becomes
    <3>3. NetworkTypeOK'
      BY <2>2, <3>1 DEF NetworkTypeOK, Becomes
    <3> QED BY <3>1, <3>2, <3>3, Zenon
  <2>4. CASE /\ bridge' # "error" /\ FreeIPs # {}
             /\ inuse' = inuse \cup {Allocate}
             /\ netns' = netns \cup {netApp[a].name}
             /\ netApp' = [netApp EXCEPT ![a].phase = "netns", ![a].ip = Allocate]
             /\ UNCHANGED <<netLock, netReg, cgroups, veths, clash, netCrashes>>
    <3> DEFINE k == Allocate
    <3>1. k \in 2 .. Broadcast - 1 /\ k \in 0 .. Broadcast /\ k # 0 /\ k # Gateway /\ k < Broadcast
          /\ k \notin inuse
      BY <2>4, NetAssumption DEF AllocatesFree, Gateway
    <3> HIDE DEF k
    <3>2. Becomes(a, "netns", k)
      BY <1>0, <2>4, <3>1, PhaseBecomes, Zenon DEF k
    <3>3. netApp[a].name \in Names
      BY <2>1 DEF RegistryInv
    <3>4. NetworkTypeOK'
      BY <2>2, <2>4, <3>1, <3>2, <3>3 DEF NetworkTypeOK, Becomes, k
    <3>5. RegistryInv'
      BY <1>0, <2>1, <2>4, <3>2, RegistryKept, ZenonT(60) DEF NetworkTypeOK
    <3>6. AddressInv'
      <4>1. "netns" \in HasAddress
        BY Zenon DEF HasAddress
      <4>2. \A b \in NetApps : netApp[b].ip # k
        BY <3>1, Zenon DEF AddressInv
      <4>3. \A b \in NetApps : /\ netApp'[b].phase \in HasAddress <=> netApp'[b].ip # 0
                               /\ netApp'[b].ip # Gateway /\ netApp'[b].ip < Broadcast
        BY <3>1, <3>2, <4>1, ZenonT(60) DEF AddressInv, Becomes
      <4>4. \A b, c \in NetApps : netApp'[b].ip = netApp'[c].ip /\ netApp'[b].ip # 0 => b = c
        BY <3>2, <4>2 DEF AddressInv, Becomes
      <4>5. netApp[a].ip = 0
        BY <2>1, Zenon DEF AddressInv, HasAddress, Serves, Teardown
      <4>6. inuse' = {Gateway} \cup ({netApp'[b].ip : b \in NetApps} \ {0})
        BY <2>4, <3>1, <3>2, <4>5 DEF AddressInv, Becomes, k
      <4> QED BY <4>3, <4>4, <4>6 DEF AddressInv
    <3>7. BridgeInv'
      BY <2>2, <2>4, <3>2 DEF BridgeInv, Becomes
    <3>8. ClashInv'
      BY <2>1, <2>4, <3>2, ClashKept, Zenon
    <3>9. ObjectsInv'
      <4>1. /\ "cgroup" \in HasCgroup /\ "netns" \in HasCgroup /\ "netns" \in HasNetns
            /\ "cgroup" \notin HasVeth /\ "netns" \notin HasVeth
        BY ZenonT(60) DEF HasCgroup, HasNetns, HasVeth, Spawning, Serves
      <4>2. netApp[a].name \in cgroups \/ a \in clash
        BY <2>1, <4>1 DEF ObjectsInv
      <4> QED BY <2>1, <2>4, <3>2, <4>1, <4>2, ObjectsKept, Zenon
    <3> QED BY <3>4, <3>5, <3>6, <3>7, <3>8, <3>9
  <2> QED BY <1>1, <2>3, <2>4 DEF SpawnNetns
<1>2. CASE SpawnNetnsFails(a) \/ SpawnVethFails(a)
  <2>1. /\ netApp[a].phase \in Spawning /\ SpawnGivesUp(a) /\ UNCHANGED wiring
        /\ \/ netApp[a].phase = "cgroup" /\ UNCHANGED <<netns, veths, inuse>>
           \/ netApp[a].phase \in {"netns", "veth"} /\ teardownAppNetwork(netApp[a].name, netApp[a].ip)
    BY <1>0, <1>2, ZenonT(60) DEF SpawnNetnsFails, SpawnVethFails
  <2>2. /\ RegistryInv' /\ AddressInv' /\ ClashInv' /\ ObjectsInv'
        /\ netLock' = NoHolder /\ Becomes(a, "gone", 0) /\ netReg' = netReg /\ clash' = clash
        /\ cgroups' \subseteq cgroups /\ netns' \subseteq netns /\ veths' \subseteq veths
        /\ inuse' \subseteq 1 .. Broadcast - 1
    BY <2>1, GivesUpKeeps, Zenon
  <2>3. BridgeInv'
    BY <2>1, <2>2, BridgeKept, ZenonT(60)
  <2> QED BY <2>1, <2>2, <2>3, Zenon DEF NetworkTypeOK, Becomes, wiring
<1>3. CASE SpawnVeth(a)
  <2>1. /\ netApp[a].phase = "netns" /\ netApp[a].name \notin veths /\ netApp[a].name \in netns
        /\ veths' = veths \cup {netApp[a].name} /\ Phase(a, "veth") /\ netLock = a /\ Holds(a)
        /\ UNCHANGED <<netLock, netReg, cgroups, netns, inuse, wiring, clash>>
    BY <1>0, <1>3, HoldsPhases DEF SpawnVeth, RegistryInv
  <2>2. Becomes(a, "veth", netApp[a].ip)
    BY <1>0, <2>1, PhaseBecomes, ZenonT(60)
  <2>3. NetworkTypeOK'
    BY <2>1, <2>2 DEF NetworkTypeOK, Becomes, wiring, RegistryInv
  <2>4. RegistryInv'
    BY <1>0, <2>1, <2>2, RegistryKept, ZenonT(60) DEF NetworkTypeOK
  <2>5. AddressInv'
    <3>1. "netns" \in HasAddress /\ "veth" \in HasAddress
      BY Zenon DEF HasAddress
    <3> QED BY <2>1, <2>2, <3>1, AddressesKept, Zenon
  <2>6. BridgeInv'
    BY <2>1, <2>2, BridgeKept, Zenon DEF BridgeInv
  <2>7. ClashInv'
    BY <2>1, <2>2, ClashKept, ZenonT(60)
  <2>8. ObjectsInv'
    <3>1. /\ "netns" \in HasCgroup /\ "veth" \in HasCgroup /\ "netns" \in HasNetns
          /\ "veth" \in HasNetns /\ "veth" \in HasVeth
      BY DEF HasCgroup, HasNetns, HasVeth, Spawning, Serves
    <3>2. netApp[a].name \in cgroups \/ a \in clash
      BY <2>1, <3>1, ZenonT(60) DEF ObjectsInv
    <3> QED BY <2>1, <2>2, <3>1, <3>2, ObjectsKept, Zenon
  <2> QED BY <2>3, <2>4, <2>5, <2>6, <2>7, <2>8
<1> QED
  BY <1>1, <1>2, <1>3 DEF setupAppNetwork

\* An App that keeps its address, on a host whose bridge and pool stay as they
\* are, leaves the addresses, the bridge and the clashes right.
LEMMA MovesOn ==
  ASSUME NetworkInv, NEW a \in NetApps, Holds(a), NEW p \in {"dead"} \cup Spawning \cup Serves \cup Teardown,
         Phase(a, p), UNCHANGED <<inuse, wiring, clash>>,
         p \in {"netns", "veth", "up"} => bridge = "ready",
         netApp[a].phase \in HasAddress, p \in HasAddress
  PROVE  Becomes(a, p, netApp[a].ip) /\ AddressInv' /\ BridgeInv' /\ ClashInv'
<1>1. Becomes(a, p, netApp[a].ip)
  BY PhaseBecomes, Zenon DEF NetworkInv
<1> QED
  BY <1>1, AddressesKept, BridgeKept, ClashKept

\* An App leaves the registry, to be stopped or because watch gives up on it.
LEMMA LeavesRegistry ==
  ASSUME NetworkInv, NEW a \in NetApps, NEW p \in {"stopping", "dead"}, netApp[a].phase = "up", Phase(a, p),
         UNCHANGED <<netLock, cgroups, netns, veths, inuse, wiring, clash>>,
         netReg' \in [Names -> NetApps \cup {NoHolder}],
         \A n \in Names : netReg'[n] # NoHolder =>
           \E m \in Names : netReg'[n] = netReg[m] /\ netReg[m] # a,
         \A n, m \in Names : netReg'[n] = netReg'[m] /\ netReg'[n] # NoHolder => n = m
  PROVE  NetworkInv'
<1> USE DEF NetworkInv
<1>1. p \in Serves \cup {"dead"} /\ "up" \in Serves /\ p \notin Spawning /\ p # "unused" /\ p # "up"
      /\ "up" \in HasAddress /\ p \in HasAddress
  BY Zenon DEF Serves, Spawning, HasAddress
<1>2. Holds(a)
  BY <1>1, Zenon DEF Holds
<1>3. Becomes(a, p, netApp[a].ip) /\ AddressInv' /\ BridgeInv' /\ ClashInv'
  BY <1>1, <1>2, MovesOn, ZenonT(60)
<1>4. NetworkTypeOK'
  BY <1>3 DEF NetworkTypeOK, Becomes, wiring
<1>5. RegistryInv'
  <2>1. \A b \in NetApps : netApp'[b].phase \in Spawning => netLock' = b
    BY <1>1, <1>3, Zenon DEF RegistryInv, Becomes
  <2>2. \A b \in NetApps : /\ netApp'[b].phase # "unused" => netApp'[b].name \in Names
                           /\ netApp'[b].phase = "unused" => b \notin clash'
    BY <1>1, <1>3, ZenonT(60) DEF RegistryInv, Becomes
  <2>3. ASSUME NEW n \in Names, netReg'[n] # NoHolder PROVE netApp'[netReg'[n]].phase = "up"
    <3>1. PICK m \in Names : netReg'[n] = netReg[m] /\ netReg[m] # a
      BY <2>3
    <3>2. netReg[m] \in NetApps \ {a} /\ netApp[netReg[m]].phase = "up"
      BY <2>3, <3>1, Zenon DEF RegistryInv, NetworkTypeOK
    <3> QED BY <1>3, <3>1, <3>2, Zenon DEF Becomes
  <2> QED BY <2>1, <2>2, <2>3, Zenon DEF RegistryInv
<1>6. ObjectsInv'
  <2>1. /\ "up" \in HasCgroup /\ "up" \in HasNetns /\ "up" \in HasVeth
        /\ p = "stopping" => p \in HasCgroup /\ p \in HasNetns /\ p \in HasVeth
        /\ p = "dead" => p \notin HasCgroup /\ p \notin HasNetns /\ p \notin HasVeth
    BY Zenon DEF HasCgroup, HasNetns, HasVeth, Spawning, Serves, Teardown
  <2>2. a \notin clash => /\ netApp[a].name \in cgroups' /\ netApp[a].name \in netns'
                          /\ netApp[a].name \in veths'
    BY <2>1, Zenon DEF ObjectsInv
  <2>3. p \in {"dead", "lost"} \/ p = "stopping"
    OBVIOUS
  <2> QED BY <1>2, <1>3, <2>1, <2>2, <2>3, ObjectsKept, Zenon
<1> QED
  BY <1>3, <1>4, <1>5, <1>6, Zenon

\* startLocked, or the spawn that gives everything back.
LEMMA SpawnStart_Inv ==
  ASSUME NetworkInv, NEW a \in NetApps, SpawnStart(a) \/ SpawnStartFails(a)
  PROVE  NetworkInv'
<1> USE DEF NetworkInv
<1>0. "veth" \in Spawning
  BY DEF Spawning
<1>1. CASE SpawnStartFails(a)
  <2>1. /\ netApp[a].phase \in Spawning /\ SpawnGivesUp(a) /\ UNCHANGED wiring
        /\ netApp[a].phase \in {"netns", "veth"} /\ teardownAppNetwork(netApp[a].name, netApp[a].ip)
    BY <1>0, <1>1, Zenon DEF SpawnStartFails
  <2>2. /\ RegistryInv' /\ AddressInv' /\ ClashInv' /\ ObjectsInv'
        /\ netLock' = NoHolder /\ Becomes(a, "gone", 0) /\ netReg' = netReg /\ clash' = clash
        /\ cgroups' \subseteq cgroups /\ netns' \subseteq netns /\ veths' \subseteq veths
        /\ inuse' \subseteq 1 .. Broadcast - 1
    BY <2>1, GivesUpKeeps, ZenonT(60)
  <2>3. BridgeInv'
    BY <2>1, <2>2, BridgeKept, Zenon
  <2> QED BY <2>1, <2>2, <2>3, Zenon DEF NetworkTypeOK, Becomes, wiring
<1>2. CASE SpawnStart(a)
  <2>1. /\ netApp[a].phase = "veth" /\ netApp[a].name \in cgroups /\ netLock = a /\ Holds(a)
        /\ netLock' = NoHolder /\ Phase(a, "up") /\ netReg' = [netReg EXCEPT ![netApp[a].name] = a]
        /\ UNCHANGED <<cgroups, netns, veths, inuse, wiring, clash>>
    BY <1>0, <1>2, HoldsPhases, Zenon DEF SpawnStart, RegistryInv
  <2>2. Becomes(a, "up", netApp[a].ip) /\ AddressInv' /\ BridgeInv' /\ ClashInv'
    <3>1. "veth" \in HasAddress /\ "up" \in HasAddress /\ "up" \in Serves
      BY DEF HasAddress, Serves
    <3>2. bridge = "ready"
      BY <2>1, ZenonT(60) DEF BridgeInv
    <3> QED BY <2>1, <3>1, <3>2, MovesOn, Zenon
  <2>3. netApp[a].name \in Names
    BY <2>1, Zenon DEF RegistryInv
  <2>4. NetworkTypeOK'
    BY <2>1, <2>2, Zenon DEF NetworkTypeOK, Becomes, wiring
  <2>5. RegistryInv'
    <3>1. \A b \in NetApps : netApp'[b].phase \in Spawning => netLock' = b
      BY <2>1, <2>2, Zenon DEF RegistryInv, Becomes, Spawning
    <3>2. \A b \in NetApps : /\ netApp'[b].phase # "unused" => netApp'[b].name \in Names
                             /\ netApp'[b].phase = "unused" => b \notin clash'
      BY <2>1, <2>2, <2>3, ZenonT(60) DEF RegistryInv, Becomes
    <3>3. \A n \in Names : netReg[n] # a
      BY <2>1, NetAssumption, Zenon DEF RegistryInv
    <3>4. \A n \in Names : netReg'[n] = IF n = netApp[a].name THEN a ELSE netReg[n]
      BY <2>1, ZenonT(60) DEF NetworkTypeOK
    <3>5. \A n \in Names : netReg'[n] # NoHolder => netApp'[netReg'[n]].phase = "up"
      BY <2>2, <3>3, <3>4, SMTT(60) DEF RegistryInv, Becomes, NetworkTypeOK
    <3>6. \A n, m \in Names : netReg'[n] = netReg'[m] /\ netReg'[n] # NoHolder => n = m
      BY <3>3, <3>4, ZenonT(60) DEF RegistryInv
    <3> QED BY <3>1, <3>2, <3>5, <3>6, Zenon DEF RegistryInv
  <2>6. ObjectsInv'
    <3>1. /\ "veth" \in HasNetns /\ "veth" \in HasVeth
          /\ "up" \in HasCgroup /\ "up" \in HasNetns /\ "up" \in HasVeth
      BY Zenon DEF HasCgroup, HasNetns, HasVeth, Serves
    <3>2. a \notin clash => netApp[a].name \in netns /\ netApp[a].name \in veths
      BY <2>1, <3>1, Zenon DEF ObjectsInv
    <3> QED BY <2>1, <2>2, <3>1, <3>2, ObjectsKept, Zenon
  <2> QED BY <2>2, <2>4, <2>5, <2>6, ZenonT(60)
<1> QED
  BY <1>1, <1>2


\* What an App has in the phases of its teardown.
LEMMA TeardownPhases ==
  /\ {"stopping", "exited"} \subseteq HasCgroup
  /\ "uncgrouped" \notin HasCgroup /\ "unwired" \notin HasCgroup /\ "gone" \notin HasCgroup
  /\ {"stopping", "exited", "uncgrouped", "unwired"} \subseteq HasNetns /\ "gone" \notin HasNetns
  /\ {"stopping", "exited", "uncgrouped"} \subseteq HasVeth
  /\ "unwired" \notin HasVeth /\ "gone" \notin HasVeth
  /\ {"stopping", "exited", "uncgrouped", "unwired"} \subseteq HasAddress /\ "gone" \notin HasAddress
  /\ {"exited", "uncgrouped", "unwired"} \subseteq Teardown
BY Zenon DEF HasCgroup, HasNetns, HasVeth, HasAddress, Spawning, Serves, Teardown

\* An App in its teardown has the objects it has not removed yet.
LEMMA TeardownHas ==
  ASSUME NetworkInv, NEW a \in NetApps, netApp[a].phase \in {"stopping", "exited", "uncgrouped", "unwired"}
  PROVE  /\ Holds(a)
         /\ netApp[a].phase \in HasAddress
         /\ a \in clash \/ /\ netApp[a].phase \in HasCgroup => netApp[a].name \in cgroups
                           /\ netApp[a].name \in netns
                           /\ netApp[a].phase \in HasVeth => netApp[a].name \in veths
<1>1. Holds(a)
  BY Zenon DEF Holds, Serves, Teardown
<1>2. netApp[a].phase \in HasAddress /\ netApp[a].phase \in HasNetns
  BY TeardownPhases, ZenonT(60)
<1> QED
  BY <1>1, <1>2, Zenon DEF NetworkInv, ObjectsInv

\* A step of the teardown that keeps the objects right keeps the rest.
LEMMA TearsDown ==
  ASSUME NetworkInv, NEW a \in NetApps, NEW p \in {"exited", "uncgrouped", "unwired", "gone"},
         netApp[a].phase \in {"stopping", "exited", "uncgrouped", "unwired"},
         NEW ip \in 0 .. Broadcast, Becomes(a, p, ip),
         UNCHANGED <<netLock, netReg, wiring, clash>>,
         cgroups' \subseteq cgroups, netns' \subseteq netns, veths' \subseteq veths,
         inuse' \subseteq 1 .. Broadcast - 1, AddressInv', ObjectsInv'
  PROVE  NetworkInv'
<1>1. NetworkTypeOK'
  BY Zenon DEF NetworkInv, NetworkTypeOK, Becomes, wiring
<1>2. RegistryInv'
  <2>1. p \notin Spawning
    BY Zenon DEF Spawning
  <2>2. netReg' \in [Names -> NetApps \cup {NoHolder}]
    BY Zenon DEF NetworkInv, NetworkTypeOK
  <2> QED BY <2>1, <2>2, RegistryKept, Zenon
<1>3. BridgeInv'
  BY BridgeKept, ZenonT(60)
<1>4. ClashInv'
  BY TeardownHas, ClashKept, Zenon
<1> QED
  BY <1>1, <1>2, <1>3, <1>4, Zenon DEF NetworkInv

\* The process of the App exits.
LEMMA ProcessExits_Inv ==
  ASSUME NetworkInv, NEW a \in NetApps, ProcessExits(a)
  PROVE  NetworkInv'
<1>1. /\ netApp[a].phase = "stopping" /\ Phase(a, "exited")
      /\ UNCHANGED <<netLock, netReg, cgroups, netns, veths, inuse, wiring, clash>>
  BY Zenon DEF ProcessExits
<1>2. Becomes(a, "exited", netApp[a].ip) /\ AddressInv'
  BY <1>1, TeardownPhases, TeardownHas, MovesOn, Zenon
<1>3. ObjectsInv'
  BY <1>1, <1>2, TeardownPhases, TeardownHas, ObjectsKept, ZenonT(60)
<1>4. netApp[a].ip \in 0 .. Broadcast /\ inuse \subseteq 1 .. Broadcast - 1
  BY DEF NetworkInv, NetworkTypeOK
<1> QED
  BY <1>1, <1>2, <1>3, <1>4, TearsDown, Zenon

\* The cgroup goes, unless another App's process is in it.
LEMMA TeardownCgroup_Inv ==
  ASSUME NetworkInv, NEW a \in NetApps, TeardownCgroup(a)
  PROVE  NetworkInv'
<1>1. /\ netApp[a].phase = "exited" /\ Phase(a, "uncgrouped")
      /\ UNCHANGED <<netLock, netReg, netns, veths, inuse, wiring, clash>>
  BY ZenonT(60) DEF TeardownCgroup
<1>2. /\ netApp[a].name \in cgroups' => Busy(netApp[a].name, a)
      /\ cgroups' \subseteq cgroups
      /\ \A n : n # netApp[a].name => (n \in cgroups' <=> n \in cgroups)
  BY Zenon DEF TeardownCgroup, RemoveCgroup
<1>3. Becomes(a, "uncgrouped", netApp[a].ip) /\ AddressInv'
  BY <1>1, TeardownPhases, TeardownHas, MovesOn, ZenonT(60)
<1>4. ObjectsInv'
  BY <1>1, <1>2, <1>3, TeardownPhases, TeardownHas, ObjectsKept, Zenon
<1>5. netApp[a].ip \in 0 .. Broadcast /\ inuse \subseteq 1 .. Broadcast - 1
  BY DEF NetworkInv, NetworkTypeOK
<1> QED
  BY <1>1, <1>2, <1>3, <1>4, <1>5, TearsDown, ZenonT(60)

\* The veth pair goes.
LEMMA TeardownVeth_Inv ==
  ASSUME NetworkInv, NEW a \in NetApps, TeardownVeth(a)
  PROVE  NetworkInv'
<1>1. /\ netApp[a].phase = "uncgrouped" /\ Phase(a, "unwired")
      /\ UNCHANGED <<netLock, netReg, cgroups, netns, inuse, wiring, clash>>
  BY Zenon DEF TeardownVeth
<1>2. /\ netApp[a].name \notin veths' /\ veths' \subseteq veths
      /\ \A n : n # netApp[a].name => (n \in veths' <=> n \in veths)
  BY Zenon DEF TeardownVeth
<1>3. Becomes(a, "unwired", netApp[a].ip) /\ AddressInv'
  BY <1>1, TeardownPhases, TeardownHas, MovesOn, Zenon
<1>4. ObjectsInv'
  BY <1>1, <1>2, <1>3, TeardownPhases, TeardownHas, ObjectsKept, Zenon
<1>5. netApp[a].ip \in 0 .. Broadcast /\ inuse \subseteq 1 .. Broadcast - 1
  BY DEF NetworkInv, NetworkTypeOK
<1> QED
  BY <1>1, <1>2, <1>3, <1>4, <1>5, TearsDown, ZenonT(60)

\* The namespace goes, and the address goes back.
LEMMA TeardownNetns_Inv ==
  ASSUME NetworkInv, NEW a \in NetApps, TeardownNetns(a)
  PROVE  NetworkInv'
<1>1. /\ netApp[a].phase = "unwired" /\ netApp' = [netApp EXCEPT ![a].phase = "gone", ![a].ip = 0]
      /\ inuse' = Release(netApp[a].ip)
      /\ UNCHANGED <<netLock, netReg, cgroups, veths, wiring, clash>>
  BY Zenon DEF TeardownNetns
<1>2. /\ netApp[a].name \notin netns' /\ netns' \subseteq netns
      /\ \A n : n # netApp[a].name => (n \in netns' <=> n \in netns)
  BY DEF TeardownNetns
<1>3. 0 \in 0 .. Broadcast
  BY NetAssumption
<1>4. Becomes(a, "gone", 0)
  BY <1>1, <1>3, PhaseBecomes, Zenon DEF NetworkInv
<1>5. AddressInv' /\ inuse' \subseteq 1 .. Broadcast - 1
  BY <1>1, <1>4, TeardownPhases, AddressesReleased, Zenon
<1>6. ObjectsInv'
  BY <1>1, <1>2, <1>4, TeardownPhases, TeardownHas, ObjectsKept
<1> QED
  BY <1>1, <1>2, <1>3, <1>4, <1>5, <1>6, TearsDown

\* The daemon that crashes leaves the kernel objects to the Apps it lost.
LEMMA HostCrash_Inv ==
  ASSUME NetworkInv, HostCrash
  PROVE  NetworkInv'
<1> USE DEF NetworkInv
<1>1. /\ netLock' = NoHolder /\ netReg' = [n \in Names |-> NoHolder] /\ inuse' = {Gateway}
      /\ bridge' = "unset" /\ UNCHANGED <<cgroups, netns, veths, uplink, clash>>
      /\ netApp' = [a \in NetApps |->
           IF netApp[a].phase \in {"unused", "gone"} THEN netApp[a]
           ELSE [netApp[a] EXCEPT !.phase = "lost", !.ip = 0]]
  BY ZenonT(60) DEF HostCrash
<1>2. /\ \A a \in NetApps : netApp[a].phase \in {"unused", "gone"} => netApp'[a] = netApp[a]
      /\ \A a \in NetApps : netApp[a].phase \notin {"unused", "gone"} =>
           netApp'[a].phase = "lost" /\ netApp'[a].name = netApp[a].name /\ netApp'[a].ip = 0
  BY <1>1, Zenon DEF NetworkTypeOK
<1>3. \A a \in NetApps : netApp'[a].name = netApp[a].name /\ netApp'[a].phase \in {"unused", "gone", "lost"}
                         /\ (netApp'[a].phase = "unused" <=> netApp[a].phase = "unused")
  BY <1>2
<1>4. {"unused", "gone", "lost"} \cap (HasAddress \cup HasCgroup \cup HasNetns \cup HasVeth \cup Spawning
                                       \cup Serves \cup Teardown \cup {"netns", "veth", "up"}) = {}
  BY ZenonT(60) DEF HasAddress, HasCgroup, HasNetns, HasVeth, Spawning, Serves, Teardown
<1>5. NetworkTypeOK'
  <2> DEFINE R == [phase : {"unused", "gone", "dead", "lost"} \cup Spawning \cup Serves \cup Teardown,
                   name : Names \cup {NoHolder}, ip : 0 .. Broadcast]
  <2>0. \A r \in R : [r EXCEPT !.phase = "lost", !.ip = 0] \in R
    <3>1. ASSUME NEW P, NEW N, NEW I, "lost" \in P, 0 \in I, NEW r \in [phase : P, name : N, ip : I]
          PROVE  [r EXCEPT !.phase = "lost", !.ip = 0] \in [phase : P, name : N, ip : I]
      BY <3>1, Zenon
    <3>2. 0 \in 0 .. Broadcast
      BY NetAssumption
    <3> QED BY <3>1, <3>2, Zenon
  <2>1. netApp' \in [NetApps -> R]
    <3>1. netApp \in [NetApps -> R]
      BY DEF NetworkTypeOK
    <3> HIDE DEF R
    <3> QED BY <1>1, <2>0, <3>1, Zenon
  <2>2. {Gateway} \subseteq 1 .. Broadcast - 1
    BY NetAssumption DEF Gateway
  <2> QED BY <1>1, <2>1, <2>2, Zenon DEF NetworkTypeOK
<1>6. RegistryInv'
  BY <1>1, <1>3, <1>4, ZenonT(60) DEF RegistryInv
<1>7. AddressInv'
  <2>1. \A a \in NetApps : netApp'[a].ip = 0
    BY <1>2, <1>4 DEF AddressInv
  <2>2. {netApp'[a].ip : a \in NetApps} \ {0} = {}
    BY <2>1, Zenon
  <2>3. \A a \in NetApps : netApp'[a].phase \notin HasAddress
    BY <1>3, <1>4
  <2>4. 0 < Broadcast /\ 0 # Gateway
    BY NetAssumption DEF Gateway
  <2> QED BY <1>1, <2>1, <2>2, <2>3, <2>4, ZenonT(60) DEF AddressInv
<1>8. BridgeInv' /\ ClashInv'
  BY <1>1, <1>3, <1>4, ZenonT(60) DEF BridgeInv, ClashInv, Holds
<1>9. ObjectsInv'
  <2>1. ASSUME NEW n, NEW phases \in {HasCgroup, HasNetns, HasVeth}, Answers(n, phases) PROVE Answers(n, phases)'
    <3>1. PICK a \in NetApps : /\ netApp[a].name = n
                               /\ netApp[a].phase \in phases \cup {"dead", "lost"} \/ a \in clash
      BY <2>1 DEF Answers
    <3>2. netApp'[a].phase = "lost" \/ a \in clash'
      BY <1>1, <1>2, <1>4, <3>1, Zenon
    <3> QED BY <1>3, <3>1, <3>2, Zenon DEF Answers
  <2>2. \A a \in NetApps : netApp'[a].phase \notin HasCgroup \cup HasNetns \cup HasVeth
    BY <1>3, <1>4
  <2> QED BY <1>1, <2>1, <2>2, Zenon DEF ObjectsInv
<1> QED
  BY <1>5, <1>6, <1>7, <1>8, <1>9

\* Every step of NetworkNext keeps the invariant.
LEMMA NetworkNext_Inv ==
  ASSUME NetworkInv, AllocatesFree, [NetworkNext]_networkVars
  PROVE  NetworkInv'
<1> USE DEF NetworkInv
<1>1. ASSUME NEW i \in NetIds, SwapRegistry(i) PROVE NetworkInv'
  <2> DEFINE n1 == <<i, FALSE>>
             n2 == <<i, TRUE>>
  <2>1. n1 \in Names /\ n2 \in Names /\ n1 # n2
    BY Zenon DEF Names
  <2> HIDE DEF n1, n2
  <2>2. /\ netReg[n1] # NoHolder /\ netReg[n2] # NoHolder /\ Phase(netReg[n1], "stopping")
        /\ netReg' = [netReg EXCEPT ![n1] = netReg[n2], ![n2] = NoHolder]
        /\ UNCHANGED <<netLock, cgroups, netns, veths, inuse, wiring, clash>>
    BY <1>1, Zenon DEF SwapRegistry, n1, n2
  <2>3. \A n \in Names : netReg'[n] = IF n = n2 THEN NoHolder ELSE IF n = n1 THEN netReg[n2] ELSE netReg[n]
    BY <2>1, <2>2, Zenon DEF NetworkTypeOK
  <2>4. netReg[n1] \in NetApps /\ netApp[netReg[n1]].phase = "up"
    BY <2>1, <2>2, Zenon DEF RegistryInv, NetworkTypeOK
  <2>5. netReg' \in [Names -> NetApps \cup {NoHolder}]
    BY <2>1, <2>2 DEF NetworkTypeOK
  <2>6. \A n \in Names : netReg'[n] # NoHolder => \E m \in Names : netReg'[n] = netReg[m] /\ netReg[m] # netReg[n1]
    BY <2>1, <2>2, <2>3, ZenonT(60) DEF RegistryInv
  <2>7. \A n, m \in Names : netReg'[n] = netReg'[m] /\ netReg'[n] # NoHolder => n = m
    BY <2>1, <2>2, <2>3, SMTT(60) DEF RegistryInv
  <2> QED BY <2>2, <2>4, <2>5, <2>6, <2>7, LeavesRegistry, Zenon
<1>2. ASSUME NEW n \in Names, StopRegistered(n) \/ WatchGivesUp(n) PROVE NetworkInv'
  <2>1. PICK p \in {"stopping", "dead"} :
          /\ netReg[n] # NoHolder /\ Phase(netReg[n], p)
          /\ netReg' = [netReg EXCEPT ![n] = NoHolder]
          /\ UNCHANGED <<netLock, cgroups, netns, veths, inuse, wiring, clash>>
    BY <1>2, Zenon DEF StopRegistered, WatchGivesUp
  <2>2. \A m \in Names : netReg'[m] = IF m = n THEN NoHolder ELSE netReg[m]
    BY <2>1, Zenon DEF NetworkTypeOK
  <2>3. netReg[n] \in NetApps /\ netApp[netReg[n]].phase = "up"
    BY <2>1 DEF RegistryInv, NetworkTypeOK
  <2>4. netReg' \in [Names -> NetApps \cup {NoHolder}]
    BY <2>1, Zenon DEF NetworkTypeOK
  <2>5. \A m \in Names : netReg'[m] # NoHolder => \E k \in Names : netReg'[m] = netReg[k] /\ netReg[k] # netReg[n]
    BY <2>1, <2>2 DEF RegistryInv
  <2>6. \A m, k \in Names : netReg'[m] = netReg'[k] /\ netReg'[m] # NoHolder => m = k
    BY <2>2, Zenon DEF RegistryInv
  <2> QED BY <2>1, <2>3, <2>4, <2>5, <2>6, LeavesRegistry, SMTT(60)
<1>3. ASSUME NEW a \in NetApps, NetworkStep(a) PROVE NetworkInv'
  BY Zenon, <1>3, SpawnCgroup_Inv, SetupAppNetwork_Inv, SpawnStart_Inv, ProcessExits_Inv,
     TeardownCgroup_Inv, TeardownVeth_Inv, TeardownNetns_Inv DEF NetworkStep
<1>4. CASE HostCrash
  BY <1>4, HostCrash_Inv
<1>5. CASE UNCHANGED networkVars
  <2> USE <1>5 DEF networkVars
  <2>1. NetworkTypeOK' /\ RegistryInv'
    BY Zenon DEF NetworkTypeOK, RegistryInv
  <2>2. AddressInv' /\ BridgeInv' /\ ClashInv'
    BY DEF AddressInv, BridgeInv, ClashInv, Holds
  <2>3. ObjectsInv'
    BY ZenonT(60) DEF ObjectsInv, Answers
  <2> QED BY <2>1, <2>2, <2>3, Zenon
<1> QED
  BY <1>1, <1>2, <1>3, <1>4, <1>5, ZenonT(60) DEF NetworkNext

\* What the invariant says of the Apps that serve and of the objects on the host.
LEMMA NetworkInv_Kept == NetworkInv => NetworkKept /\ NothingLeaks
<1> SUFFICES ASSUME NetworkInv PROVE NetworkKept /\ NothingLeaks
  OBVIOUS
<1> USE DEF NetworkInv
<1>1. "up" \in HasCgroup /\ "up" \in HasNetns /\ "up" \in HasVeth /\ "up" \in HasAddress
  BY ZenonT(60) DEF HasCgroup, HasNetns, HasVeth, HasAddress, Serves
<1>2. NetworkKept
  BY <1>1 DEF NetworkKept, ObjectsInv, BridgeInv, AddressInv
<1>3. HasCgroup \cup HasNetns \cup HasVeth \subseteq Spawning \cup Serves \cup Teardown
  BY Zenon DEF HasCgroup, HasNetns, HasVeth, Spawning, Teardown
<1>4. ASSUME NEW n \in cgroups \cup netns \cup veths
      PROVE  \E a \in NetApps : /\ netApp[a].name = n
                                /\ Holds(a) \/ netApp[a].phase \in {"dead", "lost"} \/ a \in clash
  <2>1. PICK phases \in {HasCgroup, HasNetns, HasVeth} : Answers(n, phases)
    BY <1>4 DEF ObjectsInv
  <2> QED BY <2>1, <1>3, Zenon DEF Answers, Holds
<1> QED
  BY <1>2, <1>4 DEF NothingLeaks, AddressInv


INSTANCE WellFoundedInduction
-----------------------------------------------------------------------------
(* Smallest and largest elements *)

\* A set of naturals has a least element.
LEMMA LeastNat ==
  ASSUME NEW S \in SUBSET Nat, S # {}
  PROVE  \E m \in S : \A k \in S : m <= k
<1>1. PICK m \in S : \A y \in S : ~(<<y, m>> \in OpToRel(<, Nat))
  BY NatLessThanWellFounded, WFMin, Zenon
<1>2. \A y \in S : ~(y < m)
  BY <1>1, Zenon DEF OpToRel
<1> QED
  BY <1>2

\* IPPool.Allocate returns an address of the subnet that is not in use.
LEMMA AllocateIsFree == AllocatesFree
<1> SUFFICES ASSUME FreeIPs # {} PROVE Allocate \in Gateway + 1 .. Broadcast - 1 /\ Allocate \notin inuse
  BY DEF AllocatesFree
<1>1. FreeIPs \in SUBSET Nat
  BY NetAssumption DEF FreeIPs, Gateway
<1>2. \E ip \in FreeIPs : \A k \in FreeIPs : ip <= k
  BY <1>1, LeastNat, Zenon
<1>3. Allocate \in FreeIPs
  BY <1>2, Zenon DEF Allocate
<1> QED
  BY <1>3, Zenon DEF FreeIPs

\* Every step of HostNetwork keeps the invariant.
LEMMA NetworkStep_Inv == NetworkInv /\ [NetworkNext]_networkVars => NetworkInv'
BY AllocateIsFree, NetworkNext_Inv

\* For every number of apps and addresses: an App that serves keeps its cgroup,
\* namespace, veth, bridge and an address of its own.
THEOREM NetworkIsKept == NetworkSpec => [](NetworkTypeOK /\ NetworkKept)
<1>1. NetworkInv => NetworkTypeOK /\ NetworkKept
  BY NetworkInv_Kept DEF NetworkInv
<1> QED
  BY <1>1, NetworkInit_Inv, NetworkStep_Inv, PTL DEF NetworkSpec

\* For every number of apps and addresses: what spawnUnchecked takes from the
\* host, some App still has to give back.
THEOREM NetworkNothingLeaks == NetworkSpec => []NothingLeaks
BY NetworkInit_Inv, NetworkStep_Inv, NetworkInv_Kept, PTL DEF NetworkSpec

-----------------------------------------------------------------------------
(* HostCgroups *)

\* enableControllers enables controllers that are available and takes none away;
\* when it succeeds, memory and pids are enabled.
LEMMA EnableControllersGives ==
  ASSUME NEW on \in SUBSET Controllers, NEW available \in SUBSET Controllers, NEW busy
  PROVE  LET e == enableControllers(on, available, busy) IN
         /\ on \subseteq e.on /\ e.on \subseteq on \cup available
         /\ e.ok \in BOOLEAN
         /\ e.ok => Controllers \subseteq available /\ Controllers \ busy \subseteq e.on
<1> DEFINE written == {k \in DOMAIN Tokens : \A j \in 1 .. k : Tokens[j] \in available}
           first == {Tokens[k] : k \in written}
           e == enableControllers(on, available, busy)
<1>1. /\ DOMAIN Tokens = 1 .. 3
      /\ Tokens[1] = "cpu" /\ Tokens[2] = "memory" /\ Tokens[3] = "pids"
  BY SMTT(60) DEF Tokens
<1>2. e.on = on \cup (first \ busy) /\ e.ok = (written = DOMAIN Tokens)
  BY DEF enableControllers
<1>3. \A k \in written : Tokens[k] \in available
  BY <1>1
<1>4. ASSUME written = DOMAIN Tokens
      PROVE  Controllers \subseteq first
  BY <1>1, <1>4 DEF Controllers
<1>5. first \subseteq available
  BY <1>3, Zenon
<1> HIDE DEF first, written, e
<1>6. on \subseteq e.on /\ e.on \subseteq on \cup available /\ e.ok \in BOOLEAN
  BY <1>2, <1>5
<1>7. e.ok => Controllers \subseteq available /\ Controllers \ busy \subseteq e.on
  BY <1>2, <1>4, <1>5, ZenonT(60)
<1> QED BY <1>6, <1>7 DEF e

\* The controllers the tree hands down come from above.
HandedOK(h) == h.root \subseteq offered /\ h.parent \subseteq h.root /\ h = [root |-> h.root, parent |-> h.parent]

\* EnsureParent leaves the leaf behind it, hands out controllers of the host only,
\* and takes none away; when it succeeds, the parent has memory and pids.
LEMMA EnsureParentGives ==
  ASSUME offered \subseteq Controllers, HandedOK(handed), NEW at, NEW busy \in BusyControllers
  PROVE  LET e == EnsureParent(at, busy) IN
         /\ e.at = leaveRoot(at) /\ e.ok \in BOOLEAN
         /\ HandedOK(e.handed) /\ handed.parent \subseteq e.handed.parent
         /\ e.ok => {"memory", "pids"} \subseteq e.handed.parent
<1> DEFINE b == busy[1] \cup (IF leaveRoot(at) = "root" THEN Controllers ELSE {})
           root == enableControllers(handed.root, offered, b)
           parent == enableControllers(handed.parent, root.on, busy[2])
           e == EnsureParent(at, busy)
<1>1. busy[1] \subseteq {"cpu"} /\ busy[2] \subseteq {"cpu"}
  BY DEF BusyControllers
<1>2. leaveRoot(at) # "root"
  BY Zenon DEF leaveRoot
<1>3. /\ e.at = leaveRoot(at) /\ e.ok = (root.ok /\ parent.ok)
      /\ e.handed = [root |-> root.on, parent |-> IF root.ok THEN parent.on ELSE handed.parent]
  BY Zenon DEF EnsureParent
<1>4. /\ handed.root \subseteq root.on /\ root.on \subseteq handed.root \cup offered /\ root.ok \in BOOLEAN
      /\ root.ok => Controllers \subseteq offered /\ Controllers \ b \subseteq root.on
  <2>1. handed.root \subseteq Controllers
    BY Zenon DEF HandedOK
  <2> HIDE DEF b
  <2> QED BY <2>1, EnableControllersGives, Zenon
<1>5. root.on \subseteq offered
  BY <1>4, Zenon DEF HandedOK
<1>6. /\ handed.parent \subseteq parent.on /\ parent.on \subseteq handed.parent \cup root.on /\ parent.ok \in BOOLEAN
      /\ parent.ok => Controllers \subseteq root.on /\ Controllers \ busy[2] \subseteq parent.on
  <2>1. handed.parent \subseteq Controllers /\ root.on \subseteq Controllers
    BY <1>5, Zenon DEF HandedOK
  <2> HIDE DEF root
  <2> QED BY <2>1, EnableControllersGives, Zenon
<1> HIDE DEF root, parent, e
<1>7. e.handed.root = root.on /\ e.handed.parent = IF root.ok THEN parent.on ELSE handed.parent
  BY <1>3
<1>8. handed.parent \subseteq root.on /\ parent.on \subseteq root.on
  BY <1>4, <1>6, ZenonT(60) DEF HandedOK
<1>9. HandedOK(e.handed)
  BY <1>3, <1>5, <1>7, <1>8 DEF HandedOK
<1>10. e.ok => {"memory", "pids"} \subseteq e.handed.parent
  <2>1. {"memory", "pids"} \subseteq Controllers \ busy[2]
    BY <1>1, Zenon DEF Controllers
  <2> QED BY <1>3, <1>6, <1>7, <2>1, Zenon
<1>11. handed.parent \subseteq e.handed.parent /\ e.ok \in BOOLEAN
  BY <1>3, <1>4, <1>6, <1>7
<1> QED BY <1>3, <1>9, <1>10, <1>11 DEF e

\* What the daemon knows of an app that runs: the limits its config asks for,
\* and whether it was put into a cgroup.
RunLimits == [asked : Limits \cup {NoCgroup}, cg : BOOLEAN]

\* The files hold an app to what its config asks for, and to the defaults.
InForce(a, run, files) ==
  LET given == run.asked
      asked == IF given = NoCgroup THEN [high |-> 0, max |-> 0, pids |-> 0, cpu |-> 0] ELSE given
      default(v) == IF cgMode = "off" THEN 0 ELSE v
  IN  /\ given # NoCgroup => run.cg
      /\ files.high = Or(asked.high, default(cgDefaults.high))
      /\ files.max = Or(asked.max, default(cgDefaults.max))
      /\ files.max # 0 => files.swapOff
      /\ files.pids = asked.pids
      /\ files.cpu = asked.cpu \/ (asked.cpu = 0 /\ a \in inherited)

\* The files that govern a process: the ones of its cgroup, or no limits.
Files(run, dir) == IF run.cg THEN dir ELSE Fresh

\* The types of the state of HostCgroups.
CgroupsTyped ==
  /\ cgMode \in {"off", "host", "delegated"}
  /\ cgDefaults \in [high : {0, CgDefault}, max : {0, CgDefault}]
  /\ offered \subseteq Controllers
  /\ daemonAt \in {"down", "root", "leaf", "elsewhere"}
  /\ delegated \in BOOLEAN
  /\ HandedOK(handed)
  /\ cgDirs \in [CgApps -> CgroupFiles \cup {NoCgroup}]
  /\ cgRuns \in [CgApps -> RunLimits \cup {NoCgroup}]
  /\ inherited \subseteq CgApps

\* The inductive invariant of HostCgroups.
CgroupsInv ==
  /\ CgroupsTyped
  /\ delegated => {"memory", "pids"} \subseteq handed.parent
  /\ \A a \in CgApps : cgRuns[a] # NoCgroup => InForce(a, cgRuns[a], Files(cgRuns[a], cgDirs[a]))

\* The invariant gives the types and the limits in force.
LEMMA CgroupsInvProperty == CgroupsInv => CgroupsTypeOK /\ LimitsInForce
<1> SUFFICES ASSUME CgroupsInv
             PROVE  CgroupsTypeOK /\ LimitsInForce
  OBVIOUS
<1>1. CgroupsTypeOK
  BY Zenon DEF CgroupsInv, CgroupsTyped, CgroupsTypeOK, HandedOK, RunLimits
<1>2. LimitsInForce
  BY Zenon DEF CgroupsInv, LimitsInForce, InForce, Files
<1> QED BY <1>1, <1>2

\* The invariant holds when the host first starts the daemon.
LEMMA CgroupsInvInit == CgroupsInit => CgroupsInv
<1> SUFFICES ASSUME CgroupsInit
             PROVE  CgroupsInv
  BY Zenon
<1>1. HandedOK(handed)
  BY DEF CgroupsInit, HandedOK
<1>2. CgroupsTyped
  BY <1>1, ZenonT(60) DEF CgroupsInit, CgroupsTyped
<1> QED BY <1>2, Zenon DEF CgroupsInit, CgroupsInv

\* The limits of the apps stay in force where nothing of them changes.
LEMMA OthersKept ==
  ASSUME CgroupsInv, NEW a \in CgApps, cgMode' = cgMode, cgDefaults' = cgDefaults,
         cgRuns'[a] = cgRuns[a], cgDirs'[a] = cgDirs[a], a \in inherited' <=> a \in inherited, cgRuns[a] # NoCgroup
  PROVE  InForce(a, cgRuns[a], Files(cgRuns[a], cgDirs[a]))'
<1>1. InForce(a, cgRuns[a], Files(cgRuns[a], cgDirs[a]))
  BY Zenon DEF CgroupsInv
<1> QED BY <1>1, Zenon DEF InForce, Files

\* A start of the daemon, with whichever flags, keeps the invariant.
LEMMA CgroupBootKeeps == ASSUME CgroupsInv, CgroupBoot PROVE CgroupsInv'
<1>1. CgroupsTyped'
  BY DEF CgroupsInv, CgroupsTyped, HandedOK, CgroupBoot
<1>2. \A a \in CgApps : cgRuns'[a] # NoCgroup => InForce(a, cgRuns[a], Files(cgRuns[a], cgDirs[a]))'
  BY OthersKept, Zenon DEF CgroupBoot
<1> QED BY <1>1, <1>2, Zenon DEF CgroupsInv, CgroupBoot

\* initCgroups keeps the invariant, when it succeeds and when it fails.
LEMMA InitCgroupsKeeps == ASSUME CgroupsInv, InitCgroups \/ InitCgroupsFails PROVE CgroupsInv'
<1>1. /\ HandedOK(handed') /\ handed.parent \subseteq handed'.parent
      /\ delegated' \in BOOLEAN /\ (delegated' => delegated \/ {"memory", "pids"} \subseteq handed'.parent)
      /\ daemonAt' \in {"down", "leaf"}
  <2>1. CASE InitCgroups
    <3>1. PICK busy \in BusyControllers : LET e == EnsureParent("root", busy) IN
            /\ handed' = e.handed
            /\ IF e.ok THEN daemonAt' = e.at /\ delegated' = TRUE ELSE daemonAt' = "down" /\ UNCHANGED delegated
      BY <2>1, ZenonT(60) DEF InitCgroups
    <3> DEFINE e == EnsureParent("root", busy)
    <3>2. /\ e.at = "leaf" /\ e.ok \in BOOLEAN /\ HandedOK(e.handed) /\ handed.parent \subseteq e.handed.parent
          /\ e.ok => {"memory", "pids"} \subseteq e.handed.parent
      BY EnsureParentGives DEF CgroupsInv, CgroupsTyped, leaveRoot
    <3> HIDE DEF e
    <3>3. handed' = e.handed /\ (e.ok => daemonAt' = e.at /\ delegated' = TRUE) /\ (~e.ok => daemonAt' = "down" /\ delegated' = delegated)
      BY <3>1, Zenon DEF e
    <3>4. HandedOK(handed') /\ handed.parent \subseteq handed'.parent
      BY <3>2, <3>3, Zenon
    <3>5. delegated' \in BOOLEAN /\ (delegated' => delegated \/ {"memory", "pids"} \subseteq handed'.parent)
      <4>1. delegated \in BOOLEAN
        BY DEF CgroupsInv, CgroupsTyped
      <4>2. CASE e.ok
        BY <3>2, <3>3, <4>2, Zenon
      <4>3. CASE ~e.ok
        <5>1. delegated' = delegated
          BY <3>3, <4>3, Zenon
        <5>2. delegated' \in BOOLEAN
          BY <4>1, <5>1, Zenon
        <5>3. delegated' => delegated
          BY <4>1, <5>1, <5>2
        <5> QED BY <5>2, <5>3, Zenon
      <4> QED BY <4>2, <4>3, Zenon
    <3>6. daemonAt' \in {"down", "leaf"}
      BY <3>2, <3>3, ZenonT(60)
    <3> QED BY <3>4, <3>5, <3>6, Zenon
  <2>2. CASE InitCgroupsFails
    BY <2>2 DEF InitCgroupsFails, CgroupsInv, CgroupsTyped
  <2> QED BY <2>1, <2>2
<1>2. UNCHANGED <<cgMode, cgDefaults, offered, cgDirs, cgRuns, inherited>>
  BY Zenon DEF InitCgroups, InitCgroupsFails
<1>3. HandedOK(handed)'
  BY <1>1, <1>2 DEF HandedOK
<1>4. CgroupsTyped'
  BY <1>1, <1>2, <1>3, Zenon DEF CgroupsInv, CgroupsTyped
<1>5. \A a \in CgApps : cgRuns'[a] # NoCgroup => InForce(a, cgRuns[a], Files(cgRuns[a], cgDirs[a]))'
  BY <1>2, OthersKept, ZenonT(60)
<1>6. delegated' => {"memory", "pids"} \subseteq handed'.parent
  BY <1>1 DEF CgroupsInv
<1> QED BY <1>4, <1>5, <1>6, Zenon DEF CgroupsInv

\* A stop that removes the cgroup of an app keeps the invariant.
LEMMA StopLimitedKeeps == ASSUME CgroupsInv, NEW b \in CgApps, StopLimited(b) PROVE CgroupsInv'
<1>1. /\ UNCHANGED <<cgMode, cgDefaults, offered, daemonAt, delegated, handed, inherited>>
      /\ cgRuns' = [cgRuns EXCEPT ![b] = NoCgroup]
      /\ cgDirs' = cgDirs \/ cgDirs' = [cgDirs EXCEPT ![b] = NoCgroup]
  BY Zenon DEF StopLimited
<1>2. HandedOK(handed)'
  BY <1>1 DEF HandedOK, CgroupsInv, CgroupsTyped
<1>3. CgroupsTyped'
  BY <1>1, <1>2, Zenon DEF CgroupsInv, CgroupsTyped
<1>4. cgRuns'[b] = NoCgroup /\ \A a \in CgApps : a # b => cgRuns'[a] = cgRuns[a] /\ cgDirs'[a] = cgDirs[a]
  BY <1>1, Zenon DEF CgroupsInv, CgroupsTyped
<1>5. \A a \in CgApps : cgRuns'[a] # NoCgroup => InForce(a, cgRuns[a], Files(cgRuns[a], cgDirs[a]))'
  BY <1>1, <1>4, OthersKept, Zenon
<1> QED BY <1>1, <1>3, <1>5, Zenon DEF CgroupsInv

\* A crash of the daemon leaves no app running, and keeps the invariant.
LEMMA CgroupCrashKeeps == ASSUME CgroupsInv, CgroupCrash PROVE CgroupsInv'
<1>1. HandedOK(handed)'
  <2>1. handed' = handed \/ handed' = [root |-> {}, parent |-> {}]
    BY Zenon DEF CgroupCrash
  <2>2. offered' = offered
    BY DEF CgroupCrash
  <2> QED BY <2>1, <2>2 DEF HandedOK, CgroupsInv, CgroupsTyped
<1>2. cgDirs' = cgDirs \/ cgDirs' = [a \in CgApps |-> NoCgroup]
  BY Zenon DEF CgroupCrash
<1>3. CgroupsTyped'
  BY <1>1, <1>2, Zenon DEF CgroupsInv, CgroupsTyped, CgroupCrash
<1> QED BY <1>3, Zenon DEF CgroupsInv, CgroupCrash

\* The limits of a config; what a config asks for when it may have none; and the
\* default of the daemon when it manages cgroups.
LimitRecord == [high : Nat, max : Nat, pids : Nat, cpu : Nat]
AskedOf(asked) == IF asked = NoCgroup THEN [high |-> 0, max |-> 0, pids |-> 0, cpu |-> 0] ELSE asked
DefaultOf(v) == IF cgMode = "off" THEN 0 ELSE v

\* applyCgroupDefaults fills in the memory limits the config leaves out, and no others.
LEMMA DefaultsFillIn ==
  ASSUME CgroupsTyped, NEW asked \in Limits \cup {NoCgroup}
  PROVE  LET lim == applyCgroupDefaults(asked)
             own == AskedOf(asked)
         IN  /\ own \in LimitRecord
             /\ lim = NoCgroup => /\ asked = NoCgroup
                                  /\ DefaultOf(cgDefaults.high) = 0 /\ DefaultOf(cgDefaults.max) = 0
             /\ lim # NoCgroup /\ cgMode # "off" =>
                  /\ lim \in LimitRecord /\ lim.pids = own.pids /\ lim.cpu = own.cpu
                  /\ lim.high = Or(own.high, cgDefaults.high) /\ lim.max = Or(own.max, cgDefaults.max)
<1> DEFINE lim == applyCgroupDefaults(asked)
           own == AskedOf(asked)
<1>1. /\ cgDefaults.high \in Nat /\ cgDefaults.max \in Nat
      /\ cgDefaults = [high |-> cgDefaults.high, max |-> cgDefaults.max]
      /\ NoCgroup \notin LimitRecord
  BY CgroupAssumption DEF CgroupsTyped, LimitRecord
<1>2. asked # NoCgroup => asked \in LimitRecord
  BY CgroupAssumption, Zenon DEF Limits, LimitRecord
<1>3. own \in LimitRecord
  BY <1>2, Zenon DEF AskedOf, LimitRecord
<1>4. CASE cgMode = "off" \/ cgDefaults = [high |-> 0, max |-> 0]
  <2>1. lim = asked
    BY <1>4, Zenon DEF applyCgroupDefaults
  <2>2. DefaultOf(cgDefaults.high) = 0 /\ DefaultOf(cgDefaults.max) = 0
    BY <1>4 DEF DefaultOf
  <2>3. ASSUME lim # NoCgroup, cgMode # "off"
        PROVE  /\ lim \in LimitRecord /\ lim.pids = own.pids /\ lim.cpu = own.cpu
               /\ lim.high = Or(own.high, cgDefaults.high) /\ lim.max = Or(own.max, cgDefaults.max)
    <3>1. own = asked /\ lim = own
      BY <2>1, <2>3 DEF AskedOf
    <3>2. cgDefaults.high = 0 /\ cgDefaults.max = 0
      BY <1>4, <2>3
    <3> HIDE DEF own, lim
    <3> QED BY <1>3, <3>1, <3>2, Zenon DEF Or
  <2> QED BY <1>3, <2>1, <2>2, <2>3, Zenon
<1>5. CASE ~(cgMode = "off" \/ cgDefaults = [high |-> 0, max |-> 0]) /\ asked = NoCgroup
  <2>1. lim = [high |-> cgDefaults.high, max |-> cgDefaults.max, pids |-> 0, cpu |-> 0]
    BY <1>5, Zenon DEF applyCgroupDefaults
  <2>2. own = [high |-> 0, max |-> 0, pids |-> 0, cpu |-> 0]
    BY <1>5, Zenon DEF AskedOf
  <2> HIDE DEF own, lim
  <2>3. lim \in LimitRecord
    BY <1>1, <2>1 DEF LimitRecord
  <2> QED BY <1>1, <1>3, <2>1, <2>2, <2>3 DEF Or, own, lim
<1>6. CASE ~(cgMode = "off" \/ cgDefaults = [high |-> 0, max |-> 0]) /\ asked # NoCgroup
  <2>1. lim = [asked EXCEPT !.high = Or(asked.high, cgDefaults.high), !.max = Or(asked.max, cgDefaults.max)]
    BY <1>6, Zenon DEF applyCgroupDefaults
  <2>2. own = asked /\ asked \in LimitRecord
    BY <1>2, <1>6, Zenon DEF AskedOf
  <2> HIDE DEF own, lim
  <2>3. Or(asked.high, cgDefaults.high) \in Nat /\ Or(asked.max, cgDefaults.max) \in Nat
    BY <1>1, <2>2 DEF Or, LimitRecord
  <2>4. /\ lim \in LimitRecord /\ lim.pids = asked.pids /\ lim.cpu = asked.cpu
        /\ lim.high = Or(asked.high, cgDefaults.high) /\ lim.max = Or(asked.max, cgDefaults.max)
    BY <2>1, <2>2, <2>3, Zenon DEF LimitRecord
  <2>5. lim # NoCgroup
    BY <1>1, <2>4
  <2> QED BY <1>3, <2>2, <2>4, <2>5, Zenon DEF own, lim
<1> QED BY <1>4, <1>5, <1>6, Zenon

\* A spawn writes the limits of the app, and the defaults, before the process runs:
\* it keeps the invariant, when the cgroup is created and when that fails.
LEMMA SpawnLimitedKeeps ==
  ASSUME CgroupsInv, NEW b \in CgApps, NEW asked \in Limits \cup {NoCgroup}, SpawnLimited(b, asked) PROVE CgroupsInv'
<1> DEFINE lim == applyCgroupDefaults(asked)
           own == AskedOf(asked)
<1>1. /\ CgroupsTyped /\ cgRuns[b] = NoCgroup /\ UNCHANGED <<cgMode, cgDefaults, offered, delegated, cgBoots>>
      /\ daemonAt \in {"leaf", "elsewhere"}
  BY ZenonT(60) DEF CgroupsInv, SpawnLimited
<1>2. /\ own \in LimitRecord
      /\ lim = NoCgroup => /\ asked = NoCgroup
                           /\ DefaultOf(cgDefaults.high) = 0 /\ DefaultOf(cgDefaults.max) = 0
      /\ lim # NoCgroup /\ cgMode # "off" =>
           /\ lim \in LimitRecord /\ lim.pids = own.pids /\ lim.cpu = own.cpu
           /\ lim.high = Or(own.high, cgDefaults.high) /\ lim.max = Or(own.max, cgDefaults.max)
  BY <1>1, DefaultsFillIn
<1>3. CASE /\ lim = NoCgroup /\ cgRuns' = [cgRuns EXCEPT ![b] = [asked |-> asked, cg |-> FALSE]]
           /\ UNCHANGED <<daemonAt, handed, cgDirs, inherited, cgFaults>>
  <2> DEFINE run == [asked |-> asked, cg |-> FALSE]
  <2>1. run \in RunLimits /\ run.asked = NoCgroup /\ run.cg = FALSE
    BY <1>2, <1>3, Zenon DEF RunLimits
  <2> HIDE DEF run
  <2>2. HandedOK(handed)'
    BY <1>1, <1>3 DEF CgroupsTyped, HandedOK
  <2>3. cgRuns' = [cgRuns EXCEPT ![b] = run]
    BY <1>3, Zenon DEF run
  <2>4. CgroupsTyped'
    BY <1>1, <1>3, <2>1, <2>2, <2>3, Zenon DEF CgroupsTyped
  <2>5. cgRuns'[b] = run /\ \A a \in CgApps : a # b => cgRuns'[a] = cgRuns[a]
    BY <1>1, <2>3, ZenonT(60) DEF CgroupsTyped
  <2>6. InForce(b, run, Fresh)'
    BY <1>1, <1>2, <1>3, <2>1, Zenon DEF InForce, Fresh, Or, DefaultOf
  <2>7. ASSUME NEW a \in CgApps, cgRuns'[a] # NoCgroup
        PROVE  InForce(a, cgRuns[a], Files(cgRuns[a], cgDirs[a]))'
    <3>1. CASE a = b
      BY <2>1, <2>5, <2>6, <3>1 DEF Files
    <3>2. CASE a # b
      BY <1>1, <1>3, <2>5, <2>7, <3>2, OthersKept, Zenon
    <3> QED BY <3>1, <3>2, Zenon
  <2> QED BY <1>1, <1>3, <2>4, <2>7, Zenon DEF CgroupsInv
<1>4. CASE lim # NoCgroup /\ cgroupManager /\ CreateAndJoin(b, asked, lim)
  <2>1. PICK busy \in BusyControllers :
    LET e == EnsureParent(daemonAt, busy)
        had == cgDirs[b] # NoCgroup
        files == applyLimits(IF had THEN cgDirs[b] ELSE Fresh, lim, e.handed.parent)
    IN  /\ handed' = e.handed
        /\ daemonAt' = e.at
        /\ \/ /\ e.ok /\ Writable(lim, e.handed.parent)
              /\ cgDirs' = [cgDirs EXCEPT ![b] = files]
              /\ cgRuns' = [cgRuns EXCEPT ![b] = [asked |-> asked, cg |-> TRUE]]
              /\ inherited' = IF had THEN inherited \cup {b} ELSE inherited \ {b}
              /\ UNCHANGED cgFaults
           \/ /\ IF e.ok /\ Writable(lim, e.handed.parent) THEN CgFault ELSE UNCHANGED cgFaults
              /\ cgDirs' = IF e.ok THEN [cgDirs EXCEPT ![b] = NoCgroup] ELSE cgDirs
              /\ UNCHANGED <<cgRuns, inherited>>
    BY <1>4, ZenonT(60) DEF CreateAndJoin
  <2> DEFINE e == EnsureParent(daemonAt, busy)
             had == cgDirs[b] # NoCgroup
             old == IF had THEN cgDirs[b] ELSE Fresh
             on == e.handed.parent
             files == applyLimits(old, lim, on)
             run == [asked |-> asked, cg |-> TRUE]
  <2>2. /\ e.at = leaveRoot(daemonAt) /\ HandedOK(e.handed) /\ handed.parent \subseteq e.handed.parent
    BY <1>1, EnsureParentGives, Zenon DEF CgroupsTyped
  <2>3. handed' = e.handed /\ daemonAt' = e.at
    BY <2>1, Zenon
  <2>4. CASE \/ cgDirs' = [cgDirs EXCEPT ![b] = NoCgroup] /\ UNCHANGED <<cgRuns, inherited>>
             \/ UNCHANGED <<cgDirs, cgRuns, inherited>>
    <3> HIDE DEF e, lim
    <3>1. HandedOK(handed)' /\ daemonAt' \in {"down", "root", "leaf", "elsewhere"}
      BY <1>1, <2>2, <2>3, Zenon DEF HandedOK, leaveRoot
    <3>2. CgroupsTyped'
      BY <1>1, <2>4, <3>1, Zenon DEF CgroupsTyped
    <3>3. cgRuns' = cgRuns /\ \A a \in CgApps : a # b => cgDirs'[a] = cgDirs[a]
      BY <1>1, <2>4, Zenon DEF CgroupsTyped
    <3>4. \A a \in CgApps : cgRuns'[a] # NoCgroup => InForce(a, cgRuns[a], Files(cgRuns[a], cgDirs[a]))'
      BY <1>1, <2>4, <3>3, OthersKept, Zenon
    <3>5. delegated' => {"memory", "pids"} \subseteq handed'.parent
      BY <1>1, <2>2, <2>3 DEF CgroupsInv
    <3> QED BY <3>2, <3>4, <3>5, ZenonT(60) DEF CgroupsInv
  <2>5. CASE /\ Writable(lim, on)
             /\ cgDirs' = [cgDirs EXCEPT ![b] = files]
             /\ cgRuns' = [cgRuns EXCEPT ![b] = run]
             /\ inherited' = IF had THEN inherited \cup {b} ELSE inherited \ {b}
    <3>1. cgMode # "off"
      BY <1>4 DEF cgroupManager
    <3> HIDE DEF e, lim, own, had
    <3>2. /\ lim \in LimitRecord /\ lim.pids = own.pids /\ lim.cpu = own.cpu
          /\ lim.high = Or(own.high, cgDefaults.high) /\ lim.max = Or(own.max, cgDefaults.max)
      BY <1>2, <1>4, <3>1, Zenon
    <3>3. /\ lim.high \in Nat /\ lim.max \in Nat /\ lim.pids \in Nat /\ lim.cpu \in Nat
      BY <3>2, Zenon DEF LimitRecord
    <3>4. old \in CgroupFiles /\ (~had => old.cpu = 0)
      BY <1>1, Zenon DEF CgroupsTyped, CgroupFiles, Fresh, had
    <3> HIDE DEF old, on
    <3>5. /\ "memory" \in on /\ "pids" \in on /\ (lim.cpu # 0 => "cpu" \in on)
      BY <2>5, ZenonT(60) DEF Writable
    <3>6. /\ files.high = lim.high /\ files.max = lim.max /\ files.pids = lim.pids
          /\ files.cpu = (IF "cpu" \in on THEN Or(lim.cpu, old.cpu) ELSE 0)
          /\ files.swapOff = (old.swapOff \/ lim.max # 0)
      BY <3>5, Zenon DEF applyLimits
    <3>7. files \in CgroupFiles
      <4>1. files = [high |-> files.high, max |-> files.max, pids |-> files.pids, cpu |-> files.cpu, swapOff |-> files.swapOff]
        BY Zenon DEF applyLimits
      <4>2. files.cpu \in Nat
        BY <3>3, <3>4, <3>6 DEF Or, CgroupFiles
      <4>3. files.swapOff \in BOOLEAN
        BY <3>6, Zenon
      <4> HIDE DEF files
      <4> QED BY <3>3, <3>6, <4>1, <4>2, <4>3, Zenon DEF CgroupFiles
    <3> HIDE DEF files
    <3>8. run \in RunLimits /\ run.asked = asked /\ run.cg = TRUE
      BY ZenonT(60) DEF RunLimits
    <3> HIDE DEF run
    <3>9. HandedOK(handed)' /\ daemonAt' \in {"down", "root", "leaf", "elsewhere"}
      BY <1>1, <2>2, <2>3, Zenon DEF HandedOK, leaveRoot
    <3>10. inherited' \subseteq CgApps /\ (\A a \in CgApps : a # b => (a \in inherited' <=> a \in inherited)) /\ (b \in inherited' <=> had)
      BY <1>1, <2>5 DEF CgroupsTyped
    <3>11. CgroupsTyped'
      BY <1>1, <2>5, <3>7, <3>8, <3>9, <3>10, Zenon DEF CgroupsTyped
    <3>12. /\ cgRuns'[b] = run /\ cgDirs'[b] = files
           /\ \A a \in CgApps : a # b => cgRuns'[a] = cgRuns[a] /\ cgDirs'[a] = cgDirs[a]
      BY <1>1, <2>5, Zenon DEF CgroupsTyped
    <3>13. files.cpu = own.cpu \/ (own.cpu = 0 /\ b \in inherited')
      BY <3>2, <3>3, <3>4, <3>5, <3>6, <3>10, Zenon DEF Or
    <3>14. InForce(b, cgRuns[b], Files(cgRuns[b], cgDirs[b]))'
      <4>1. /\ files.high = Or(own.high, cgDefaults.high) /\ files.max = Or(own.max, cgDefaults.max) /\ files.pids = own.pids
            /\ files.max # 0 => files.swapOff
        BY <3>2, <3>6, Zenon
      <4>2. cgMode' # "off" /\ cgDefaults' = cgDefaults
        BY <1>1, <3>1
      <4>3. cgRuns'[b].asked = asked /\ cgRuns'[b].cg = TRUE
        BY <3>8, <3>12, ZenonT(60)
      <4>4. Files(cgRuns[b], cgDirs[b])' = files
        BY <3>12, <4>3 DEF Files
      <4>5. own = IF asked = NoCgroup THEN [high |-> 0, max |-> 0, pids |-> 0, cpu |-> 0] ELSE asked
        BY ZenonT(60) DEF own, AskedOf
      <4> HIDE DEF Files
      <4> QED BY <3>13, <4>1, <4>2, <4>3, <4>4, <4>5, Zenon DEF InForce
    <3>15. ASSUME NEW a \in CgApps, cgRuns'[a] # NoCgroup
           PROVE  InForce(a, cgRuns[a], Files(cgRuns[a], cgDirs[a]))'
      <4>1. CASE a = b
        BY <3>14, <4>1, Zenon
      <4>2. CASE a # b
        BY <1>1, <3>10, <3>12, <3>15, <4>2, OthersKept, ZenonT(60)
      <4> QED BY <4>1, <4>2
    <3>16. delegated' => {"memory", "pids"} \subseteq handed'.parent
      BY <1>1, <2>2, <2>3 DEF CgroupsInv
    <3> QED BY <3>11, <3>15, <3>16, Zenon DEF CgroupsInv
  <2> QED BY <2>1, <2>4, <2>5, Zenon
<1> QED BY <1>3, <1>4, Zenon DEF SpawnLimited

\* Every step of HostCgroups keeps the invariant.
LEMMA CgroupsInvStep == CgroupsInv /\ [CgroupsNext]_cgroupVars => CgroupsInv'
<1> SUFFICES ASSUME CgroupsInv, [CgroupsNext]_cgroupVars
             PROVE  CgroupsInv'
  OBVIOUS
<1>1. CASE CgroupsNext
  BY <1>1, CgroupBootKeeps, InitCgroupsKeeps, CgroupCrashKeeps, StopLimitedKeeps, SpawnLimitedKeeps, Zenon DEF CgroupsNext
<1>2. CASE UNCHANGED cgroupVars
  <2>1. HandedOK(handed)'
    BY <1>2 DEF cgroupVars, HandedOK, CgroupsInv, CgroupsTyped
  <2>2. CgroupsTyped'
    BY <1>2, <2>1, Zenon DEF cgroupVars, CgroupsInv, CgroupsTyped
  <2>3. \A a \in CgApps : cgRuns'[a] # NoCgroup => InForce(a, cgRuns[a], Files(cgRuns[a], cgDirs[a]))'
    BY <1>2, OthersKept, Zenon DEF cgroupVars
  <2> QED BY <1>2, <2>2, <2>3, Zenon DEF cgroupVars, CgroupsInv
<1> QED BY <1>1, <1>2

(***************************************************************************)
(* Whichever controllers the host offers, whichever are busy, and however  *)
(* often the daemon crashes and starts: an app that runs is held to the    *)
(* limits of its config and to the daemon's defaults.                      *)
(***************************************************************************)
THEOREM LimitsAreInForce == CgroupsSpec => [](CgroupsTypeOK /\ LimitsInForce)
<1>1. CgroupsSpec => []CgroupsInv
  BY CgroupsInvInit, CgroupsInvStep, PTL DEF CgroupsSpec
<1> QED
  BY <1>1, CgroupsInvProperty, PTL
=============================================================================
