----------------------------- MODULE HostNetwork -----------------------------
(***************************************************************************)
(* What a spawn takes from the host and a stop gives back: a cgroup, an    *)
(* address of the pool, a network namespace and a veth pair.  The kernel   *)
(* objects are named after the app.  Spawn makes them under the supervisor *)
(* lock; stopApp removes them by name, without it.  A deploy's v2 is named *)
(* after the temporary ID and keeps those names once it has replaced v1.   *)
(***************************************************************************)
EXTENDS Integers

CONSTANTS
  NetIds,     \* app IDs
  NetApps,    \* App objects
  Broadcast,  \* last address of the subnet; the network is 0, the gateway 1
  NetFaults,  \* bound on the host commands that fail
  NetCrashes, \* bound on the crashes of the daemon
  NoHolder    \* no App

ASSUME NetAssumption ==
  /\ Broadcast \in Nat /\ Broadcast >= 3
  /\ NetFaults \in Nat
  /\ NetCrashes \in Nat
  /\ NoHolder \notin NetApps

VARIABLES
  netLock,  \* the App whose spawn holds Supervisor.mu
  netApp,   \* each App: its phase, the name it was spawned under, its address
  netReg,   \* Supervisor.apps
  cgroups,  \* directories under the parent slice
  netns,    \* entries of /var/run/netns
  veths,    \* host ends of the veth pairs
  inuse,    \* IPPool.inuse
  bridge,   \* netOnce: not run, or its outcome
  uplink,   \* the shared bridge: its link, address and state, and the MASQUERADE rule
  clash,    \* Apps whose names another App used while they held them
  netFaults,
  netCrashes

networkVars == <<netLock, netApp, netReg, cgroups, netns, veths, inuse, bridge, uplink, clash,
                 netFaults, netCrashes>>

wiring == <<bridge, uplink>>

Gateway == 1

\* <<id, TRUE>> is deployTempID(id).
Names == NetIds \X BOOLEAN

Unused == [phase |-> "unused", name |-> NoHolder, ip |-> 0]

Spawning == {"cgroup", "netns", "veth"}
Serves == {"up", "stopping"}
Teardown == {"exited", "uncgrouped", "unwired"}

NetworkTypeOK ==
  /\ netLock \in NetApps \cup {NoHolder}
  /\ netApp \in [NetApps -> [phase : {"unused", "gone", "dead", "lost"} \cup Spawning
                                     \cup Serves \cup Teardown,
                             name : Names \cup {NoHolder},
                             ip : 0 .. Broadcast]]
  /\ netReg \in [Names -> NetApps \cup {NoHolder}]
  /\ cgroups \subseteq Names /\ netns \subseteq Names /\ veths \subseteq Names
  /\ inuse \subseteq 1 .. Broadcast - 1
  /\ bridge \in {"unset", "ready", "error"}
  /\ uplink \subseteq {"link", "addr", "up", "rule"}
  /\ clash \subseteq NetApps

Holds(a) == netApp[a].phase \in Spawning \cup Serves \cup Teardown

Phase(a, p) == netApp' = [netApp EXCEPT ![a].phase = p]

Fault == netFaults < NetFaults /\ netFaults' = netFaults + 1

(***************************************************************************)
(* IPPool.                                                                 *)
(***************************************************************************)
\* faulty: the last address of the subnet is handed out too
FreeIPs_Broadcast == (Gateway + 1 .. Broadcast) \ inuse

FreeIPs == (Gateway + 1 .. Broadcast - 1) \ inuse

\* faulty: scans from the gateway and forgets the addresses in use
Allocate_Next == Gateway + 1

Allocate == CHOOSE ip \in FreeIPs : \A k \in FreeIPs : ip <= k

Release(ip) == inuse \ ({ip} \ {Gateway})

(***************************************************************************)
(* Removing a cgroup fails while a process is in it.                       *)
(***************************************************************************)
Busy(n, a) == \E b \in NetApps \ {a} : netApp[b].phase \in Serves /\ netApp[b].name = n

RemoveCgroup(n, a) == IF Busy(n, a) THEN cgroups ELSE cgroups \ {n}

\* faulty: keeps the address
teardownAppNetwork_KeepIP(n, ip) ==
  veths' = veths \ {n} /\ netns' = netns \ {n} /\ UNCHANGED inuse

\* A spawn that fails gives its cgroup, address, namespace and veth back.
teardownAppNetwork(n, ip) ==
  /\ veths' = veths \ {n}
  /\ netns' = netns \ {n}
  /\ inuse' = Release(ip)

SpawnGivesUp(a) ==
  /\ netLock' = NoHolder
  /\ netApp' = [netApp EXCEPT ![a].phase = "gone", ![a].ip = 0]
  /\ cgroups' = RemoveCgroup(netApp[a].name, a)
  /\ UNCHANGED <<netReg, clash, netCrashes>>

(***************************************************************************)
(* spawnUnchecked.  Manager.Create accepts a directory that exists, and    *)
(* removes it when the limits cannot be written.                           *)
(***************************************************************************)
MayRegister(n) ==
  /\ netReg[n] = NoHolder
  /\ n[2] => netReg[<<n[1], FALSE>>] # NoHolder

SpawnCgroup(a, n) ==
  /\ netLock = NoHolder
  /\ netApp[a].phase = "unused"
  /\ MayRegister(n)
  /\ LET others == {b \in NetApps : Holds(b) /\ netApp[b].name = n}
     IN  clash' = clash \cup (IF others = {} THEN {} ELSE others \cup {a})
  /\ \/ /\ netLock' = a
        /\ cgroups' = cgroups \cup {n}
        /\ netApp' = [netApp EXCEPT ![a] = [phase |-> "cgroup", name |-> n, ip |-> 0]]
        /\ UNCHANGED netFaults
     \/ /\ Fault
        /\ cgroups' = RemoveCgroup(n, a)
        /\ netApp' = [netApp EXCEPT ![a] = [phase |-> "gone", name |-> n, ip |-> 0]]
        /\ UNCHANGED netLock
  /\ UNCHANGED <<netReg, netns, veths, inuse, wiring, netCrashes>>

\* Bridge.Ensure up to its k-th command: the link, unless it exists, its address, which may
\* be there already, and its state.  EnsureMasquerade adds the rule that is not there.
Ensure(k) == uplink \cup (IF k >= 1 THEN {"link"} ELSE {}) \cup (IF k >= 2 THEN {"addr"} ELSE {})
                    \cup (IF k >= 3 THEN {"up"} ELSE {})

EnsureMasquerade == Ensure(3) \cup {"rule"}

\* netReady: the bridge is set up once, and its outcome is kept.
netReady ==
  \/ bridge # "unset" /\ UNCHANGED <<wiring, netFaults>>
  \/ bridge = "unset" /\ bridge' = "ready" /\ uplink' = EnsureMasquerade /\ UNCHANGED netFaults
  \/ bridge = "unset" /\ bridge' = "error" /\ (\E k \in 0 .. 3 : uplink' = Ensure(k)) /\ Fault

\* The address and the namespace; ns.Create accepts one that exists.
SpawnNetns(a) ==
  /\ netApp[a].phase = "cgroup"
  /\ netReady
  /\ IF bridge' = "error" \/ FreeIPs = {}
     THEN SpawnGivesUp(a) /\ UNCHANGED <<netns, veths, inuse>>
     ELSE /\ inuse' = inuse \cup {Allocate}
          /\ netns' = netns \cup {netApp[a].name}
          /\ netApp' = [netApp EXCEPT ![a].phase = "netns", ![a].ip = Allocate]
          /\ UNCHANGED <<netLock, netReg, cgroups, veths, clash, netCrashes>>

\* ns.Create fails: the address goes back.
SpawnNetnsFails(a) ==
  /\ netApp[a].phase = "cgroup"
  /\ bridge = "ready"
  /\ FreeIPs # {}
  /\ netApp[a].name \notin netns
  /\ Fault
  /\ SpawnGivesUp(a)
  /\ UNCHANGED <<netns, veths, inuse, wiring>>

\* VethPair.Setup fails when the host end exists or the namespace is gone,
\* and then removes the pair and the namespace by name.
SpawnVeth(a) ==
  /\ netApp[a].phase = "netns"
  /\ netApp[a].name \notin veths
  /\ netApp[a].name \in netns
  /\ veths' = veths \cup {netApp[a].name}
  /\ Phase(a, "veth")
  /\ UNCHANGED <<netLock, netReg, cgroups, netns, inuse, wiring, clash, netFaults, netCrashes>>

SpawnVethFails(a) ==
  /\ netApp[a].phase = "netns"
  /\ IF netApp[a].name \in veths \/ netApp[a].name \notin netns
     THEN UNCHANGED netFaults
     ELSE Fault
  /\ teardownAppNetwork(netApp[a].name, netApp[a].ip)
  /\ SpawnGivesUp(a)
  /\ UNCHANGED wiring

\* startLocked behind the spawn gate: the process joins its cgroup first.
SpawnStart(a) ==
  /\ netApp[a].phase = "veth"
  /\ netApp[a].name \in cgroups
  /\ netLock' = NoHolder
  /\ Phase(a, "up")
  /\ netReg' = [netReg EXCEPT ![netApp[a].name] = a]
  /\ UNCHANGED <<cgroups, netns, veths, inuse, wiring, clash, netFaults, netCrashes>>

SpawnStartFails(a) ==
  /\ netApp[a].phase = "veth"
  /\ IF netApp[a].name \in cgroups THEN Fault ELSE UNCHANGED netFaults
  /\ teardownAppNetwork(netApp[a].name, netApp[a].ip)
  /\ SpawnGivesUp(a)
  /\ UNCHANGED wiring

(***************************************************************************)
(* Deploy's swap, Stop, and stopApp's deferred teardown, step by step.     *)
(***************************************************************************)
SwapRegistry(i) ==
  LET v1 == netReg[<<i, FALSE>>]
      v2 == netReg[<<i, TRUE>>]
  IN  /\ netLock = NoHolder
      /\ v1 # NoHolder /\ v2 # NoHolder
      /\ netReg' = [netReg EXCEPT ![<<i, FALSE>>] = v2, ![<<i, TRUE>>] = NoHolder]
      /\ Phase(v1, "stopping")
      /\ UNCHANGED <<netLock, cgroups, netns, veths, inuse, wiring, clash, netFaults, netCrashes>>

StopRegistered(n) ==
  /\ netLock = NoHolder
  /\ netReg[n] # NoHolder
  /\ Phase(netReg[n], "stopping")
  /\ netReg' = [netReg EXCEPT ![n] = NoHolder]
  /\ UNCHANGED <<netLock, cgroups, netns, veths, inuse, wiring, clash, netFaults, netCrashes>>

ProcessExits(a) ==
  /\ netApp[a].phase = "stopping"
  /\ Phase(a, "exited")
  /\ UNCHANGED <<netLock, netReg, cgroups, netns, veths, inuse, wiring, clash, netFaults, netCrashes>>

TeardownCgroup(a) ==
  /\ netApp[a].phase = "exited"
  /\ Phase(a, "uncgrouped")
  /\ cgroups' = RemoveCgroup(netApp[a].name, a)
  /\ UNCHANGED <<netLock, netReg, netns, veths, inuse, wiring, clash, netFaults, netCrashes>>

TeardownVeth(a) ==
  /\ netApp[a].phase = "uncgrouped"
  /\ Phase(a, "unwired")
  /\ veths' = veths \ {netApp[a].name}
  /\ UNCHANGED <<netLock, netReg, cgroups, netns, inuse, wiring, clash, netFaults, netCrashes>>

TeardownNetns(a) ==
  /\ netApp[a].phase = "unwired"
  /\ netApp' = [netApp EXCEPT ![a].phase = "gone", ![a].ip = 0]
  /\ netns' = netns \ {netApp[a].name}
  /\ inuse' = Release(netApp[a].ip)
  /\ UNCHANGED <<netLock, netReg, cgroups, veths, wiring, clash, netFaults, netCrashes>>

\* watch drops an app it cannot restart, and gives nothing back.
WatchGivesUp(n) ==
  /\ netLock = NoHolder
  /\ netReg[n] # NoHolder
  /\ Fault
  /\ Phase(netReg[n], "dead")
  /\ netReg' = [netReg EXCEPT ![n] = NoHolder]
  /\ UNCHANGED <<netLock, cgroups, netns, veths, inuse, wiring, clash, netCrashes>>

\* The daemon and its apps end; the kernel objects stay.
HostCrash ==
  /\ netCrashes < NetCrashes
  /\ netCrashes' = netCrashes + 1
  /\ netLock' = NoHolder
  /\ netApp' = [a \in NetApps |->
       IF netApp[a].phase \in {"unused", "gone"} THEN netApp[a]
       ELSE [netApp[a] EXCEPT !.phase = "lost", !.ip = 0]]
  /\ netReg' = [n \in Names |-> NoHolder]
  /\ inuse' = {Gateway}
  /\ bridge' = "unset"
  /\ UNCHANGED <<cgroups, netns, veths, uplink, clash, netFaults>>

(***************************************************************************)
(* The system starts on a host without any of its objects.                 *)
(***************************************************************************)
NetworkInit ==
  /\ netLock = NoHolder
  /\ netApp = [a \in NetApps |-> Unused]
  /\ netReg = [n \in Names |-> NoHolder]
  /\ cgroups = {} /\ netns = {} /\ veths = {}
  /\ inuse = {Gateway}
  /\ bridge = "unset"
  /\ uplink = {}
  /\ clash = {}
  /\ netFaults = 0
  /\ netCrashes = 0

setupAppNetwork(a) ==
  \/ SpawnNetns(a) \/ SpawnNetnsFails(a)
  \/ SpawnVeth(a) \/ SpawnVethFails(a)

NetworkStep(a) ==
  \/ \E n \in Names : SpawnCgroup(a, n)
  \/ setupAppNetwork(a)
  \/ SpawnStart(a) \/ SpawnStartFails(a)
  \/ ProcessExits(a) \/ TeardownCgroup(a) \/ TeardownVeth(a) \/ TeardownNetns(a)

NetworkNext ==
  \/ \E a \in NetApps : NetworkStep(a)
  \/ \E i \in NetIds : SwapRegistry(i)
  \/ \E n \in Names : StopRegistered(n) \/ WatchGivesUp(n)
  \/ HostCrash

NetworkSpec == NetworkInit /\ [][NetworkNext]_networkVars

(***************************************************************************)
(* An App that serves keeps its cgroup, namespace, veth, the bridge with   *)
(* its rule, and an address of its own, whatever starts, stops, fails or   *)
(* is torn down around it, as long as no other App is given the same names *)
(* meanwhile.                                                              *)
(***************************************************************************)
NetworkKept ==
  \A a \in NetApps : netApp[a].phase = "up" =>
    /\ a \notin clash => netApp[a].name \in cgroups \cap netns \cap veths
    /\ uplink = {"link", "addr", "up", "rule"}
    /\ \A b \in NetApps \ {a} : netApp[b].ip # netApp[a].ip

(***************************************************************************)
(* Nothing is leaked: every address in use and every kernel object belongs *)
(* to an App that still has to give it back, to one that watch gave up on, *)
(* or to a daemon that crashed, unless two Apps were given the same names. *)
(***************************************************************************)
NothingLeaks ==
  /\ inuse = {Gateway} \cup ({netApp[a].ip : a \in NetApps} \ {0})
  /\ \A n \in cgroups \cup netns \cup veths : \E a \in NetApps :
       /\ netApp[a].name = n
       /\ Holds(a) \/ netApp[a].phase \in {"dead", "lost"} \/ a \in clash
=============================================================================
